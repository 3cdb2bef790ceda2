------------------------ MODULE StorageBackendsProofs ------------------------
(***************************************************************************)
(* Theorems about StorageBackends, for any number of rows of every table   *)
(* and any number of calls: the schema's keys hold, the logs are numbered  *)
(* without a gap, and the two backends answer alike.                       *)
(***************************************************************************)
EXTENDS StorageBackends, FiniteSetTheorems, FunctionTheorems, SequenceTheorems, NaturalsInduction, TLAPS

SqlTables == {"campaigns", "entities", "events", "snapshots", "admins",
              "adminSessions", "seats", "invites", "accounts", "sessions",
              "settings"}
MemTables == (SqlTables \ {"admins"}) \cup {"admin"}

----------------------------------------------------------------------------
(* What a call leaves alone *)

\* A call that writes to the tables of T leaves the others as they are.
SqlOnly(T) ==
  /\ DOMAIN sql' = SqlTables /\ sql' = [t \in SqlTables |-> sql'[t]]
  /\ \A t \in SqlTables \ T : sql'[t] = sql[t]

MemOnly(T) ==
  /\ DOMAIN mem' = MemTables /\ mem' = [t \in MemTables |-> mem'[t]]
  /\ \A t \in MemTables \ T : mem'[t] = mem[t]

CountersOnly(T) ==
  /\ made' \in [Tables -> Nat] /\ now' \in Nat
  /\ DOMAIN held' = Tables /\ held' = [t \in Tables |-> held'[t]]
  /\ \A t \in Tables : made[t] <= made'[t] /\ held'[t] \subseteq 1..made'[t]
  /\ \A t \in Tables \ T : made'[t] = made[t] /\ held'[t] = held[t]
  /\ "invites" \notin T => madeFor' = madeFor

Only(T) == SqlOnly(T) /\ MemOnly(T) /\ CountersOnly(T)

LEMMA TablesOf ==
  DOMAIN Sql!EmptyDb = SqlTables /\ DOMAIN Mem!EmptyDb = MemTables
BY DEF Sql!EmptyDb, Mem!EmptyDb, SqlTables, MemTables

LEMMA ShapesStand ==
  ASSUME NEW T, Only(T)
  PROVE  Shapes'
BY TablesOf DEF Only, SqlOnly, MemOnly, CountersOnly, Shapes

\* One table written.
LEMMA SqlPut ==
  ASSUME Shapes, NEW t \in SqlTables, NEW X, sql' = [sql EXCEPT ![t] = X]
  PROVE  SqlOnly({t}) /\ sql'[t] = X
BY TablesOf DEF Shapes, SqlOnly

LEMMA MemPut ==
  ASSUME Shapes, NEW t \in MemTables, NEW X, mem' = [mem EXCEPT ![t] = X]
  PROVE  MemOnly({t}) /\ mem'[t] = X
BY TablesOf DEF Shapes, MemOnly

LEMMA WritesKeeps ==
  ASSUME Shapes, NEW s, NEW m, Writes(s, m)
  PROVE  sql' = s /\ mem' = m /\ CountersOnly({})
BY DEF Writes, Shapes, CountersOnly

LEMMA InsertsKeeps ==
  ASSUME Shapes, NEW t \in Tables, NEW s, NEW m, Inserts(t, s, m),
         t # "invites" => madeFor' = madeFor
  PROVE  /\ sql' = s /\ mem' = m /\ CountersOnly({t})
         /\ made[t] \in Nat /\ made'[t] = made[t] + 1 /\ Fresh(t) = made[t] + 1
         /\ held'[t] = IF s = sql THEN held[t] ELSE held[t] \cup {Fresh(t)}
<1> USE DEF Shapes
<1>1. /\ sql' = s /\ mem' = m /\ now' = now
      /\ made' = [made EXCEPT ![t] = @ + 1]
      /\ held' = [held EXCEPT ![t] = IF s = sql THEN @ ELSE @ \cup {Fresh(t)}]
  BY DEF Inserts
<1>2. made' \in [Tables -> Nat] /\ made'[t] = made[t] + 1
      /\ \A u \in Tables \ {t} : made'[u] = made[u]
  BY <1>1
<1>3. /\ DOMAIN held' = Tables /\ held' = [u \in Tables |-> held'[u]]
      /\ held'[t] = IF s = sql THEN held[t] ELSE held[t] \cup {Fresh(t)}
      /\ \A u \in Tables \ {t} : held'[u] = held[u]
  BY <1>1
<1>4. held'[t] \subseteq 1..made'[t]
  BY <1>2, <1>3 DEF Fresh
<1> QED BY <1>1, <1>2, <1>3, <1>4 DEF CountersOnly, Fresh

LEMMA MakesKeeps ==
  ASSUME Shapes, NEW t \in Tables, NEW s, NEW m, Makes(t, s, m)
  PROVE  /\ sql' = s /\ mem' = m /\ CountersOnly({t})
         /\ made[t] \in Nat /\ made'[t] = made[t] + 1 /\ Fresh(t) = made[t] + 1
         /\ held'[t] = IF s = sql THEN held[t] ELSE held[t] \cup {Fresh(t)}
BY InsertsKeeps DEF Makes

\* Nothing written at all.
LEMMA SqlSame == Shapes /\ sql' = sql => \A T : SqlOnly(T)
BY TablesOf DEF Shapes, SqlOnly

LEMMA MemSame == Shapes /\ mem' = mem => \A T : MemOnly(T)
BY TablesOf DEF Shapes, MemOnly

\* A call that writes to one table of the same name in both.
LEMMA OneTable ==
  ASSUME Shapes, NEW t \in SqlTables \cap MemTables,
         CountersOnly({}) \/ CountersOnly({t}),
         NEW X, sql' = [sql EXCEPT ![t] = X] \/ (sql' = sql /\ X = sql[t]),
         NEW Y, mem' = [mem EXCEPT ![t] = Y] \/ (mem' = mem /\ Y = mem[t])
  PROVE  Only({t}) /\ sql'[t] = X /\ mem'[t] = Y
<1>1. SqlOnly({t}) /\ sql'[t] = X
  BY SqlPut, SqlSame
<1>2. MemOnly({t}) /\ mem'[t] = Y
  BY MemPut, MemSame
<1> QED BY <1>1, <1>2 DEF Only, CountersOnly

----------------------------------------------------------------------------
(* What is said of a table stands while the tables it names are left alone *)

\* No campaign of before comes or goes.
LivingSame == \A c \in 1..made["campaigns"] : c \in Living' <=> c \in Living

\* Admins and accounts only come.
Grows(t) == Sql!Ids(sql[t]) \subseteq Sql!Ids(sql'[t])

LEMMA CampaignsStand ==
  ASSUME CampaignsInv, NEW T, Only(T), "campaigns" \notin T
  PROVE  CampaignsInv' /\ Living' = Living
<1>1. sql'.campaigns = sql.campaigns /\ mem'.campaigns = mem.campaigns
  BY DEF Only, SqlOnly, MemOnly, SqlTables, MemTables
<1>2. made'["campaigns"] = made["campaigns"]
  BY DEF Only, CountersOnly, Tables
<1> QED BY <1>1, <1>2 DEF CampaignsInv, Numbered, Living, Sql!Ids

LEMMA CampaignsGrow ==
  ASSUME Shapes, NEW T, Only(T)
  PROVE  made["campaigns"] \in Nat /\ made'["campaigns"] \in Nat
         /\ made["campaigns"] <= made'["campaigns"]
BY DEF Shapes, Only, CountersOnly, Tables

LEMMA EntitiesStand ==
  ASSUME Shapes, EntitiesInv, LivingSame, NEW T, Only(T), "entities" \notin T
  PROVE  EntitiesInv'
<1>1. sql'.entities = sql.entities /\ mem'.entities = mem.entities
  BY DEF Only, SqlOnly, MemOnly, SqlTables, MemTables
<1>2. made'["entities"] = made["entities"]
  BY DEF Only, CountersOnly, Tables
<1> QED BY <1>1, <1>2, CampaignsGrow DEF EntitiesInv, Numbered, LivingSame

LEMMA SnapshotsStand ==
  ASSUME Shapes, SnapshotsInv, LivingSame, NEW T, Only(T), "snapshots" \notin T
  PROVE  SnapshotsInv'
<1>1. sql'.snapshots = sql.snapshots /\ mem'.snapshots = mem.snapshots
  BY DEF Only, SqlOnly, MemOnly, SqlTables, MemTables
<1> QED BY <1>1, CampaignsGrow DEF SnapshotsInv, LivingSame

LEMMA LogsStand ==
  ASSUME Shapes, CampaignsInv, LogsInv, LivingSame, NEW T, Only(T), "events" \notin T
  PROVE  LogsInv'
<1>1. sql'.events = sql.events /\ mem'.events = mem.events
  BY DEF Only, SqlOnly, MemOnly, SqlTables, MemTables
<1>2. \A c : Log(c)' = Log(c)
  BY <1>1 DEF Log, Mem!EventsOf
<1>3. Living \subseteq 1..made["campaigns"]
  BY DEF CampaignsInv, Numbered, Living, Sql!Ids
<1>4. ASSUME NEW e \in sql.events
      PROVE  /\ e.campaignId \in Living'
             /\ e.seq \in 1..Len(Log(e.campaignId)) /\ e = Log(e.campaignId)[e.seq]
  BY <1>3, <1>4 DEF LogsInv, LivingSame
<1>5. ASSUME NEW c \in Living', NEW n \in 1..Len(Log(c))
      PROVE  Log(c)[n] \in sql.events
  <2>1. Len(<< >>) = 0
    OBVIOUS
  <2>2. c \in DOMAIN mem.events
    BY <1>5, <2>1 DEF Log, Mem!EventsOf
  <2>3. c \in Living
    BY <1>5, <2>2 DEF LogsInv, LivingSame
  <2> QED BY <1>5, <2>3 DEF LogsInv
<1>6. DOMAIN mem'.events \subseteq 1..made'["campaigns"]
  BY <1>1, CampaignsGrow DEF LogsInv
<1>7. \A e \in sql'.events : /\ e.campaignId \in Living'
                             /\ e.seq \in 1..Len(Log(e.campaignId)')
                             /\ e = Log(e.campaignId)'[e.seq]
  BY <1>1, <1>2, <1>4
<1>8. \A c \in Living' : \A n \in 1..Len(Log(c)') : Log(c)'[n] \in sql'.events
  BY <1>1, <1>2, <1>5
<1>9. /\ mem'.events = [c \in DOMAIN mem'.events |-> mem'.events[c]]
      /\ \A c \in DOMAIN mem'.events :
           /\ mem'.events[c] \in Seq(EventRow)
           /\ \A n \in 1..Len(mem'.events[c]) :
                mem'.events[c][n].seq = n /\ mem'.events[c][n].campaignId = c
  BY <1>1 DEF LogsInv
<1> QED BY <1>6, <1>7, <1>8, <1>9 DEF LogsInv

LEMMA AdminStands ==
  ASSUME AdminInv, NEW T, Only(T), "admins" \notin T, "admin" \notin T
  PROVE  AdminInv' /\ Grows("admins")
<1>1. sql'.admins = sql.admins /\ mem'.admin = mem.admin
  BY DEF Only, SqlOnly, MemOnly, SqlTables, MemTables
<1>2. held'["admins"] = held["admins"]
  BY DEF Only, CountersOnly, Tables
<1> QED BY <1>1, <1>2 DEF AdminInv, Sql!Ids, Grows

LEMMA AdminSessionsStand ==
  ASSUME AdminSessionsInv, Grows("admins"), NEW T, Only(T), "adminSessions" \notin T
  PROVE  AdminSessionsInv'
<1>1. sql'.adminSessions = sql.adminSessions /\ mem'.adminSessions = mem.adminSessions
  BY DEF Only, SqlOnly, MemOnly, SqlTables, MemTables
<1>2. made'["adminSessions"] = made["adminSessions"]
  BY DEF Only, CountersOnly, Tables
<1>3. Sql!Ids(sql.admins) \subseteq Sql!Ids(sql.admins)'
  BY DEF Grows, Sql!Ids
<1> QED BY <1>1, <1>2, <1>3 DEF AdminSessionsInv, Numbered

LEMMA SeatsStand ==
  ASSUME Shapes, SeatsInv, LivingSame, Grows("accounts"), NEW T, Only(T), "seats" \notin T
  PROVE  SeatsInv' /\ sql'.seats = sql.seats
<1>1. sql'.seats = sql.seats /\ mem'.seats = mem.seats
  BY DEF Only, SqlOnly, MemOnly, SqlTables, MemTables
<1>2. made'["seats"] = made["seats"] /\ held'["seats"] = held["seats"]
  BY DEF Only, CountersOnly, Tables
<1>3. Sql!Ids(sql.accounts) \subseteq Sql!Ids(sql.accounts)'
  BY DEF Grows, Sql!Ids
<1>4. sql'.seats = {s \in mem'.seats : s.campaignId \in Living'}
  BY <1>1 DEF SeatsInv, LivingSame
<1> QED BY <1>1, <1>2, <1>3, <1>4, CampaignsGrow DEF SeatsInv, Numbered

LEMMA InvitesStand ==
  ASSUME Shapes, InvitesInv, LivingSame, NEW T, Only(T),
         "invites" \notin T, "seats" \notin T
  PROVE  InvitesInv'
<1>1. /\ sql'.invites = sql.invites /\ mem'.invites = mem.invites
      /\ sql'.seats = sql.seats
  BY DEF Only, SqlOnly, MemOnly, SqlTables, MemTables
<1>2. /\ made'["invites"] = made["invites"] /\ made'["seats"] = made["seats"]
      /\ madeFor' = madeFor
  BY DEF Only, CountersOnly, Tables
<1>3. Sql!Ids(sql.seats)' = Sql!Ids(sql.seats)
  BY <1>1 DEF Sql!Ids
<1>4. \A n \in 1..made["invites"] :
        /\ madeFor[n] \in 1..made'["campaigns"]
        /\ madeFor[n] \in Living' <=> madeFor[n] \in Living
  BY CampaignsGrow DEF InvitesInv, LivingSame
<1>5. \A i \in sql.invites \cup mem.invites : i.id \in 1..made["invites"]
  BY DEF InvitesInv, Numbered
<1>6. \A i \in sql.invites : /\ i.seatId \in Sql!Ids(sql.seats)
                             /\ i.campaignId \in Living'
                             /\ i.campaignId = madeFor[i.id]
  BY <1>4, <1>5 DEF InvitesInv
<1>7. \A m \in mem.invites :
        /\ m.seatId \in 1..made["seats"]
        /\ m.seatId \in Sql!Ids(sql.seats) /\ madeFor[m.id] \in Living'
           => \E i \in sql.invites : m = Copy(i)
  <2> TAKE m \in mem.invites
  <2>1. m.id \in 1..made["invites"]
    BY <1>5
  <2>2. madeFor[m.id] \in Living' <=> madeFor[m.id] \in Living
    BY <1>4, <2>1
  <2> QED BY <2>2 DEF InvitesInv
<1>8. /\ Numbered(sql.invites, "invites")' /\ Numbered(mem.invites, "invites")'
      /\ madeFor' \in Seq(Nat) /\ Len(madeFor') = made'["invites"]
      /\ \A n \in 1..made'["invites"] : madeFor'[n] \in 1..made'["campaigns"]
  <2>1. Numbered(sql.invites, "invites")' /\ Numbered(mem.invites, "invites")'
    BY <1>1, <1>2 DEF InvitesInv, Numbered
  <2>2. madeFor' \in Seq(Nat) /\ Len(madeFor') = made'["invites"]
    BY <1>2 DEF InvitesInv
  <2>3. \A n \in 1..made'["invites"] : madeFor'[n] \in 1..made'["campaigns"]
    BY <1>2, <1>4
  <2> QED BY <2>1, <2>2, <2>3
<1>9. /\ sql'.invites \subseteq InviteRow /\ mem'.invites \subseteq InviteCopy
      /\ \A i \in sql'.invites : Copy(i) \in mem'.invites
  BY <1>1 DEF InvitesInv
<1> QED BY <1>1, <1>2, <1>3, <1>6, <1>7, <1>8, <1>9 DEF InvitesInv

LEMMA AccountsStand ==
  ASSUME AccountsInv, NEW T, Only(T), "accounts" \notin T
  PROVE  AccountsInv' /\ Grows("accounts")
<1>1. sql'.accounts = sql.accounts /\ mem'.accounts = mem.accounts
  BY DEF Only, SqlOnly, MemOnly, SqlTables, MemTables
<1>2. made'["accounts"] = made["accounts"] /\ held'["accounts"] = held["accounts"]
  BY DEF Only, CountersOnly, Tables
<1> QED BY <1>1, <1>2 DEF AccountsInv, Numbered, Sql!Ids, Grows

LEMMA SessionsStand ==
  ASSUME SessionsInv, Grows("accounts"), NEW T, Only(T), "sessions" \notin T
  PROVE  SessionsInv'
<1>1. sql'.sessions = sql.sessions /\ mem'.sessions = mem.sessions
  BY DEF Only, SqlOnly, MemOnly, SqlTables, MemTables
<1>2. made'["sessions"] = made["sessions"]
  BY DEF Only, CountersOnly, Tables
<1>3. Sql!Ids(sql.accounts) \subseteq Sql!Ids(sql.accounts)'
  BY DEF Grows, Sql!Ids
<1> QED BY <1>1, <1>2, <1>3 DEF SessionsInv, Numbered

LEMMA SettingsStand ==
  ASSUME SettingsInv, NEW T, Only(T), "settings" \notin T
  PROVE  SettingsInv'
<1>1. sql'.settings = sql.settings /\ mem'.settings = mem.settings
  BY DEF Only, SqlOnly, MemOnly, SqlTables, MemTables
<1> QED BY <1>1 DEF SettingsInv

\* All at once, for a call that leaves the campaigns alone and takes no admin
\* and no account away: what has to be shown is about the tables it writes to.
LEMMA OthersStand ==
  ASSUME IInv, NEW T, Only(T), "campaigns" \notin T,
         "entities" \in T => EntitiesInv', "events" \in T => LogsInv',
         "snapshots" \in T => SnapshotsInv',
         {"admins", "admin"} \cap T # {} => AdminInv' /\ Grows("admins"),
         "adminSessions" \in T => AdminSessionsInv',
         "seats" \in T => SeatsInv',
         {"seats", "invites"} \cap T # {} => InvitesInv',
         "accounts" \in T => AccountsInv' /\ Grows("accounts"),
         "sessions" \in T => SessionsInv', "settings" \in T => SettingsInv'
  PROVE  IInv'
<1> USE DEF IInv
<1>1. Shapes'
  BY ShapesStand
<1>2. CampaignsInv' /\ LivingSame
  BY CampaignsStand DEF LivingSame
<1>3. EntitiesInv' /\ LogsInv' /\ SnapshotsInv'
  BY <1>2, EntitiesStand, LogsStand, SnapshotsStand
<1>4. AdminInv' /\ Grows("admins")
  BY AdminStands
<1>5. AccountsInv' /\ Grows("accounts")
  BY AccountsStand
<1>6. AdminSessionsInv' /\ SessionsInv' /\ SettingsInv'
  BY <1>4, <1>5, AdminSessionsStand, SessionsStand, SettingsStand
<1>7. SeatsInv' /\ InvitesInv'
  BY <1>2, <1>5, SeatsStand, InvitesStand
<1> QED BY <1>1, <1>2, <1>3, <1>4, <1>5, <1>6, <1>7

----------------------------------------------------------------------------
(* The keys of the schema *)

LEMMA KeysHold == IInv => SqlIntegrity
<1> SUFFICES ASSUME IInv PROVE SqlIntegrity
  OBVIOUS
<1> USE DEF IInv
<1>1. \A r \in sql.entities \cup sql.seats \cup sql.snapshots :
        r.campaignId \in Sql!Ids(sql.campaigns)
  BY DEF EntitiesInv, SeatsInv, SnapshotsInv, Living
<1>2. \A e \in sql.events : e.campaignId \in Sql!Ids(sql.campaigns)
  BY DEF LogsInv, Living
<1>3. \A i \in sql.invites : /\ i.seatId \in Sql!Ids(sql.seats)
                             /\ i.campaignId \in Sql!Ids(sql.campaigns)
  BY DEF InvitesInv, Living
<1>4. /\ \A s \in sql.seats : s.accountId \in Sql!Ids(sql.accounts) \cup {NULL}
      /\ \A s \in sql.sessions : s.accountId \in Sql!Ids(sql.accounts)
      /\ \A s \in sql.adminSessions : s.adminId \in Sql!Ids(sql.admins)
  BY DEF SeatsInv, SessionsInv, AdminSessionsInv
<1>5. Sql!ForeignKeysHold(sql)
  BY <1>1, <1>2, <1>3, <1>4 DEF Sql!ForeignKeysHold
<1>6. \A a, b \in sql.accounts : a.username = b.username => a = b
  BY DEF AccountsInv
<1>7. \A e, f \in sql.events : e.campaignId = f.campaignId /\ e.seq = f.seq => e = f
  BY DEF LogsInv
<1>8. Sql!UniqueKeysHold(sql)
  BY <1>6, <1>7 DEF Sql!UniqueKeysHold
<1> QED BY <1>5, <1>8 DEF SqlIntegrity

\* What a statement has to respect that puts X for one table: the other keys
\* are as they were.
LEMMA StoredSessions ==
  ASSUME IInv, NEW X, \A s \in X : s.accountId \in Sql!Ids(sql.accounts)
  PROVE  Sql!Stored(sql, [sql EXCEPT !.sessions = X]) = [sql EXCEPT !.sessions = X]
<1> DEFINE d == [sql EXCEPT !.sessions = X]
<1>1. d.sessions = X /\ \A t \in SqlTables \ {"sessions"} : d[t] = sql[t]
  BY TablesOf DEF IInv, Shapes, SqlTables
<1> HIDE DEF d
<1>2. Sql!ForeignKeysHold(d) /\ Sql!UniqueKeysHold(d)
  BY <1>1, KeysHold DEF SqlIntegrity, Sql!ForeignKeysHold, Sql!UniqueKeysHold, SqlTables
<1> QED BY <1>2 DEF Sql!Stored, d

LEMMA StoredAdminSessions ==
  ASSUME IInv, NEW X, \A s \in X : s.adminId \in Sql!Ids(sql.admins)
  PROVE  Sql!Stored(sql, [sql EXCEPT !.adminSessions = X]) = [sql EXCEPT !.adminSessions = X]
<1> DEFINE d == [sql EXCEPT !.adminSessions = X]
<1>1. d.adminSessions = X /\ \A t \in SqlTables \ {"adminSessions"} : d[t] = sql[t]
  BY TablesOf DEF IInv, Shapes, SqlTables
<1> HIDE DEF d
<1>2. Sql!ForeignKeysHold(d) /\ Sql!UniqueKeysHold(d)
  BY <1>1, KeysHold DEF SqlIntegrity, Sql!ForeignKeysHold, Sql!UniqueKeysHold, SqlTables
<1> QED BY <1>2 DEF Sql!Stored, d

LEMMA StoredAccounts ==
  ASSUME IInv, NEW X, Sql!Ids(sql.accounts) \subseteq Sql!Ids(X)
  PROVE  Sql!Stored(sql, [sql EXCEPT !.accounts = X])
           = IF \A a, b \in X : a.username = b.username => a = b
             THEN [sql EXCEPT !.accounts = X] ELSE sql
<1> DEFINE d == [sql EXCEPT !.accounts = X]
<1>1. d.accounts = X /\ \A t \in SqlTables \ {"accounts"} : d[t] = sql[t]
  BY TablesOf DEF IInv, Shapes, SqlTables
<1> HIDE DEF d
<1>2. Sql!ForeignKeysHold(d)
  BY <1>1, KeysHold DEF SqlIntegrity, Sql!ForeignKeysHold, SqlTables
<1>3. Sql!UniqueKeysHold(d) <=> \A a, b \in X : a.username = b.username => a = b
  BY <1>1, KeysHold DEF SqlIntegrity, Sql!UniqueKeysHold, SqlTables
<1> QED BY <1>2, <1>3 DEF Sql!Stored, d

LEMMA StoredEntities ==
  ASSUME IInv, NEW X
  PROVE  Sql!Stored(sql, [sql EXCEPT !.entities = X])
           = IF \A e \in X : e.campaignId \in Living
             THEN [sql EXCEPT !.entities = X] ELSE sql
<1> DEFINE d == [sql EXCEPT !.entities = X]
<1>1. d.entities = X /\ \A t \in SqlTables \ {"entities"} : d[t] = sql[t]
  BY TablesOf DEF IInv, Shapes, SqlTables
<1> HIDE DEF d
<1>2. Sql!ForeignKeysHold(d) <=> \A e \in X : e.campaignId \in Living
  BY <1>1, KeysHold DEF SqlIntegrity, Sql!ForeignKeysHold, SqlTables, Living
<1>3. Sql!UniqueKeysHold(d)
  BY <1>1, KeysHold DEF SqlIntegrity, Sql!UniqueKeysHold, SqlTables
<1> QED BY <1>2, <1>3 DEF Sql!Stored, d

LEMMA StoredSnapshots ==
  ASSUME IInv, NEW X
  PROVE  Sql!Stored(sql, [sql EXCEPT !.snapshots = X])
           = IF \A e \in X : e.campaignId \in Living
             THEN [sql EXCEPT !.snapshots = X] ELSE sql
<1> DEFINE d == [sql EXCEPT !.snapshots = X]
<1>1. d.snapshots = X /\ \A t \in SqlTables \ {"snapshots"} : d[t] = sql[t]
  BY TablesOf DEF IInv, Shapes, SqlTables
<1> HIDE DEF d
<1>2. Sql!ForeignKeysHold(d) <=> \A e \in X : e.campaignId \in Living
  BY <1>1, KeysHold DEF SqlIntegrity, Sql!ForeignKeysHold, SqlTables, Living
<1>3. Sql!UniqueKeysHold(d)
  BY <1>1, KeysHold DEF SqlIntegrity, Sql!UniqueKeysHold, SqlTables
<1> QED BY <1>2, <1>3 DEF Sql!Stored, d

LEMMA StoredSeats ==
  ASSUME IInv, NEW X, Sql!Ids(sql.seats) \subseteq Sql!Ids(X),
         \A s \in X : s.accountId \in Sql!Ids(sql.accounts) \cup {NULL}
  PROVE  Sql!Stored(sql, [sql EXCEPT !.seats = X])
           = IF \A s \in X : s.campaignId \in Living
             THEN [sql EXCEPT !.seats = X] ELSE sql
<1> DEFINE d == [sql EXCEPT !.seats = X]
<1>1. d.seats = X /\ \A t \in SqlTables \ {"seats"} : d[t] = sql[t]
  BY TablesOf DEF IInv, Shapes, SqlTables
<1> HIDE DEF d
<1>2. Sql!ForeignKeysHold(d) <=> \A s \in X : s.campaignId \in Living
  BY <1>1, KeysHold DEF SqlIntegrity, Sql!ForeignKeysHold, SqlTables, Living
<1>3. Sql!UniqueKeysHold(d)
  BY <1>1, KeysHold DEF SqlIntegrity, Sql!UniqueKeysHold, SqlTables
<1> QED BY <1>2, <1>3 DEF Sql!Stored, d

LEMMA StoredInvites ==
  ASSUME IInv, NEW X
  PROVE  Sql!Stored(sql, [sql EXCEPT !.invites = X])
           = IF \A i \in X : i.campaignId \in Living /\ i.seatId \in Sql!Ids(sql.seats)
             THEN [sql EXCEPT !.invites = X] ELSE sql
<1> DEFINE d == [sql EXCEPT !.invites = X]
<1>1. d.invites = X /\ \A t \in SqlTables \ {"invites"} : d[t] = sql[t]
  BY TablesOf DEF IInv, Shapes, SqlTables
<1> HIDE DEF d
<1>2. Sql!ForeignKeysHold(d)
        <=> \A i \in X : i.campaignId \in Living /\ i.seatId \in Sql!Ids(sql.seats)
  BY <1>1, KeysHold DEF SqlIntegrity, Sql!ForeignKeysHold, SqlTables, Living
<1>3. Sql!UniqueKeysHold(d)
  BY <1>1, KeysHold DEF SqlIntegrity, Sql!UniqueKeysHold, SqlTables
<1> QED BY <1>2, <1>3 DEF Sql!Stored, d

LEMMA StoredEvents ==
  ASSUME IInv, NEW X
  PROVE  Sql!Stored(sql, [sql EXCEPT !.events = X])
           = IF /\ \A e \in X : e.campaignId \in Living
                /\ \A e, f \in X : e.campaignId = f.campaignId /\ e.seq = f.seq => e = f
             THEN [sql EXCEPT !.events = X] ELSE sql
<1> DEFINE d == [sql EXCEPT !.events = X]
<1>1. d.events = X /\ \A t \in SqlTables \ {"events"} : d[t] = sql[t]
  BY TablesOf DEF IInv, Shapes, SqlTables
<1> HIDE DEF d
<1>2. Sql!ForeignKeysHold(d) <=> \A e \in X : e.campaignId \in Living
  BY <1>1, KeysHold DEF SqlIntegrity, Sql!ForeignKeysHold, SqlTables, Living
<1>3. Sql!UniqueKeysHold(d)
        <=> \A e, f \in X : e.campaignId = f.campaignId /\ e.seq = f.seq => e = f
  BY <1>1, KeysHold DEF SqlIntegrity, Sql!UniqueKeysHold, SqlTables
<1> QED BY <1>2, <1>3 DEF Sql!Stored, d
----------------------------------------------------------------------------
(* Rows rewritten one by one *)

\* Rows that keep their ids keep their numbering.
LEMMA RewrittenNumbered ==
  ASSUME NEW rows, NEW t, Numbered(rows, t), NEW g, \A r \in rows : g[r].id = r.id
  PROVE  Numbered({g[r] : r \in rows}, t)
BY DEF Numbered

LEMMA RewrittenIds ==
  ASSUME NEW rows, NEW g, \A r \in rows : g[r].id = r.id
  PROVE  Sql!Ids({g[r] : r \in rows}) = Sql!Ids(rows)
BY DEF Sql!Ids

\* A table that grows by a row with a fresh id.
LEMMA AddedNumbered ==
  ASSUME NEW rows, NEW t, Numbered(rows, t), NEW row, made[t] \in Nat,
         row.id = made[t] + 1, made'[t] = made[t] + 1
  PROVE  /\ \A r \in rows \cup {row} : r.id \in 1..made'[t]
         /\ \A r, q \in rows \cup {row} : r.id = q.id => r = q
BY DEF Numbered

\* Object.assign and the SET of an UPDATE make the same row.
LEMMA PatchIs ==
  ASSUME NEW rows, NEW id, NEW data
  PROVE  Mem!Patch(rows, id, data)
           = {IF r.id = id THEN Sql!Assign(r, data) ELSE r : r \in rows}
<1> DEFINE patched(r) ==
             IF r.id # id THEN r
             ELSE [f \in DOMAIN r |-> IF f \in DOMAIN data THEN data[f] ELSE r[f]]
           assigned(r) == IF r.id = id THEN Sql!Assign(r, data) ELSE r
<1>1. \A r \in rows : patched(r) = assigned(r)
  BY DEF Sql!Assign
<1>2. Mem!Patch(rows, id, data) = {patched(r) : r \in rows}
  BY DEF Mem!Patch
<1> HIDE DEF patched, assigned
<1>3. {patched(r) : r \in rows} = {assigned(r) : r \in rows}
  BY <1>1
<1> QED BY <1>2, <1>3 DEF assigned

LEMMA AssignRevoked ==
  ASSUME NEW r, r = [f \in DOMAIN r |-> r[f]]
  PROVE  Sql!Assign(r, [revoked |-> TRUE]) = [r EXCEPT !.revoked = TRUE]
<1>1. DOMAIN [revoked |-> TRUE] = {"revoked"} /\ [revoked |-> TRUE].revoked = TRUE
  OBVIOUS
<1> DEFINE d == [revoked |-> TRUE]
<1> HIDE DEF d
<1>2. DOMAIN d = {"revoked"} => Sql!Assign(r, d) = [r EXCEPT !.revoked = d.revoked]
  BY DEF Sql!Assign
<1> QED BY <1>1, <1>2 DEF d

LEMMA AssignLastUsedAt ==
  ASSUME NEW r \in SessionRow, NEW x \in Nat
  PROVE  /\ Sql!Assign(r, [lastUsedAt |-> x]) = [r EXCEPT !.lastUsedAt = x]
         /\ [r EXCEPT !.lastUsedAt = x] \in SessionRow
BY DEF Sql!Assign, SessionRow

----------------------------------------------------------------------------
(* Sessions *)

LEMMA SessionRevoked ==
  ASSUME NEW r \in SessionRow
  PROVE  /\ Sql!Assign(r, [revoked |-> TRUE]) = [r EXCEPT !.revoked = TRUE]
         /\ [r EXCEPT !.revoked = TRUE] \in SessionRow
         /\ [r EXCEPT !.revoked = TRUE].id = r.id
         /\ [r EXCEPT !.revoked = TRUE].accountId = r.accountId
         /\ r.revoked => [r EXCEPT !.revoked = TRUE] = r
<1>1. r = [f \in DOMAIN r |-> r[f]]
  BY DEF SessionRow
<1>2. [r EXCEPT !.revoked = TRUE] \in SessionRow
  BY DEF SessionRow
<1>3. r.revoked => [r EXCEPT !.revoked = TRUE] = r
  <2> SUFFICES ASSUME r.revoked PROVE [r EXCEPT !.revoked = TRUE] = r
    OBVIOUS
  <2>1. r.revoked = TRUE
    BY DEF SessionRow
  <2> QED BY <1>1, <2>1
<1> QED BY <1>1, <1>2, <1>3, AssignRevoked DEF SessionRow

\* Whatever a call does to single sessions, it does to both tables.
LEMMA SessionsRewritten ==
  ASSUME IInv, NEW g, \A r \in sql.sessions : /\ g[r] \in SessionRow
                                              /\ g[r].id = r.id
                                              /\ g[r].accountId = r.accountId,
         Only({"sessions"}), CountersOnly({}),
         sql'.sessions = {g[r] : r \in sql.sessions},
         mem'.sessions = {g[r] : r \in sql.sessions}
  PROVE  IInv'
<1> USE DEF IInv
<1>1. Numbered(mem.sessions, "sessions") /\ mem.sessions = sql.sessions
  BY DEF SessionsInv
<1>2. Numbered({g[r] : r \in sql.sessions}, "sessions")
  BY <1>1, RewrittenNumbered
<1>3. made'["sessions"] = made["sessions"]
  BY DEF CountersOnly, Tables
<1>4. Numbered(mem.sessions, "sessions")'
  BY <1>2, <1>3 DEF Numbered
<1>5. sql'.accounts = sql.accounts
  BY DEF Only, SqlOnly, SqlTables
<1>6. \A s \in sql'.sessions : s \in SessionRow /\ s.accountId \in Sql!Ids(sql.accounts)'
  BY <1>5 DEF SessionsInv, Sql!Ids
<1>7. SessionsInv'
  BY <1>4, <1>6 DEF SessionsInv
<1> QED BY <1>7, OthersStand

LEMMA CreateAuthSessionStep ==
  ASSUME IInv, NEW a \in held["accounts"], CreateAuthSession(a)
  PROVE  IInv'
<1> USE DEF IInv
<1> DEFINE row == [id |-> Fresh("sessions"), accountId |-> a, expiresAt |-> now + Life,
                   createdAt |-> now, lastUsedAt |-> now, revoked |-> FALSE]
           X == sql.sessions \cup {row}
<1>1. a \in Sql!Ids(sql.accounts) /\ sql.sessions = mem.sessions
  BY DEF AccountsInv, SessionsInv
<1>2. \A s \in X : s.accountId \in Sql!Ids(sql.accounts)
  BY <1>1 DEF SessionsInv
<1> HIDE DEF X
<1>3. Sql!createAuthSession(sql, Fresh("sessions"), a, now + Life, now)
        = [sql EXCEPT !.sessions = X]
  BY <1>2, StoredSessions DEF Sql!createAuthSession, X
<1>4. Mem!createAuthSession(mem, Fresh("sessions"), a, now + Life, now)
        = [mem EXCEPT !.sessions = X]
  BY <1>1 DEF Mem!createAuthSession, X
<1>5. "sessions" \in SqlTables \cap MemTables \cap Tables
  BY DEF SqlTables, MemTables, Tables
<1>6. /\ sql' = [sql EXCEPT !.sessions = X] /\ mem' = [mem EXCEPT !.sessions = X]
      /\ CountersOnly({"sessions"})
      /\ made["sessions"] \in Nat /\ made'["sessions"] = made["sessions"] + 1
      /\ Fresh("sessions") = made["sessions"] + 1
  BY <1>3, <1>4, <1>5, MakesKeeps DEF CreateAuthSession
<1>7. /\ Only({"sessions"}) /\ sql'.sessions = X /\ mem'.sessions = X
  BY <1>5, <1>6, OneTable
<1>8. row.id = made["sessions"] + 1 /\ row \in SessionRow
  BY <1>1, <1>6 DEF SessionRow, Shapes, Life, AccountsInv, AccountRow, Sql!Ids
<1> HIDE DEF row
<1>9. Numbered(mem.sessions, "sessions")'
  BY <1>1, <1>6, <1>7, <1>8, AddedNumbered DEF SessionsInv, Numbered, X
<1>10. sql'.accounts = sql.accounts
  BY <1>7 DEF Only, SqlOnly, SqlTables
<1>11. \A s \in sql'.sessions : s \in SessionRow /\ s.accountId \in Sql!Ids(sql.accounts)'
  BY <1>2, <1>7, <1>8, <1>10 DEF SessionsInv, Sql!Ids, X
<1>12. SessionsInv'
  BY <1>7, <1>9, <1>11 DEF SessionsInv
<1> QED BY <1>7, <1>12, OthersStand

\* The session of an id is revoked.
LEMMA RevokeOneSession ==
  ASSUME IInv, NEW s, CountersOnly({}),
         sql' = Sql!revokeAuthSession(sql, s), mem' = Mem!revokeAuthSession(mem, s)
  PROVE  IInv'
<1> USE DEF IInv
<1> DEFINE g == [r \in sql.sessions |-> IF r.id = s THEN [r EXCEPT !.revoked = TRUE] ELSE r]
           X == {g[r] : r \in sql.sessions}
<1>1. \A r \in sql.sessions : g[r] \in SessionRow /\ g[r].id = r.id
                              /\ g[r].accountId = r.accountId
  BY SessionRevoked DEF SessionsInv
<1>2. Sql!revokeAuthSession(sql, s) = [sql EXCEPT !.sessions = X]
  BY DEF Sql!revokeAuthSession
<1>3. Mem!Patch(mem.sessions, s, [revoked |-> TRUE]) = X
  <2>1. mem.sessions = sql.sessions /\ \A r \in sql.sessions : r \in SessionRow
    BY DEF SessionsInv
  <2>2. \A r \in sql.sessions :
          (IF r.id = s THEN Sql!Assign(r, [revoked |-> TRUE]) ELSE r) = g[r]
    BY <2>1, SessionRevoked
  <2> HIDE DEF g
  <2>3. {IF r.id = s THEN Sql!Assign(r, [revoked |-> TRUE]) ELSE r : r \in sql.sessions} = X
    BY <2>2
  <2> QED BY <2>1, <2>3, PatchIs
<1>4. Mem!revokeAuthSession(mem, s) = [mem EXCEPT !.sessions = X]
  BY <1>3 DEF Mem!revokeAuthSession
<1>5. "sessions" \in SqlTables \cap MemTables
  BY DEF SqlTables, MemTables
<1> HIDE DEF g, X
<1>6. /\ sql' = [sql EXCEPT !.sessions = X] /\ mem' = [mem EXCEPT !.sessions = X]
      /\ CountersOnly({})
  BY <1>2, <1>4
<1>7. Only({"sessions"}) /\ sql'.sessions = X /\ mem'.sessions = X
  BY <1>5, <1>6, OneTable
<1> QED BY <1>1, <1>6, <1>7, SessionsRewritten DEF X

LEMMA UpdateAuthSessionStep ==
  ASSUME IInv, NEW s, UpdateAuthSession(s)
  PROVE  IInv'
<1> USE DEF IInv
<1> DEFINE g == [r \in sql.sessions |->
                   IF r.id = s THEN Sql!Assign(r, [lastUsedAt |-> now]) ELSE r]
           X == {g[r] : r \in sql.sessions}
<1>1. \A r \in sql.sessions : g[r] \in SessionRow /\ g[r].id = r.id
                              /\ g[r].accountId = r.accountId
  <2> TAKE r \in sql.sessions
  <2>1. r \in SessionRow /\ now \in Nat
    BY DEF SessionsInv, Shapes
  <2>2. LET q == [r EXCEPT !.lastUsedAt = now] IN q.id = r.id /\ q.accountId = r.accountId
    BY <2>1 DEF SessionRow
  <2> QED BY <2>1, <2>2, AssignLastUsedAt
<1>2. Sql!updateAuthSession(sql, s, [lastUsedAt |-> now]) = [sql EXCEPT !.sessions = X]
  BY DEF Sql!updateAuthSession
<1>3. Mem!Patch(mem.sessions, s, [lastUsedAt |-> now]) = X
  BY PatchIs DEF SessionsInv
<1>4. Mem!updateAuthSession(mem, s, [lastUsedAt |-> now]) = [mem EXCEPT !.sessions = X]
  BY <1>3 DEF Mem!updateAuthSession
<1>5. "sessions" \in SqlTables \cap MemTables
  BY DEF SqlTables, MemTables
<1> HIDE DEF g, X
<1>6. /\ sql' = [sql EXCEPT !.sessions = X] /\ mem' = [mem EXCEPT !.sessions = X]
      /\ CountersOnly({})
  BY <1>2, <1>4, WritesKeeps DEF UpdateAuthSession
<1>7. Only({"sessions"}) /\ sql'.sessions = X /\ mem'.sessions = X
  BY <1>5, <1>6, OneTable
<1> QED BY <1>1, <1>6, <1>7, SessionsRewritten DEF X

LEMMA RevokeAllStep ==
  ASSUME IInv, NEW a, RevokeAllAuthSessionsForAccount(a)
  PROVE  IInv'
<1> USE DEF IInv
<1> DEFINE g == [r \in sql.sessions |->
                   IF r.accountId = a THEN [r EXCEPT !.revoked = TRUE] ELSE r]
           X == {g[r] : r \in sql.sessions}
<1>1. \A r \in sql.sessions : g[r] \in SessionRow /\ g[r].id = r.id
                              /\ g[r].accountId = r.accountId
  BY SessionRevoked DEF SessionsInv
<1>2. Sql!revokeAllAuthSessionsForAccount(sql, a) = [sql EXCEPT !.sessions = X]
  BY DEF Sql!revokeAllAuthSessionsForAccount
<1>3. \A r \in sql.sessions :
        g[r] = IF r.accountId = a /\ ~r.revoked THEN [r EXCEPT !.revoked = TRUE] ELSE r
  BY SessionRevoked DEF SessionsInv
<1>4. Mem!revokeAllAuthSessionsForAccount(mem, a) = [mem EXCEPT !.sessions = X]
  <2>1. mem.sessions = sql.sessions
    BY DEF SessionsInv
  <2> HIDE DEF g
  <2>2. {IF r.accountId = a /\ ~r.revoked THEN [r EXCEPT !.revoked = TRUE] ELSE r
           : r \in sql.sessions} = X
    BY <1>3
  <2> QED BY <2>1, <2>2 DEF Mem!revokeAllAuthSessionsForAccount
<1>5. "sessions" \in SqlTables \cap MemTables
  BY DEF SqlTables, MemTables
<1> HIDE DEF g, X
<1>6. /\ sql' = [sql EXCEPT !.sessions = X] /\ mem' = [mem EXCEPT !.sessions = X]
      /\ CountersOnly({})
  BY <1>2, <1>4, WritesKeeps DEF RevokeAllAuthSessionsForAccount
<1>7. Only({"sessions"}) /\ sql'.sessions = X /\ mem'.sessions = X
  BY <1>5, <1>6, OneTable
<1> QED BY <1>1, <1>6, <1>7, SessionsRewritten DEF X
LEMMA RevokeAuthSessionStep ==
  ASSUME IInv, NEW s, RevokeAuthSession(s)
  PROVE  IInv'
<1>1. /\ sql' = Sql!revokeAuthSession(sql, s) /\ mem' = Mem!revokeAuthSession(mem, s)
      /\ CountersOnly({})
  BY WritesKeeps DEF RevokeAuthSession, IInv
<1> QED BY <1>1, RevokeOneSession

\* Numbers: a set of them has a least one.
LEMMA Least ==
  ASSUME NEW S \in SUBSET Nat, S # {}
  PROVE  \E m \in S : \A k \in S : m <= k
<1> DEFINE R == {p \in Nat \X Nat : p[1] < p[2]}
<1>1. OpToRel(<, Nat) = R
  BY DEF OpToRel
<1>2. IsWellFoundedOn(R, Nat)
  BY <1>1, NatLessThanWellFounded
<1>3. PICK x \in S : \A y \in S : <<y, x>> \notin R
  BY <1>2, WFMin
<1>4. \A y \in S : ~(y < x)
  BY <1>3
<1> QED BY <1>4

\* The first row in the order of insertion is the one with the least id.
LEMMA LeastRow ==
  ASSUME NEW S, \A r \in S : r.id \in Nat, S # {}
  PROVE  \E r \in S : \A q \in S : r.id <= q.id
<1> DEFINE I == {r.id : r \in S}
<1>1. I \in SUBSET Nat /\ I # {}
  OBVIOUS
<1>2. PICK m \in I : \A k \in I : m <= k
  <2> HIDE DEF I
  <2> QED BY <1>1, Least
<1> QED BY <1>2

LEMMA OneIs ==
  ASSUME NEW r
  PROVE  Sql!One({r}) = r /\ Sql!One({}) = NULL
BY DEF Sql!One

LEMMA FirstIs ==
  ASSUME NEW S, \A r \in S : r.id \in Nat, \A r, q \in S : r.id = q.id => r = q,
         NEW r \in S, \A q \in S : r.id <= q.id
  PROVE  Mem!First(S) = r
<1>1. \A p \in S : (\A q \in S : p.id <= q.id) => p = r
  <2> SUFFICES ASSUME NEW p \in S, \A q \in S : p.id <= q.id
               PROVE  p.id = r.id
    OBVIOUS
  <2> QED OBVIOUS
<1> QED BY <1>1 DEF Mem!First

LEMMA FirstIsOne ==
  ASSUME NEW S, \A r \in S : r.id \in Nat, \A r, q \in S : r.id = q.id => r = q
  PROVE  Sql!One({s \in S : \A r \in S : s.id <= r.id}) = Mem!First(S)
<1> DEFINE L == {s \in S : \A r \in S : s.id <= r.id}
<1>1. CASE S = {}
  <2>1. L = {}
    BY <1>1
  <2> HIDE DEF L
  <2>2. Sql!One(L) = NULL
    BY <2>1, OneIs
  <2>3. Mem!First(S) = NULL
    BY <1>1 DEF Mem!First
  <2> QED BY <2>2, <2>3 DEF L
<1>2. CASE S # {}
  <2>1. PICK r \in S : \A q \in S : r.id <= q.id
    BY <1>2, LeastRow
  <2>2. L = {r}
    <3>1. \A s \in L : s = r
      <4> TAKE s \in L
      <4>1. s.id <= r.id /\ r.id <= s.id /\ s.id \in Nat /\ r.id \in Nat
        BY <2>1
      <4> QED BY <4>1
    <3> QED BY <2>1, <3>1
  <2>3. Mem!First(S) = r
    BY <2>1, FirstIs
  <2> HIDE DEF L
  <2>4. Sql!One(L) = r
    BY <2>2, OneIs
  <2> QED BY <2>3, <2>4 DEF L
<1> QED BY <1>1, <1>2

LEMMA SameOldest ==
  ASSUME IInv, NEW a
  PROVE  Sql!OldestSession(sql, a, now) = Mem!OldestSession(mem, a, now)
<1> DEFINE act == {s \in sql.sessions : s.accountId = a /\ ~s.revoked /\ s.expiresAt > now}
           old == {s \in act : \A r \in act : s.createdAt <= r.createdAt}
<1>1. /\ sql.sessions = mem.sessions /\ \A s \in sql.sessions : s.id \in Nat
      /\ \A r, q \in sql.sessions : r.id = q.id => r = q
  BY DEF IInv, SessionsInv, SessionRow, Numbered
<1>2. Sql!OldestSession(sql, a, now) = Sql!One({s \in old : \A r \in old : s.id <= r.id})
  BY DEF Sql!OldestSession, Sql!ActiveSessions
<1>3. Mem!OldestSession(mem, a, now) = Mem!First(old)
  BY <1>1 DEF Mem!OldestSession, Mem!ActiveSessions
<1>4. (\A r \in old : r.id \in Nat) /\ \A r, q \in old : r.id = q.id => r = q
  BY <1>1
<1> HIDE DEF old
<1> QED BY <1>2, <1>3, <1>4, FirstIsOne

\* A call that answers without a write.
LEMMA NothingWritten ==
  ASSUME IInv, CountersOnly({}), sql' = sql, mem' = mem
  PROVE  IInv'
<1>1. Only({})
  BY SqlSame, MemSame DEF Only, IInv
<1> QED BY <1>1, OthersStand

LEMMA RevokeOldestStep ==
  ASSUME IInv, NEW a, RevokeOldestAuthSessionForAccount(a)
  PROVE  IInv'
<1> DEFINE old == Sql!OldestSession(sql, a, now)
<1>1. /\ sql' = Sql!revokeOldestAuthSessionForAccount(sql, a, now)
      /\ mem' = Mem!revokeOldestAuthSessionForAccount(mem, a, now)
      /\ CountersOnly({})
  BY WritesKeeps DEF RevokeOldestAuthSessionForAccount, IInv
<1>2. /\ sql' = IF old = NULL THEN sql ELSE Sql!revokeAuthSession(sql, old.id)
      /\ mem' = IF old = NULL THEN mem ELSE Mem!revokeAuthSession(mem, old.id)
  BY <1>1, SameOldest DEF Sql!revokeOldestAuthSessionForAccount,
                          Mem!revokeOldestAuthSessionForAccount
<1> HIDE DEF old
<1>3. CASE old = NULL
  BY <1>1, <1>2, <1>3, NothingWritten
<1>4. CASE old # NULL
  BY <1>1, <1>2, <1>4, RevokeOneSession
<1> QED BY <1>3, <1>4

----------------------------------------------------------------------------
(* Settings *)

LEMMA SetServerSettingStep ==
  ASSUME IInv, NEW v \in Texts, SetServerSetting(v)
  PROVE  IInv'
<1> USE DEF IInv
<1> DEFINE k == "refresh_cookie_max_days"
           row == [key |-> k, value |-> v]
           X == {s \in sql.settings : s.key # k} \cup {row}
<1>1. sql.settings = mem.settings
  BY DEF SettingsInv
<1>2. /\ Sql!setServerSetting(sql, k, v) = [sql EXCEPT !.settings = X]
      /\ Mem!setServerSetting(mem, k, v) = [mem EXCEPT !.settings = X]
  BY <1>1 DEF Sql!setServerSetting, Mem!setServerSetting
<1>3. row \in SettingRow /\ row.key = k
  BY DEF SettingRow
<1>4. X \subseteq SettingRow /\ \A r, s \in X : r.key = s.key => r = s
  BY <1>3 DEF SettingsInv
<1> HIDE DEF X
<1>5. /\ sql' = [sql EXCEPT !.settings = X] /\ mem' = [mem EXCEPT !.settings = X]
      /\ CountersOnly({})
  BY <1>2, WritesKeeps DEF SetServerSetting
<1>6. "settings" \in SqlTables \cap MemTables
  BY DEF SqlTables, MemTables
<1>7. Only({"settings"}) /\ sql'.settings = X /\ mem'.settings = X
  BY <1>5, <1>6, OneTable
<1>8. SettingsInv'
  BY <1>4, <1>7 DEF SettingsInv
<1> QED BY <1>7, <1>8, OthersStand

----------------------------------------------------------------------------
(* Admin sessions *)

LEMMA AdminSessionRevoked ==
  ASSUME NEW r \in AdminSessionRow
  PROVE  /\ Sql!Assign(r, [revoked |-> TRUE]) = [r EXCEPT !.revoked = TRUE]
         /\ [r EXCEPT !.revoked = TRUE] \in AdminSessionRow
         /\ [r EXCEPT !.revoked = TRUE].id = r.id
         /\ [r EXCEPT !.revoked = TRUE].adminId = r.adminId
<1>1. r = [f \in DOMAIN r |-> r[f]]
  BY DEF AdminSessionRow
<1>2. [r EXCEPT !.revoked = TRUE] \in AdminSessionRow
  BY DEF AdminSessionRow
<1> QED BY <1>1, <1>2, AssignRevoked DEF AdminSessionRow

LEMMA CreateAdminSessionStep ==
  ASSUME IInv, NEW a \in held["admins"], CreateAdminSession(a)
  PROVE  IInv'
<1> USE DEF IInv
<1> DEFINE row == [id |-> Fresh("adminSessions"), adminId |-> a,
                   expiresAt |-> now + Life, revoked |-> FALSE]
           X == sql.adminSessions \cup {row}
<1>1. a \in Sql!Ids(sql.admins) /\ sql.adminSessions = mem.adminSessions
  BY DEF AdminInv, AdminSessionsInv
<1>2. \A s \in X : s.adminId \in Sql!Ids(sql.admins)
  BY <1>1 DEF AdminSessionsInv
<1> HIDE DEF X
<1>3. Sql!createAdminSession(sql, Fresh("adminSessions"), a, now + Life)
        = [sql EXCEPT !.adminSessions = X]
  BY <1>2, StoredAdminSessions DEF Sql!createAdminSession, X
<1>4. Mem!createAdminSession(mem, Fresh("adminSessions"), a, now + Life)
        = [mem EXCEPT !.adminSessions = X]
  BY <1>1 DEF Mem!createAdminSession, X
<1>5. "adminSessions" \in SqlTables \cap MemTables \cap Tables
  BY DEF SqlTables, MemTables, Tables
<1>6. /\ sql' = [sql EXCEPT !.adminSessions = X] /\ mem' = [mem EXCEPT !.adminSessions = X]
      /\ CountersOnly({"adminSessions"})
      /\ made["adminSessions"] \in Nat
      /\ made'["adminSessions"] = made["adminSessions"] + 1
      /\ Fresh("adminSessions") = made["adminSessions"] + 1
  BY <1>3, <1>4, <1>5, MakesKeeps DEF CreateAdminSession
<1>7. Only({"adminSessions"}) /\ sql'.adminSessions = X /\ mem'.adminSessions = X
  BY <1>5, <1>6, OneTable
<1>8. a \in Nat
  BY <1>1 DEF AdminInv, AdminRow, Sql!Ids
<1>9. row.id = made["adminSessions"] + 1 /\ row \in AdminSessionRow
  BY <1>6, <1>8 DEF AdminSessionRow, Shapes, Life
<1> HIDE DEF row
<1>10. Numbered(mem.adminSessions, "adminSessions")'
  BY <1>1, <1>6, <1>7, <1>9, AddedNumbered DEF AdminSessionsInv, Numbered, X
<1>11. sql'.admins = sql.admins
  BY <1>7 DEF Only, SqlOnly, SqlTables
<1>12. \A s \in sql'.adminSessions :
         s \in AdminSessionRow /\ s.adminId \in Sql!Ids(sql.admins)'
  BY <1>2, <1>7, <1>9, <1>11 DEF AdminSessionsInv, Sql!Ids, X
<1>13. AdminSessionsInv'
  BY <1>7, <1>10, <1>12 DEF AdminSessionsInv
<1> QED BY <1>7, <1>13, OthersStand

LEMMA RevokeAdminSessionStep ==
  ASSUME IInv, NEW s, RevokeAdminSession(s)
  PROVE  IInv'
<1> USE DEF IInv
<1> DEFINE g == [r \in sql.adminSessions |->
                   IF r.id = s THEN [r EXCEPT !.revoked = TRUE] ELSE r]
           X == {g[r] : r \in sql.adminSessions}
<1>1. /\ sql.adminSessions = mem.adminSessions
      /\ \A r \in sql.adminSessions : r \in AdminSessionRow
  BY DEF AdminSessionsInv
<1>2. \A r \in sql.adminSessions : /\ g[r] \in AdminSessionRow /\ g[r].id = r.id
                                   /\ g[r].adminId = r.adminId
  BY <1>1, AdminSessionRevoked
<1>3. Sql!revokeAdminSession(sql, s) = [sql EXCEPT !.adminSessions = X]
  BY DEF Sql!revokeAdminSession
<1>4. \A r \in sql.adminSessions :
        (IF r.id = s THEN Sql!Assign(r, [revoked |-> TRUE]) ELSE r) = g[r]
  BY <1>1, AdminSessionRevoked
<1> HIDE DEF g
<1>5. {IF r.id = s THEN Sql!Assign(r, [revoked |-> TRUE]) ELSE r
         : r \in sql.adminSessions} = X
  BY <1>4
<1>6. Mem!Patch(mem.adminSessions, s, [revoked |-> TRUE]) = X
  BY <1>1, <1>5, PatchIs
<1>7. Mem!revokeAdminSession(mem, s) = [mem EXCEPT !.adminSessions = X]
  BY <1>6 DEF Mem!revokeAdminSession
<1>8. "adminSessions" \in SqlTables \cap MemTables
  BY DEF SqlTables, MemTables
<1>9. /\ sql' = [sql EXCEPT !.adminSessions = X] /\ mem' = [mem EXCEPT !.adminSessions = X]
      /\ CountersOnly({})
  BY <1>3, <1>7, WritesKeeps DEF RevokeAdminSession
<1>10. Numbered(mem.adminSessions, "adminSessions")
  BY DEF AdminSessionsInv
<1>11. Numbered(X, "adminSessions")
  BY <1>1, <1>2, <1>10, RewrittenNumbered
<1>12. \A q \in X : q \in AdminSessionRow /\ q.adminId \in Sql!Ids(sql.admins)
  BY <1>2 DEF AdminSessionsInv
<1> HIDE DEF X
<1>13. Only({"adminSessions"}) /\ sql'.adminSessions = X /\ mem'.adminSessions = X
  BY <1>8, <1>9, OneTable
<1>14. sql'.admins = sql.admins /\ made'["adminSessions"] = made["adminSessions"]
  BY <1>9, <1>13 DEF Only, SqlOnly, SqlTables, CountersOnly, Tables
<1>15. AdminSessionsInv'
  BY <1>11, <1>12, <1>13, <1>14 DEF AdminSessionsInv, Numbered, Sql!Ids
<1> QED BY <1>13, <1>15, OthersStand

LEMMA CleanupStep ==
  ASSUME IInv, CleanupExpiredAdminSessions
  PROVE  IInv'
<1> USE DEF IInv
<1> DEFINE X == {s \in sql.adminSessions : ~(s.expiresAt < now \/ s.revoked)}
<1>1. sql.adminSessions = mem.adminSessions
  BY DEF AdminSessionsInv
<1>2. /\ Sql!cleanupExpiredAdminSessions(sql, now) = [sql EXCEPT !.adminSessions = X]
      /\ Mem!cleanupExpiredAdminSessions(mem, now) = [mem EXCEPT !.adminSessions = X]
  <2>1. mem.adminSessions \ {s \in mem.adminSessions : s.expiresAt < now \/ s.revoked} = X
    BY <1>1
  <2> QED BY <2>1 DEF Sql!cleanupExpiredAdminSessions, Mem!cleanupExpiredAdminSessions
<1>3. X \subseteq sql.adminSessions
  OBVIOUS
<1> HIDE DEF X
<1>4. /\ sql' = [sql EXCEPT !.adminSessions = X] /\ mem' = [mem EXCEPT !.adminSessions = X]
      /\ CountersOnly({})
  BY <1>2, WritesKeeps DEF CleanupExpiredAdminSessions
<1>5. "adminSessions" \in SqlTables \cap MemTables
  BY DEF SqlTables, MemTables
<1>6. Only({"adminSessions"}) /\ sql'.adminSessions = X /\ mem'.adminSessions = X
  BY <1>4, <1>5, OneTable
<1>7. sql'.admins = sql.admins /\ made'["adminSessions"] = made["adminSessions"]
  BY <1>4, <1>6 DEF Only, SqlOnly, SqlTables, CountersOnly, Tables
<1>8. AdminSessionsInv'
  BY <1>1, <1>3, <1>6, <1>7 DEF AdminSessionsInv, Numbered, Sql!Ids
<1> QED BY <1>6, <1>8, OthersStand

----------------------------------------------------------------------------
(* The admin: a table of at most one row, and a variable *)

LEMMA AdminIs ==
  ASSUME AdminInv
  PROVE  Sql!getServerAdmin(sql) = mem.admin
<1>1. CASE mem.admin = NULL
  BY <1>1, OneIs DEF AdminInv, Sql!getServerAdmin
<1>2. CASE mem.admin # NULL
  BY <1>2, OneIs DEF AdminInv, Sql!getServerAdmin
<1> QED BY <1>1, <1>2

LEMMA CreateServerAdminStep ==
  ASSUME IInv, CreateServerAdmin
  PROVE  IInv'
<1> USE DEF IInv
<1> DEFINE row == [id |-> Fresh("admins"), pinHash |-> "n1", passwordHash |-> NULL,
                   setupPinExpiresAt |-> now + Life]
<1>1. mem.admin = NULL /\ sql.admins = {} /\ held["admins"] = {}
  BY AdminIs DEF CreateServerAdmin, AdminInv, Sql!Ids
<1>2. /\ sql' = Sql!createServerAdmin(sql, Fresh("admins"), "n1", now + Life)
      /\ mem' = Mem!createServerAdmin(mem, Fresh("admins"), "n1", now + Life)
      /\ CountersOnly({"admins"})
      /\ made["admins"] \in Nat /\ Fresh("admins") = made["admins"] + 1
      /\ held'["admins"] \subseteq held["admins"] \cup {Fresh("admins")}
  BY MakesKeeps DEF CreateServerAdmin, Tables
<1>3. row.id = Fresh("admins") /\ row \in AdminRow
  BY <1>2 DEF AdminRow, Texts, Shapes, Life
<1>4. sql' = [sql EXCEPT !.admins = {row}] /\ mem' = [mem EXCEPT !.admin = row]
  BY <1>1, <1>2 DEF Sql!createServerAdmin, Mem!createServerAdmin
<1> HIDE DEF row
<1>5. SqlOnly({"admins"}) /\ sql'.admins = {row}
  BY <1>4, SqlPut DEF SqlTables
<1>6. MemOnly({"admin"}) /\ mem'.admin = row
  BY <1>4, MemPut DEF SqlTables, MemTables
<1>7. Only({"admins", "admin"})
  BY <1>2, <1>5, <1>6 DEF Only, SqlOnly, MemOnly, CountersOnly
<1>8. AdminInv'
  BY <1>1, <1>2, <1>3, <1>5, <1>6, StorageAssumption DEF AdminInv, Sql!Ids
<1>9. Grows("admins")
  BY <1>1 DEF Grows, Sql!Ids
<1> QED BY <1>7, <1>8, <1>9, OthersStand

LEMMA AdminChanged ==
  ASSUME NEW r \in AdminRow, NEW change \in AdminChanges
  PROVE  Sql!Assign(r, change) \in AdminRow /\ Sql!Assign(r, change).id = r.id
<1>1. CASE change = [pinHash |-> NULL, passwordHash |-> "n1", setupPinExpiresAt |-> NULL]
  <2>1. Sql!Assign(r, change) = [id |-> r.id, pinHash |-> NULL, passwordHash |-> "n1",
                                 setupPinExpiresAt |-> NULL]
    BY <1>1 DEF Sql!Assign, AdminRow
  <2> QED BY <2>1 DEF AdminRow, Texts
<1>2. CASE change = [pinHash |-> "n1", setupPinExpiresAt |-> Life]
  <2>1. Sql!Assign(r, change) = [id |-> r.id, pinHash |-> "n1",
                                 passwordHash |-> r.passwordHash,
                                 setupPinExpiresAt |-> Life]
    BY <1>2 DEF Sql!Assign, AdminRow
  <2> QED BY <2>1 DEF AdminRow, Texts, Life
<1>3. CASE change = [passwordHash |-> NULL]
  <2>1. Sql!Assign(r, change) = [id |-> r.id, pinHash |-> r.pinHash,
                                 passwordHash |-> NULL,
                                 setupPinExpiresAt |-> r.setupPinExpiresAt]
    BY <1>3 DEF Sql!Assign, AdminRow
  <2> QED BY <2>1 DEF AdminRow, Texts
<1> QED BY <1>1, <1>2, <1>3 DEF AdminChanges

LEMMA UpdateServerAdminStep ==
  ASSUME IInv, NEW a, NEW change \in AdminChanges, UpdateServerAdmin(a, change)
  PROVE  IInv'
<1> USE DEF IInv
<1> DEFINE new(r) == IF r.id = a THEN Sql!Assign(r, change) ELSE r
           row == new(mem.admin)
           X == IF mem.admin = NULL THEN {} ELSE {row}
           Y == IF mem.admin = NULL THEN NULL ELSE row
<1>1. /\ sql' = Sql!updateServerAdmin(sql, a, change)
      /\ mem' = Mem!updateServerAdmin(mem, a, change)
      /\ CountersOnly({})
  BY WritesKeeps DEF UpdateServerAdmin
<1>2. mem.admin # NULL => row \in AdminRow /\ row.id = mem.admin.id
  BY AdminChanged DEF AdminInv
<1>3. sql' = [sql EXCEPT !.admins = X]
  <2>1. {new(r) : r \in sql.admins} = X
    BY DEF AdminInv
  <2> QED BY <1>1, <2>1 DEF Sql!updateServerAdmin
<1>4. mem' = [mem EXCEPT !.admin = Y] \/ (mem' = mem /\ Y = mem.admin)
  <2>1. CASE mem.admin = NULL
    BY <1>1, <2>1 DEF Mem!updateServerAdmin
  <2>2. CASE mem.admin # NULL
    <3>1. Mem!Patch({mem.admin}, a, change) = {row}
      BY PatchIs
    <3>2. row.id \in Nat
      BY <1>2, <2>2 DEF AdminRow
    <3> HIDE DEF row
    <3>3. Mem!First({row}) = row
      BY <3>2, FirstIs
    <3> QED BY <1>1, <2>2, <3>1, <3>3 DEF Mem!updateServerAdmin
  <2> QED BY <2>1, <2>2
<1> HIDE DEF row
<1>5. SqlOnly({"admins"}) /\ sql'.admins = X
  BY <1>3, SqlPut DEF SqlTables
<1>6. MemOnly({"admin"}) /\ mem'.admin = Y
  <2>1. "admin" \in MemTables
    BY DEF MemTables
  <2> HIDE DEF Y
  <2> QED BY <1>4, <2>1, MemPut, MemSame
<1>7. Only({"admins", "admin"})
  BY <1>1, <1>5, <1>6 DEF Only, SqlOnly, MemOnly, CountersOnly
<1>8. Sql!Ids(X) = Sql!Ids(sql.admins)
  BY <1>2 DEF AdminInv, Sql!Ids
<1>9. Grows("admins")
  BY <1>5, <1>8 DEF Grows
<1>10. held'["admins"] \subseteq Sql!Ids(X)
  BY <1>1, <1>8 DEF AdminInv, CountersOnly, Tables
<1>11. mem'.admin \in AdminRow \cup {NULL}
       /\ sql'.admins = IF mem'.admin = NULL THEN {} ELSE {mem'.admin}
  BY <1>2, <1>5, <1>6, StorageAssumption
<1>12. AdminInv'
  BY <1>5, <1>10, <1>11 DEF AdminInv, Sql!Ids
<1> QED BY <1>7, <1>9, <1>12, OthersStand

----------------------------------------------------------------------------
(* Accounts *)

LEMMA CreatePlayerAccountStep ==
  ASSUME IInv, NEW u \in Names, CreatePlayerAccount(u)
  PROVE  IInv'
<1> USE DEF IInv
<1> DEFINE row == [id |-> Fresh("accounts"), username |-> u, passwordHash |-> "n1",
                   mustChangePassword |-> FALSE, lastLoginAt |-> NULL]
           X == sql.accounts \cup {row}
           Y == mem.accounts \cup {row}
           Free == \A a, b \in X : a.username = b.username => a = b
           Z == IF Free THEN X ELSE sql.accounts
<1>1. /\ sql' = Sql!createPlayerAccount(sql, Fresh("accounts"), u, "n1")
      /\ mem' = Mem!createPlayerAccount(mem, Fresh("accounts"), u, "n1")
      /\ CountersOnly({"accounts"})
      /\ made["accounts"] \in Nat /\ made'["accounts"] = made["accounts"] + 1
      /\ Fresh("accounts") = made["accounts"] + 1
      /\ held'["accounts"] = IF sql' = sql THEN held["accounts"]
                             ELSE held["accounts"] \cup {Fresh("accounts")}
  BY MakesKeeps DEF CreatePlayerAccount, Tables
<1>2. row.id = made["accounts"] + 1 /\ row.username = u /\ row \in AccountRow
  BY <1>1 DEF AccountRow, Texts
<1>3. mem' = [mem EXCEPT !.accounts = Y]
  BY <1>1 DEF Mem!createPlayerAccount
<1>4. Sql!createPlayerAccount(sql, Fresh("accounts"), u, "n1")
        = Sql!Stored(sql, [sql EXCEPT !.accounts = X])
  BY DEF Sql!createPlayerAccount
<1> HIDE DEF row
<1>5. Sql!Ids(sql.accounts) \subseteq Sql!Ids(X)
  BY DEF Sql!Ids
<1>6. sql' = IF Free THEN [sql EXCEPT !.accounts = X] ELSE sql
  BY <1>1, <1>4, <1>5, StoredAccounts
<1>7. sql' = [sql EXCEPT !.accounts = Z] \/ (sql' = sql /\ Z = sql.accounts)
  BY <1>6
<1>8. "accounts" \in SqlTables \cap MemTables
  BY DEF SqlTables, MemTables
<1>9. Only({"accounts"}) /\ sql'.accounts = Z /\ mem'.accounts = Y
  <2> HIDE DEF Z, Y, Free
  <2> QED BY <1>1, <1>3, <1>7, <1>8, OneTable
<1>10. /\ \A r \in Y : r.id \in 1..made'["accounts"]
       /\ \A r, q \in Y : r.id = q.id => r = q
  BY <1>1, <1>2, AddedNumbered DEF AccountsInv
<1>11. held'["accounts"] \subseteq Sql!Ids(Z)
  <2>1. held["accounts"] \subseteq Sql!Ids(sql.accounts)
    BY DEF AccountsInv
  <2>2. CASE Free
    BY <1>1, <1>2, <2>1, <2>2 DEF Sql!Ids
  <2>3. CASE ~Free
    BY <1>1, <1>6, <2>1, <2>3
  <2> QED BY <2>2, <2>3
<1>12. \A a, b \in Z : a.username = b.username => a = b
  BY DEF AccountsInv
<1>13. ASSUME NEW a \in Y \ Z
       PROVE  \E b \in Z : b.username = a.username /\ b.id < a.id
  <2>1. CASE a \in mem.accounts
    BY <1>13, <2>1 DEF AccountsInv
  <2>2. CASE a = row
    <3>1. ~Free
      BY <1>13, <2>2
    <3>2. PICK p \in X, q \in X : p.username = q.username /\ p # q
      BY <3>1
    <3>3. PICK b \in sql.accounts : b.username = u
      BY <1>2, <3>2 DEF AccountsInv
    <3>4. b.id < row.id
      BY <1>2, <1>1, <3>3 DEF AccountsInv, Numbered
    <3> QED BY <1>2, <2>2, <3>1, <3>3, <3>4
  <2> QED BY <1>13, <2>1, <2>2
<1>14. Z \subseteq Y /\ Y \subseteq AccountRow
  BY <1>2 DEF AccountsInv
<1> HIDE DEF Z, Y, Free
<1>15. AccountsInv'
  <2>1. mem'.accounts \subseteq AccountRow /\ Numbered(mem.accounts, "accounts")'
    BY <1>9, <1>10, <1>14 DEF Numbered
  <2>2. held'["accounts"] \subseteq Sql!Ids(sql.accounts)'
    BY <1>9, <1>11 DEF Sql!Ids
  <2> QED BY <1>9, <1>12, <1>13, <1>14, <2>1, <2>2 DEF AccountsInv
<1>16. Grows("accounts")
  BY <1>5, <1>9 DEF Grows, Z
<1> QED BY <1>9, <1>15, <1>16, OthersStand

\* A call that rewrites accounts and leaves id and name alone.
LEMMA AccountsRewritten ==
  ASSUME IInv, NEW g,
         \A r \in mem.accounts : /\ g[r] \in AccountRow
                                 /\ g[r].id = r.id /\ g[r].username = r.username,
         CountersOnly({}),
         sql' = [sql EXCEPT !.accounts = {g[r] : r \in sql.accounts}],
         mem' = [mem EXCEPT !.accounts = {g[r] : r \in mem.accounts}]
  PROVE  IInv'
<1> USE DEF IInv
<1> DEFINE X == {g[r] : r \in sql.accounts}
           Y == {g[r] : r \in mem.accounts}
<1>1. "accounts" \in SqlTables \cap MemTables
  BY DEF SqlTables, MemTables
<1>2. Only({"accounts"}) /\ sql'.accounts = X /\ mem'.accounts = Y
  <2> HIDE DEF X, Y
  <2> QED BY <1>1, OneTable DEF X, Y
<1>3. Numbered(Y, "accounts")
  BY RewrittenNumbered DEF AccountsInv
<1>4. \A r \in sql.accounts : r \in mem.accounts
  BY DEF AccountsInv
<1>5. Sql!Ids(X) = Sql!Ids(sql.accounts)
  BY <1>4, RewrittenIds
<1>6. \A a, b \in X : a.username = b.username => a = b
  BY <1>4 DEF AccountsInv
<1>7. ASSUME NEW a \in Y \ X
      PROVE  \E b \in X : b.username = a.username /\ b.id < a.id
  <2>1. PICK r \in mem.accounts : a = g[r]
    BY <1>7
  <2>2. r \notin sql.accounts
    BY <1>7, <2>1
  <2>3. PICK b \in sql.accounts : b.username = r.username /\ b.id < r.id
    BY <2>2 DEF AccountsInv
  <2> QED BY <1>4, <2>1, <2>3
<1>8. X \subseteq Y /\ Y \subseteq AccountRow
  BY <1>4
<1>9. made'["accounts"] = made["accounts"] /\ held'["accounts"] = held["accounts"]
  BY DEF CountersOnly, Tables
<1> HIDE DEF X, Y
<1>10. AccountsInv'
  <2>1. mem'.accounts \subseteq AccountRow /\ Numbered(mem.accounts, "accounts")'
    BY <1>2, <1>3, <1>8, <1>9 DEF Numbered
  <2>2. held'["accounts"] \subseteq Sql!Ids(sql.accounts)'
    BY <1>2, <1>5, <1>9 DEF Sql!Ids, AccountsInv
  <2> QED BY <1>2, <1>6, <1>7, <1>8, <2>1, <2>2 DEF AccountsInv
<1>11. Grows("accounts")
  BY <1>2, <1>5 DEF Grows
<1> QED BY <1>2, <1>10, <1>11, OthersStand

LEMMA LoginSeen ==
  ASSUME NEW r \in AccountRow, NEW x \in Nat
  PROVE  /\ Sql!Assign(r, [lastLoginAt |-> x]) = [r EXCEPT !.lastLoginAt = x]
         /\ [r EXCEPT !.lastLoginAt = x] \in AccountRow
         /\ [r EXCEPT !.lastLoginAt = x].id = r.id
         /\ [r EXCEPT !.lastLoginAt = x].username = r.username
BY DEF Sql!Assign, AccountRow

LEMMA UpdateLastLoginStep ==
  ASSUME IInv, NEW a, UpdatePlayerAccountLastLogin(a)
  PROVE  IInv'
<1> USE DEF IInv
<1> DEFINE g == [r \in mem.accounts |->
                   IF r.id = a THEN [r EXCEPT !.lastLoginAt = now] ELSE r]
<1>1. /\ sql' = Sql!updatePlayerAccountLastLogin(sql, a, now)
      /\ mem' = Mem!updatePlayerAccountLastLogin(mem, a, now)
      /\ CountersOnly({})
  BY WritesKeeps DEF UpdatePlayerAccountLastLogin
<1>2. now \in Nat /\ \A r \in mem.accounts : r \in AccountRow
  BY DEF Shapes, AccountsInv
<1>3. \A r \in mem.accounts : /\ g[r] \in AccountRow
                              /\ g[r].id = r.id /\ g[r].username = r.username
  BY <1>2, LoginSeen
<1>4. \A r \in mem.accounts :
        (IF r.id = a THEN Sql!Assign(r, [lastLoginAt |-> now]) ELSE r) = g[r]
  BY <1>2, LoginSeen
<1> DEFINE new(r) == IF r.id = a THEN [r EXCEPT !.lastLoginAt = now] ELSE r
<1>5. \A r \in sql.accounts : new(r) = g[r]
  BY DEF AccountsInv
<1> HIDE DEF g
<1>6. sql' = [sql EXCEPT !.accounts = {g[r] : r \in sql.accounts}]
  <2>1. sql' = [sql EXCEPT !.accounts = {new(r) : r \in sql.accounts}]
    BY <1>1 DEF Sql!updatePlayerAccountLastLogin
  <2> HIDE DEF new
  <2>2. {new(r) : r \in sql.accounts} = {g[r] : r \in sql.accounts}
    BY <1>5
  <2> QED BY <2>1, <2>2
<1>7. mem' = [mem EXCEPT !.accounts = {g[r] : r \in mem.accounts}]
  <2>1. {IF r.id = a THEN Sql!Assign(r, [lastLoginAt |-> now]) ELSE r : r \in mem.accounts}
          = {g[r] : r \in mem.accounts}
    BY <1>4
  <2> QED BY <1>1, <2>1, PatchIs DEF Mem!updatePlayerAccountLastLogin
<1> QED BY <1>1, <1>3, <1>6, <1>7, AccountsRewritten

\* The row after a change of the flag and, if one is given, of the hash.
Flagged(r, flag, hash) ==
  [r EXCEPT !.mustChangePassword = flag,
            !.passwordHash = IF hash = NULL THEN @ ELSE hash]

LEMMA FlaggedIs ==
  ASSUME NEW r \in AccountRow, NEW flag \in BOOLEAN, NEW hash \in Texts
  PROVE  /\ Flagged(r, flag, hash) \in AccountRow
         /\ Flagged(r, flag, hash).id = r.id /\ Flagged(r, flag, hash).username = r.username
         /\ Sql!Assign(r, IF hash = NULL THEN [mustChangePassword |-> flag]
                          ELSE [mustChangePassword |-> flag, passwordHash |-> hash])
              = Flagged(r, flag, hash)
<1> DEFINE d == IF hash = NULL THEN [mustChangePassword |-> flag]
                ELSE [mustChangePassword |-> flag, passwordHash |-> hash]
           q == Flagged(r, flag, hash)
           cols == {"id", "username", "passwordHash", "mustChangePassword", "lastLoginAt"}
<1>1. DOMAIN r = cols /\ r = [f \in cols |-> r[f]]
  BY DEF AccountRow
<1>2. q = [f \in cols |-> CASE f = "mustChangePassword" -> flag
                            [] f = "passwordHash" -> IF hash = NULL THEN r[f] ELSE hash
                            [] OTHER -> r[f]]
  BY <1>1 DEF Flagged
<1>3. /\ DOMAIN d = {"mustChangePassword"} \cup (IF hash = NULL THEN {} ELSE {"passwordHash"})
      /\ d.mustChangePassword = flag /\ (hash # NULL => d.passwordHash = hash)
  OBVIOUS
<1> HIDE DEF d, q
<1>4. /\ DOMAIN q = cols /\ q = [f \in cols |-> q[f]]
      /\ q.id = r.id /\ q.username = r.username /\ q.lastLoginAt = r.lastLoginAt
      /\ q.passwordHash = IF hash = NULL THEN r.passwordHash ELSE hash
      /\ q.mustChangePassword = flag
  BY <1>2
<1>5. q \in AccountRow
  BY <1>4 DEF AccountRow
<1>6. Sql!Assign(r, d) = [f \in cols |-> IF f \in DOMAIN d THEN d[f] ELSE r[f]]
  BY <1>1 DEF Sql!Assign
<1>7. \A f \in cols : (IF f \in DOMAIN d THEN d[f] ELSE r[f]) = q[f]
  BY <1>3, <1>4
<1>8. Sql!Assign(r, d) = q
  BY <1>4, <1>6, <1>7
<1> QED BY <1>4, <1>5, <1>8 DEF d, q

LEMMA SetMustChangeStep ==
  ASSUME IInv, NEW a, NEW flag \in BOOLEAN, NEW hash \in Texts,
         SetPlayerAccountMustChangePassword(a, flag, hash)
  PROVE  IInv'
<1> USE DEF IInv
<1> DEFINE g == [r \in mem.accounts |-> IF r.id = a THEN Flagged(r, flag, hash) ELSE r]
           d == IF hash = NULL THEN [mustChangePassword |-> flag]
                ELSE [mustChangePassword |-> flag, passwordHash |-> hash]
<1>1. /\ sql' = Sql!setPlayerAccountMustChangePassword(sql, a, flag, hash)
      /\ mem' = Mem!setPlayerAccountMustChangePassword(mem, a, flag, hash)
      /\ CountersOnly({})
  BY WritesKeeps DEF SetPlayerAccountMustChangePassword
<1>2. \A r \in mem.accounts : r \in AccountRow
  BY DEF AccountsInv
<1>3. \A r \in mem.accounts : /\ g[r] \in AccountRow
                              /\ g[r].id = r.id /\ g[r].username = r.username
  <2> SUFFICES ASSUME NEW r \in mem.accounts
               PROVE  /\ g[r] \in AccountRow
                      /\ g[r].id = r.id /\ g[r].username = r.username
    OBVIOUS
  <2>1. r \in AccountRow /\ g[r] = IF r.id = a THEN Flagged(r, flag, hash) ELSE r
    BY <1>2
  <2> HIDE DEF g, IInv
  <2>2. /\ Flagged(r, flag, hash) \in AccountRow
        /\ Flagged(r, flag, hash).id = r.id
        /\ Flagged(r, flag, hash).username = r.username
    BY <2>1, FlaggedIs, Zenon
  <2> QED BY <2>1, <2>2
<1>4. \A r \in mem.accounts : (IF r.id = a THEN Sql!Assign(r, d) ELSE r) = g[r]
  BY <1>2, FlaggedIs
<1>5. \A r \in sql.accounts : (IF r.id # a THEN r ELSE Flagged(r, flag, hash)) = g[r]
  BY DEF AccountsInv
<1> HIDE DEF g
<1>6. sql' = [sql EXCEPT !.accounts = {g[r] : r \in sql.accounts}]
  <2>1. {IF r.id # a THEN r ELSE Flagged(r, flag, hash) : r \in sql.accounts}
          = {g[r] : r \in sql.accounts}
    BY <1>5
  <2> QED BY <1>1, <2>1 DEF Sql!setPlayerAccountMustChangePassword, Flagged
<1>7. mem' = [mem EXCEPT !.accounts = {g[r] : r \in mem.accounts}]
  <2>1. mem' = [mem EXCEPT !.accounts = Mem!Patch(mem.accounts, a, d)]
    BY <1>1 DEF Mem!setPlayerAccountMustChangePassword
  <2> HIDE DEF d
  <2>2. {IF r.id = a THEN Sql!Assign(r, d) ELSE r : r \in mem.accounts}
          = {g[r] : r \in mem.accounts}
    BY <1>4
  <2> QED BY <2>1, <2>2, PatchIs
<1> QED BY <1>1, <1>3, <1>6, <1>7, AccountsRewritten

----------------------------------------------------------------------------
(* Entities *)

LEMMA AtIs ==
  ASSUME NEW S, NEW id
  PROVE  IF \E r \in S : r.id = id THEN Mem!At(S, id) \in S /\ Mem!At(S, id).id = id
                                   ELSE Mem!At(S, id) = NULL
BY DEF Mem!At

\* The Map of the campaign has the entity, or there is none of that id in it.
LEMMA EntityAt ==
  ASSUME IInv, NEW c, NEW e
  PROVE  LET x == Mem!getEntity(mem, c, e)
         IN  \/ x = NULL /\ \A r \in mem.entities : ~(r.id = e /\ r.campaignId = c)
             \/ x \in mem.entities /\ x # NULL /\ x.id = e /\ x.campaignId = c
<1> DEFINE S == {r \in mem.entities : r.campaignId = c}
<1>1. Mem!getEntity(mem, c, e) = Mem!At(S, e)
  BY DEF Mem!getEntity, Mem!listEntities
<1>2. \A r \in S : r # NULL
  BY StorageAssumption DEF IInv, EntitiesInv
<1>3. CASE \E r \in S : r.id = e
  <2>1. Mem!At(S, e) \in S /\ Mem!At(S, e).id = e
    BY <1>3, AtIs
  <2> QED BY <1>1, <1>2, <2>1
<1>4. CASE ~ \E r \in S : r.id = e
  <2>1. Mem!At(S, e) = NULL
    BY <1>4, AtIs
  <2> QED BY <1>1, <1>4, <2>1
<1> QED BY <1>3, <1>4

LEMMA CreateEntityStep ==
  ASSUME IInv, NEW c \in held["campaigns"], NEW type \in Types, CreateEntity(c, type)
  PROVE  IInv'
<1> USE DEF IInv
<1> DEFINE row == [id |-> Fresh("entities"), campaignId |-> c, type |-> type, data |-> "n1"]
           X == sql.entities \cup {row}
           Y == mem.entities \cup {row}
           Z == IF c \in Living THEN X ELSE sql.entities
<1>1. /\ sql' = Sql!createEntity(sql, c, Fresh("entities"), type, "n1")
      /\ mem' = Mem!createEntity(mem, c, Fresh("entities"), type, "n1")
      /\ CountersOnly({"entities"})
      /\ made["entities"] \in Nat /\ made'["entities"] = made["entities"] + 1
      /\ Fresh("entities") = made["entities"] + 1
  BY MakesKeeps DEF CreateEntity, Tables
<1>2. c \in 1..made["campaigns"]
  BY DEF Shapes, Tables
<1>3. row.id = made["entities"] + 1 /\ row.campaignId = c /\ row \in EntityRow
  BY <1>1, <1>2 DEF EntityRow, Texts
<1>4. mem' = [mem EXCEPT !.entities = Y]
  BY <1>1 DEF Mem!createEntity
<1>5. sql' = Sql!Stored(sql, [sql EXCEPT !.entities = X])
  BY <1>1 DEF Sql!createEntity
<1> HIDE DEF row
<1>6. (\A e \in X : e.campaignId \in Living) <=> c \in Living
  BY <1>3 DEF EntitiesInv
<1>7. sql' = [sql EXCEPT !.entities = Z] \/ (sql' = sql /\ Z = sql.entities)
  BY <1>5, <1>6, StoredEntities
<1>8. "entities" \in SqlTables \cap MemTables
  BY DEF SqlTables, MemTables
<1>9. Only({"entities"}) /\ sql'.entities = Z /\ mem'.entities = Y
  <2> HIDE DEF Z, Y
  <2> QED BY <1>1, <1>4, <1>7, <1>8, OneTable
<1>10. Living' = Living
  BY <1>9, CampaignsStand
<1>11. made'["campaigns"] = made["campaigns"]
  BY <1>1 DEF CountersOnly, Tables
<1>12. /\ \A r \in Y : r.id \in 1..made'["entities"]
       /\ \A r, q \in Y : r.id = q.id => r = q
  BY <1>1, <1>3, AddedNumbered DEF EntitiesInv
<1>13. Z = {e \in Y : e.campaignId \in Living}
  BY <1>3 DEF EntitiesInv
<1>14. Y \subseteq EntityRow /\ \A e \in Y : e.campaignId \in 1..made["campaigns"]
  BY <1>2, <1>3 DEF EntitiesInv
<1> HIDE DEF Z, Y
<1>15. EntitiesInv'
  BY <1>9, <1>10, <1>11, <1>12, <1>13, <1>14 DEF EntitiesInv, Numbered
<1> QED BY <1>9, <1>15, OthersStand

LEMMA UpdateEntityStep ==
  ASSUME IInv, NEW c, NEW e, NEW data \in Texts, UpdateEntity(c, e, data)
  PROVE  IInv'
<1> USE DEF IInv
<1> DEFINE new(r) == IF r.id = e /\ r.campaignId = c THEN [r EXCEPT !.data = data] ELSE r
           g == [r \in mem.entities |-> new(r)]
           d == [data |-> data]
           X == {g[r] : r \in sql.entities}
           Y == {g[r] : r \in mem.entities}
<1>1. /\ sql' = Sql!updateEntity(sql, c, e, data) /\ mem' = Mem!updateEntity(mem, c, e, data)
      /\ CountersOnly({})
  BY WritesKeeps DEF UpdateEntity
<1>2. \A r \in mem.entities : r \in EntityRow
  BY DEF EntitiesInv
<1>3. \A r \in mem.entities : /\ g[r] \in EntityRow
                              /\ g[r].id = r.id /\ g[r].campaignId = r.campaignId
  BY <1>2 DEF EntityRow
<1>4. \A r \in EntityRow : Sql!Assign(r, d) = [r EXCEPT !.data = data]
  BY DEF EntityRow, Sql!Assign
<1>5. \A r \in mem.entities : g[r] = new(r)
  OBVIOUS
<1>6. \A r \in sql.entities : r \in mem.entities
  BY DEF EntitiesInv
<1>7. sql' = [sql EXCEPT !.entities = X]
  <2>1. sql' = [sql EXCEPT !.entities = {new(r) : r \in sql.entities}]
    BY <1>1 DEF Sql!updateEntity
  <2> HIDE DEF new, g
  <2>2. {new(r) : r \in sql.entities} = X
    BY <1>5, <1>6
  <2> QED BY <2>1, <2>2
<1>8. mem' = [mem EXCEPT !.entities = Y] \/ (mem' = mem /\ Y = mem.entities)
  <2>1. CASE Mem!getEntity(mem, c, e) = NULL
    <3>1. \A r \in mem.entities : ~(r.id = e /\ r.campaignId = c)
      BY <2>1, EntityAt
    <3>2. \A r \in mem.entities : g[r] = r
      BY <3>1
    <3> HIDE DEF g
    <3>3. Y = mem.entities
      BY <3>2
    <3> QED BY <1>1, <2>1, <3>3 DEF Mem!updateEntity
  <2>2. CASE Mem!getEntity(mem, c, e) # NULL
    <3>1. PICK x \in mem.entities : x.id = e /\ x.campaignId = c
      BY <2>2, EntityAt
    <3>2. \A r \in mem.entities : r.id = e => r = x
      BY <3>1 DEF EntitiesInv, Numbered
    <3>3. \A r \in mem.entities : (IF r.id = e THEN Sql!Assign(r, d) ELSE r) = g[r]
      BY <1>2, <1>4, <3>1, <3>2
    <3>4. mem' = [mem EXCEPT !.entities = Mem!Patch(mem.entities, e, d)]
      BY <1>1, <2>2 DEF Mem!updateEntity
    <3> HIDE DEF g, d
    <3>5. {IF r.id = e THEN Sql!Assign(r, d) ELSE r : r \in mem.entities} = Y
      BY <3>3
    <3> QED BY <3>4, <3>5, PatchIs
  <2> QED BY <2>1, <2>2
<1> HIDE DEF g
<1>9. "entities" \in SqlTables \cap MemTables
  BY DEF SqlTables, MemTables
<1>10. Only({"entities"}) /\ sql'.entities = X /\ mem'.entities = Y
  <2> HIDE DEF X, Y
  <2> QED BY <1>1, <1>7, <1>8, <1>9, OneTable
<1>11. Living' = Living
  BY <1>10, CampaignsStand
<1>12. made'["campaigns"] = made["campaigns"] /\ made'["entities"] = made["entities"]
  BY <1>1 DEF CountersOnly, Tables
<1>13. Numbered(Y, "entities")
  BY <1>3, RewrittenNumbered DEF EntitiesInv
<1>14. X = {r \in Y : r.campaignId \in Living}
  BY <1>3 DEF EntitiesInv
<1>15. Y \subseteq EntityRow /\ \A r \in Y : r.campaignId \in 1..made["campaigns"]
  BY <1>3 DEF EntitiesInv
<1> HIDE DEF X, Y
<1>16. EntitiesInv'
  BY <1>10, <1>11, <1>12, <1>13, <1>14, <1>15 DEF EntitiesInv, Numbered
<1> QED BY <1>10, <1>16, OthersStand

LEMMA DeleteEntityStep ==
  ASSUME IInv, NEW c, NEW e, DeleteEntity(c, e)
  PROVE  IInv'
<1> USE DEF IInv
<1> DEFINE X == {r \in sql.entities : ~(r.id = e /\ r.campaignId = c)}
           Y == {r \in mem.entities : ~(r.id = e /\ r.campaignId = c)}
<1>1. /\ sql' = Sql!deleteEntity(sql, c, e) /\ mem' = Mem!deleteEntity(mem, c, e)
      /\ CountersOnly({})
  BY WritesKeeps DEF DeleteEntity
<1>2. mem.entities \ {Mem!getEntity(mem, c, e)} = Y
  <2>1. \A r \in mem.entities : r # NULL
    BY StorageAssumption DEF EntitiesInv
  <2> QED BY <2>1, EntityAt DEF EntitiesInv, Numbered
<1>3. sql' = [sql EXCEPT !.entities = X] /\ mem' = [mem EXCEPT !.entities = Y]
  BY <1>1, <1>2 DEF Sql!deleteEntity, Mem!deleteEntity
<1>4. X = {r \in Y : r.campaignId \in Living} /\ Y \subseteq mem.entities
  BY DEF EntitiesInv
<1> HIDE DEF X, Y
<1>5. "entities" \in SqlTables \cap MemTables
  BY DEF SqlTables, MemTables
<1>6. Only({"entities"}) /\ sql'.entities = X /\ mem'.entities = Y
  BY <1>1, <1>3, <1>5, OneTable
<1>7. Living' = Living
  BY <1>6, CampaignsStand
<1>8. made'["campaigns"] = made["campaigns"] /\ made'["entities"] = made["entities"]
  BY <1>1 DEF CountersOnly, Tables
<1>9. EntitiesInv'
  BY <1>4, <1>6, <1>7, <1>8 DEF EntitiesInv, Numbered
<1> QED BY <1>6, <1>9, OthersStand

----------------------------------------------------------------------------
(* Events and snapshots *)

LEMMA LogIs ==
  ASSUME IInv, NEW c
  PROVE  /\ Log(c) \in Seq(EventRow)
         /\ Len(Log(c)) \in Nat
         /\ \A n \in 1..Len(Log(c)) : /\ Log(c)[n] \in EventRow
                                      /\ Log(c)[n].seq = n /\ Log(c)[n].campaignId = c
<1>1. Log(c) \in Seq(EventRow)
  BY DEF IInv, LogsInv, Log, Mem!EventsOf
<1>2. Len(Log(c)) \in Nat /\ \A n \in 1..Len(Log(c)) : Log(c)[n] \in EventRow
  BY <1>1
<1>3. CASE c \in DOMAIN mem.events
  BY <1>1, <1>2, <1>3 DEF IInv, LogsInv, Log, Mem!EventsOf
<1>4. CASE c \notin DOMAIN mem.events
  <2>1. Log(c) = << >> /\ Len(<< >>) = 0
    BY <1>4 DEF Log, Mem!EventsOf
  <2> QED BY <1>1, <2>1
<1> QED BY <1>3, <1>4

\* The rows of a campaign are the elements of its log, or none.
LEMMA RowsOf ==
  ASSUME IInv, NEW c
  PROVE  {e \in sql.events : e.campaignId = c}
           = IF c \in Living THEN {Log(c)[n] : n \in 1..Len(Log(c))} ELSE {}
<1> DEFINE R == {e \in sql.events : e.campaignId = c}
<1>1. CASE c \in Living
  <2>1. ASSUME NEW e \in R
        PROVE  e \in {Log(c)[n] : n \in 1..Len(Log(c))}
    <3>1. e.seq \in 1..Len(Log(c)) /\ e = Log(c)[e.seq]
      BY <2>1 DEF IInv, LogsInv
    <3> QED BY <3>1
  <2>2. ASSUME NEW n \in 1..Len(Log(c))
        PROVE  Log(c)[n] \in R
    <3>1. Log(c)[n] \in sql.events
      BY <1>1, <2>2 DEF IInv, LogsInv
    <3> QED BY <2>2, <3>1, LogIs
  <2> HIDE DEF R
  <2>3. R = {Log(c)[n] : n \in 1..Len(Log(c))}
    BY <2>1, <2>2 DEF R
  <2> QED BY <1>1, <2>3 DEF R
<1>2. CASE c \notin Living
  BY <1>2 DEF IInv, LogsInv
<1> QED BY <1>1, <1>2

LEMMA LastIs ==
  ASSUME NEW k \in Nat \ {0}
  PROVE  (CHOOSE m \in 1..k : \A n \in 1..k : n <= m) = k
<1>1. k \in 1..k /\ \A n \in 1..k : n <= k
  OBVIOUS
<1>2. \A m \in 1..k : (\A n \in 1..k : n <= m) => m = k
  BY <1>1
<1> QED BY <1>1, <1>2

LEMMA MaxSeq ==
  ASSUME IInv, NEW c
  PROVE  /\ Mem!getMaxEventSeq(mem, c) = Len(Log(c))
         /\ Sql!getMaxEventSeq(sql, c) = IF c \in Living THEN Len(Log(c)) ELSE 0
<1>1. Len(Log(c)) \in Nat /\ Log(c) \in Seq(EventRow)
      /\ \A n \in 1..Len(Log(c)) : Log(c)[n].seq = n
  BY LogIs
<1>2. Mem!getMaxEventSeq(mem, c) = Len(Log(c))
  <2>1. Mem!getMaxEventSeq(mem, c) = IF Log(c) = << >> THEN 0 ELSE Log(c)[Len(Log(c))].seq
    BY DEF Mem!getMaxEventSeq, Log
  <2>2. CASE Log(c) = << >>
    BY <2>1, <2>2
  <2>3. CASE Log(c) # << >>
    <3>1. Len(Log(c)) \in 1..Len(Log(c))
      BY <1>1, <2>3
    <3> QED BY <1>1, <2>1, <2>3, <3>1
  <2> QED BY <2>2, <2>3
<1> DEFINE rows == {e \in sql.events : e.campaignId = c}
           seqs == {e.seq : e \in rows}
           log == {Log(c)[n] : n \in 1..Len(Log(c))}
<1>3. Sql!getMaxEventSeq(sql, c)
        = IF seqs = {} THEN 0 ELSE CHOOSE m \in seqs : \A n \in seqs : n <= m
  BY DEF Sql!getMaxEventSeq
<1>4. rows = IF c \in Living THEN log ELSE {}
  BY RowsOf
<1>5. {e.seq : e \in log} = 1..Len(Log(c))
  BY <1>1
<1> HIDE DEF rows, log
<1>6. seqs = IF c \in Living THEN 1..Len(Log(c)) ELSE {}
  BY <1>4, <1>5
<1> HIDE DEF seqs
<1>7. CASE c \notin Living
  BY <1>2, <1>3, <1>6, <1>7
<1>8. CASE c \in Living
  <2>1. CASE Len(Log(c)) = 0
    BY <1>2, <1>3, <1>6, <1>8, <2>1
  <2>2. CASE Len(Log(c)) # 0
    <3>1. 1..Len(Log(c)) # {}
      BY <1>1, <2>2
    <3> QED BY <1>1, <1>2, <1>3, <1>6, <1>8, <2>2, <3>1, LastIs
  <2> QED BY <2>1, <2>2
<1> QED BY <1>7, <1>8

LEMMA PutSnapshotStep ==
  ASSUME IInv, NEW c \in held["campaigns"], PutSnapshot(c)
  PROVE  IInv'
<1> USE DEF IInv
<1> DEFINE seq == Sql!getMaxEventSeq(sql, c)
           row == [campaignId |-> c, seq |-> seq]
           X == {s \in sql.snapshots : s.campaignId # c} \cup {row}
           Y == {s \in mem.snapshots : s.campaignId # c} \cup {row}
           Z == IF c \in Living THEN X ELSE sql.snapshots
<1>1. /\ sql' = Sql!putSnapshot(sql, c, seq) /\ mem' = Mem!putSnapshot(mem, c, seq)
      /\ CountersOnly({})
  BY WritesKeeps DEF PutSnapshot
<1>2. c \in 1..made["campaigns"]
  BY DEF Shapes, Tables
<1>3. seq \in Nat
  BY MaxSeq, LogIs
<1> HIDE DEF seq
<1>4. row.campaignId = c /\ row \in SnapshotRow
  BY <1>2, <1>3 DEF SnapshotRow
<1>5. mem' = [mem EXCEPT !.snapshots = Y]
  BY <1>1 DEF Mem!putSnapshot
<1>6. sql' = Sql!Stored(sql, [sql EXCEPT !.snapshots = X])
  BY <1>1 DEF Sql!putSnapshot
<1> HIDE DEF row
<1>7. (\A s \in X : s.campaignId \in Living) <=> c \in Living
  BY <1>4 DEF SnapshotsInv
<1>8. sql' = [sql EXCEPT !.snapshots = Z] \/ (sql' = sql /\ Z = sql.snapshots)
  BY <1>6, <1>7, StoredSnapshots
<1>9. "snapshots" \in SqlTables \cap MemTables
  BY DEF SqlTables, MemTables
<1>10. Only({"snapshots"}) /\ sql'.snapshots = Z /\ mem'.snapshots = Y
  <2> HIDE DEF Z, Y
  <2> QED BY <1>1, <1>5, <1>8, <1>9, OneTable
<1>11. Living' = Living
  BY <1>10, CampaignsStand
<1>12. made'["campaigns"] = made["campaigns"]
  BY <1>1 DEF CountersOnly, Tables
<1>13. Z = {s \in Y : s.campaignId \in Living}
  BY <1>4 DEF SnapshotsInv
<1>14. /\ Y \subseteq SnapshotRow /\ \A s \in Y : s.campaignId \in 1..made["campaigns"]
       /\ \A r, s \in Y : r.campaignId = s.campaignId => r = s
  BY <1>2, <1>4 DEF SnapshotsInv
<1> HIDE DEF Z, Y
<1>15. SnapshotsInv'
  BY <1>10, <1>11, <1>12, <1>13, <1>14 DEF SnapshotsInv
<1> QED BY <1>10, <1>15, OthersStand

LEMMA AppendEventStep ==
  ASSUME IInv, NEW c \in held["campaigns"], NEW type \in Types, AppendEvent(c, type)
  PROVE  IInv'
<1> USE DEF IInv
<1> DEFINE k == Len(Log(c))
           row == [campaignId |-> c, type |-> type, timestamp |-> now, seq |-> k + 1]
           log == Append(Log(c), row)
           X == sql.events \cup {row}
           Y == [d \in DOMAIN mem.events \cup {c} |-> IF d = c THEN log ELSE mem.events[d]]
           Z == IF c \in Living THEN X ELSE sql.events
<1>1. /\ sql' = Sql!appendEvent(sql, c, type, now) /\ mem' = Mem!appendEvent(mem, c, type, now)
      /\ CountersOnly({})
  BY WritesKeeps DEF AppendEvent
<1>2. c \in 1..made["campaigns"]
  BY DEF Shapes, Tables
<1>3. k \in Nat /\ Log(c) \in Seq(EventRow)
      /\ \A n \in 1..k : Log(c)[n].seq = n /\ Log(c)[n].campaignId = c
  BY LogIs
<1>4. Mem!EventsOf(mem, c) = Log(c) /\ Mem!getMaxEventSeq(mem, c) = k
  BY MaxSeq DEF Log
<1> HIDE DEF k
<1>5. row.campaignId = c /\ row.seq = k + 1 /\ row \in EventRow
  BY <1>2, <1>3 DEF EventRow, Shapes
<1>6. mem' = [mem EXCEPT !.events = Y]
  BY <1>1, <1>4 DEF Mem!appendEvent
<1>7. sql' = [sql EXCEPT !.events = Z] \/ (sql' = sql /\ Z = sql.events)
  <2>1. CASE c \in Living
    <3>1. Sql!getMaxEventSeq(sql, c) = k
      BY <2>1, MaxSeq DEF k
    <3>2. sql' = Sql!Stored(sql, [sql EXCEPT !.events = X])
      BY <1>1, <3>1 DEF Sql!appendEvent
    <3> HIDE DEF row
    <3>3. \A e \in sql.events : e.campaignId = c => e.seq # k + 1
      BY <1>3 DEF LogsInv, k
    <3>4. \A e, f \in sql.events : e.campaignId = f.campaignId /\ e.seq = f.seq => e = f
      BY DEF LogsInv
    <3>5. /\ \A e \in X : e.campaignId \in Living
          /\ \A e, f \in X : e.campaignId = f.campaignId /\ e.seq = f.seq => e = f
      BY <1>5, <2>1, <3>3, <3>4 DEF LogsInv
    <3> QED BY <2>1, <3>2, <3>5, StoredEvents
  <2>2. CASE c \notin Living
    <3> DEFINE bad == [campaignId |-> c, type |-> type, timestamp |-> now,
                       seq |-> Sql!getMaxEventSeq(sql, c) + 1]
               W == sql.events \cup {bad}
    <3>1. sql' = Sql!Stored(sql, [sql EXCEPT !.events = W])
      BY <1>1 DEF Sql!appendEvent
    <3>2. bad \in W /\ bad.campaignId = c
      OBVIOUS
    <3> HIDE DEF bad, W
    <3>3. sql' = sql
      BY <2>2, <3>1, <3>2, StoredEvents
    <3> QED BY <2>2, <3>3
  <2> QED BY <2>1, <2>2
<1> HIDE DEF row
<1>8. "events" \in SqlTables \cap MemTables
  BY DEF SqlTables, MemTables
<1>9. Only({"events"}) /\ sql'.events = Z /\ mem'.events = Y
  <2> HIDE DEF Z, Y
  <2> QED BY <1>1, <1>6, <1>7, <1>8, OneTable
<1>10. Living' = Living
  BY <1>9, CampaignsStand
<1>11. made'["campaigns"] = made["campaigns"]
  BY <1>1 DEF CountersOnly, Tables
<1>12. log \in Seq(EventRow) /\ Len(log) = k + 1 /\ log[k + 1] = row
       /\ \A n \in 1..k : log[n] = Log(c)[n]
  BY <1>3, <1>5 DEF k
<1> HIDE DEF log
<1>13. \A d : Log(d)' = IF d = c THEN log ELSE Log(d)
  BY <1>9 DEF Log, Mem!EventsOf
<1>14. /\ DOMAIN Y \subseteq 1..made["campaigns"] /\ Y = [d \in DOMAIN Y |-> Y[d]]
       /\ DOMAIN Y = DOMAIN mem.events \cup {c}
       /\ \A d \in DOMAIN Y : Y[d] = IF d = c THEN log ELSE mem.events[d]
  BY <1>2 DEF LogsInv
<1> HIDE DEF Y
<1>15. ASSUME NEW d \in DOMAIN Y
       PROVE  /\ Y[d] \in Seq(EventRow)
              /\ \A n \in 1..Len(Y[d]) : Y[d][n].seq = n /\ Y[d][n].campaignId = d
  <2>1. CASE d = c
    <3>1. \A n \in 1..(k + 1) : n \in 1..k \/ n = k + 1
      BY <1>3
    <3> QED BY <1>3, <1>5, <1>12, <1>14, <2>1, <3>1
  <2>2. CASE d # c
    BY <1>14, <1>15, <2>2 DEF LogsInv
  <2> QED BY <2>1, <2>2
<1>16. ASSUME NEW e \in Z
       PROVE  /\ e.campaignId \in Living
              /\ e.seq \in 1..Len(Log(e.campaignId)') /\ e = Log(e.campaignId)'[e.seq]
  <2>1. CASE e \in sql.events
    <3>1. /\ e.campaignId \in Living
          /\ e.seq \in 1..Len(Log(e.campaignId)) /\ e = Log(e.campaignId)[e.seq]
      BY <2>1 DEF LogsInv
    <3>2. CASE e.campaignId = c
      BY <1>3, <1>12, <1>13, <3>1, <3>2 DEF k
    <3>3. CASE e.campaignId # c
      BY <1>13, <3>1, <3>3
    <3> QED BY <3>2, <3>3
  <2>2. CASE e \notin sql.events
    BY <1>3, <1>5, <1>12, <1>13, <1>16, <2>2
  <2> QED BY <2>1, <2>2
<1>17. ASSUME NEW d \in Living, NEW n \in 1..Len(Log(d)')
       PROVE  Log(d)'[n] \in Z
  <2>1. CASE d = c
    <3>1. n \in 1..k \/ n = k + 1
      BY <1>3, <1>12, <1>13, <1>17, <2>1
    <3>2. CASE n \in 1..k
      <4>1. Log(c)[n] \in sql.events
        BY <1>17, <2>1, <3>2 DEF LogsInv, k
      <4> QED BY <1>12, <1>13, <2>1, <3>2, <4>1
    <3>3. CASE n = k + 1
      BY <1>12, <1>13, <1>17, <2>1, <3>3
    <3> QED BY <3>1, <3>2, <3>3
  <2>2. CASE d # c
    <3>1. Log(d)[n] \in sql.events
      BY <1>13, <1>17, <2>2 DEF LogsInv
    <3> QED BY <1>13, <2>2, <3>1
  <2> QED BY <2>1, <2>2
<1> HIDE DEF Z
<1>18. LogsInv'
  BY <1>9, <1>10, <1>11, <1>14, <1>15, <1>16, <1>17 DEF LogsInv
<1> QED BY <1>9, <1>18, OthersStand

----------------------------------------------------------------------------
(* Seats *)

LEMMA SeatAt ==
  ASSUME IInv, NEW c, NEW s
  PROVE  LET x == Mem!getSeat(mem, c, s)
         IN  \/ x = NULL /\ \A r \in mem.seats : ~(r.id = s /\ r.campaignId = c)
             \/ x \in mem.seats /\ x # NULL /\ x.id = s /\ x.campaignId = c
<1> DEFINE S == {r \in mem.seats : r.campaignId = c}
<1>1. Mem!getSeat(mem, c, s) = Mem!At(S, s)
  BY DEF Mem!getSeat, Mem!listSeats
<1>2. \A r \in S : r # NULL
  BY StorageAssumption DEF IInv, SeatsInv
<1>3. CASE \E r \in S : r.id = s
  <2>1. Mem!At(S, s) \in S /\ Mem!At(S, s).id = s
    BY <1>3, AtIs
  <2> QED BY <1>1, <1>2, <2>1
<1>4. CASE ~ \E r \in S : r.id = s
  <2>1. Mem!At(S, s) = NULL
    BY <1>4, AtIs
  <2> QED BY <1>1, <1>4, <2>1
<1> QED BY <1>3, <1>4

LEMMA CreateSeatStep ==
  ASSUME IInv, NEW c \in held["campaigns"], NEW role \in {"gm", "player"},
         CreateSeat(c, role)
  PROVE  IInv'
<1> USE DEF IInv
<1> DEFINE row == [id |-> Fresh("seats"), campaignId |-> c, role |-> role,
                   accountId |-> NULL, isActive |-> TRUE]
           X == sql.seats \cup {row}
           Y == mem.seats \cup {row}
           Z == IF c \in Living THEN X ELSE sql.seats
<1>1. /\ sql' = Sql!createSeat(sql, c, Fresh("seats"), role)
      /\ mem' = Mem!createSeat(mem, c, Fresh("seats"), role)
      /\ CountersOnly({"seats"})
      /\ made["seats"] \in Nat /\ made'["seats"] = made["seats"] + 1
      /\ Fresh("seats") = made["seats"] + 1
      /\ held'["seats"] = IF sql' = sql THEN held["seats"] ELSE held["seats"] \cup {Fresh("seats")}
  BY MakesKeeps DEF CreateSeat, Tables
<1>2. c \in 1..made["campaigns"] /\ held["seats"] \subseteq 1..made["seats"]
  BY DEF Shapes, Tables
<1>3. /\ row.id = made["seats"] + 1 /\ row.campaignId = c /\ row.accountId = NULL
      /\ row \in SeatRow
  BY <1>1, <1>2 DEF SeatRow
<1>4. mem' = [mem EXCEPT !.seats = Y]
  BY <1>1 DEF Mem!createSeat
<1>5. sql' = Sql!Stored(sql, [sql EXCEPT !.seats = X])
  BY <1>1 DEF Sql!createSeat
<1> HIDE DEF row
<1>6. (\A s \in X : s.campaignId \in Living) <=> c \in Living
  BY <1>3 DEF SeatsInv
<1>7. /\ \A s \in X : s.accountId \in Sql!Ids(sql.accounts) \cup {NULL}
      /\ Sql!Ids(sql.seats) \subseteq Sql!Ids(X)
  BY <1>3 DEF SeatsInv, Sql!Ids
<1>8. sql' = IF c \in Living THEN [sql EXCEPT !.seats = X] ELSE sql
  BY <1>5, <1>6, <1>7, StoredSeats
<1>9. "seats" \in SqlTables \cap MemTables
  BY DEF SqlTables, MemTables
<1>10. Only({"seats"}) /\ sql'.seats = Z /\ mem'.seats = Y
  <2>1. sql' = [sql EXCEPT !.seats = Z] \/ (sql' = sql /\ Z = sql.seats)
    BY <1>8
  <2> HIDE DEF Z, Y
  <2> QED BY <1>1, <1>4, <1>9, <2>1, OneTable
<1>11. Living' = Living
  BY <1>10, CampaignsStand
<1>12. made'["campaigns"] = made["campaigns"] /\ sql'.accounts = sql.accounts
       /\ sql'.invites = sql.invites /\ mem'.invites = mem.invites
       /\ made'["invites"] = made["invites"] /\ madeFor' = madeFor
  BY <1>1, <1>10 DEF CountersOnly, Tables, Only, SqlOnly, MemOnly, SqlTables, MemTables
<1>13. /\ \A r \in Y : r.id \in 1..made'["seats"]
       /\ \A r, q \in Y : r.id = q.id => r = q
  BY <1>1, <1>3, AddedNumbered DEF SeatsInv
<1>14. Z = {s \in Y : s.campaignId \in Living}
  BY <1>3 DEF SeatsInv
<1>15. Y \subseteq SeatRow /\ \A s \in Y : s.campaignId \in 1..made["campaigns"]
  BY <1>2, <1>3 DEF SeatsInv
<1>16. ASSUME NEW s \in Y \ Z
       PROVE  s.accountId = NULL /\ s.id \notin held'["seats"]
  <2>1. CASE s = row
    <3>1. c \notin Living
      BY <1>16, <2>1
    <3> QED BY <1>1, <1>2, <1>3, <1>8, <2>1, <3>1
  <2>2. CASE s # row
    <3>1. s \in mem.seats \ sql.seats
      BY <1>16, <2>2
    <3>2. s.accountId = NULL /\ s.id \notin held["seats"] /\ s.id \in 1..made["seats"]
      BY <3>1 DEF SeatsInv, Numbered
    <3> QED BY <1>1, <3>2
  <2> QED BY <2>1, <2>2
<1>17. \A s \in Z : s.accountId \in Sql!Ids(sql.accounts) \cup {NULL}
  BY <1>7 DEF SeatsInv
<1>18. sql.seats \subseteq Z /\ \A s \in Z : s \in sql.seats \/ s.id = made["seats"] + 1
  BY <1>3
<1> HIDE DEF Z, Y
<1>19. SeatsInv'
  BY <1>10, <1>11, <1>12, <1>13, <1>14, <1>15, <1>16, <1>17 DEF SeatsInv, Numbered, Sql!Ids
<1>20. InvitesInv'
  <2>1. /\ sql'.invites \subseteq InviteRow /\ Numbered(sql.invites, "invites")'
        /\ mem'.invites \subseteq InviteCopy /\ Numbered(mem.invites, "invites")'
        /\ \A i \in sql'.invites : Copy(i) \in mem'.invites
    BY <1>12 DEF InvitesInv, Numbered
  <2>2. \A i \in sql'.invites : /\ i.seatId \in Sql!Ids(sql.seats)'
                                /\ i.campaignId \in Living'
                                /\ i.campaignId = madeFor'[i.id]
    BY <1>10, <1>11, <1>12, <1>18 DEF InvitesInv, Sql!Ids
  <2>3. ASSUME NEW m \in mem'.invites
        PROVE  /\ m.seatId \in 1..made'["seats"]
               /\ m.seatId \in Sql!Ids(sql.seats)' /\ madeFor'[m.id] \in Living'
                  => \E i \in sql'.invites : m = Copy(i)
    <3>1. m.seatId \in 1..made["seats"]
      BY <1>12, <2>3 DEF InvitesInv
    <3>2. m.seatId \in Sql!Ids(sql.seats)' => m.seatId \in Sql!Ids(sql.seats)
      BY <1>1, <1>10, <1>18, <3>1 DEF Sql!Ids
    <3> QED BY <1>1, <1>11, <1>12, <2>3, <3>1, <3>2 DEF InvitesInv
  <2>4. /\ madeFor' \in Seq(Nat) /\ Len(madeFor') = made'["invites"]
        /\ \A n \in 1..made'["invites"] : madeFor'[n] \in 1..made'["campaigns"]
    BY <1>12 DEF InvitesInv
  <2> QED BY <2>1, <2>2, <2>3, <2>4 DEF InvitesInv
<1> QED BY <1>10, <1>19, <1>20, OthersStand

LEMMA SeatChanged ==
  ASSUME IInv, NEW r \in SeatRow, NEW change \in SeatChanges
  PROVE  /\ Sql!Assign(r, change) \in SeatRow
         /\ Sql!Assign(r, change).id = r.id
         /\ Sql!Assign(r, change).campaignId = r.campaignId
         /\ Sql!Assign(r, change).accountId \in held["accounts"] \cup {NULL}
<1> DEFINE cols == {"id", "campaignId", "role", "accountId", "isActive"}
           q == Sql!Assign(r, change)
<1>1. /\ DOMAIN change \subseteq {"role", "accountId", "isActive"}
      /\ "accountId" \in DOMAIN change
      /\ change.accountId \in held["accounts"] \cup {NULL}
      /\ "role" \in DOMAIN change => change.role = "gm"
      /\ "isActive" \in DOMAIN change => change.isActive = FALSE
  <2>1. CASE change \in {[accountId |-> a] : a \in held["accounts"] \cup {NULL}}
    <3>1. PICK a \in held["accounts"] \cup {NULL} : change = [accountId |-> a]
      BY <2>1
    <3>2. DOMAIN change = {"accountId"} /\ change.accountId = a
      BY <3>1
    <3> QED BY <3>2
  <2>2. CASE change \in [role : {"gm"}, isActive : {FALSE},
                        accountId : held["accounts"] \cup {NULL}]
    BY <2>2
  <2> QED BY <2>1, <2>2 DEF SeatChanges
<1>2. held["accounts"] \subseteq Nat
  BY DEF IInv, Shapes, Tables
<1>3. DOMAIN r = cols
  BY DEF SeatRow
<1>4. q = [f \in cols |-> IF f \in DOMAIN change THEN change[f] ELSE r[f]]
  BY <1>3 DEF Sql!Assign
<1> HIDE DEF q
<1>5. /\ DOMAIN q = cols /\ q = [f \in cols |-> q[f]]
      /\ q.id = r.id /\ q.campaignId = r.campaignId /\ q.accountId = change.accountId
      /\ q.role = "gm" \/ q.role = r.role
  BY <1>1, <1>4
<1>6. q.isActive = FALSE \/ q.isActive = r.isActive
  BY <1>1, <1>4
<1>7. q.isActive \in BOOLEAN
  BY <1>6 DEF SeatRow
<1>8. q \in SeatRow
  BY <1>1, <1>2, <1>5, <1>7 DEF SeatRow
<1> QED BY <1>1, <1>5, <1>8 DEF q

\* Seats that stay where they are keep their invites.
LEMMA InvitesKeepSeats ==
  ASSUME InvitesInv, NEW T, Only(T), "invites" \notin T, made'["seats"] = made["seats"],
         Living' = Living, made'["campaigns"] = made["campaigns"],
         Sql!Ids(sql'.seats) = Sql!Ids(sql.seats)
  PROVE  InvitesInv'
<1>1. sql'.invites = sql.invites /\ mem'.invites = mem.invites
      /\ made'["invites"] = made["invites"] /\ madeFor' = madeFor
  BY DEF CountersOnly, Tables, Only, SqlOnly, MemOnly, SqlTables, MemTables
<1>2. Sql!Ids(sql.seats)' = Sql!Ids(sql.seats)
  BY DEF Sql!Ids
<1> QED BY <1>1, <1>2 DEF InvitesInv, Numbered

LEMMA UpdateSeatStep ==
  ASSUME IInv, NEW c, NEW s \in held["seats"], NEW change \in SeatChanges,
         UpdateSeat(c, s, change)
  PROVE  IInv'
<1> USE DEF IInv
<1> DEFINE new(r) == IF r.id = s /\ r.campaignId = c THEN Sql!Assign(r, change) ELSE r
           g == [r \in mem.seats |-> new(r)]
           X == {g[r] : r \in sql.seats}
           Y == {g[r] : r \in mem.seats}
<1>1. /\ sql' = Sql!updateSeat(sql, c, s, change) /\ mem' = Mem!updateSeat(mem, c, s, change)
      /\ CountersOnly({})
  BY WritesKeeps DEF UpdateSeat
<1>2. \A r \in mem.seats : r \in SeatRow
  BY DEF SeatsInv
<1>3. \A r \in mem.seats : /\ g[r] \in SeatRow
                           /\ g[r].id = r.id /\ g[r].campaignId = r.campaignId
                           /\ g[r] = r \/ g[r].accountId \in held["accounts"] \cup {NULL}
  BY <1>2, SeatChanged
<1>4. held["accounts"] \subseteq Sql!Ids(sql.accounts)
  BY DEF AccountsInv
<1>5. \A r \in mem.seats : g[r] = new(r)
  OBVIOUS
<1>6. \A r \in sql.seats : r \in mem.seats
  BY DEF SeatsInv
<1>7. \A q \in X : /\ q.campaignId \in Living
                   /\ q.accountId \in Sql!Ids(sql.accounts) \cup {NULL}
  <2>1. \A r \in sql.seats : /\ r.campaignId \in Living
                             /\ r.accountId \in Sql!Ids(sql.accounts) \cup {NULL}
    BY DEF SeatsInv
  <2> HIDE DEF g
  <2>2. \A r \in sql.seats : /\ g[r].campaignId \in Living
                             /\ g[r].accountId \in Sql!Ids(sql.accounts) \cup {NULL}
    BY <1>3, <1>4, <1>6, <2>1
  <2> QED BY <2>2
<1>8. Sql!Ids(X) = Sql!Ids(sql.seats)
  <2>1. \A r \in sql.seats : g[r].id = r.id
    BY <1>3, <1>6
  <2> HIDE DEF g
  <2> QED BY <2>1, RewrittenIds
<1>9. sql' = [sql EXCEPT !.seats = X]
  <2>1. sql' = Sql!Stored(sql, [sql EXCEPT !.seats = {new(r) : r \in sql.seats}])
    BY <1>1 DEF Sql!updateSeat
  <2> HIDE DEF new, g
  <2>2. {new(r) : r \in sql.seats} = X
    BY <1>5, <1>6
  <2> HIDE DEF X
  <2> QED BY <1>7, <1>8, <2>1, <2>2, StoredSeats
<1>10. mem' = [mem EXCEPT !.seats = Y] \/ (mem' = mem /\ Y = mem.seats)
  <2>1. CASE Mem!getSeat(mem, c, s) = NULL
    <3>1. \A r \in mem.seats : ~(r.id = s /\ r.campaignId = c)
      BY <2>1, SeatAt
    <3>2. \A r \in mem.seats : g[r] = r
      BY <3>1
    <3> HIDE DEF g
    <3>3. Y = mem.seats
      BY <3>2
    <3> QED BY <1>1, <2>1, <3>3 DEF Mem!updateSeat
  <2>2. CASE Mem!getSeat(mem, c, s) # NULL
    <3>1. PICK x \in mem.seats : x.id = s /\ x.campaignId = c
      BY <2>2, SeatAt
    <3>2. \A r \in mem.seats : r.id = s => r = x
      BY <3>1 DEF SeatsInv, Numbered
    <3>3. \A r \in mem.seats : (IF r.id = s THEN Sql!Assign(r, change) ELSE r) = g[r]
      BY <3>1, <3>2
    <3>4. mem' = [mem EXCEPT !.seats = Mem!Patch(mem.seats, s, change)]
      BY <1>1, <2>2 DEF Mem!updateSeat
    <3> HIDE DEF g
    <3>5. {IF r.id = s THEN Sql!Assign(r, change) ELSE r : r \in mem.seats} = Y
      BY <3>3
    <3> QED BY <3>4, <3>5, PatchIs
  <2> QED BY <2>1, <2>2
<1>11. "seats" \in SqlTables \cap MemTables
  BY DEF SqlTables, MemTables
<1>12. Only({"seats"}) /\ sql'.seats = X /\ mem'.seats = Y
  <2> HIDE DEF X, Y
  <2> QED BY <1>1, <1>9, <1>10, <1>11, OneTable
<1>13. Living' = Living
  BY <1>12, CampaignsStand
<1>14. /\ made'["campaigns"] = made["campaigns"] /\ made'["seats"] = made["seats"]
       /\ held'["seats"] = held["seats"] /\ sql'.accounts = sql.accounts
  BY <1>1, <1>12 DEF CountersOnly, Tables, Only, SqlOnly, SqlTables
<1>15. \A q \in Y \ X : q.accountId = NULL /\ q.id \notin held["seats"]
  <2> TAKE q \in Y \ X
  <2>1. PICK r \in mem.seats : q = g[r]
    OBVIOUS
  <2>2. r \in mem.seats \ sql.seats
    BY <2>1
  <2>3. r.accountId = NULL /\ r.id \notin held["seats"]
    BY <2>2 DEF SeatsInv
  <2> QED BY <2>1, <2>3
<1> HIDE DEF g
<1>16. Numbered(Y, "seats")
  BY <1>3, RewrittenNumbered DEF SeatsInv
<1>17. X = {r \in Y : r.campaignId \in Living}
  BY <1>3 DEF SeatsInv
<1>18. Y \subseteq SeatRow /\ \A r \in Y : r.campaignId \in 1..made["campaigns"]
  BY <1>3 DEF SeatsInv
<1> HIDE DEF X, Y
<1>19. SeatsInv'
  BY <1>7, <1>12, <1>13, <1>14, <1>15, <1>16, <1>17, <1>18 DEF SeatsInv, Numbered, Sql!Ids
<1>20. InvitesInv'
  BY <1>8, <1>12, <1>13, <1>14, InvitesKeepSeats
<1> QED BY <1>12, <1>19, <1>20, OthersStand

LEMMA DeleteSeatStep ==
  ASSUME IInv, NEW c, NEW s, DeleteSeat(c, s)
  PROVE  IInv'
<1> USE DEF IInv
<1> DEFINE X == {r \in sql.seats : ~(r.id = s /\ r.campaignId = c)}
           Y == {r \in mem.seats : ~(r.id = s /\ r.campaignId = c)}
           W == {i \in sql.invites : i.seatId \in Sql!Ids(X)}
<1>1. /\ sql' = Sql!deleteSeat(sql, c, s) /\ mem' = Mem!deleteSeat(mem, c, s)
      /\ CountersOnly({})
  BY WritesKeeps DEF DeleteSeat
<1>2. mem.seats \ {Mem!getSeat(mem, c, s)} = Y
  <2>1. \A r \in mem.seats : r # NULL
    BY StorageAssumption DEF SeatsInv
  <2> QED BY <2>1, SeatAt DEF SeatsInv, Numbered
<1>3. sql' = [sql EXCEPT !.seats = X, !.invites = W] /\ mem' = [mem EXCEPT !.seats = Y]
  BY <1>1, <1>2 DEF Sql!deleteSeat, Mem!deleteSeat
<1>4. X = {r \in Y : r.campaignId \in Living} /\ Y \subseteq mem.seats
      /\ X \subseteq sql.seats /\ Y \ X \subseteq mem.seats \ sql.seats
  BY DEF SeatsInv
<1>5. ASSUME NEW i \in W
      PROVE  i \in sql.invites /\ i.seatId \in Sql!Ids(X)
  BY <1>5
<1>6. Sql!Ids(X) \subseteq Sql!Ids(sql.seats)
  BY DEF Sql!Ids
<1>7. ASSUME NEW m \in mem.invites, m.seatId \in Sql!Ids(X), madeFor[m.id] \in Living
      PROVE  \E i \in W : m = Copy(i)
  <2>1. PICK i \in sql.invites : m = Copy(i)
    BY <1>6, <1>7 DEF InvitesInv
  <2>2. m.seatId = i.seatId
    BY <2>1 DEF Copy
  <2> QED BY <1>7, <2>1, <2>2
<1> HIDE DEF X, Y, W
<1>8. MemOnly({"seats"}) /\ mem'.seats = Y
  BY <1>3, MemPut DEF MemTables, SqlTables
<1>9. SqlOnly({"seats", "invites"}) /\ sql'.seats = X /\ sql'.invites = W
  BY <1>3, TablesOf DEF SqlOnly, SqlTables, Shapes
<1>10. Only({"seats", "invites"})
  BY <1>1, <1>8, <1>9 DEF Only, MemOnly, CountersOnly
<1>11. Living' = Living
  BY <1>10, CampaignsStand
<1>12. /\ made'["campaigns"] = made["campaigns"] /\ made'["seats"] = made["seats"]
       /\ made'["invites"] = made["invites"] /\ held'["seats"] = held["seats"]
       /\ sql'.accounts = sql.accounts /\ mem'.invites = mem.invites
       /\ madeFor' = madeFor
  BY <1>1, <1>8, <1>9 DEF CountersOnly, Tables, SqlOnly, MemOnly, SqlTables, MemTables
<1>13. SeatsInv'
  <2>1. /\ mem'.seats \subseteq SeatRow /\ Numbered(mem.seats, "seats")'
        /\ \A r \in mem'.seats : r.campaignId \in 1..made'["campaigns"]
    BY <1>4, <1>8, <1>12 DEF SeatsInv, Numbered
  <2>2. sql'.seats = {r \in mem'.seats : r.campaignId \in Living'}
    BY <1>4, <1>8, <1>9, <1>11
  <2>3. \A r \in mem'.seats \ sql'.seats : r.accountId = NULL /\ r.id \notin held'["seats"]
    BY <1>4, <1>8, <1>9, <1>12 DEF SeatsInv
  <2>4. \A r \in sql'.seats : r.accountId \in Sql!Ids(sql.accounts)' \cup {NULL}
    BY <1>4, <1>9, <1>12 DEF SeatsInv, Sql!Ids
  <2> QED BY <2>1, <2>2, <2>3, <2>4 DEF SeatsInv
<1>14. InvitesInv'
  <2>1. /\ sql'.invites \subseteq InviteRow /\ Numbered(sql.invites, "invites")'
        /\ mem'.invites \subseteq InviteCopy /\ Numbered(mem.invites, "invites")'
        /\ \A i \in sql'.invites : Copy(i) \in mem'.invites
    BY <1>5, <1>9, <1>12 DEF InvitesInv, Numbered
  <2>2. Sql!Ids(sql.seats)' = Sql!Ids(X)
    BY <1>9 DEF Sql!Ids
  <2>3. \A i \in sql'.invites : /\ i.seatId \in Sql!Ids(sql.seats)'
                                /\ i.campaignId \in Living'
                                /\ i.campaignId = madeFor'[i.id]
    BY <1>5, <1>9, <1>11, <1>12, <2>2 DEF InvitesInv
  <2>4. \A m \in mem'.invites :
          /\ m.seatId \in 1..made'["seats"]
          /\ m.seatId \in Sql!Ids(sql.seats)' /\ madeFor'[m.id] \in Living'
             => \E i \in sql'.invites : m = Copy(i)
    BY <1>7, <1>9, <1>11, <1>12, <2>2 DEF InvitesInv
  <2>5. /\ madeFor' \in Seq(Nat) /\ Len(madeFor') = made'["invites"]
        /\ \A n \in 1..made'["invites"] : madeFor'[n] \in 1..made'["campaigns"]
    BY <1>12 DEF InvitesInv
  <2> QED BY <2>1, <2>3, <2>4, <2>5 DEF InvitesInv
<1> QED BY <1>10, <1>13, <1>14, OthersStand

----------------------------------------------------------------------------
(* Invites *)

LEMMA CopyIs ==
  ASSUME NEW i \in InviteRow
  PROVE  /\ Copy(i) \in InviteCopy
         /\ Copy(i).id = i.id /\ Copy(i).seatId = i.seatId
         /\ Copy(i).usesRemaining = i.usesRemaining
         /\ Copy(i).revoked = i.revoked /\ Copy(i).expiresAt = i.expiresAt
BY DEF Copy, InviteRow, InviteCopy

LEMMA CreateInviteStep ==
  ASSUME IInv, NEW c, NEW s \in held["seats"], NEW n \in 1..2, CreateInvite(c, s, n),
         c \in held["campaigns"]
  PROVE  IInv'
<1> USE DEF IInv
<1> DEFINE row == [id |-> Fresh("invites"), campaignId |-> c, seatId |-> s,
                   maxUses |-> n, usesRemaining |-> n, expiresAt |-> now + Life,
                   revoked |-> FALSE]
           copy == [id |-> Fresh("invites"), seatId |-> s, maxUses |-> n,
                    usesRemaining |-> n, expiresAt |-> now + Life, revoked |-> FALSE]
           X == sql.invites \cup {row}
           Y == mem.invites \cup {copy}
           kept == s \in Sql!Ids(sql.seats) /\ c \in Living
           Z == IF kept THEN X ELSE sql.invites
<1>1. /\ sql' = Sql!createInvite(sql, c, s, Fresh("invites"), n, now + Life)
      /\ mem' = Mem!createInvite(mem, c, s, Fresh("invites"), n, now + Life)
      /\ CountersOnly({"invites"})
      /\ made["invites"] \in Nat /\ made'["invites"] = made["invites"] + 1
      /\ Fresh("invites") = made["invites"] + 1
  BY InsertsKeeps DEF CreateInvite, Tables
<1>2. madeFor' = Append(madeFor, c)
  BY DEF CreateInvite
<1>3. c \in 1..made["campaigns"] /\ s \in 1..made["seats"] /\ now \in Nat
  BY DEF Shapes, Tables
<1>4. row \in InviteRow /\ copy = Copy(row)
  BY <1>1, <1>3 DEF InviteRow, Copy, Life
<1>5. row.id = made["invites"] + 1 /\ row.campaignId = c /\ row.seatId = s
  BY <1>1
<1>6. mem' = [mem EXCEPT !.invites = Y]
  BY <1>1 DEF Mem!createInvite
<1>7. sql' = Sql!Stored(sql, [sql EXCEPT !.invites = X])
  BY <1>1 DEF Sql!createInvite
<1> HIDE DEF row, copy
<1>8. /\ madeFor' \in Seq(Nat) /\ Len(madeFor') = made["invites"] + 1
      /\ madeFor'[made["invites"] + 1] = c
      /\ \A k \in 1..made["invites"] : madeFor'[k] = madeFor[k]
  BY <1>1, <1>2, <1>3 DEF InvitesInv
<1>9. \A i \in sql.invites : i.campaignId \in Living /\ i.seatId \in Sql!Ids(sql.seats)
  BY DEF InvitesInv
<1>10. (\A i \in X : i.campaignId \in Living /\ i.seatId \in Sql!Ids(sql.seats))
         <=> kept
  BY <1>5, <1>9
<1>11. sql' = [sql EXCEPT !.invites = Z] \/ (sql' = sql /\ Z = sql.invites)
  BY <1>7, <1>10, StoredInvites
<1>12. "invites" \in SqlTables \cap MemTables
  BY DEF SqlTables, MemTables
<1>13. Only({"invites"}) /\ sql'.invites = Z /\ mem'.invites = Y
  <2> HIDE DEF Z, Y
  <2> QED BY <1>1, <1>6, <1>11, <1>12, OneTable
<1>14. /\ made'["seats"] = made["seats"] /\ sql'.seats = sql.seats
       /\ made'["campaigns"] = made["campaigns"] /\ Living' = Living
  BY <1>1, <1>13, CampaignsStand DEF CountersOnly, Tables, Only, SqlOnly, SqlTables
<1>15. /\ \A r \in X : r.id \in 1..made'["invites"]
       /\ \A r, q \in X : r.id = q.id => r = q
  BY <1>1, <1>5, AddedNumbered DEF InvitesInv
<1>16. copy.id = made["invites"] + 1 /\ copy.seatId = s /\ copy \in InviteCopy
  BY <1>4, <1>5, CopyIs
<1>17. /\ \A r \in Y : r.id \in 1..made'["invites"]
       /\ \A r, q \in Y : r.id = q.id => r = q
  BY <1>1, <1>16, AddedNumbered DEF InvitesInv
<1>18. \A i \in Z : Copy(i) \in Y
  BY <1>4 DEF InvitesInv
<1>19. \A i \in Z : /\ i.seatId \in Sql!Ids(sql.seats) /\ i.campaignId \in Living
                    /\ i.campaignId = madeFor'[i.id]
  <2> TAKE i \in Z
  <2>1. CASE i \in sql.invites
    BY <1>8, <2>1 DEF InvitesInv, Numbered
  <2>2. CASE i = row /\ kept
    BY <1>5, <1>8, <2>2
  <2> QED BY <2>1, <2>2
<1>20. \A m \in Y : /\ m.seatId \in 1..made["seats"]
                    /\ m.seatId \in Sql!Ids(sql.seats) /\ madeFor'[m.id] \in Living
                       => \E i \in Z : m = Copy(i)
  <2> TAKE m \in Y
  <2>1. CASE m \in mem.invites
    BY <1>8, <2>1 DEF InvitesInv, Numbered
  <2>2. CASE m = copy
    BY <1>3, <1>4, <1>8, <1>16, <2>2
  <2> QED BY <2>1, <2>2
<1>21. Z \subseteq X /\ X \subseteq InviteRow /\ Y \subseteq InviteCopy
  BY <1>4, <1>16 DEF InvitesInv
<1>22. \A k \in 1..made'["invites"] : madeFor'[k] \in 1..made["campaigns"]
  <2> TAKE k \in 1..made'["invites"]
  <2>1. k \in 1..made["invites"] \/ k = made["invites"] + 1
    BY <1>1
  <2>2. \A j \in 1..made["invites"] : madeFor[j] \in 1..made["campaigns"]
    BY DEF InvitesInv
  <2> HIDE DEF IInv
  <2> QED BY <1>3, <1>8, <2>1, <2>2
<1> HIDE DEF X, Y, Z, kept
<1>23. InvitesInv'
  <2>1. Numbered(sql.invites, "invites")' /\ Numbered(mem.invites, "invites")'
    BY <1>13, <1>15, <1>17, <1>21 DEF Numbered
  <2>2. Sql!Ids(sql.seats)' = Sql!Ids(sql.seats)
    BY <1>14 DEF Sql!Ids
  <2> QED BY <1>1, <1>8, <1>13, <1>14, <1>18, <1>19, <1>20, <1>21, <1>22, <2>1, <2>2 DEF InvitesInv
<1> QED BY <1>13, <1>23, OthersStand

\* A call that changes invites in both tables alike.
LEMMA InvitesRewritten ==
  ASSUME IInv, NEW g, NEW h,
         \A i \in sql.invites : /\ g[i] \in InviteRow /\ g[i].id = i.id
                                /\ g[i].campaignId = i.campaignId /\ g[i].seatId = i.seatId
                                /\ Copy(g[i]) = h[Copy(i)],
         \A m \in mem.invites : /\ h[m] \in InviteCopy
                                /\ h[m].id = m.id /\ h[m].seatId = m.seatId,
         CountersOnly({}), Only({"invites"}),
         sql'.invites = {g[i] : i \in sql.invites},
         mem'.invites = {h[m] : m \in mem.invites}
  PROVE  IInv'
<1> USE DEF IInv
<1>1. Numbered({g[i] : i \in sql.invites}, "invites")
      /\ Numbered({h[m] : m \in mem.invites}, "invites")
  <2>1. Numbered(sql.invites, "invites") /\ Numbered(mem.invites, "invites")
    BY DEF InvitesInv
  <2> HIDE DEF IInv
  <2> QED BY <2>1, RewrittenNumbered
<1>2. /\ made'["invites"] = made["invites"] /\ made'["seats"] = made["seats"]
      /\ made'["campaigns"] = made["campaigns"] /\ madeFor' = madeFor
      /\ sql'.seats = sql.seats /\ Living' = Living
  BY CampaignsStand DEF CountersOnly, Tables, Only, SqlOnly, SqlTables
<1>3. Sql!Ids(sql.seats)' = Sql!Ids(sql.seats)
  BY <1>2 DEF Sql!Ids
<1>4. Numbered(sql.invites, "invites")' /\ Numbered(mem.invites, "invites")'
  BY <1>1, <1>2 DEF Numbered
<1>5. ASSUME NEW q \in sql'.invites
      PROVE  /\ q \in InviteRow /\ Copy(q) \in mem'.invites
             /\ q.seatId \in Sql!Ids(sql.seats) /\ q.campaignId \in Living
             /\ q.campaignId = madeFor[q.id]
  <2>1. PICK i \in sql.invites : q = g[i]
    BY <1>5
  <2> QED BY <2>1 DEF InvitesInv
<1>6. ASSUME NEW p \in mem'.invites
      PROVE  /\ p \in InviteCopy /\ p.seatId \in 1..made["seats"]
             /\ p.seatId \in Sql!Ids(sql.seats) /\ madeFor[p.id] \in Living
                => \E q \in sql'.invites : p = Copy(q)
  <2>1. PICK m \in mem.invites : p = h[m]
    BY <1>6
  <2>2. /\ m.seatId \in 1..made["seats"]
        /\ m.seatId \in Sql!Ids(sql.seats) /\ madeFor[m.id] \in Living
           => \E i \in sql.invites : m = Copy(i)
    BY DEF InvitesInv
  <2>3. p.seatId = m.seatId /\ p.id = m.id
    BY <2>1
  <2>4. ASSUME p.seatId \in Sql!Ids(sql.seats), madeFor[p.id] \in Living
        PROVE  \E q \in sql'.invites : p = Copy(q)
    <3>1. PICK i \in sql.invites : m = Copy(i)
      BY <2>2, <2>3, <2>4
    <3>2. g[i] \in sql'.invites /\ p = Copy(g[i])
      BY <2>1, <3>1
    <3> QED BY <3>2
  <2> QED BY <2>1, <2>2, <2>3, <2>4
<1>7. /\ madeFor' \in Seq(Nat) /\ Len(madeFor') = made'["invites"]
      /\ \A n \in 1..made'["invites"] : madeFor'[n] \in 1..made'["campaigns"]
  BY <1>2 DEF InvitesInv
<1>8. InvitesInv'
  BY <1>2, <1>3, <1>4, <1>5, <1>6, <1>7 DEF InvitesInv
<1> QED BY <1>8, OthersStand

LEMMA InviteRevoked ==
  ASSUME NEW r \in InviteRow \cup InviteCopy
  PROVE  /\ Sql!Assign(r, [revoked |-> TRUE]) = [r EXCEPT !.revoked = TRUE]
         /\ [r EXCEPT !.revoked = TRUE].id = r.id
         /\ [r EXCEPT !.revoked = TRUE].seatId = r.seatId
<1>1. r = [f \in DOMAIN r |-> r[f]]
  BY DEF InviteRow, InviteCopy
<1>2. \A f \in {"id", "seatId"} : f \in DOMAIN r
  BY DEF InviteRow, InviteCopy
<1> QED BY <1>1, <1>2, AssignRevoked

LEMMA RowRevoked ==
  ASSUME NEW r \in InviteRow
  PROVE  /\ [r EXCEPT !.revoked = TRUE] \in InviteRow
         /\ [r EXCEPT !.revoked = TRUE].campaignId = r.campaignId
         /\ Copy([r EXCEPT !.revoked = TRUE]) = [Copy(r) EXCEPT !.revoked = TRUE]
<1>1. [r EXCEPT !.revoked = TRUE] \in InviteRow
      /\ [r EXCEPT !.revoked = TRUE].campaignId = r.campaignId
  BY DEF InviteRow
<1>2. Copy([r EXCEPT !.revoked = TRUE]) = [Copy(r) EXCEPT !.revoked = TRUE]
  <2> DEFINE q == [r EXCEPT !.revoked = TRUE]
             copy == [id |-> r.id, seatId |-> r.seatId, maxUses |-> r.maxUses,
                      usesRemaining |-> r.usesRemaining, expiresAt |-> r.expiresAt,
                      revoked |-> TRUE]
  <2>1. /\ q.id = r.id /\ q.seatId = r.seatId /\ q.maxUses = r.maxUses
        /\ q.usesRemaining = r.usesRemaining /\ q.expiresAt = r.expiresAt
    BY DEF InviteRow
  <2>2. q.revoked = TRUE
    BY DEF InviteRow
  <2> HIDE DEF q
  <2>3. Copy(q) = copy
    BY <2>1, <2>2 DEF Copy
  <2> DEFINE w == Copy(r)
  <2>4. /\ DOMAIN w = {"id", "seatId", "maxUses", "usesRemaining", "expiresAt", "revoked"}
        /\ w.id = r.id /\ w.seatId = r.seatId /\ w.maxUses = r.maxUses
        /\ w.usesRemaining = r.usesRemaining /\ w.expiresAt = r.expiresAt
    BY DEF Copy
  <2>5. w = [f \in DOMAIN w |-> w[f]]
    BY CopyIs DEF InviteCopy
  <2> HIDE DEF w
  <2> DEFINE v == [w EXCEPT !.revoked = TRUE]
  <2>6. /\ DOMAIN v = DOMAIN w /\ v = [f \in DOMAIN v |-> v[f]]
        /\ v.id = w.id /\ v.seatId = w.seatId /\ v.maxUses = w.maxUses
        /\ v.usesRemaining = w.usesRemaining /\ v.expiresAt = w.expiresAt
    BY <2>4
  <2>7. v.revoked = TRUE
    BY <2>4
  <2> HIDE DEF v
  <2>8. v = copy
    BY <2>4, <2>6, <2>7
  <2> QED BY <2>3, <2>8 DEF q, w, v
<1> QED BY <1>1, <1>2

LEMMA CopyRevoked ==
  ASSUME NEW m \in InviteCopy
  PROVE  [m EXCEPT !.revoked = TRUE] \in InviteCopy
BY DEF InviteCopy

LEMMA RevokeInviteStep ==
  ASSUME IInv, NEW i, RevokeInvite(i)
  PROVE  IInv'
<1> USE DEF IInv
<1> DEFINE new(r) == IF r.id = i THEN [r EXCEPT !.revoked = TRUE] ELSE r
           g == [r \in sql.invites |-> new(r)]
           h == [r \in mem.invites |-> new(r)]
           d == [revoked |-> TRUE]
           X == {g[r] : r \in sql.invites}
           Y == {h[r] : r \in mem.invites}
<1>1. /\ sql' = Sql!revokeInvite(sql, i) /\ mem' = Mem!revokeInvite(mem, i)
      /\ CountersOnly({})
  BY WritesKeeps DEF RevokeInvite
<1>2. /\ \A r \in sql.invites : r \in InviteRow /\ Copy(r) \in mem.invites
      /\ \A m \in mem.invites : m \in InviteCopy
  BY DEF InvitesInv
<1>3. \A r \in sql.invites : g[r] = new(r) /\ h[Copy(r)] = new(Copy(r))
  BY <1>2
<1>4. \A m \in mem.invites : h[m] = new(m)
  OBVIOUS
<1> HIDE DEF g, h
<1>5. \A r \in sql.invites : /\ g[r] \in InviteRow /\ g[r].id = r.id
                             /\ g[r].campaignId = r.campaignId /\ g[r].seatId = r.seatId
                             /\ Copy(g[r]) = h[Copy(r)]
  <2> TAKE r \in sql.invites
  <2>1. g[r] = new(r) /\ h[Copy(r)] = new(Copy(r)) /\ r \in InviteRow /\ Copy(r).id = r.id
    BY <1>2, <1>3, CopyIs
  <2>2. CASE r.id = i
    <3>1. g[r] = [r EXCEPT !.revoked = TRUE] /\ h[Copy(r)] = [Copy(r) EXCEPT !.revoked = TRUE]
      BY <2>1, <2>2
    <3> QED BY <2>1, <3>1, InviteRevoked, RowRevoked
  <2>3. CASE r.id # i
    BY <2>1, <2>3
  <2> QED BY <2>2, <2>3
<1>6. \A m \in mem.invites : /\ h[m] \in InviteCopy
                             /\ h[m].id = m.id /\ h[m].seatId = m.seatId
  BY <1>2, <1>4, InviteRevoked, CopyRevoked
<1>7. \A m \in mem.invites : (IF m.id = i THEN Sql!Assign(m, d) ELSE m) = h[m]
  BY <1>2, <1>4, InviteRevoked
<1>8. sql' = [sql EXCEPT !.invites = X]
  <2>1. sql' = [sql EXCEPT !.invites = {new(r) : r \in sql.invites}]
    BY <1>1 DEF Sql!revokeInvite
  <2> HIDE DEF new
  <2>2. {new(r) : r \in sql.invites} = X
    BY <1>3
  <2> QED BY <2>1, <2>2
<1>9. mem' = [mem EXCEPT !.invites = Y]
  <2>1. mem' = [mem EXCEPT !.invites = Mem!Patch(mem.invites, i, d)]
    BY <1>1 DEF Mem!revokeInvite
  <2> HIDE DEF d, new
  <2>2. {IF m.id = i THEN Sql!Assign(m, d) ELSE m : m \in mem.invites} = Y
    BY <1>7
  <2> QED BY <2>1, <2>2, PatchIs
<1>10. "invites" \in SqlTables \cap MemTables
  BY DEF SqlTables, MemTables
<1>11. Only({"invites"}) /\ sql'.invites = X /\ mem'.invites = Y
  <2> HIDE DEF X, Y
  <2> QED BY <1>1, <1>8, <1>9, <1>10, OneTable
<1> HIDE DEF new, d
<1> QED BY <1>1, <1>5, <1>6, <1>11, InvitesRewritten

\* One use less of an invite that has some.
Used(m) == [m EXCEPT !.usesRemaining = @ - 1]

LEMMA RowUsed ==
  ASSUME NEW r \in InviteRow, r.usesRemaining > 0
  PROVE  /\ Used(r) \in InviteRow /\ Used(r).id = r.id
         /\ Used(r).campaignId = r.campaignId /\ Used(r).seatId = r.seatId
         /\ Copy(Used(r)) = Used(Copy(r))
<1>1. Used(r) \in InviteRow /\ Used(r).id = r.id
      /\ Used(r).campaignId = r.campaignId /\ Used(r).seatId = r.seatId
  BY DEF InviteRow, Used
<1>2. Copy(Used(r)) = Used(Copy(r))
  BY DEF InviteRow, Copy, Used
<1> QED BY <1>1, <1>2

LEMMA CopyUsed ==
  ASSUME NEW m \in InviteCopy, m.usesRemaining > 0
  PROVE  /\ Used(m) \in InviteCopy /\ Used(m).id = m.id /\ Used(m).seatId = m.seatId
         /\ Sql!Assign(m, [usesRemaining |-> m.usesRemaining - 1]) = Used(m)
<1>1. Used(m) \in InviteCopy /\ Used(m).id = m.id /\ Used(m).seatId = m.seatId
  BY DEF InviteCopy, Used
<1>2. Sql!Assign(m, [usesRemaining |-> m.usesRemaining - 1]) = Used(m)
  BY DEF InviteCopy, Used, Sql!Assign
<1> QED BY <1>1, <1>2

LEMMA ConsumeInviteStep ==
  ASSUME IInv, NEW i, ConsumeInviteAtomic(i)
  PROVE  IInv'
<1> USE DEF IInv
<1> DEFINE live(m) == m.id = i /\ m.usesRemaining > 0 /\ ~m.revoked /\ m.expiresAt > now
           new(m) == IF live(m) THEN Used(m) ELSE m
           g == [r \in sql.invites |-> new(r)]
           h == [r \in mem.invites |-> new(r)]
           X == {g[r] : r \in sql.invites}
           Y == {h[r] : r \in mem.invites}
           x == Mem!getInvite(mem, i)
<1>1. /\ sql' = Sql!consumeInviteAtomic(sql, i, now)
      /\ mem' = Mem!consumeInviteAtomic(mem, i, now)
      /\ CountersOnly({})
  BY WritesKeeps DEF ConsumeInviteAtomic
<1>2. /\ \A r \in sql.invites : r \in InviteRow /\ Copy(r) \in mem.invites
      /\ \A m \in mem.invites : m \in InviteCopy
      /\ \A m, q \in mem.invites : m.id = q.id => m = q
      /\ \A m \in mem.invites : m # NULL
  BY StorageAssumption DEF InvitesInv, Numbered
<1>3. \A r \in sql.invites : g[r] = new(r) /\ h[Copy(r)] = new(Copy(r))
  BY <1>2
<1>4. \A m \in mem.invites : h[m] = new(m)
  OBVIOUS
<1> HIDE DEF g, h
<1>5. \A r \in sql.invites : live(r) <=> live(Copy(r))
  BY <1>2, CopyIs
<1>6. \A r \in sql.invites : /\ g[r] \in InviteRow /\ g[r].id = r.id
                             /\ g[r].campaignId = r.campaignId /\ g[r].seatId = r.seatId
                             /\ Copy(g[r]) = h[Copy(r)]
  BY <1>2, <1>3, <1>5, RowUsed
<1>7. \A m \in mem.invites : /\ h[m] \in InviteCopy
                             /\ h[m].id = m.id /\ h[m].seatId = m.seatId
  BY <1>2, <1>4, CopyUsed
<1>8. sql' = [sql EXCEPT !.invites = X]
  <2> DEFINE sqlNew(r) == IF r \in Sql!Consumable(sql, i, now) THEN Used(r) ELSE r
  <2>1. sql' = [sql EXCEPT !.invites = {sqlNew(r) : r \in sql.invites}]
    BY <1>1 DEF Sql!consumeInviteAtomic, Used
  <2>2. \A r \in sql.invites : sqlNew(r) = g[r]
    BY <1>3 DEF Sql!Consumable
  <2> HIDE DEF sqlNew
  <2>3. {sqlNew(r) : r \in sql.invites} = X
    BY <2>2
  <2> QED BY <2>1, <2>3
<1>9. IF \E m \in mem.invites : m.id = i THEN x \in mem.invites /\ x.id = i ELSE x = NULL
  BY AtIs DEF Mem!getInvite
<1>10. mem' = IF x = NULL \/ x.usesRemaining <= 0 \/ x.revoked \/ x.expiresAt <= now
              THEN mem
              ELSE [mem EXCEPT !.invites =
                      Mem!Patch(@, i, [usesRemaining |-> x.usesRemaining - 1])]
  BY <1>1 DEF Mem!consumeInviteAtomic
<1> HIDE DEF x
<1>11. mem' = [mem EXCEPT !.invites = Y] \/ (mem' = mem /\ Y = mem.invites)
  <2>1. CASE x = NULL \/ ~live(x)
    <3>1. \A m \in mem.invites : h[m] = m
      BY <1>2, <1>4, <1>9, <2>1
    <3>2. Y = mem.invites
      BY <3>1
    <3>3. mem' = mem
      <4>1. CASE x = NULL
        BY <1>10, <4>1
      <4>2. CASE x # NULL
        <5>1. x \in InviteCopy /\ x.id = i /\ now \in Nat
          BY <1>2, <1>9, <4>2 DEF Shapes
        <5>2. x.usesRemaining \in Nat /\ x.expiresAt \in Nat
          BY <5>1 DEF InviteCopy
        <5> QED BY <1>10, <2>1, <4>2, <5>1, <5>2
      <4> QED BY <4>1, <4>2
    <3> QED BY <3>2, <3>3
  <2>2. CASE x # NULL /\ live(x)
    <3> DEFINE d == [usesRemaining |-> x.usesRemaining - 1]
    <3>1. x \in mem.invites /\ x \in InviteCopy /\ now \in Nat
      BY <1>2, <1>9, <2>2 DEF Shapes
    <3>2. x.usesRemaining \in Nat /\ x.expiresAt \in Nat
      BY <3>1 DEF InviteCopy
    <3>3. mem' = [mem EXCEPT !.invites = Mem!Patch(mem.invites, i, d)]
      BY <1>10, <2>2, <3>1, <3>2
    <3>4. Sql!Assign(x, d) = Used(x)
      BY <2>2, <3>1, CopyUsed
    <3> HIDE DEF d
    <3>5. \A m \in mem.invites : (IF m.id = i THEN Sql!Assign(m, d) ELSE m) = h[m]
      BY <1>2, <1>4, <2>2, <3>1, <3>4
    <3>6. {IF m.id = i THEN Sql!Assign(m, d) ELSE m : m \in mem.invites} = Y
      BY <3>5
    <3> QED BY <3>3, <3>6, PatchIs
  <2> QED BY <2>1, <2>2
<1>12. "invites" \in SqlTables \cap MemTables
  BY DEF SqlTables, MemTables
<1>13. Only({"invites"}) /\ sql'.invites = X /\ mem'.invites = Y
  <2> HIDE DEF X, Y
  <2> QED BY <1>1, <1>8, <1>11, <1>12, OneTable
<1>14. sql'.invites = {g[r] : r \in sql.invites} /\ mem'.invites = {h[r] : r \in mem.invites}
  BY <1>13 DEF X, Y
<1>15. CountersOnly({}) /\ Only({"invites"})
  BY <1>1, <1>13
<1> HIDE DEF new, live, X, Y, IInv
<1> QED BY <1>6, <1>7, <1>14, <1>15, InvitesRewritten

----------------------------------------------------------------------------
(* Campaigns *)

\* Only the campaigns written, and none of before gone.
LEMMA CampaignsWritten ==
  ASSUME IInv, Only({"campaigns"}), CampaignsInv', LivingSame
  PROVE  IInv'
<1> USE DEF IInv
<1>1. Shapes'
  BY ShapesStand
<1>2. EntitiesInv' /\ LogsInv' /\ SnapshotsInv'
  BY EntitiesStand, LogsStand, SnapshotsStand
<1>3. AdminInv' /\ Grows("admins") /\ AccountsInv' /\ Grows("accounts")
  BY AdminStands, AccountsStand
<1>4. AdminSessionsInv' /\ SessionsInv' /\ SettingsInv'
  BY <1>3, AdminSessionsStand, SessionsStand, SettingsStand
<1>5. SeatsInv' /\ InvitesInv'
  BY <1>3, SeatsStand, InvitesStand
<1> QED BY <1>1, <1>2, <1>3, <1>4, <1>5

LEMMA CreateCampaignStep ==
  ASSUME IInv, NEW name \in Texts, CreateCampaign(name)
  PROVE  IInv'
<1> USE DEF IInv
<1> DEFINE row == [id |-> Fresh("campaigns"), name |-> name]
           X == sql.campaigns \cup {row}
<1>1. /\ sql' = Sql!createCampaign(sql, Fresh("campaigns"), name)
      /\ mem' = Mem!createCampaign(mem, Fresh("campaigns"), name)
      /\ CountersOnly({"campaigns"})
      /\ made["campaigns"] \in Nat /\ made'["campaigns"] = made["campaigns"] + 1
      /\ Fresh("campaigns") = made["campaigns"] + 1
  BY MakesKeeps DEF CreateCampaign, Tables
<1>2. row.id = made["campaigns"] + 1 /\ row \in CampaignRow
  BY <1>1 DEF CampaignRow
<1>3. sql.campaigns = mem.campaigns
  BY DEF CampaignsInv
<1>4. sql' = [sql EXCEPT !.campaigns = X] /\ mem' = [mem EXCEPT !.campaigns = X]
  BY <1>1, <1>3 DEF Sql!createCampaign, Mem!createCampaign
<1> HIDE DEF row
<1>5. "campaigns" \in SqlTables \cap MemTables
  BY DEF SqlTables, MemTables
<1>6. Only({"campaigns"}) /\ sql'.campaigns = X /\ mem'.campaigns = X
  <2> HIDE DEF X
  <2> QED BY <1>1, <1>4, <1>5, OneTable
<1>7. Numbered(mem.campaigns, "campaigns")'
  BY <1>1, <1>2, <1>3, <1>6, AddedNumbered DEF CampaignsInv, Numbered
<1>8. CampaignsInv'
  BY <1>2, <1>6, <1>7 DEF CampaignsInv
<1>9. Living' = Living \cup {made["campaigns"] + 1}
  BY <1>2, <1>6 DEF Living, Sql!Ids
<1>10. LivingSame
  BY <1>1, <1>9 DEF LivingSame
<1> QED BY <1>6, <1>8, <1>10, CampaignsWritten

LEMMA UpdateCampaignStep ==
  ASSUME IInv, NEW c, NEW name \in Texts, UpdateCampaign(c, name)
  PROVE  IInv'
<1> USE DEF IInv
<1> DEFINE new(r) == IF r.id = c THEN [r EXCEPT !.name = name] ELSE r
           g == [r \in sql.campaigns |-> new(r)]
           d == [name |-> name]
           X == {g[r] : r \in sql.campaigns}
<1>1. /\ sql' = Sql!updateCampaign(sql, c, name) /\ mem' = Mem!updateCampaign(mem, c, name)
      /\ CountersOnly({})
  BY WritesKeeps DEF UpdateCampaign
<1>2. sql.campaigns = mem.campaigns /\ \A r \in sql.campaigns : r \in CampaignRow
  BY DEF CampaignsInv
<1>3. \A r \in sql.campaigns : g[r] \in CampaignRow /\ g[r].id = r.id
  BY <1>2 DEF CampaignRow
<1>4. \A r \in CampaignRow : Sql!Assign(r, d) = [r EXCEPT !.name = name]
  BY DEF CampaignRow, Sql!Assign
<1>5. \A r \in sql.campaigns : g[r] = new(r)
                               /\ g[r] = IF r.id = c THEN Sql!Assign(r, d) ELSE r
  BY <1>2, <1>4
<1>6. sql' = [sql EXCEPT !.campaigns = X]
  <2>1. sql' = [sql EXCEPT !.campaigns = {new(r) : r \in sql.campaigns}]
    BY <1>1 DEF Sql!updateCampaign
  <2> HIDE DEF new, g, d
  <2>2. {new(r) : r \in sql.campaigns} = X
    BY <1>5
  <2> QED BY <2>1, <2>2
<1>7. mem' = [mem EXCEPT !.campaigns = X]
  <2>1. mem' = [mem EXCEPT !.campaigns = Mem!Patch(sql.campaigns, c, d)]
    BY <1>1, <1>2 DEF Mem!updateCampaign
  <2> HIDE DEF new, g, d
  <2>2. {IF r.id = c THEN Sql!Assign(r, d) ELSE r : r \in sql.campaigns} = X
    BY <1>5
  <2> QED BY <2>1, <2>2, PatchIs
<1> HIDE DEF g
<1>8. "campaigns" \in SqlTables \cap MemTables
  BY DEF SqlTables, MemTables
<1>9. Only({"campaigns"}) /\ sql'.campaigns = X /\ mem'.campaigns = X
  <2> HIDE DEF X
  <2>1. CountersOnly({}) \/ CountersOnly({"campaigns"})
    BY <1>1
  <2> QED BY <1>6, <1>7, <1>8, <2>1, OneTable
<1>10. Numbered(X, "campaigns") /\ made'["campaigns"] = made["campaigns"]
  BY <1>1, <1>2, <1>3, RewrittenNumbered DEF CampaignsInv, CountersOnly, Tables
<1>11. X \subseteq CampaignRow
  BY <1>3
<1>12. Sql!Ids(X) = Sql!Ids(sql.campaigns)
  BY <1>3, RewrittenIds
<1> HIDE DEF X
<1>13. CampaignsInv'
  BY <1>9, <1>10, <1>11 DEF CampaignsInv, Numbered
<1>14. LivingSame
  BY <1>9, <1>12 DEF LivingSame, Living
<1> QED BY <1>9, <1>13, <1>14, CampaignsWritten

LEMMA DeleteCampaignStep ==
  ASSUME IInv, NEW id, DeleteCampaign(id)
  PROVE  IInv'
<1> USE DEF IInv
<1> DEFINE T == {"campaigns", "entities", "events", "snapshots", "seats", "invites"}
           kept(rows) == {r \in rows : r.campaignId # id}
           seatIds == {s.id : s \in {s \in mem.seats : s.campaignId = id}}
<1>1. /\ sql' = Sql!deleteCampaign(sql, id) /\ mem' = Mem!deleteCampaign(mem, id)
      /\ CountersOnly({})
  BY WritesKeeps DEF DeleteCampaign
<1>2. /\ SqlOnly(T)
      /\ sql'.campaigns = {c \in sql.campaigns : c.id # id}
      /\ sql'.entities = kept(sql.entities) /\ sql'.events = kept(sql.events)
      /\ sql'.snapshots = kept(sql.snapshots) /\ sql'.seats = kept(sql.seats)
      /\ sql'.invites = {i \in kept(sql.invites) : i.seatId \in Sql!Ids(kept(sql.seats))}
  <2> DEFINE C == {c \in sql.campaigns : c.id # id}
             E == kept(sql.entities)
             V == kept(sql.events)
             N == kept(sql.snapshots)
             S == kept(sql.seats)
             I == {i \in kept(sql.invites) : i.seatId \in Sql!Ids(kept(sql.seats))}
  <2>1. DOMAIN sql = SqlTables
    BY TablesOf DEF Shapes
  <2>2. sql' = [sql EXCEPT !.campaigns = C, !.entities = E, !.events = V,
                           !.snapshots = N, !.seats = S, !.invites = I]
    BY <1>1 DEF Sql!deleteCampaign
  <2> HIDE DEF C, E, N, S, V, I, IInv
  <2>3. /\ sql'.campaigns = C /\ sql'.entities = E /\ sql'.snapshots = N
        /\ sql'.seats = S /\ sql'.events = V /\ sql'.invites = I
    BY <2>1, <2>2 DEF SqlTables
  <2>4. SqlOnly(T)
    BY <2>1, <2>2 DEF SqlOnly, SqlTables
  <2> QED BY <2>3, <2>4 DEF C, E, N, S, V, I
<1>3. /\ MemOnly(T)
      /\ mem'.campaigns = {c \in mem.campaigns : c.id # id}
      /\ mem'.entities = kept(mem.entities)
      /\ mem'.snapshots = kept(mem.snapshots) /\ mem'.seats = kept(mem.seats)
      /\ mem'.events = [c \in DOMAIN mem.events \ {id} |-> mem.events[c]]
      /\ mem'.invites = {i \in mem.invites : i.seatId \notin seatIds}
  <2> DEFINE C == {c \in mem.campaigns : c.id # id}
             E == kept(mem.entities)
             N == kept(mem.snapshots)
             S == kept(mem.seats)
             V == [c \in DOMAIN mem.events \ {id} |-> mem.events[c]]
             I == {i \in mem.invites : i.seatId \notin seatIds}
  <2>1. DOMAIN mem = MemTables
    BY TablesOf DEF Shapes
  <2>2. mem' = [mem EXCEPT !.campaigns = C, !.entities = E, !.snapshots = N,
                           !.seats = S, !.events = V, !.invites = I]
    BY <1>1 DEF Mem!deleteCampaign
  <2> HIDE DEF C, E, N, S, V, I, IInv
  <2>3. /\ mem'.campaigns = C /\ mem'.entities = E /\ mem'.snapshots = N
        /\ mem'.seats = S /\ mem'.events = V /\ mem'.invites = I
    BY <2>1, <2>2 DEF MemTables, SqlTables
  <2>4. MemOnly(T)
    BY <2>1, <2>2 DEF MemOnly, MemTables, SqlTables
  <2> QED BY <2>3, <2>4 DEF C, E, N, S, V, I
<1>4. Only(T) /\ made' = made /\ held' = held /\ madeFor' = madeFor
  BY <1>1, <1>2, <1>3 DEF Only, CountersOnly, Shapes
<1>5. Living' = Living \ {id}
  BY <1>2 DEF Living, Sql!Ids
<1>6. Shapes'
  BY <1>4, ShapesStand
<1>7. CampaignsInv'
  BY <1>2, <1>3, <1>4 DEF CampaignsInv, Numbered
<1>8. EntitiesInv'
  BY <1>2, <1>3, <1>4, <1>5 DEF EntitiesInv, Numbered
<1>9. SnapshotsInv'
  BY <1>2, <1>3, <1>4, <1>5 DEF SnapshotsInv
<1>10. AdminInv' /\ Grows("admins") /\ AccountsInv' /\ Grows("accounts")
  BY <1>4, AdminStands, AccountsStand
<1>11. AdminSessionsInv' /\ SessionsInv' /\ SettingsInv'
  BY <1>4, <1>10, AdminSessionsStand, SessionsStand, SettingsStand
<1>12. LogsInv'
  <2>1. \A c : c # id => Log(c)' = Log(c)
    BY <1>3 DEF Log, Mem!EventsOf
  <2>2. /\ DOMAIN mem'.events = DOMAIN mem.events \ {id}
        /\ mem'.events = [c \in DOMAIN mem'.events |-> mem'.events[c]]
        /\ \A c \in DOMAIN mem'.events : mem'.events[c] = mem.events[c]
    BY <1>3
  <2>3. DOMAIN mem'.events \subseteq 1..made'["campaigns"]
    BY <1>4, <2>2 DEF LogsInv
  <2>4. \A c \in DOMAIN mem'.events :
          /\ mem'.events[c] \in Seq(EventRow)
          /\ \A n \in 1..Len(mem'.events[c]) :
               mem'.events[c][n].seq = n /\ mem'.events[c][n].campaignId = c
    BY <2>2 DEF LogsInv
  <2>5. ASSUME NEW e \in sql'.events
        PROVE  /\ e.campaignId \in Living'
               /\ e.seq \in 1..Len(Log(e.campaignId)') /\ e = Log(e.campaignId)'[e.seq]
    BY <1>2, <1>5, <2>1, <2>5 DEF LogsInv
  <2>6. ASSUME NEW c \in Living', NEW n \in 1..Len(Log(c)')
        PROVE  Log(c)'[n] \in sql'.events
    <3>1. c \in Living /\ c # id /\ Log(c)' = Log(c)
      BY <1>5, <2>1, <2>6
    <3>2. Log(c)[n] \in sql.events /\ Log(c)[n].campaignId = c
      BY <2>6, <3>1, LogIs DEF LogsInv
    <3> QED BY <1>2, <3>1, <3>2
  <2> QED BY <2>2, <2>3, <2>4, <2>5, <2>6 DEF LogsInv
<1>13. sql'.accounts = sql.accounts
  BY <1>2 DEF SqlOnly, SqlTables
<1>14. SeatsInv'
  <2>1. /\ mem'.seats \subseteq SeatRow /\ Numbered(mem.seats, "seats")'
        /\ \A s \in mem'.seats : s.campaignId \in 1..made'["campaigns"]
    BY <1>3, <1>4 DEF SeatsInv, Numbered
  <2>2. sql'.seats = {s \in mem'.seats : s.campaignId \in Living'}
    BY <1>2, <1>3, <1>5 DEF SeatsInv
  <2>3. \A s \in mem'.seats \ sql'.seats : s.accountId = NULL /\ s.id \notin held'["seats"]
    BY <1>2, <1>3, <1>4 DEF SeatsInv
  <2>4. \A s \in sql'.seats : s.accountId \in Sql!Ids(sql.accounts)' \cup {NULL}
    BY <1>2, <1>13 DEF SeatsInv, Sql!Ids
  <2> QED BY <2>1, <2>2, <2>3, <2>4 DEF SeatsInv
<1>15. InvitesInv'
  <2>1. \A p, q \in mem.seats : p.id = q.id => p = q
    BY DEF SeatsInv, Numbered
  <2>2. sql.seats \subseteq mem.seats
    BY DEF SeatsInv
  <2>3. ASSUME NEW i \in sql'.invites
        PROVE  /\ i \in sql.invites /\ i.seatId \notin seatIds
               /\ i.seatId \in Sql!Ids(sql.seats)' /\ i.campaignId \in Living'
               /\ i.campaignId = madeFor'[i.id]
    <3>1. i \in sql.invites /\ i.campaignId # id
      BY <1>2, <2>3
    <3>2. PICK p \in kept(sql.seats) : p.id = i.seatId
      BY <1>2, <2>3 DEF Sql!Ids
    <3>3. i.seatId \notin seatIds
      BY <2>1, <2>2, <3>2
    <3>4. i.seatId \in Sql!Ids(sql.seats)'
      BY <1>2, <3>2 DEF Sql!Ids
    <3> QED BY <1>4, <1>5, <3>1, <3>3, <3>4 DEF InvitesInv
  <2>4. ASSUME NEW i \in sql'.invites
        PROVE  Copy(i) \in mem'.invites
    <3>1. i \in sql.invites /\ i \in InviteRow /\ i.seatId \notin seatIds
      BY <2>3 DEF InvitesInv
    <3>2. Copy(i) \in mem.invites /\ Copy(i).seatId = i.seatId
      BY <3>1, CopyIs DEF InvitesInv
    <3> QED BY <1>3, <3>1, <3>2
  <2>5. ASSUME NEW m \in mem'.invites
        PROVE  /\ m \in mem.invites /\ m.seatId \in 1..made'["seats"]
               /\ m.seatId \in Sql!Ids(sql.seats)' /\ madeFor'[m.id] \in Living'
                  => \E i \in sql'.invites : m = Copy(i)
    <3>1. m \in mem.invites /\ m.seatId \in 1..made["seats"]
      BY <1>3, <2>5 DEF InvitesInv
    <3>2. ASSUME m.seatId \in Sql!Ids(sql.seats)', madeFor[m.id] \in Living'
          PROVE  \E i \in sql'.invites : m = Copy(i)
      <4>1. m.seatId \in Sql!Ids(kept(sql.seats))
        BY <1>2, <3>2 DEF Sql!Ids
      <4>2. PICK i \in sql.invites : m = Copy(i)
        BY <1>5, <3>1, <3>2, <4>1 DEF InvitesInv, Sql!Ids
      <4>3. i.seatId = m.seatId /\ i.id = m.id
        BY <4>2, CopyIs DEF InvitesInv
      <4>4. i.campaignId # id
        BY <1>5, <3>2, <4>2, <4>3 DEF InvitesInv
      <4>5. i \in sql'.invites
        BY <1>2, <4>1, <4>2, <4>3, <4>4
      <4> QED BY <4>2, <4>5
    <3> QED BY <1>4, <3>1, <3>2
  <2>6. Numbered(sql.invites, "invites")' /\ Numbered(mem.invites, "invites")'
    BY <1>4, <2>3, <2>5 DEF InvitesInv, Numbered
  <2>7. /\ madeFor' \in Seq(Nat) /\ Len(madeFor') = made'["invites"]
        /\ \A n \in 1..made'["invites"] : madeFor'[n] \in 1..made'["campaigns"]
    BY <1>4 DEF InvitesInv
  <2> QED BY <2>3, <2>4, <2>5, <2>6, <2>7 DEF InvitesInv
<1> QED BY <1>6, <1>7, <1>8, <1>9, <1>10, <1>11, <1>12, <1>14, <1>15

----------------------------------------------------------------------------
(* The set-up server *)

\* A database with rows in four tables only.
SqlDb(d, cs, ss, is, as) ==
  /\ DOMAIN d = SqlTables /\ d = [t \in SqlTables |-> d[t]]
  /\ d.campaigns = cs /\ d.seats = ss /\ d.invites = is /\ d.accounts = as
  /\ \A t \in SqlTables \ {"campaigns", "seats", "invites", "accounts"} : d[t] = {}

NoLog == [c \in {} |-> << >>]

MemDb(d, cs, ss, is, as) ==
  /\ DOMAIN d = MemTables /\ d = [t \in MemTables |-> d[t]]
  /\ d.campaigns = cs /\ d.seats = ss /\ d.invites = is /\ d.accounts = as
  /\ d.events = NoLog /\ d.admin = NULL
  /\ d.entities = {} /\ d.snapshots = {} /\ d.adminSessions = {}
  /\ d.sessions = {} /\ d.settings = {}

LEMMA SqlDbPut ==
  ASSUME NEW d, NEW cs, NEW ss, NEW is, NEW as, NEW X, SqlDb(d, cs, ss, is, as)
  PROVE  /\ SqlDb([d EXCEPT !.campaigns = @ \cup X], cs \cup X, ss, is, as)
         /\ SqlDb([d EXCEPT !.seats = @ \cup X], cs, ss \cup X, is, as)
         /\ SqlDb([d EXCEPT !.invites = @ \cup X], cs, ss, is \cup X, as)
         /\ SqlDb([d EXCEPT !.accounts = @ \cup X], cs, ss, is, as \cup X)
<1>1. SqlDb([d EXCEPT !.campaigns = @ \cup X], cs \cup X, ss, is, as)
  BY DEF SqlDb, SqlTables
<1>2. SqlDb([d EXCEPT !.seats = @ \cup X], cs, ss \cup X, is, as)
  BY DEF SqlDb, SqlTables
<1>3. SqlDb([d EXCEPT !.invites = @ \cup X], cs, ss, is \cup X, as)
  BY DEF SqlDb, SqlTables
<1>4. SqlDb([d EXCEPT !.accounts = @ \cup X], cs, ss, is, as \cup X)
  BY DEF SqlDb, SqlTables
<1> QED BY <1>1, <1>2, <1>3, <1>4

LEMMA MemDbPut ==
  ASSUME NEW d, NEW cs, NEW ss, NEW is, NEW as, NEW X, MemDb(d, cs, ss, is, as)
  PROVE  /\ MemDb([d EXCEPT !.campaigns = @ \cup X], cs \cup X, ss, is, as)
         /\ MemDb([d EXCEPT !.seats = @ \cup X], cs, ss \cup X, is, as)
         /\ MemDb([d EXCEPT !.invites = @ \cup X], cs, ss, is \cup X, as)
         /\ MemDb([d EXCEPT !.accounts = @ \cup X], cs, ss, is, as \cup X)
<1>1. MemDb([d EXCEPT !.campaigns = @ \cup X], cs \cup X, ss, is, as)
  BY DEF MemDb, MemTables, SqlTables
<1>2. MemDb([d EXCEPT !.seats = @ \cup X], cs, ss \cup X, is, as)
  BY DEF MemDb, MemTables, SqlTables
<1>3. MemDb([d EXCEPT !.invites = @ \cup X], cs, ss, is \cup X, as)
  BY DEF MemDb, MemTables, SqlTables
<1>4. MemDb([d EXCEPT !.accounts = @ \cup X], cs, ss, is, as \cup X)
  BY DEF MemDb, MemTables, SqlTables
<1> QED BY <1>1, <1>2, <1>3, <1>4

LEMMA SqlDbKeys ==
  ASSUME NEW d, NEW cs, NEW ss, NEW is, NEW as, SqlDb(d, cs, ss, is, as),
         \A r \in ss \cup is : r.campaignId \in Sql!Ids(cs),
         \A s \in ss : s.accountId = NULL, \A i \in is : i.seatId \in Sql!Ids(ss),
         \A a, b \in as : a = b
  PROVE  \A db : Sql!Stored(db, d) = d
<1>1. /\ d.campaigns = cs /\ d.seats = ss /\ d.invites = is /\ d.accounts = as
      /\ d.entities = {} /\ d.events = {} /\ d.snapshots = {} /\ d.admins = {}
      /\ d.adminSessions = {} /\ d.sessions = {}
  BY DEF SqlDb, SqlTables
<1>2. Sql!ForeignKeysHold(d) /\ Sql!UniqueKeysHold(d)
  BY <1>1 DEF Sql!ForeignKeysHold, Sql!UniqueKeysHold
<1> QED BY <1>2 DEF Sql!Stored

Camp1 == [id |-> 1, name |-> "n1"]
Camp2 == [id |-> 2, name |-> "n2"]
Camps == {Camp1, Camp2}
Seat1 == [id |-> 1, campaignId |-> 1, role |-> "player", accountId |-> NULL,
          isActive |-> TRUE]
Invite1 == [id |-> 1, campaignId |-> 1, seatId |-> 1, maxUses |-> 2,
            usesRemaining |-> 2, expiresAt |-> Life, revoked |-> FALSE]
Account1 == [id |-> 1, username |-> "n1", passwordHash |-> "n1",
             mustChangePassword |-> FALSE, lastLoginAt |-> NULL]

LEMMA SqlStart == Init => SqlDb(sql, Camps, {Seat1}, {Invite1}, {Account1})
<1> SUFFICES ASSUME Init PROVE SqlDb(sql, Camps, {Seat1}, {Invite1}, {Account1})
  OBVIOUS
<1> DEFINE s1 == Sql!createCampaign(Sql!EmptyDb, 1, "n1")
           s2 == Sql!createCampaign(s1, 2, "n2")
           s3 == Sql!createSeat(s2, 1, 1, "player")
           s4 == Sql!createInvite(s3, 1, 1, 1, 2, Life)
           s5 == Sql!createPlayerAccount(s4, 1, "n1", "n1")
<1>1. sql = s5
  BY DEF Init, Start
<1>2. \A x : {} \cup {x} = {x}
  OBVIOUS
<1>3. 1 \in Sql!Ids(Camps) /\ 1 \in Sql!Ids({Seat1})
  BY DEF Camps, Camp1, Sql!Ids, Seat1
<1>4. /\ Seat1.campaignId = 1 /\ Seat1.accountId = NULL
      /\ Invite1.campaignId = 1 /\ Invite1.seatId = 1
  BY DEF Seat1, Invite1
<1>5. SqlDb(s1, {} \cup {Camp1}, {}, {}, {})
  <2>1. SqlDb(Sql!EmptyDb, {}, {}, {}, {})
    BY DEF Sql!EmptyDb, SqlDb, SqlTables
  <2>2. s1 = [Sql!EmptyDb EXCEPT !.campaigns = @ \cup {Camp1}]
    BY DEF Sql!createCampaign, Camp1
  <2>3. SqlDb([Sql!EmptyDb EXCEPT !.campaigns = @ \cup {Camp1}], {} \cup {Camp1}, {}, {}, {})
    BY <2>1, SqlDbPut
  <2> QED BY <2>2, <2>3
<1> HIDE DEF s1
<1>6. SqlDb(s2, Camps, {}, {}, {})
  <2>1. s2 = [s1 EXCEPT !.campaigns = @ \cup {Camp2}]
    BY DEF Sql!createCampaign, Camp2
  <2>2. SqlDb([s1 EXCEPT !.campaigns = @ \cup {Camp2}], ({} \cup {Camp1}) \cup {Camp2}, {}, {}, {})
    BY <1>5, SqlDbPut
  <2>3. SqlDb(s2, ({} \cup {Camp1}) \cup {Camp2}, {}, {}, {})
    BY <2>1, <2>2
  <2>4. ({} \cup {Camp1}) \cup {Camp2} = Camps
    BY DEF Camps
  <2> QED BY <2>3, <2>4
<1> HIDE DEF s2
<1>7. SqlDb(s3, Camps, {Seat1}, {}, {})
  <2> DEFINE d == [s2 EXCEPT !.seats = @ \cup {Seat1}]
  <2>1. s3 = Sql!Stored(s2, d)
    BY DEF Sql!createSeat, Seat1
  <2>2. SqlDb(d, Camps, {} \cup {Seat1}, {}, {})
    BY <1>6, SqlDbPut
  <2> HIDE DEF d
  <2>3. SqlDb(d, Camps, {Seat1}, {}, {})
    BY <1>2, <2>2
  <2>4. Sql!Stored(s2, d) = d
    BY <1>3, <1>4, <2>3, SqlDbKeys
  <2> QED BY <2>1, <2>3, <2>4
<1> HIDE DEF s3
<1>8. SqlDb(s4, Camps, {Seat1}, {Invite1}, {})
  <2> DEFINE d == [s3 EXCEPT !.invites = @ \cup {Invite1}]
  <2>1. s4 = Sql!Stored(s3, d)
    BY DEF Sql!createInvite, Invite1
  <2>2. SqlDb(d, Camps, {Seat1}, {} \cup {Invite1}, {})
    BY <1>7, SqlDbPut
  <2> HIDE DEF d
  <2>3. SqlDb(d, Camps, {Seat1}, {Invite1}, {})
    BY <1>2, <2>2
  <2>4. Sql!Stored(s3, d) = d
    BY <1>3, <1>4, <2>3, SqlDbKeys
  <2> QED BY <2>1, <2>3, <2>4
<1> HIDE DEF s4
<1>9. SqlDb(s5, Camps, {Seat1}, {Invite1}, {Account1})
  <2> DEFINE d == [s4 EXCEPT !.accounts = @ \cup {Account1}]
  <2>1. s5 = Sql!Stored(s4, d)
    BY DEF Sql!createPlayerAccount, Account1
  <2>2. SqlDb(d, Camps, {Seat1}, {Invite1}, {} \cup {Account1})
    BY <1>8, SqlDbPut
  <2> HIDE DEF d
  <2>3. SqlDb(d, Camps, {Seat1}, {Invite1}, {Account1})
    BY <1>2, <2>2
  <2>4. Sql!Stored(s4, d) = d
    BY <1>3, <1>4, <2>3, SqlDbKeys
  <2> QED BY <2>1, <2>3, <2>4
<1> HIDE DEF s5
<1> QED BY <1>1, <1>9

LEMMA MemStart == Init => MemDb(mem, Camps, {Seat1}, {Copy(Invite1)}, {Account1})
<1> SUFFICES ASSUME Init PROVE MemDb(mem, Camps, {Seat1}, {Copy(Invite1)}, {Account1})
  OBVIOUS
<1> DEFINE s1 == Mem!createCampaign(Mem!EmptyDb, 1, "n1")
           s2 == Mem!createCampaign(s1, 2, "n2")
           s3 == Mem!createSeat(s2, 1, 1, "player")
           s4 == Mem!createInvite(s3, 1, 1, 1, 2, Life)
           s5 == Mem!createPlayerAccount(s4, 1, "n1", "n1")
<1>1. mem = s5
  BY DEF Init, Start
<1>2. MemDb(s1, {} \cup {Camp1}, {}, {}, {})
  <2>1. MemDb(Mem!EmptyDb, {}, {}, {}, {})
    BY DEF Mem!EmptyDb, MemDb, MemTables, SqlTables, NoLog
  <2>2. s1 = [Mem!EmptyDb EXCEPT !.campaigns = @ \cup {Camp1}]
    BY DEF Mem!createCampaign, Camp1
  <2>3. MemDb([Mem!EmptyDb EXCEPT !.campaigns = @ \cup {Camp1}], {} \cup {Camp1}, {}, {}, {})
    BY <2>1, MemDbPut
  <2> QED BY <2>2, <2>3
<1> HIDE DEF s1
<1>3. MemDb(s2, ({} \cup {Camp1}) \cup {Camp2}, {}, {}, {})
  <2>1. s2 = [s1 EXCEPT !.campaigns = @ \cup {Camp2}]
    BY DEF Mem!createCampaign, Camp2
  <2>2. MemDb([s1 EXCEPT !.campaigns = @ \cup {Camp2}], ({} \cup {Camp1}) \cup {Camp2}, {}, {}, {})
    BY <1>2, MemDbPut
  <2> QED BY <2>1, <2>2
<1>4. ({} \cup {Camp1}) \cup {Camp2} = Camps
  BY DEF Camps
<1> HIDE DEF s2
<1>5. MemDb(s3, Camps, {} \cup {Seat1}, {}, {})
  <2>1. s3 = [s2 EXCEPT !.seats = @ \cup {Seat1}]
    BY DEF Mem!createSeat, Seat1
  <2>2. MemDb([s2 EXCEPT !.seats = @ \cup {Seat1}], Camps, {} \cup {Seat1}, {}, {})
    BY <1>3, <1>4, MemDbPut
  <2> QED BY <2>1, <2>2
<1> HIDE DEF s3
<1>6. MemDb(s4, Camps, {} \cup {Seat1}, {} \cup {Copy(Invite1)}, {})
  <2>1. Copy(Invite1) = [id |-> 1, seatId |-> 1, maxUses |-> 2, usesRemaining |-> 2,
                         expiresAt |-> Life, revoked |-> FALSE]
    BY DEF Copy, Invite1
  <2>2. s4 = [s3 EXCEPT !.invites = @ \cup {Copy(Invite1)}]
    BY <2>1 DEF Mem!createInvite
  <2>3. MemDb([s3 EXCEPT !.invites = @ \cup {Copy(Invite1)}], Camps, {} \cup {Seat1}, {} \cup {Copy(Invite1)}, {})
    BY <1>5, MemDbPut
  <2> QED BY <2>2, <2>3
<1> HIDE DEF s4
<1>7. MemDb(s5, Camps, {} \cup {Seat1}, {} \cup {Copy(Invite1)}, {} \cup {Account1})
  <2>1. s5 = [s4 EXCEPT !.accounts = @ \cup {Account1}]
    BY DEF Mem!createPlayerAccount, Account1
  <2>2. MemDb([s4 EXCEPT !.accounts = @ \cup {Account1}], Camps, {} \cup {Seat1}, {} \cup {Copy(Invite1)}, {} \cup {Account1})
    BY <1>6, MemDbPut
  <2> QED BY <2>1, <2>2
<1>8. \A x : {} \cup {x} = {x}
  OBVIOUS
<1> HIDE DEF s5
<1> QED BY <1>1, <1>7, <1>8

LEMMA InitIInv == Init => IInv
<1> SUFFICES ASSUME Init PROVE IInv
  OBVIOUS
<1>1. /\ DOMAIN sql = SqlTables /\ sql = [t \in DOMAIN sql |-> sql[t]]
      /\ sql.campaigns = Camps /\ sql.seats = {Seat1} /\ sql.invites = {Invite1}
      /\ sql.accounts = {Account1} /\ sql.entities = {} /\ sql.events = {}
      /\ sql.snapshots = {} /\ sql.admins = {} /\ sql.adminSessions = {}
      /\ sql.sessions = {} /\ sql.settings = {}
  BY SqlStart DEF SqlDb, SqlTables
<1>2. /\ DOMAIN mem = MemTables /\ mem = [t \in DOMAIN mem |-> mem[t]]
      /\ mem.campaigns = Camps /\ mem.seats = {Seat1} /\ mem.invites = {Copy(Invite1)}
      /\ mem.accounts = {Account1} /\ mem.entities = {}
      /\ mem.snapshots = {} /\ mem.admin = NULL /\ mem.adminSessions = {}
      /\ mem.sessions = {} /\ mem.settings = {}
  BY MemStart DEF MemDb, MemTables, SqlTables
<1>3. DOMAIN mem.events = {} /\ mem.events = [c \in DOMAIN mem.events |-> mem.events[c]]
  <2>1. mem.events = NoLog
    BY MemStart DEF MemDb
  <2> QED BY <2>1 DEF NoLog
<1>4. /\ made \in [Tables -> Nat] /\ now = 0
      /\ held = [t \in Tables |-> 1..made[t]]
  BY DEF Init, Tables
<1>5. /\ made["campaigns"] = 2 /\ made["seats"] = 1 /\ made["invites"] = 1
      /\ made["accounts"] = 1 /\ made["admins"] = 0
  BY DEF Init, Tables
<1>6. Shapes
  BY <1>1, <1>2, <1>4, TablesOf DEF Shapes
<1>7. CampaignsInv
  BY <1>1, <1>2, <1>5 DEF CampaignsInv, Numbered, Camps, Camp1, Camp2, CampaignRow, Texts
<1>8. Living = 1..2
  BY <1>1 DEF Living, Sql!Ids, Camps, Camp1, Camp2
<1>9. EntitiesInv /\ SnapshotsInv
  BY <1>1, <1>2 DEF EntitiesInv, SnapshotsInv, Numbered
<1>10. LogsInv
  <2>1. \A c : Log(c) = << >> /\ Len(<< >>) = 0
    BY <1>3 DEF Log, Mem!EventsOf
  <2> QED BY <1>1, <1>3, <2>1 DEF LogsInv
<1>11. AdminInv
  BY <1>1, <1>2, <1>4, <1>5 DEF AdminInv, Tables
<1>12. AdminSessionsInv /\ SettingsInv /\ SessionsInv
  BY <1>1, <1>2 DEF AdminSessionsInv, SettingsInv, SessionsInv, Numbered
<1>13. SeatsInv
  <2>1. Seat1 \in SeatRow /\ Seat1.id = 1 /\ Seat1.campaignId = 1 /\ Seat1.accountId = NULL
    BY DEF Seat1, SeatRow
  <2> QED BY <1>1, <1>2, <1>5, <1>8, <2>1 DEF SeatsInv, Numbered
<1>14. InvitesInv
  <2>1. Invite1 \in InviteRow /\ Invite1.id = 1 /\ Invite1.campaignId = 1
        /\ Invite1.seatId = 1
    BY DEF Invite1, InviteRow, Life
  <2>2. Copy(Invite1) \in InviteCopy /\ Copy(Invite1).id = 1 /\ Copy(Invite1).seatId = 1
    BY <2>1, CopyIs
  <2>3. Sql!Ids(sql.seats) = {1}
    BY <1>1 DEF Seat1, Sql!Ids
  <2>4. madeFor \in Seq(Nat) /\ Len(madeFor) = 1 /\ madeFor[1] = 1
    BY DEF Init
  <2>5. 1 \in Living /\ madeFor[Invite1.id] = 1
    BY <1>8, <2>1, <2>4
  <2>6. Numbered({Invite1}, "invites") /\ Numbered({Copy(Invite1)}, "invites")
    BY <1>5, <2>1, <2>2 DEF Numbered
  <2>7. \A n \in 1..made["invites"] : madeFor[n] \in 1..made["campaigns"]
    BY <1>5, <2>4
  <2>8. /\ sql.invites \subseteq InviteRow /\ Numbered(sql.invites, "invites")
        /\ mem.invites \subseteq InviteCopy /\ Numbered(mem.invites, "invites")
        /\ madeFor \in Seq(Nat) /\ Len(madeFor) = made["invites"]
    BY <1>1, <1>2, <1>5, <2>1, <2>2, <2>4, <2>6
  <2>9. \A i \in sql.invites : /\ i.seatId \in Sql!Ids(sql.seats) /\ i.campaignId \in Living
                               /\ i.campaignId = madeFor[i.id] /\ Copy(i) \in mem.invites
    BY <1>1, <1>2, <2>1, <2>3, <2>5
  <2>10. \A m \in mem.invites : /\ m.seatId \in 1..made["seats"]
                                /\ \E i \in sql.invites : m = Copy(i)
    BY <1>1, <1>2, <1>5, <2>2
  <2> QED BY <2>7, <2>8, <2>9, <2>10 DEF InvitesInv
<1>15. AccountsInv
  <2>1. Account1 \in AccountRow /\ Account1.id = 1
    BY DEF Account1, AccountRow, Texts
  <2>2. held["accounts"] = {1}
    BY <1>4, <1>5 DEF Tables
  <2> QED BY <1>1, <1>2, <1>5, <2>1, <2>2 DEF AccountsInv, Numbered, Sql!Ids
<1> QED BY <1>6, <1>7, <1>9, <1>10, <1>11, <1>12, <1>13, <1>14, <1>15 DEF IInv

----------------------------------------------------------------------------
(* Every step *)

LEMMA TickStep ==
  ASSUME IInv, Tick
  PROVE  IInv'
<1>1. sql' = sql /\ mem' = mem /\ CountersOnly({})
  BY DEF Tick, CountersOnly, IInv, Shapes
<1> QED BY <1>1, NothingWritten

LEMMA StutterStep ==
  ASSUME IInv, UNCHANGED vars
  PROVE  IInv'
<1>1. sql' = sql /\ mem' = mem /\ CountersOnly({})
  BY DEF vars, CountersOnly, IInv, Shapes
<1> QED BY <1>1, NothingWritten

LEMMA CampaignCallStep == IInv /\ CampaignCall => IInv'
<1> SUFFICES ASSUME IInv, CampaignCall PROVE IInv'
  OBVIOUS
<1>1. Names \subseteq Texts /\ "n2" \in Texts
  BY DEF Texts
<1>2. ASSUME NEW name \in Names, CreateCampaign(name)
      PROVE  IInv'
  BY <1>1, <1>2, CreateCampaignStep
<1>3. ASSUME NEW c \in held["campaigns"],
             DeleteCampaign(c) \/ PutSnapshot(c) \/ UpdateCampaign(c, "n2")
      PROVE  IInv'
  BY <1>1, <1>3, DeleteCampaignStep, PutSnapshotStep, UpdateCampaignStep
<1>4. ASSUME NEW c \in held["campaigns"], NEW type \in Types,
             CreateEntity(c, type) \/ AppendEvent(c, type)
      PROVE  IInv'
  BY <1>4, CreateEntityStep, AppendEventStep
<1>5. ASSUME NEW c \in held["campaigns"], NEW e \in held["entities"],
             DeleteEntity(c, e) \/ UpdateEntity(c, e, "n2")
      PROVE  IInv'
  BY <1>1, <1>5, DeleteEntityStep, UpdateEntityStep
<1> QED BY <1>2, <1>3, <1>4, <1>5 DEF CampaignCall

LEMMA AdminCallStep == IInv /\ AdminCall => IInv'
<1> SUFFICES ASSUME IInv, AdminCall PROVE IInv'
  OBVIOUS
<1>1. CASE CreateServerAdmin
  BY <1>1, CreateServerAdminStep
<1>2. CASE CleanupExpiredAdminSessions
  BY <1>2, CleanupStep
<1>3. CASE SetServerSetting("n1")
  BY <1>3, SetServerSettingStep DEF Texts
<1>4. ASSUME NEW a \in held["admins"], CreateAdminSession(a)
      PROVE  IInv'
  BY <1>4, CreateAdminSessionStep
<1>5. ASSUME NEW a, NEW change \in AdminChanges, UpdateServerAdmin(a, change)
      PROVE  IInv'
  BY <1>5, UpdateServerAdminStep
<1>6. ASSUME NEW s, RevokeAdminSession(s)
      PROVE  IInv'
  BY <1>6, RevokeAdminSessionStep
<1> QED BY <1>1, <1>2, <1>3, <1>4, <1>5, <1>6 DEF AdminCall

LEMMA SeatCallStep == IInv /\ SeatCall => IInv'
<1> SUFFICES ASSUME IInv, SeatCall PROVE IInv'
  OBVIOUS
<1>1. ASSUME NEW c \in held["campaigns"], NEW role \in {"gm", "player"}, CreateSeat(c, role)
      PROVE  IInv'
  BY <1>1, CreateSeatStep
<1>2. ASSUME NEW c, NEW s, DeleteSeat(c, s)
      PROVE  IInv'
  BY <1>2, DeleteSeatStep
<1>3. ASSUME NEW c, NEW s \in held["seats"], NEW change \in SeatChanges,
             UpdateSeat(c, s, change)
      PROVE  IInv'
  BY <1>3, UpdateSeatStep
<1>4. ASSUME NEW c \in held["campaigns"], NEW s \in held["seats"], NEW n \in 1..2,
             CreateInvite(c, s, n)
      PROVE  IInv'
  BY <1>4, CreateInviteStep
<1>5. ASSUME NEW i, RevokeInvite(i) \/ ConsumeInviteAtomic(i)
      PROVE  IInv'
  BY <1>5, RevokeInviteStep, ConsumeInviteStep
<1> QED BY <1>1, <1>2, <1>3, <1>4, <1>5 DEF SeatCall

LEMMA AccountCallStep == IInv /\ AccountCall => IInv'
<1> SUFFICES ASSUME IInv, AccountCall PROVE IInv'
  OBVIOUS
<1>1. "n2" \in Texts /\ NULL \in Texts
  BY DEF Texts
<1>2. ASSUME NEW username \in Names, CreatePlayerAccount(username)
      PROVE  IInv'
  BY <1>2, CreatePlayerAccountStep
<1>3. ASSUME NEW a, UpdatePlayerAccountLastLogin(a)
      PROVE  IInv'
  BY <1>3, UpdateLastLoginStep
<1>4. ASSUME NEW a, SetPlayerAccountMustChangePassword(a, TRUE, "n2")
      PROVE  IInv'
  BY <1>1, <1>4, SetMustChangeStep
<1>5. ASSUME NEW a, SetPlayerAccountMustChangePassword(a, FALSE, NULL)
      PROVE  IInv'
  BY <1>1, <1>5, SetMustChangeStep
<1>6. ASSUME NEW a \in held["accounts"], CreateAuthSession(a)
      PROVE  IInv'
  BY <1>6, CreateAuthSessionStep
<1>7. ASSUME NEW a, RevokeAllAuthSessionsForAccount(a) \/ RevokeOldestAuthSessionForAccount(a)
      PROVE  IInv'
  BY <1>7, RevokeAllStep, RevokeOldestStep
<1>8. ASSUME NEW s, UpdateAuthSession(s) \/ RevokeAuthSession(s)
      PROVE  IInv'
  BY <1>8, UpdateAuthSessionStep, RevokeAuthSessionStep
<1> QED BY <1>2, <1>3, <1>4, <1>5, <1>6, <1>7, <1>8 DEF AccountCall

\* Whatever was made, deleted or refused, the Maps hold what SQLite holds and
\* more of what is gone only.  The invariant behind every theorem below
\* (storage.ts: the facade over SqliteStorage and InMemoryBackend).
THEOREM StorageIsSound == Spec => []IInv
<1>1. Init => IInv
  BY InitIInv
<1>2. IInv /\ [Next]_vars => IInv'
  BY CampaignCallStep, AdminCallStep, SeatCallStep, AccountCallStep, TickStep,
     StutterStep DEF Next
<1> QED BY <1>1, <1>2, PTL DEF Spec

\* No row outlives what it refers to, and no name or number is taken twice:
\* the FOREIGN KEY and UNIQUE clauses of initSchema stand over every sequence
\* of calls, deletes and refused statements among them.
THEOREM KeysStand == Spec => []SqlIntegrity
BY StorageIsSound, KeysHold, PTL

----------------------------------------------------------------------------
(* A query in the order of seq, and a filter of an array *)

Rank(at, i) == Cardinality({j \in at : j < i})

\* The indices of some elements are ranked 0, 1, ...: one index for each rank.
LEMMA Ranked ==
  ASSUME NEW L \in Nat, NEW at \in SUBSET (1..L)
  PROVE  /\ IsFiniteSet(at) /\ Cardinality(at) \in Nat
         /\ \A n \in 1..Cardinality(at) : \E i \in at : Rank(at, i) = n - 1
         /\ \A i, k \in at : Rank(at, i) = Rank(at, k) => i = k
<1> DEFINE below(i) == {j \in at : j < i}
           f == [i \in at |-> Rank(at, i) + 1]
           N == Cardinality(at)
<1>1. IsFiniteSet(at) /\ N \in Nat
  <2>1. IsFiniteSet(1..L)
    BY FS_Interval
  <2>2. IsFiniteSet(at)
    BY <2>1, FS_Subset
  <2> QED BY <2>2, FS_CardinalityType
<1>2. ASSUME NEW i \in at
      PROVE  /\ IsFiniteSet(below(i) \cup {i})
             /\ Rank(at, i) \in Nat
             /\ Cardinality(below(i) \cup {i}) = Rank(at, i) + 1
  <2>1. below(i) \in SUBSET at /\ i \notin below(i)
    OBVIOUS
  <2> HIDE DEF below
  <2>2. IsFiniteSet(below(i))
    BY <1>1, <2>1, FS_Subset
  <2>3. Cardinality(below(i)) \in Nat
    BY <2>2, FS_CardinalityType
  <2>4. IsFiniteSet(below(i) \cup {i})
        /\ Cardinality(below(i) \cup {i}) = Cardinality(below(i)) + 1
    BY <2>1, <2>2, FS_AddElement
  <2> QED BY <2>3, <2>4 DEF Rank, below
<1>3. ASSUME NEW i \in at, NEW k \in at, i < k
      PROVE  Rank(at, i) < Rank(at, k)
  <2>0. i \in Int /\ k \in Int /\ \A j \in at : j \in Int
    OBVIOUS
  <2>1. below(i) \cup {i} \in SUBSET below(k)
    <3> SUFFICES ASSUME NEW j \in below(i) \cup {i}
                 PROVE  j \in at /\ j < k
      OBVIOUS
    <3>1. CASE j = i
      BY <1>3, <3>1
    <3>2. CASE j \in at /\ j < i
      BY <1>3, <2>0, <3>2
    <3> QED BY <3>1, <3>2
  <2>2. IsFiniteSet(below(k))
    <3>1. below(k) \in SUBSET at
      OBVIOUS
    <3> QED BY <1>1, <3>1, FS_Subset
  <2> HIDE DEF below
  <2>3. Cardinality(below(i) \cup {i}) <= Cardinality(below(k))
    BY <2>1, <2>2, FS_Subset
  <2>4. Cardinality(below(k)) = Rank(at, k)
    BY DEF Rank, below
  <2>5. Cardinality(below(i) \cup {i}) = Rank(at, i) + 1 /\ Rank(at, i) \in Nat
        /\ Rank(at, k) \in Nat
    BY <1>2 DEF below
  <2> QED BY <2>3, <2>4, <2>5
<1>4. ASSUME NEW i \in at
      PROVE  Rank(at, i) + 1 \in 1..N
  <2>1. below(i) \cup {i} \in SUBSET at
    OBVIOUS
  <2> HIDE DEF below
  <2>2. Cardinality(below(i) \cup {i}) <= N
    BY <1>1, <2>1, FS_Subset
  <2> QED BY <1>1, <1>2, <2>2
<1>5. \A i, k \in at : Rank(at, i) = Rank(at, k) => i = k
  <2> SUFFICES ASSUME NEW i \in at, NEW k \in at, Rank(at, i) = Rank(at, k)
               PROVE  i = k
    OBVIOUS
  <2>1. i \in Int /\ k \in Int
    OBVIOUS
  <2>2. Rank(at, i) \in Nat /\ Rank(at, k) \in Nat
    BY <1>2
  <2>3. ~(i < k) /\ ~(k < i)
    BY <1>3, <2>2
  <2> QED BY <2>1, <2>3
<1>6. f \in [at -> 1..N]
  BY <1>4
<1>7. \A i, k \in at : f[i] = f[k] => i = k
  <2> SUFFICES ASSUME NEW i \in at, NEW k \in at, f[i] = f[k]
               PROVE  i = k
    OBVIOUS
  <2>1. Rank(at, i) + 1 = Rank(at, k) + 1
    OBVIOUS
  <2>2. Rank(at, i) \in Nat /\ Rank(at, k) \in Nat
    BY <1>2
  <2> QED BY <1>5, <2>1, <2>2
<1> HIDE DEF f
<1>8. f \in Injection(at, 1..N)
  BY <1>6, <1>7, Fun_IsInj
<1>9. IsFiniteSet(1..N) /\ Cardinality(1..N) = N
  BY <1>1, FS_Interval
<1>10. f \in Surjection(at, 1..N)
  BY <1>8, <1>9, FS_Injection
<1>11. \A n \in 1..N : \E i \in at : f[i] = n
  BY <1>10, Fun_SurjectionProperties
<1>12. ASSUME NEW n \in 1..N
       PROVE  \E i \in at : Rank(at, i) = n - 1
  <2>1. PICK i \in at : f[i] = n
    BY <1>11
  <2>2. Rank(at, i) \in Nat /\ n = Rank(at, i) + 1
    BY <1>2, <2>1 DEF f
  <2> QED BY <2>2
<1> QED BY <1>1, <1>5, <1>12

LEMMA SameCount ==
  \A S : Sql!Cardinality(S) = Cardinality(S) /\ Mem!Cardinality(S) = Cardinality(S)
BY DEF Cardinality, Sql!Cardinality, Mem!Cardinality

Picked(log, at) == {log[i] : i \in at}

\* Elements of a log are as many as their indices.
LEMMA CountElements ==
  ASSUME NEW L \in Nat, NEW at \in SUBSET (1..L), NEW log,
         \A i \in 1..L : log[i].seq = i
  PROVE  Cardinality(Picked(log, at)) = Cardinality(at)
<1> DEFINE T == {log[i] : i \in at}
           f == [i \in at |-> log[i]]
<1>1. IsFiniteSet(at)
  BY Ranked
<1>2. f \in [at -> T] /\ (\A i, k \in at : f[i] = f[k] => i = k)
      /\ \A t \in T : \E i \in at : f[i] = t
  OBVIOUS
<1> HIDE DEF f, T
<1>3. f \in Bijection(at, T)
  BY <1>2, Fun_IsBij
<1>4. ExistsBijection(at, T)
  BY <1>3, Fun_ExistsBij
<1> QED BY <1>1, <1>4, FS_Bijection DEF T, Picked

\* ORDER BY seq over some rows of a log is the filter of the log.
LEMMA OrderedIsKept ==
  ASSUME NEW L \in Nat, NEW at \in SUBSET (1..L), NEW log,
         \A i \in 1..L : log[i].seq = i
  PROVE  Sql!InOrder(Picked(log, at)) = Mem!Kept(log, at)
<1> DEFINE rows == Picked(log, at)
           N == Cardinality(at)
           row(n) == CHOOSE e \in rows :
                       Sql!Cardinality({f \in rows : f.seq < e.seq}) = n - 1
           nth(n) == CHOOSE i \in at : Mem!Cardinality({j \in at : j < i}) = n - 1
<1>1. Sql!InOrder(rows) = [n \in 1..Sql!Cardinality(rows) |-> row(n)]
  BY DEF Sql!InOrder
<1>2. Mem!Kept(log, at) = [n \in 1..Mem!Cardinality(at) |-> log[nth(n)]]
  BY DEF Mem!Kept
<1>0. Sql!Cardinality(rows) = Cardinality(rows) /\ Mem!Cardinality(at) = N
  BY SameCount
<1>3. Cardinality(rows) = N
  BY CountElements
<1> USE DEF Picked
<1>4. ASSUME NEW i \in at
      PROVE  Cardinality({f \in rows : f.seq < log[i].seq}) = Rank(at, i)
  <2> DEFINE B == {j \in at : j < i}
  <2>1. B \in SUBSET (1..L)
    OBVIOUS
  <2>2. {f \in rows : f.seq < log[i].seq} = Picked(log, B)
    <3>1. \A j \in at : log[j].seq = j
      OBVIOUS
    <3> QED BY <3>1
  <2> HIDE DEF B, rows, Picked
  <2>3. Cardinality(Picked(log, B)) = Cardinality(B)
    BY <2>1, CountElements
  <2> QED BY <2>2, <2>3 DEF Rank, B
<1>5. ASSUME NEW n \in 1..N
      PROVE  row(n) = log[nth(n)]
  <2>1. PICK i \in at : Rank(at, i) = n - 1
    BY Ranked
  <2>2. \A k \in at : Rank(at, k) = n - 1 => k = i
    BY <2>1, Ranked
  <2>7. \A k \in at : Mem!Cardinality({j \in at : j < k}) = Rank(at, k)
    BY SameCount DEF Rank
  <2>3. nth(n) = i
    BY <2>1, <2>2, <2>7
  <2>4. log[i] \in rows /\ Cardinality({f \in rows : f.seq < log[i].seq}) = n - 1
    BY <1>4, <2>1
  <2>8. \A e \in rows : Sql!Cardinality({f \in rows : f.seq < e.seq})
                         = Cardinality({f \in rows : f.seq < e.seq})
    BY SameCount
  <2>5. ASSUME NEW e \in rows, Cardinality({f \in rows : f.seq < e.seq}) = n - 1
        PROVE  e = log[i]
    <3>1. PICK k \in at : e = log[k]
      OBVIOUS
    <3>2. Rank(at, k) = n - 1
      BY <1>4, <2>5, <3>1
    <3> QED BY <2>2, <3>1, <3>2
  <2> HIDE DEF nth, rows
  <2>6. row(n) = log[i]
    BY <2>4, <2>5, <2>8
  <2> QED BY <2>3, <2>6
<1> HIDE DEF row, nth, rows
<1>6. [n \in 1..N |-> row(n)] = [n \in 1..N |-> log[nth(n)]]
  BY <1>5
<1> QED BY <1>0, <1>1, <1>2, <1>3, <1>6 DEF rows

\* What a query wants of an event, besides the campaign.
Wanted(opt, e) ==
  /\ opt.afterTimestamp # NULL => e.timestamp > opt.afterTimestamp
  /\ opt.afterSeq # NULL => e.seq > opt.afterSeq
  /\ opt.type \in {NULL, e.type}

LEMMA QueryIs ==
  ASSUME IInv, NEW c, NEW opt, opt.limit # 0
  PROVE  LET at == {i \in 1..Len(Log(c)) : Wanted(opt, Log(c)[i])}
             kept == Mem!Kept(Log(c), at)
             answer(s) == IF opt.limit = NULL \/ opt.limit >= Len(s) THEN s
                          ELSE SubSeq(s, 1, opt.limit)
         IN  /\ Mem!getEvents(mem, c, opt) = answer(kept)
             /\ Sql!getEvents(sql, c, opt)
                  = answer(IF c \in Living THEN kept ELSE Sql!InOrder({}))
<1> DEFINE log == Log(c)
           at == {i \in 1..Len(log) : Wanted(opt, log[i])}
           kept == Mem!Kept(log, at)
           rows == {e \in sql.events : e.campaignId = c}
           asked == {e \in rows : Wanted(opt, e)}
           answer(s) == IF opt.limit = NULL \/ opt.limit >= Len(s) THEN s
                        ELSE SubSeq(s, 1, opt.limit)
<1>1. Mem!getEvents(mem, c, opt) = answer(kept)
  BY DEF Mem!getEvents, Log, Wanted
<1>2. Sql!getEvents(sql, c, opt) = answer(Sql!InOrder(asked))
  <2>1. {e \in sql.events : /\ e.campaignId = c
                            /\ opt.afterTimestamp # NULL => e.timestamp > opt.afterTimestamp
                            /\ opt.afterSeq # NULL => e.seq > opt.afterSeq
                            /\ opt.type \in {NULL, e.type}} = asked
    BY DEF Wanted
  <2> HIDE DEF asked
  <2> QED BY <2>1 DEF Sql!getEvents
<1>3. rows = IF c \in Living THEN {log[i] : i \in 1..Len(log)} ELSE {}
  BY RowsOf
<1>4. CASE c \in Living
  <2>1. asked = Picked(log, at)
    BY <1>3, <1>4 DEF Picked
  <2>2. Len(log) \in Nat /\ \A i \in 1..Len(log) : log[i].seq = i
    BY LogIs
  <2>3. at \in SUBSET (1..Len(log))
    OBVIOUS
  <2> HIDE DEF at, asked, log
  <2>4. Sql!InOrder(asked) = kept
    BY <2>1, <2>2, <2>3, OrderedIsKept
  <2> QED BY <1>1, <1>2, <1>4, <2>4 DEF at, log
<1>5. CASE c \notin Living
  <2>1. asked = {}
    BY <1>3, <1>5
  <2> HIDE DEF at, asked
  <2> QED BY <1>1, <1>2, <1>5, <2>1 DEF at
<1> QED BY <1>4, <1>5

----------------------------------------------------------------------------
(* The logs are dense *)

\* A filter that keeps every element answers the array.
LEMMA KeptWhole ==
  ASSUME NEW L \in Nat, NEW log
  PROVE  Mem!Kept(log, 1..L) = [n \in 1..L |-> log[n]]
<1> DEFINE nth(n) == CHOOSE i \in 1..L : Mem!Cardinality({j \in 1..L : j < i}) = n - 1
<1>1. Mem!Kept(log, 1..L) = [n \in 1..Mem!Cardinality(1..L) |-> log[nth(n)]]
  BY DEF Mem!Kept
<1>2. Mem!Cardinality(1..L) = L
  BY SameCount, FS_Interval
<1>3. ASSUME NEW i \in 1..L
      PROVE  Mem!Cardinality({j \in 1..L : j < i}) = i - 1
  <2>1. {j \in 1..L : j < i} = 1..(i - 1)
    OBVIOUS
  <2>2. Cardinality(1..(i - 1)) = i - 1
    BY FS_Interval
  <2> QED BY <2>1, <2>2, SameCount
<1>4. ASSUME NEW n \in 1..L
      PROVE  log[nth(n)] = log[n]
  <2>1. \A i \in 1..L : Mem!Cardinality({j \in 1..L : j < i}) = n - 1 <=> i = n
    BY <1>3
  <2>2. nth(n) = n
    BY <2>1
  <2> QED BY <2>2
<1> HIDE DEF nth
<1> QED BY <1>1, <1>2, <1>4

LEMMA NoRows == Sql!InOrder({}) = << >>
<1>1. Sql!Cardinality({}) = 0
  BY SameCount, FS_EmptySet
<1>2. Sql!InOrder({}) = [n \in 1..0 |-> CHOOSE e \in {} :
                          Sql!Cardinality({f \in {} : f.seq < e.seq}) = n - 1]
  BY <1>1 DEF Sql!InOrder
<1> QED BY <1>2

AllEvents == [afterTimestamp |-> NULL, afterSeq |-> NULL, type |-> NULL, limit |-> NULL]

\* Asked for every event, the Maps answer the array, and SQLite the same as
\* long as the campaign exists and nothing after.
LEMMA AllOf ==
  ASSUME IInv, NEW c
  PROVE  /\ Mem!getEvents(mem, c, AllEvents) = [n \in 1..Len(Log(c)) |-> Log(c)[n]]
         /\ Sql!getEvents(sql, c, AllEvents)
              = IF c \in Living THEN [n \in 1..Len(Log(c)) |-> Log(c)[n]] ELSE << >>
<1> DEFINE at == {i \in 1..Len(Log(c)) : Wanted(AllEvents, Log(c)[i])}
           kept == Mem!Kept(Log(c), at)
           limit == AllEvents.limit
           answer(s) == IF limit = NULL \/ limit >= Len(s) THEN s
                        ELSE SubSeq(s, 1, limit)
<1>1. AllEvents.limit = NULL /\ NULL # 0
  BY StorageAssumption DEF AllEvents
<1>2. /\ Mem!getEvents(mem, c, AllEvents) = answer(kept)
      /\ Sql!getEvents(sql, c, AllEvents)
           = answer(IF c \in Living THEN kept ELSE Sql!InOrder({}))
  BY <1>1, QueryIs
<1>3. at = 1..Len(Log(c))
  BY DEF Wanted, AllEvents
<1>4. kept = [n \in 1..Len(Log(c)) |-> Log(c)[n]]
  <2>1. Len(Log(c)) \in Nat
    BY LogIs
  <2> HIDE DEF at
  <2> QED BY <1>3, <2>1, KeptWhole
<1> HIDE DEF kept
<1>5. \A s : answer(s) = s
  BY <1>1
<1> HIDE DEF answer
<1> QED BY <1>2, <1>4, <1>5, NoRows

LEMMA Dense == IInv => LogsAreDense
<1> SUFFICES ASSUME IInv, NEW c \in held["campaigns"],
                    NEW log \in {Sql!getEvents(sql, c, AllEvents),
                                 Mem!getEvents(mem, c, AllEvents)},
                    NEW n \in 1..Len(log)
             PROVE  log[n].seq = n
  BY DEF LogsAreDense, AllEvents
<1>1. \/ log = [k \in 1..Len(Log(c)) |-> Log(c)[k]]
      \/ log = << >>
  BY AllOf
<1>2. Len(Log(c)) \in Nat /\ \A k \in 1..Len(Log(c)) : Log(c)[k].seq = k
  BY LogIs
<1>3. CASE log = [k \in 1..Len(Log(c)) |-> Log(c)[k]]
  <2>1. Len(log) = Len(Log(c))
    BY <1>2, <1>3
  <2> QED BY <1>2, <1>3, <2>1
<1>4. CASE log = << >>
  BY <1>4
<1> QED BY <1>1, <1>3, <1>4

\* LogsAreDense, for any number of campaigns, deletions and appends.
THEOREM LogsStayDense == Spec => []LogsAreDense
BY StorageIsSound, Dense, PTL

----------------------------------------------------------------------------
(* The reads about a campaign *)

\* The row a condition selects is the value of the key, where ids are unique.
LEMMA OneIsAt ==
  ASSUME NEW S, NEW R, NEW id, \A r, q \in S : r.id = q.id => r = q,
         R = {r \in S : r.id = id}
  PROVE  Sql!One(R) = Mem!At(S, id)
<1>1. CASE R = {}
  <2>1. ~ \E r \in S : r.id = id
    BY <1>1
  <2> QED BY <1>1, <2>1, AtIs DEF Sql!One
<1>2. CASE R # {}
  <2>1. PICK r \in S : r.id = id /\ R = {r}
    BY <1>2
  <2>2. Mem!At(S, id) = r
    BY <2>1, AtIs
  <2>3. Sql!One(R) = r
    BY <2>1, OneIs
  <2> QED BY <2>2, <2>3
<1> QED BY <1>1, <1>2

LEMMA SameCampaign ==
  ASSUME IInv, NEW c
  PROVE  Sql!getCampaign(sql, c) = Mem!getCampaign(mem, c)
<1> DEFINE S == mem.campaigns
           R == {r \in S : r.id = c}
<1>1. sql.campaigns = S /\ \A r, q \in S : r.id = q.id => r = q
  BY DEF IInv, CampaignsInv, Numbered
<1>2. Sql!getCampaign(sql, c) = Sql!One(R)
  BY <1>1 DEF Sql!getCampaign
<1> HIDE DEF S, R
<1>3. Sql!One(R) = Mem!At(S, c)
  BY <1>1, OneIsAt DEF R
<1> QED BY <1>2, <1>3 DEF Mem!getCampaign, S

LEMMA SameSeats ==
  ASSUME IInv, NEW c \in Living
  PROVE  /\ Sql!listSeats(sql, c) = Mem!listSeats(mem, c)
         /\ \A s : Sql!getSeat(sql, c, s) = Mem!getSeat(mem, c, s)
<1> DEFINE S == {r \in mem.seats : r.campaignId = c}
<1>1. sql.seats = {r \in mem.seats : r.campaignId \in Living}
      /\ \A r, q \in mem.seats : r.id = q.id => r = q
  BY DEF IInv, SeatsInv, Numbered
<1>2. Mem!listSeats(mem, c) = S
  BY DEF Mem!listSeats
<1>3. Sql!listSeats(sql, c) = S
  BY <1>1 DEF Sql!listSeats
<1>4. ASSUME NEW s
      PROVE  Sql!getSeat(sql, c, s) = Mem!getSeat(mem, c, s)
  <2> DEFINE R == {r \in S : r.id = s}
  <2>1. {r \in sql.seats : r.id = s /\ r.campaignId = c} = R
    BY <1>1
  <2>2. \A r, q \in S : r.id = q.id => r = q
    BY <1>1
  <2> HIDE DEF R, S
  <2>3. Sql!getSeat(sql, c, s) = Sql!One(R)
    BY <2>1 DEF Sql!getSeat
  <2>4. Sql!One(R) = Mem!At(S, s)
    BY <2>2, OneIsAt DEF R
  <2>5. Mem!getSeat(mem, c, s) = Mem!At(S, s)
    BY <1>2 DEF Mem!getSeat
  <2> QED BY <2>3, <2>4, <2>5
<1> HIDE DEF S
<1> QED BY <1>2, <1>3, <1>4

LEMMA SameEntities ==
  ASSUME IInv, NEW c \in Living
  PROVE  /\ \A type : Sql!listEntities(sql, c, type) = Mem!listEntities(mem, c, type)
         /\ \A e : Sql!getEntity(sql, c, e) = Mem!getEntity(mem, c, e)
<1> DEFINE S == {r \in mem.entities : r.campaignId = c}
<1>1. sql.entities = {r \in mem.entities : r.campaignId \in Living}
      /\ \A r, q \in mem.entities : r.id = q.id => r = q
  BY DEF IInv, EntitiesInv, Numbered
<1>2. Mem!listEntities(mem, c, NULL) = S
  BY DEF Mem!listEntities
<1>3. ASSUME NEW type
      PROVE  Sql!listEntities(sql, c, type) = Mem!listEntities(mem, c, type)
  <2>1. {e \in sql.entities : e.campaignId = c /\ type \in {NULL, e.type}}
          = {e \in mem.entities : e.campaignId = c /\ type \in {NULL, e.type}}
    BY <1>1
  <2> QED BY <2>1 DEF Sql!listEntities, Mem!listEntities
<1>4. ASSUME NEW e
      PROVE  Sql!getEntity(sql, c, e) = Mem!getEntity(mem, c, e)
  <2> DEFINE R == {r \in S : r.id = e}
  <2>1. {r \in sql.entities : r.id = e /\ r.campaignId = c} = R
    BY <1>1
  <2>2. \A r, q \in S : r.id = q.id => r = q
    BY <1>1
  <2> HIDE DEF R, S
  <2>3. Sql!getEntity(sql, c, e) = Sql!One(R)
    BY <2>1 DEF Sql!getEntity
  <2>4. Sql!One(R) = Mem!At(S, e)
    BY <2>2, OneIsAt DEF R
  <2>5. Mem!getEntity(mem, c, e) = Mem!At(S, e)
    BY <1>2 DEF Mem!getEntity
  <2> QED BY <2>3, <2>4, <2>5
<1> QED BY <1>3, <1>4

LEMMA SameEvents ==
  ASSUME IInv, NEW c \in Living, NEW opt, opt.limit # 0
  PROVE  Sql!getEvents(sql, c, opt) = Mem!getEvents(mem, c, opt)
BY QueryIs

LEMMA SameSnapshot ==
  ASSUME IInv, NEW c \in Living
  PROVE  Sql!getLatestSnapshot(sql, c) = Mem!getLatestSnapshot(mem, c)
<1> DEFINE R == {s \in mem.snapshots : s.campaignId = c}
<1>1. {s \in sql.snapshots : s.campaignId = c} = R
      /\ \A r, s \in mem.snapshots : r.campaignId = s.campaignId => r = s
  BY DEF IInv, SnapshotsInv
<1>2. Sql!getLatestSnapshot(sql, c) = Sql!One(R)
  BY <1>1 DEF Sql!getLatestSnapshot
<1>3. CASE R = {}
  <2>1. ~ \E s \in mem.snapshots : s.campaignId = c
    BY <1>3
  <2> QED BY <1>2, <1>3, <2>1 DEF Sql!One, Mem!getLatestSnapshot
<1>4. CASE R # {}
  <2>1. PICK s \in mem.snapshots : s.campaignId = c /\ R = {s}
    BY <1>1, <1>4
  <2>2. Mem!getLatestSnapshot(mem, c) = s
    BY <1>1, <2>1 DEF Mem!getLatestSnapshot
  <2> HIDE DEF R
  <2>3. Sql!One(R) = s
    BY <2>1, OneIs
  <2> QED BY <1>2, <2>2, <2>3
<1> QED BY <1>3, <1>4

LEMMA SameCampaigns == IInv => CampaignsAlike
<1> SUFFICES ASSUME IInv
             PROVE  CampaignsAlike
  OBVIOUS
<1>1. Sql!listCampaigns(sql) = Mem!listCampaigns(mem)
  BY DEF IInv, CampaignsInv, Sql!listCampaigns, Mem!listCampaigns
<1>2. ASSUME NEW c \in Living
      PROVE  Sql!getMaxEventSeq(sql, c) = Mem!getMaxEventSeq(mem, c)
  BY MaxSeq
<1>3. \A opt \in EventOptions : opt.limit # 0
  BY StorageAssumption DEF EventOptions
<1>4. ASSUME NEW c \in Living
      PROVE  \A opt \in EventOptions :
               Sql!getEvents(sql, c, opt) = Mem!getEvents(mem, c, opt)
  BY <1>3, SameEvents
<1> QED BY <1>1, <1>2, <1>4, SameCampaign, SameSeats, SameEntities, SameSnapshot
        DEF CampaignsAlike, Living

----------------------------------------------------------------------------
(* The reads about the admin, an account and its sessions *)

LEMMA SameAdminSession ==
  ASSUME IInv, NEW s
  PROVE  Sql!getAdminSession(sql, s) = Mem!getAdminSession(mem, s)
<1> DEFINE S == {r \in mem.adminSessions : ~r.revoked}
           R == {r \in S : r.id = s}
<1>1. sql.adminSessions = mem.adminSessions
      /\ \A r, q \in mem.adminSessions : r.id = q.id => r = q
  BY DEF IInv, AdminSessionsInv, Numbered
<1>2. {r \in sql.adminSessions : r.id = s /\ ~r.revoked} = R
  BY <1>1
<1>3. \A r, q \in S : r.id = q.id => r = q
  BY <1>1
<1> HIDE DEF R, S
<1>4. Sql!One(R) = Mem!At(S, s)
  BY <1>3, OneIsAt DEF R
<1>5. Sql!getAdminSession(sql, s) = Sql!One(R)
  BY <1>2 DEF Sql!getAdminSession
<1>6. Mem!getAdminSession(mem, s) = Mem!At(S, s)
  BY DEF Mem!getAdminSession, S
<1> QED BY <1>4, <1>5, <1>6

LEMMA SameAuthSession ==
  ASSUME IInv, NEW s
  PROVE  Sql!getAuthSession(sql, s) = Mem!getAuthSession(mem, s)
<1> DEFINE S == {r \in mem.sessions : ~r.revoked}
           R == {r \in S : r.id = s}
<1>1. sql.sessions = mem.sessions
      /\ \A r, q \in mem.sessions : r.id = q.id => r = q
  BY DEF IInv, SessionsInv, Numbered
<1>2. {r \in sql.sessions : r.id = s /\ ~r.revoked} = R
  BY <1>1
<1>3. \A r, q \in S : r.id = q.id => r = q
  BY <1>1
<1> HIDE DEF R, S
<1>4. Sql!One(R) = Mem!At(S, s)
  BY <1>3, OneIsAt DEF R
<1>5. Sql!getAuthSession(sql, s) = Sql!One(R)
  BY <1>2 DEF Sql!getAuthSession
<1>6. Mem!getAuthSession(mem, s) = Mem!At(S, s)
  BY DEF Mem!getAuthSession, S
<1> QED BY <1>4, <1>5, <1>6

LEMMA SameSessionsOf ==
  ASSUME IInv, NEW a
  PROVE  /\ Sql!listAuthSessionsForAccount(sql, a) = Mem!listAuthSessionsForAccount(mem, a)
         /\ Sql!countActiveAuthSessionsForAccount(sql, a, now)
            = Mem!countActiveAuthSessionsForAccount(mem, a, now)
<1>1. sql.sessions = mem.sessions
  BY DEF IInv, SessionsInv
<1>2. Sql!ActiveSessions(sql, a, now) = Mem!ActiveSessions(mem, a, now)
  BY <1>1 DEF Sql!ActiveSessions, Mem!ActiveSessions
<1>3. Sql!countActiveAuthSessionsForAccount(sql, a, now)
      = Mem!countActiveAuthSessionsForAccount(mem, a, now)
  BY <1>2, SameCount DEF Sql!countActiveAuthSessionsForAccount,
                         Mem!countActiveAuthSessionsForAccount
<1> QED BY <1>1, <1>3 DEF Sql!listAuthSessionsForAccount, Mem!listAuthSessionsForAccount

\* A refused account came after the one of its name, which both answer.
LEMMA SameUsername ==
  ASSUME IInv, NEW u
  PROVE  Sql!getPlayerAccountByUsername(sql, u) = Mem!getPlayerAccountByUsername(mem, u)
<1> DEFINE R == {a \in sql.accounts : a.username = u}
           S == {a \in mem.accounts : a.username = u}
<1>1. /\ sql.accounts \subseteq mem.accounts
      /\ \A a \in mem.accounts : a.id \in Nat
      /\ \A a, b \in mem.accounts : a.id = b.id => a = b
      /\ \A a, b \in sql.accounts : a.username = b.username => a = b
      /\ \A a \in mem.accounts \ sql.accounts :
           \E b \in sql.accounts : b.username = a.username /\ b.id < a.id
  BY DEF IInv, AccountsInv, Numbered, AccountRow
<1>2. Sql!getPlayerAccountByUsername(sql, u) = Sql!One(R)
      /\ Mem!getPlayerAccountByUsername(mem, u) = Mem!First(S)
  BY DEF Sql!getPlayerAccountByUsername, Mem!getPlayerAccountByUsername
<1>3. CASE R = {}
  <2>1. S = {}
    BY <1>1, <1>3
  <2> QED BY <1>2, <1>3, <2>1 DEF Sql!One, Mem!First
<1>4. CASE R # {}
  <2>1. PICK r \in sql.accounts : r.username = u /\ R = {r}
    BY <1>1, <1>4
  <2>2. r \in S /\ \A q \in S : r.id <= q.id
    <3>1. r \in S
      BY <1>1, <2>1
    <3>2. ASSUME NEW q \in S
          PROVE  r.id <= q.id
      <4>1. r.id \in Nat /\ q.id \in Nat
        BY <1>1, <3>1
      <4>2. CASE q \in sql.accounts
        BY <1>1, <2>1, <4>1, <4>2
      <4>3. CASE q \notin sql.accounts
        <5>1. PICK b \in sql.accounts : b.username = q.username /\ b.id < q.id
          BY <1>1, <4>3
        <5>2. b = r
          BY <1>1, <2>1, <5>1
        <5> QED BY <4>1, <5>1, <5>2
      <4> QED BY <4>2, <4>3
    <3> QED BY <3>1, <3>2
  <2>3. (\A q \in S : q.id \in Nat) /\ \A p, q \in S : p.id = q.id => p = q
    BY <1>1
  <2> HIDE DEF R, S
  <2>4. Mem!First(S) = r
    BY <2>2, <2>3, FirstIs
  <2>5. Sql!One(R) = r
    BY <2>1, OneIs
  <2> QED BY <1>2, <2>4, <2>5
<1> QED BY <1>3, <1>4

\* The Maps may list an account more, and no id the program holds leads to it.
LEMMA SameAccount ==
  ASSUME IInv, NEW a \in held["accounts"]
  PROVE  Sql!getPlayerAccountById(sql, a) = Mem!getPlayerAccountById(mem, a)
<1> DEFINE S == mem.accounts
           R == {r \in S : r.id = a}
<1>1. /\ sql.accounts \subseteq S
      /\ \A r, q \in S : r.id = q.id => r = q
      /\ \E r \in sql.accounts : r.id = a
  BY DEF IInv, AccountsInv, Numbered, Sql!Ids
<1>2. {r \in sql.accounts : r.id = a} = R
  BY <1>1
<1> HIDE DEF R, S
<1>3. Sql!One(R) = Mem!At(S, a)
  BY <1>1, OneIsAt DEF R
<1>4. Sql!getPlayerAccountById(sql, a) = Sql!One(R)
  BY <1>2 DEF Sql!getPlayerAccountById
<1>5. Mem!getPlayerAccountById(mem, a) = Mem!At(S, a)
  BY DEF Mem!getPlayerAccountById, S
<1> QED BY <1>3, <1>4, <1>5

\* No account has a seat that only the Maps have.
LEMMA SameSeatsOf ==
  ASSUME IInv, NEW a \in held["accounts"]
  PROVE  /\ Sql!countSeatsForAccount(sql, a) = Mem!countSeatsForAccount(mem, a)
         /\ Sql!listSeatIdsForAccount(sql, a) = Mem!listSeatIdsForAccount(mem, a)
<1>1. a # NULL
  <2>1. a \in 1..made["accounts"] /\ made["accounts"] \in Nat
    BY DEF IInv, Shapes, Tables
  <2>2. a \in Nat
    BY <2>1
  <2> QED BY <2>2, StorageAssumption
<1>2. /\ sql.seats \subseteq mem.seats
      /\ \A s \in mem.seats \ sql.seats : s.accountId = NULL
  BY DEF IInv, SeatsInv
<1>3. {s \in sql.seats : s.accountId = a} = {s \in mem.seats : s.accountId = a}
      /\ {s \in sql.seats : s.accountId = a /\ s.isActive}
         = {s \in mem.seats : s.accountId = a /\ s.isActive}
  BY <1>1, <1>2
<1>4. Sql!countSeatsForAccount(sql, a) = Mem!countSeatsForAccount(mem, a)
  BY <1>3, SameCount DEF Sql!countSeatsForAccount, Mem!countSeatsForAccount
<1>5. Sql!listSeatIdsForAccount(sql, a) = Mem!listSeatIdsForAccount(mem, a)
  BY <1>3 DEF Sql!listSeatIdsForAccount, Mem!listSeatIdsForAccount, Sql!Ids
<1> QED BY <1>4, <1>5

LEMMA SameSetting ==
  ASSUME IInv, NEW key
  PROVE  Sql!getServerSetting(sql, key) = Mem!getServerSetting(mem, key)
<1> DEFINE R == {s \in mem.settings : s.key = key}
<1>1. sql.settings = mem.settings
      /\ \A r, s \in mem.settings : r.key = s.key => r = s
  BY DEF IInv, SettingsInv
<1>2. Sql!getServerSetting(sql, key) = Sql!One(R)
  BY <1>1 DEF Sql!getServerSetting
<1>3. CASE R = {}
  <2>1. ~ \E s \in mem.settings : s.key = key
    BY <1>3
  <2> QED BY <1>2, <1>3, <2>1 DEF Sql!One, Mem!getServerSetting
<1>4. CASE R # {}
  <2>1. PICK s \in mem.settings : s.key = key /\ R = {s}
    BY <1>1, <1>4
  <2>2. Mem!getServerSetting(mem, key) = s
    BY <1>1, <2>1 DEF Mem!getServerSetting
  <2> HIDE DEF R
  <2>3. Sql!One(R) = s
    BY <2>1, OneIs
  <2> QED BY <1>2, <2>2, <2>3
<1> QED BY <1>3, <1>4

LEMMA SameAccounts == IInv => AccountsAlike
<1> SUFFICES ASSUME IInv
             PROVE  AccountsAlike
  OBVIOUS
<1>1. Sql!getServerAdmin(sql) = Mem!getServerAdmin(mem)
  BY AdminIs DEF IInv, Mem!getServerAdmin
<1>2. Sql!listAdminSessions(sql) = Mem!listAdminSessions(mem)
  BY DEF IInv, AdminSessionsInv, Sql!listAdminSessions, Mem!listAdminSessions
<1>3. Sql!listPlayerAccounts(sql) \subseteq Mem!listPlayerAccounts(mem)
  BY DEF IInv, AccountsInv, Sql!listPlayerAccounts, Mem!listPlayerAccounts
<1> QED BY <1>1, <1>2, <1>3, SameAdminSession, SameAuthSession, SameSessionsOf,
           SameUsername, SameAccount, SameSeatsOf, SameSetting DEF AccountsAlike

----------------------------------------------------------------------------
(* The reads about an invite *)

LEMMA CopyOf ==
  ASSUME IInv, NEW r \in sql.invites
  PROVE  /\ Sql!getInvite(sql, r.id) = r /\ r # NULL
         /\ Mem!getInvite(mem, r.id) = Copy(r) /\ Copy(r) # NULL
<1>1. /\ r \in InviteRow /\ Copy(r) \in mem.invites /\ Copy(r) \in InviteCopy
      /\ Copy(r).id = r.id
  BY CopyIs DEF IInv, InvitesInv
<1>2. r # NULL /\ Copy(r) # NULL
  BY <1>1, StorageAssumption
<1>3. {q \in sql.invites : q.id = r.id} = {r}
  BY DEF IInv, InvitesInv, Numbered
<1>4. \A q \in mem.invites : q.id = r.id => q = Copy(r)
  BY <1>1 DEF IInv, InvitesInv, Numbered
<1>5. Mem!At(mem.invites, r.id) = Copy(r)
  BY <1>1, <1>4, AtIs
<1> QED BY <1>2, <1>3, <1>5, OneIs DEF Sql!getInvite, Mem!getInvite

\* An invite the Maps alone have names a seat that is gone, or was made for a
\* campaign that is.
LEMMA CopyAlone ==
  ASSUME IInv, NEW i, \A r \in sql.invites : r.id # i
  PROVE  /\ Sql!getInvite(sql, i) = NULL
         /\ Mem!getInvite(mem, i) # NULL
            => \/ Mem!getInvite(mem, i).seatId \notin Sql!Ids(sql.seats)
               \/ madeFor[i] \notin Living
<1>1. Sql!getInvite(sql, i) = NULL
  <2>1. {r \in sql.invites : r.id = i} = {}
    OBVIOUS
  <2> QED BY <2>1, OneIs DEF Sql!getInvite
<1>2. ASSUME Mem!getInvite(mem, i) # NULL, madeFor[i] \in Living,
             Mem!getInvite(mem, i).seatId \in Sql!Ids(sql.seats)
      PROVE  FALSE
  <2>1. Mem!getInvite(mem, i) \in mem.invites /\ Mem!getInvite(mem, i).id = i
    BY <1>2, AtIs DEF Mem!getInvite
  <2>2. PICK r \in sql.invites : Mem!getInvite(mem, i) = Copy(r)
    BY <1>2, <2>1 DEF IInv, InvitesInv
  <2>3. r.id = i
    BY <2>1, <2>2, CopyIs DEF IInv, InvitesInv
  <2> QED BY <2>3
<1> QED BY <1>1, <1>2

Usable(i) == i.usesRemaining > 0 /\ ~i.revoked /\ i.expiresAt > now

LEMMA SameUse ==
  ASSUME IInv, NEW r \in sql.invites
  PROVE  Sql!Consumable(sql, r.id, now) # {}
         <=> Mem!consumeInviteAtomic(mem, r.id, now) # mem
<1> DEFINE copy == Copy(r)
           data == [usesRemaining |-> copy.usesRemaining - 1]
           after == [mem EXCEPT !.invites = Mem!Patch(@, r.id, data)]
<1>1. /\ r \in InviteRow /\ copy \in mem.invites /\ copy \in InviteCopy
      /\ copy.id = r.id /\ copy.usesRemaining = r.usesRemaining
      /\ copy.revoked = r.revoked /\ copy.expiresAt = r.expiresAt
  BY CopyIs DEF IInv, InvitesInv
<1>2. r.usesRemaining \in Nat /\ r.expiresAt \in Nat /\ now \in Nat
  BY <1>1 DEF InviteRow, IInv, Shapes
<1>3. Sql!Consumable(sql, r.id, now) # {} <=> Usable(r)
  <2>1. \A q \in sql.invites : q.id = r.id => q = r
    BY DEF IInv, InvitesInv, Numbered
  <2> QED BY <2>1 DEF Sql!Consumable, Usable
<1>4. Mem!getInvite(mem, r.id) = copy /\ copy # NULL
  BY CopyOf
<1>5. Mem!consumeInviteAtomic(mem, r.id, now) = IF Usable(r) THEN after ELSE mem
  <2>1. Usable(r) <=> ~(\/ copy = NULL
                        \/ copy.usesRemaining <= 0
                        \/ copy.revoked
                        \/ copy.expiresAt <= now)
    BY <1>1, <1>2, <1>4 DEF Usable
  <2> HIDE DEF copy
  <2> QED BY <1>4, <2>1 DEF Mem!consumeInviteAtomic
<1>6. after # mem
  <2> SUFFICES ASSUME after = mem
               PROVE  FALSE
    OBVIOUS
  <2> DEFINE used == [f \in DOMAIN copy |-> IF f \in DOMAIN data THEN data[f] ELSE copy[f]]
  <2>1. "invites" \in DOMAIN mem
    BY TablesOf DEF IInv, Shapes, MemTables, SqlTables
  <2>2. after.invites = Mem!Patch(mem.invites, r.id, data)
    BY <2>1
  <2>3. used \in Mem!Patch(mem.invites, r.id, data)
    BY <1>1 DEF Mem!Patch
  <2>4. used \in mem.invites
    BY <2>2, <2>3
  <2>5. DOMAIN copy = {"id", "seatId", "maxUses", "usesRemaining", "expiresAt", "revoked"}
    BY <1>1 DEF InviteCopy
  <2>6. used.id = copy.id /\ used.usesRemaining = copy.usesRemaining - 1
    BY <2>5
  <2> HIDE DEF used, after
  <2>7. used = copy
    BY <1>1, <2>4, <2>6 DEF IInv, InvitesInv, Numbered
  <2> QED BY <1>1, <1>2, <2>6, <2>7
<1> HIDE DEF after
<1> QED BY <1>3, <1>5, <1>6

LEMMA SameInvites == IInv => InvitesAlike
<1> SUFFICES ASSUME IInv, NEW i \in held["invites"]
             PROVE  LET row == Sql!getInvite(sql, i)
                        copy == Mem!getInvite(mem, i)
                    IN  IF row = NULL
                        THEN copy # NULL => \/ copy.seatId \notin Sql!Ids(sql.seats)
                                            \/ madeFor[i] \notin Sql!Ids(sql.campaigns)
                        ELSE /\ copy # NULL
                             /\ \A f \in DOMAIN copy : copy[f] = row[f]
                             /\ Sql!Consumable(sql, i, now) # {}
                                <=> Mem!consumeInviteAtomic(mem, i, now) # mem
                             /\ row.campaignId = madeFor[i]
                             /\ Sql!getSeat(sql, row.campaignId, row.seatId) # NULL
                                => copy \in Mem!listInvitesForSeat(mem, row.campaignId, row.seatId)
  BY DEF InvitesAlike
<1>1. CASE \A r \in sql.invites : r.id # i
  BY <1>1, CopyAlone DEF Living
<1>2. CASE \E r \in sql.invites : r.id = i
  <2>1. PICK r \in sql.invites : r.id = i
    BY <1>2
  <2>2. /\ Sql!getInvite(sql, i) = r /\ r # NULL
        /\ Mem!getInvite(mem, i) = Copy(r) /\ Copy(r) # NULL
    BY <2>1, CopyOf
  <2>3. \A f \in DOMAIN Copy(r) : Copy(r)[f] = r[f]
    BY DEF Copy
  <2>4. Sql!Consumable(sql, i, now) # {} <=> Mem!consumeInviteAtomic(mem, i, now) # mem
    BY <2>1, SameUse
  <2>5. r.campaignId = madeFor[i]
    BY <2>1 DEF IInv, InvitesInv
  <2>6. ASSUME Sql!getSeat(sql, r.campaignId, r.seatId) # NULL
        PROVE  Copy(r) \in Mem!listInvitesForSeat(mem, r.campaignId, r.seatId)
    <3>1. PICK s \in mem.seats : s.id = r.seatId /\ s.campaignId = r.campaignId
      <4>1. {s \in sql.seats : s.id = r.seatId /\ s.campaignId = r.campaignId} # {}
        BY <2>6, OneIs DEF Sql!getSeat
      <4> QED BY <4>1 DEF IInv, SeatsInv
    <3>2. Mem!getSeat(mem, r.campaignId, r.seatId) # NULL
      BY <3>1, SeatAt
    <3>3. Copy(r) \in mem.invites /\ Copy(r).seatId = r.seatId
      BY CopyIs DEF IInv, InvitesInv
    <3> QED BY <3>2, <3>3 DEF Mem!listInvitesForSeat
  <2> QED BY <2>2, <2>3, <2>4, <2>5, <2>6
<1> QED BY <1>1, <1>2

\* BackendsAlike, for any number of rows and of calls: what a test sees of a
\* route over the Maps, the program does over SQLite, as far as those reads go.
THEOREM BackendsStayAlike == Spec => []BackendsAlike
<1>1. IInv => BackendsAlike
  BY SameCampaigns, SameAccounts, SameInvites DEF BackendsAlike
<1> QED BY <1>1, StorageIsSound, PTL

=============================================================================
