-------------------------- MODULE StorageBackends --------------------------
(***************************************************************************)
(* The facade Storage (server/src/storage/storage.ts) over its two         *)
(* backends, given the same calls: SQLite, which the program runs on, and  *)
(* the Maps its route tests run on.  What the tests show of a route holds  *)
(* of the program as far as the two answer alike.                          *)
(*                                                                         *)
(* A step is one call that writes.  Its arguments are ids the program may  *)
(* hold: those SQLite has answered, deleted since or not.  Reads are taken *)
(* by the properties, in every state.                                      *)
(***************************************************************************)
EXTENDS Integers, Sequences, FiniteSets

CONSTANTS NULL,
          Names,          \* names of campaigns, user names, password hashes
          Limit,          \* Limit[t]: how many rows of table t are ever made
          MaxEvents,      \* bound on the events of one campaign
          MaxCalls,       \* bound on the calls after the set-up
          MaxNow          \* bound on the clock

Sql == INSTANCE SqliteStorage
Mem == INSTANCE InMemoryBackend

Life == 1                 \* the life of an invite, of a session, of a setup PIN
Types == {"t1", "t2"}     \* types of entities and of events
Texts == Names \cup {"n1", "n2", NULL}

----------------------------------------------------------------------------
(* The rows of the tables *)

CampaignRow == [id : Nat, name : Texts]
EntityRow == [id : Nat, campaignId : Nat, type : Types, data : Texts]
EventRow == [campaignId : Nat, type : Types, timestamp : Nat, seq : Nat]
SnapshotRow == [campaignId : Nat, seq : Nat]
AdminRow == [id : Nat, pinHash : Texts, passwordHash : Texts,
             setupPinExpiresAt : Nat \cup {NULL}]
AdminSessionRow == [id : Nat, adminId : Nat, expiresAt : Nat, revoked : BOOLEAN]
SeatRow == [id : Nat, campaignId : Nat, role : {"gm", "player"},
            accountId : Nat \cup {NULL}, isActive : BOOLEAN]
InviteRow == [id : Nat, campaignId : Nat, seatId : Nat, maxUses : Nat,
              usesRemaining : Nat, expiresAt : Nat, revoked : BOOLEAN]
AccountRow == [id : Nat, username : Texts, passwordHash : Texts,
               mustChangePassword : BOOLEAN, lastLoginAt : Nat \cup {NULL}]
SessionRow == [id : Nat, accountId : Nat, expiresAt : Nat, createdAt : Nat,
               lastUsedAt : Nat, revoked : BOOLEAN]
SettingRow == [key : {"refresh_cookie_max_days"}, value : Texts]

\* The Maps do not keep the campaign with the invite.
InviteCopy == [id : Nat, seatId : Nat, maxUses : Nat, usesRemaining : Nat,
               expiresAt : Nat, revoked : BOOLEAN]

ASSUME StorageAssumption ==
  /\ \A t \in DOMAIN Limit : Limit[t] \in Nat
  /\ {MaxEvents, MaxCalls, MaxNow} \subseteq Nat
  /\ NULL \notin Nat \cup EntityRow \cup AdminRow \cup SeatRow \cup InviteRow
                \cup InviteCopy \cup SessionRow     \* nothing is no value

VARIABLES sql,            \* the SQLite database
          mem,            \* the Maps
          now,            \* Date.now()
          made,           \* made[t]: how many ids were drawn for table t
          held,           \* held[t]: the ids of table t the program was answered
          madeFor,        \* madeFor[i]: the campaign invite i was made for
          calls           \* calls made, for the bound

vars == <<sql, mem, now, made, held, madeFor, calls>>

Tables == {"campaigns", "entities", "admins", "adminSessions",
           "seats", "invites", "accounts", "sessions"}

----------------------------------------------------------------------------
(* A set-up server: two campaigns, in the first a seat with an invite for  *)
(* two uses, and one account.                                              *)

Start(db, C(_, _, _), S(_, _, _, _), I(_, _, _, _, _, _), A(_, _, _, _)) ==
  A(I(S(C(C(db, 1, "n1"), 2, "n2"), 1, 1, "player"), 1, 1, 1, 2, Life),
    1, "n1", "n1")

Init ==
  /\ sql = Start(Sql!EmptyDb, Sql!createCampaign, Sql!createSeat,
                 Sql!createInvite, Sql!createPlayerAccount)
  /\ mem = Start(Mem!EmptyDb, Mem!createCampaign, Mem!createSeat,
                 Mem!createInvite, Mem!createPlayerAccount)
  /\ now = 0
  /\ made = [t \in Tables |-> CASE t = "campaigns" -> 2
                                [] t \in {"seats", "invites", "accounts"} -> 1
                                [] OTHER -> 0]
  /\ held = [t \in Tables |-> 1..made[t]]
  /\ madeFor = <<1>>
  /\ calls = 0

----------------------------------------------------------------------------
(* The calls *)

\* The facade hands one call to its backend.
Writes(s, m) ==
  /\ calls < MaxCalls
  /\ calls' = calls + 1
  /\ sql' = s
  /\ mem' = m
  /\ UNCHANGED <<now, made, held, madeFor>>

\* A call that makes a row: the program holds the id unless SQLite threw.
Fresh(t) == made[t] + 1

Inserts(t, s, m) ==
  /\ calls < MaxCalls
  /\ made[t] < Limit[t]
  /\ calls' = calls + 1
  /\ made' = [made EXCEPT ![t] = @ + 1]
  /\ held' = [held EXCEPT ![t] = IF s = sql THEN @ ELSE @ \cup {Fresh(t)}]
  /\ sql' = s
  /\ mem' = m
  /\ UNCHANGED now

Makes(t, s, m) == Inserts(t, s, m) /\ UNCHANGED madeFor

CreateCampaign(name) ==
  Makes("campaigns", Sql!createCampaign(sql, Fresh("campaigns"), name),
                     Mem!createCampaign(mem, Fresh("campaigns"), name))

UpdateCampaign(c, name) ==
  Writes(Sql!updateCampaign(sql, c, name), Mem!updateCampaign(mem, c, name))

DeleteCampaign(c) ==
  Writes(Sql!deleteCampaign(sql, c), Mem!deleteCampaign(mem, c))

CreateEntity(c, type) ==
  Makes("entities", Sql!createEntity(sql, c, Fresh("entities"), type, "n1"),
                    Mem!createEntity(mem, c, Fresh("entities"), type, "n1"))

UpdateEntity(c, e, data) ==
  Writes(Sql!updateEntity(sql, c, e, data), Mem!updateEntity(mem, c, e, data))

DeleteEntity(c, e) ==
  Writes(Sql!deleteEntity(sql, c, e), Mem!deleteEntity(mem, c, e))

\* By an engine, which may outlive its campaign.
AppendEvent(c, type) ==
  /\ Mem!getMaxEventSeq(mem, c) < MaxEvents
  /\ Writes(Sql!appendEvent(sql, c, type, now), Mem!appendEvent(mem, c, type, now))

PutSnapshot(c) ==
  LET seq == Sql!getMaxEventSeq(sql, c)
  IN  Writes(Sql!putSnapshot(sql, c, seq), Mem!putSnapshot(mem, c, seq))

\* Its one caller has looked that there is no admin yet.
CreateServerAdmin ==
  /\ Sql!getServerAdmin(sql) = NULL
  /\ Makes("admins", Sql!createServerAdmin(sql, Fresh("admins"), "n1", now + Life),
                     Mem!createServerAdmin(mem, Fresh("admins"), "n1", now + Life))

\* The fields its callers change: to a password, or back to a setup PIN.
AdminChanges ==
  {[pinHash |-> NULL, passwordHash |-> "n1", setupPinExpiresAt |-> NULL],
   [pinHash |-> "n1", setupPinExpiresAt |-> Life], [passwordHash |-> NULL]}

UpdateServerAdmin(a, change) ==
  Writes(Sql!updateServerAdmin(sql, a, change), Mem!updateServerAdmin(mem, a, change))

CreateAdminSession(a) ==
  LET s == Fresh("adminSessions")
  IN  Makes("adminSessions", Sql!createAdminSession(sql, s, a, now + Life),
                             Mem!createAdminSession(mem, s, a, now + Life))

RevokeAdminSession(s) ==
  Writes(Sql!revokeAdminSession(sql, s), Mem!revokeAdminSession(mem, s))

CleanupExpiredAdminSessions ==
  Writes(Sql!cleanupExpiredAdminSessions(sql, now),
         Mem!cleanupExpiredAdminSessions(mem, now))

CreateSeat(c, role) ==
  Makes("seats", Sql!createSeat(sql, c, Fresh("seats"), role),
                 Mem!createSeat(mem, c, Fresh("seats"), role))

\* A claim binds the account; the admin's PATCH writes every field back.
SeatChanges ==
  {[accountId |-> a] : a \in held["accounts"] \cup {NULL}} \cup
  [role : {"gm"}, isActive : {FALSE}, accountId : held["accounts"] \cup {NULL}]

UpdateSeat(c, s, change) ==
  Writes(Sql!updateSeat(sql, c, s, change), Mem!updateSeat(mem, c, s, change))

DeleteSeat(c, s) == Writes(Sql!deleteSeat(sql, c, s), Mem!deleteSeat(mem, c, s))

\* The campaign is of the path, the seat of the body, and the route compares
\* nothing: either may be gone, and the seat may be another campaign's.
CreateInvite(c, s, maxUses) ==
  LET i == Fresh("invites")
  IN  /\ Inserts("invites", Sql!createInvite(sql, c, s, i, maxUses, now + Life),
                            Mem!createInvite(mem, c, s, i, maxUses, now + Life))
      /\ madeFor' = Append(madeFor, c)

RevokeInvite(i) == Writes(Sql!revokeInvite(sql, i), Mem!revokeInvite(mem, i))

ConsumeInviteAtomic(i) ==
  Writes(Sql!consumeInviteAtomic(sql, i, now), Mem!consumeInviteAtomic(mem, i, now))

\* Also for a name that is taken: two claims may both have found it free.
CreatePlayerAccount(username) ==
  LET a == Fresh("accounts")
  IN  Makes("accounts", Sql!createPlayerAccount(sql, a, username, "n1"),
                        Mem!createPlayerAccount(mem, a, username, "n1"))

UpdatePlayerAccountLastLogin(a) ==
  Writes(Sql!updatePlayerAccountLastLogin(sql, a, now),
         Mem!updatePlayerAccountLastLogin(mem, a, now))

SetPlayerAccountMustChangePassword(a, flag, hash) ==
  Writes(Sql!setPlayerAccountMustChangePassword(sql, a, flag, hash),
         Mem!setPlayerAccountMustChangePassword(mem, a, flag, hash))

CreateAuthSession(a) ==
  LET s == Fresh("sessions")
  IN  Makes("sessions", Sql!createAuthSession(sql, s, a, now + Life, now),
                        Mem!createAuthSession(mem, s, a, now + Life, now))

UpdateAuthSession(s) ==
  Writes(Sql!updateAuthSession(sql, s, [lastUsedAt |-> now]),
         Mem!updateAuthSession(mem, s, [lastUsedAt |-> now]))

RevokeAuthSession(s) ==
  Writes(Sql!revokeAuthSession(sql, s), Mem!revokeAuthSession(mem, s))

RevokeAllAuthSessionsForAccount(a) ==
  Writes(Sql!revokeAllAuthSessionsForAccount(sql, a),
         Mem!revokeAllAuthSessionsForAccount(mem, a))

RevokeOldestAuthSessionForAccount(a) ==
  Writes(Sql!revokeOldestAuthSessionForAccount(sql, a, now),
         Mem!revokeOldestAuthSessionForAccount(mem, a, now))

SetServerSetting(value) ==
  Writes(Sql!setServerSetting(sql, "refresh_cookie_max_days", value),
         Mem!setServerSetting(mem, "refresh_cookie_max_days", value))

Tick ==
  /\ now < MaxNow
  /\ now' = now + 1
  /\ UNCHANGED <<sql, mem, made, held, madeFor, calls>>

----------------------------------------------------------------------------
CampaignCall ==
  \/ \E name \in Names : CreateCampaign(name)
  \/ \E c \in held["campaigns"] :
       \/ DeleteCampaign(c)
       \/ PutSnapshot(c)
       \/ UpdateCampaign(c, "n2")
       \/ \E type \in Types : CreateEntity(c, type) \/ AppendEvent(c, type)
       \/ \E e \in held["entities"] :
            DeleteEntity(c, e) \/ UpdateEntity(c, e, "n2")

AdminCall ==
  \/ CreateServerAdmin
  \/ CleanupExpiredAdminSessions
  \/ SetServerSetting("n1")
  \/ \E a \in held["admins"] :
       CreateAdminSession(a) \/ \E change \in AdminChanges : UpdateServerAdmin(a, change)
  \/ \E s \in held["adminSessions"] : RevokeAdminSession(s)

SeatCall ==
  \/ \E c \in held["campaigns"] :
       \/ \E role \in {"gm", "player"} : CreateSeat(c, role)
       \/ \E s \in held["seats"] :
            \/ DeleteSeat(c, s)
            \/ \E change \in SeatChanges : UpdateSeat(c, s, change)
            \/ \E maxUses \in 1..2 : CreateInvite(c, s, maxUses)
  \/ \E i \in held["invites"] : RevokeInvite(i) \/ ConsumeInviteAtomic(i)

AccountCall ==
  \/ \E username \in Names : CreatePlayerAccount(username)
  \/ \E a \in held["accounts"] :
       \/ UpdatePlayerAccountLastLogin(a)
       \/ SetPlayerAccountMustChangePassword(a, TRUE, "n2")
       \/ SetPlayerAccountMustChangePassword(a, FALSE, NULL)
       \/ CreateAuthSession(a)
       \/ RevokeAllAuthSessionsForAccount(a)
       \/ RevokeOldestAuthSessionForAccount(a)
  \/ \E s \in held["sessions"] : UpdateAuthSession(s) \/ RevokeAuthSession(s)

Next == CampaignCall \/ AdminCall \/ SeatCall \/ AccountCall \/ Tick

Spec == Init /\ [][Next]_vars

----------------------------------------------------------------------------
(* Properties *)

\* The keys of the schema hold in every reachable database: no seat, event or
\* snapshot outlives its campaign, no invite its seat or its campaign, no
\* account appears twice under a name.  A delete takes all that refers to it.
SqlIntegrity == Sql!ForeignKeysHold(sql) /\ Sql!UniqueKeysHold(sql)

\* The log of a campaign is numbered 1, 2, ... without a gap, in both backends,
\* whatever was deleted or refused before: a replay from any number is complete.
LogsAreDense ==
  LET all == [afterTimestamp |-> NULL, afterSeq |-> NULL, type |-> NULL,
              limit |-> NULL]
  IN  \A c \in held["campaigns"] :
        \A log \in {Sql!getEvents(sql, c, all), Mem!getEvents(mem, c, all)} :
          \A n \in 1..Len(log) : log[n].seq = n

EventOptions ==
  {[afterTimestamp |-> NULL, afterSeq |-> 1, type |-> NULL, limit |-> NULL],
   [afterTimestamp |-> 0, afterSeq |-> NULL, type |-> "t1", limit |-> NULL],
   [afterTimestamp |-> NULL, afterSeq |-> 0, type |-> "t1", limit |-> 1]}

\* Every read about a campaign that exists is answered alike.
CampaignsAlike ==
  /\ Sql!listCampaigns(sql) = Mem!listCampaigns(mem)
  /\ \A c \in Sql!Ids(sql.campaigns) :
       /\ Sql!getCampaign(sql, c) = Mem!getCampaign(mem, c)
       /\ Sql!listSeats(sql, c) = Mem!listSeats(mem, c)
       /\ \A s \in held["seats"] : Sql!getSeat(sql, c, s) = Mem!getSeat(mem, c, s)
       /\ \A type \in Types \cup {NULL} :
            Sql!listEntities(sql, c, type) = Mem!listEntities(mem, c, type)
       /\ \A e \in held["entities"] :
            Sql!getEntity(sql, c, e) = Mem!getEntity(mem, c, e)
       /\ \A opt \in EventOptions :
            Sql!getEvents(sql, c, opt) = Mem!getEvents(mem, c, opt)
       /\ Sql!getMaxEventSeq(sql, c) = Mem!getMaxEventSeq(mem, c)
       /\ Sql!getLatestSnapshot(sql, c) = Mem!getLatestSnapshot(mem, c)

\* Every read about the admin, an account or a session is answered alike.  The
\* Maps may list an account more: one whose name SQLite refused as taken.
AccountsAlike ==
  /\ Sql!getServerAdmin(sql) = Mem!getServerAdmin(mem)
  /\ Sql!listAdminSessions(sql) = Mem!listAdminSessions(mem)
  /\ \A s \in held["adminSessions"] :
       Sql!getAdminSession(sql, s) = Mem!getAdminSession(mem, s)
  /\ Sql!listPlayerAccounts(sql) \subseteq Mem!listPlayerAccounts(mem)
  /\ \A u \in Names : Sql!getPlayerAccountByUsername(sql, u)
                      = Mem!getPlayerAccountByUsername(mem, u)
  /\ \A a \in held["accounts"] :
       /\ Sql!getPlayerAccountById(sql, a) = Mem!getPlayerAccountById(mem, a)
       /\ Sql!countSeatsForAccount(sql, a) = Mem!countSeatsForAccount(mem, a)
       /\ Sql!listSeatIdsForAccount(sql, a) = Mem!listSeatIdsForAccount(mem, a)
       /\ Sql!listAuthSessionsForAccount(sql, a)
          = Mem!listAuthSessionsForAccount(mem, a)
       /\ Sql!countActiveAuthSessionsForAccount(sql, a, now)
          = Mem!countActiveAuthSessionsForAccount(mem, a, now)
  /\ \A s \in held["sessions"] :
       Sql!getAuthSession(sql, s) = Mem!getAuthSession(mem, s)
  /\ Sql!getServerSetting(sql, "refresh_cookie_max_days")
     = Mem!getServerSetting(mem, "refresh_cookie_max_days")

\* An invite whose seat and campaign exist is the same in both, uses and all,
\* would be consumed by both or by neither, and is listed by both when the seat
\* is one of the campaign it was made for.  The Maps keep the invites of a
\* deleted seat, and of a deleted campaign that the seat was not of; SQLite
\* deletes them with either.
InvitesAlike ==
  \A i \in held["invites"] :
    LET row == Sql!getInvite(sql, i)
        copy == Mem!getInvite(mem, i)
    IN  IF row = NULL
        THEN copy # NULL => \/ copy.seatId \notin Sql!Ids(sql.seats)
                            \/ madeFor[i] \notin Sql!Ids(sql.campaigns)
        ELSE /\ copy # NULL
             /\ \A f \in DOMAIN copy : copy[f] = row[f]
             /\ Sql!Consumable(sql, i, now) # {}
                <=> Mem!consumeInviteAtomic(mem, i, now) # mem
             /\ row.campaignId = madeFor[i]
             /\ Sql!getSeat(sql, row.campaignId, row.seatId) # NULL
                => copy \in Mem!listInvitesForSeat(mem, row.campaignId, row.seatId)

BackendsAlike == CampaignsAlike /\ AccountsAlike /\ InvitesAlike

\* GET /api/campaigns/:id/invites lists "all invites across all seats in a
\* campaign" (invites.ts:29): it asks for those of each seat.
InvitesListed ==
  \A i \in sql.invites : \A s \in sql.seats : s.id = i.seatId =>
    i \in UNION {Sql!listInvitesForSeat(sql, s.campaignId, q.id) :
                   q \in Sql!listSeats(sql, s.campaignId)}

----------------------------------------------------------------------------
(* The inductive invariant behind the theorems of StorageBackendsProofs:    *)
(* table by table, what the Maps have and SQLite has not.  Rows of a        *)
(* campaign that is gone are in the Maps only, and no id leads to them.     *)

Living == Sql!Ids(sql.campaigns)

Log(c) == Mem!EventsOf(mem, c)

\* Ids were drawn one after the other, and name one row each.
Numbered(rows, t) ==
  /\ \A r \in rows : r.id \in 1..made[t]
  /\ \A r, q \in rows : r.id = q.id => r = q

Shapes ==
  /\ DOMAIN sql = DOMAIN Sql!EmptyDb /\ sql = [t \in DOMAIN sql |-> sql[t]]
  /\ DOMAIN mem = DOMAIN Mem!EmptyDb /\ mem = [t \in DOMAIN mem |-> mem[t]]
  /\ made \in [Tables -> Nat] /\ now \in Nat
  /\ DOMAIN held = Tables /\ held = [t \in Tables |-> held[t]]
  /\ \A t \in Tables : held[t] \subseteq 1..made[t]

CampaignsInv ==
  /\ sql.campaigns \subseteq CampaignRow
  /\ sql.campaigns = mem.campaigns
  /\ Numbered(mem.campaigns, "campaigns")

EntitiesInv ==
  /\ mem.entities \subseteq EntityRow
  /\ Numbered(mem.entities, "entities")
  /\ \A e \in mem.entities : e.campaignId \in 1..made["campaigns"]
  /\ sql.entities = {e \in mem.entities : e.campaignId \in Living}

\* Each log is numbered from 1, and SQLite has those of the living campaigns.
LogsInv ==
  /\ DOMAIN mem.events \subseteq 1..made["campaigns"]
  /\ mem.events = [c \in DOMAIN mem.events |-> mem.events[c]]
  /\ \A c \in DOMAIN mem.events :
       /\ mem.events[c] \in Seq(EventRow)
       /\ \A n \in 1..Len(mem.events[c]) :
            mem.events[c][n].seq = n /\ mem.events[c][n].campaignId = c
  /\ \A e \in sql.events :
       /\ e.campaignId \in Living
       /\ e.seq \in 1..Len(Log(e.campaignId))
       /\ e = Log(e.campaignId)[e.seq]
  /\ \A c \in Living : \A n \in 1..Len(Log(c)) : Log(c)[n] \in sql.events

SnapshotsInv ==
  /\ mem.snapshots \subseteq SnapshotRow
  /\ \A s \in mem.snapshots : s.campaignId \in 1..made["campaigns"]
  /\ \A r, s \in mem.snapshots : r.campaignId = s.campaignId => r = s
  /\ sql.snapshots = {s \in mem.snapshots : s.campaignId \in Living}

AdminInv ==
  /\ mem.admin \in AdminRow \cup {NULL}
  /\ sql.admins = IF mem.admin = NULL THEN {} ELSE {mem.admin}
  /\ held["admins"] \subseteq Sql!Ids(sql.admins)

AdminSessionsInv ==
  /\ sql.adminSessions \subseteq AdminSessionRow
  /\ sql.adminSessions = mem.adminSessions
  /\ Numbered(mem.adminSessions, "adminSessions")
  /\ \A s \in sql.adminSessions : s.adminId \in Sql!Ids(sql.admins)

\* A seat of the Maps alone was refused by SQLite, so nobody was told its id.
SeatsInv ==
  /\ mem.seats \subseteq SeatRow
  /\ Numbered(mem.seats, "seats")
  /\ \A s \in mem.seats : s.campaignId \in 1..made["campaigns"]
  /\ sql.seats = {s \in mem.seats : s.campaignId \in Living}
  /\ \A s \in mem.seats \ sql.seats : s.accountId = NULL /\ s.id \notin held["seats"]
  /\ \A s \in sql.seats : s.accountId \in Sql!Ids(sql.accounts) \cup {NULL}

Copy(i) == [id |-> i.id, seatId |-> i.seatId, maxUses |-> i.maxUses,
            usesRemaining |-> i.usesRemaining, expiresAt |-> i.expiresAt,
            revoked |-> i.revoked]

\* The Maps alone have invites whose seat or whose campaign is gone, and stays
\* so.
InvitesInv ==
  /\ sql.invites \subseteq InviteRow /\ Numbered(sql.invites, "invites")
  /\ mem.invites \subseteq InviteCopy /\ Numbered(mem.invites, "invites")
  /\ madeFor \in Seq(Nat) /\ Len(madeFor) = made["invites"]
  /\ \A n \in 1..made["invites"] : madeFor[n] \in 1..made["campaigns"]
  /\ \A i \in sql.invites : /\ i.seatId \in Sql!Ids(sql.seats)
                            /\ i.campaignId \in Living
                            /\ i.campaignId = madeFor[i.id]
  /\ \A i \in sql.invites : Copy(i) \in mem.invites
  /\ \A m \in mem.invites :
       /\ m.seatId \in 1..made["seats"]
       /\ m.seatId \in Sql!Ids(sql.seats) /\ madeFor[m.id] \in Living
          => \E i \in sql.invites : m = Copy(i)

\* An account of the Maps alone came after the one that has its name.
AccountsInv ==
  /\ mem.accounts \subseteq AccountRow /\ Numbered(mem.accounts, "accounts")
  /\ sql.accounts \subseteq mem.accounts
  /\ held["accounts"] \subseteq Sql!Ids(sql.accounts)
  /\ \A a, b \in sql.accounts : a.username = b.username => a = b
  /\ \A a \in mem.accounts \ sql.accounts :
       \E b \in sql.accounts : b.username = a.username /\ b.id < a.id

SessionsInv ==
  /\ sql.sessions \subseteq SessionRow
  /\ sql.sessions = mem.sessions
  /\ Numbered(mem.sessions, "sessions")
  /\ \A s \in sql.sessions : s.accountId \in Sql!Ids(sql.accounts)

SettingsInv ==
  /\ sql.settings \subseteq SettingRow
  /\ sql.settings = mem.settings
  /\ \A r, s \in sql.settings : r.key = s.key => r = s

IInv ==
  /\ Shapes /\ CampaignsInv /\ EntitiesInv /\ LogsInv /\ SnapshotsInv
  /\ AdminInv /\ AdminSessionsInv /\ SeatsInv /\ InvitesInv
  /\ AccountsInv /\ SessionsInv /\ SettingsInv

=============================================================================
