--------------------------- MODULE SqliteStorage ---------------------------
(***************************************************************************)
(* The production storage (server/src/storage/sqlite-storage.ts) as        *)
(* operators over a database: a record of tables, each a set of rows.      *)
(* Every method of the class is one operator named like it, a read         *)
(* (SELECT) or a function to the database after the statement.  A          *)
(* statement that would break a key of the schema throws and changes       *)
(* nothing: Stored.                                                        *)
(*                                                                         *)
(* Abstracted: display names, times that are only shown, and the order of  *)
(* the lists that are only shown; a token is the id of its row, being      *)
(* random and unique; a revocation time is the flag that it is not null.   *)
(***************************************************************************)
EXTENDS Integers, FiniteSets, Sequences

CONSTANT NULL       \* SQL null, and the value undefined of an option

----------------------------------------------------------------------------
\* One row, or NULL: what stmt.get() of better-sqlite3 returns.
One(rows) == IF rows = {} THEN NULL ELSE CHOOSE r \in rows : TRUE

\* A row with the columns that data names replaced.
Assign(row, data) ==
  [col \in DOMAIN row |-> IF col \in DOMAIN data THEN data[col] ELSE row[col]]

Ids(rows) == {r.id : r \in rows}

EmptyDb ==
  [campaigns |-> {}, entities |-> {}, events |-> {}, snapshots |-> {},
   admins |-> {}, adminSessions |-> {}, seats |-> {}, invites |-> {},
   accounts |-> {}, sessions |-> {}, settings |-> {}]

\* FOREIGN KEY clauses, enforced by pragma foreign_keys = ON.
ForeignKeysHold(db) ==
  /\ \A r \in db.entities \cup db.seats \cup db.invites \cup db.events
               \cup db.snapshots : r.campaignId \in Ids(db.campaigns)
  /\ \A s \in db.seats : s.accountId \in Ids(db.accounts) \cup {NULL}
  /\ \A i \in db.invites : i.seatId \in Ids(db.seats)
  /\ \A s \in db.sessions : s.accountId \in Ids(db.accounts)
  /\ \A s \in db.adminSessions : s.adminId \in Ids(db.admins)

\* Mutant: no UNIQUE on the user names.
UniqueSeqsHold(db) ==
  \A e, f \in db.events : e.campaignId = f.campaignId /\ e.seq = f.seq => e = f

\* UNIQUE clauses that no random token already guarantees.
UniqueKeysHold(db) ==
  /\ \A a, b \in db.accounts : a.username = b.username => a = b
  /\ \A e, f \in db.events :
       e.campaignId = f.campaignId /\ e.seq = f.seq => e = f

Stored(db, after) ==
  IF ForeignKeysHold(after) /\ UniqueKeysHold(after) THEN after ELSE db

----------------------------------------------------------------------------
(* Campaigns *)

createCampaign(db, id, name) ==
  [db EXCEPT !.campaigns = @ \cup {[id |-> id, name |-> name]}]

getCampaign(db, id) == One({c \in db.campaigns : c.id = id})

listCampaigns(db) == db.campaigns

updateCampaign(db, id, name) ==
  [db EXCEPT !.campaigns =
     {IF c.id = id THEN [c EXCEPT !.name = name] ELSE c : c \in @}]

\* ON DELETE CASCADE on every child table, from the seats on to the invites.
deleteCampaign(db, id) ==
  LET kept(rows) == {r \in rows : r.campaignId # id}
  IN  [db EXCEPT !.campaigns = {c \in @ : c.id # id},
                 !.entities = kept(@), !.events = kept(@),
                 !.snapshots = kept(@), !.seats = kept(@),
                 !.invites = {i \in kept(@) : i.seatId \in Ids(kept(db.seats))}]

----------------------------------------------------------------------------
(* Entities *)

createEntity(db, campaignId, id, type, data) ==
  Stored(db, [db EXCEPT !.entities = @ \cup
    {[id |-> id, campaignId |-> campaignId, type |-> type, data |-> data]}])

getEntity(db, campaignId, id) ==
  One({e \in db.entities : e.id = id /\ e.campaignId = campaignId})

updateEntity(db, campaignId, id, data) ==
  [db EXCEPT !.entities =
     {IF e.id = id /\ e.campaignId = campaignId
      THEN [e EXCEPT !.data = data] ELSE e : e \in @}]

deleteEntity(db, campaignId, id) ==
  [db EXCEPT !.entities = {e \in @ : ~(e.id = id /\ e.campaignId = campaignId)}]

listEntities(db, campaignId, type) ==
  {e \in db.entities : e.campaignId = campaignId /\ type \in {NULL, e.type}}

----------------------------------------------------------------------------
(* Event log and snapshots *)

\* COALESCE(MAX(seq), 0)
getMaxEventSeq(db, campaignId) ==
  LET seqs == {e.seq : e \in {e \in db.events : e.campaignId = campaignId}}
  IN  IF seqs = {} THEN 0 ELSE CHOOSE m \in seqs : \A n \in seqs : n <= m

\* Mutant: one sequence for all campaigns.
appendEventServerWide(db, campaignId, type, now) ==
  Stored(db, [db EXCEPT !.events = @ \cup
    {[campaignId |-> campaignId, type |-> type, timestamp |-> now,
      seq |-> Cardinality(db.events) + 1]}])

appendEvent(db, campaignId, type, now) ==
  Stored(db, [db EXCEPT !.events = @ \cup
    {[campaignId |-> campaignId, type |-> type, timestamp |-> now,
      seq |-> getMaxEventSeq(db, campaignId) + 1]}])

\* ORDER BY seq ASC: the n-th row has n - 1 rows before it.
InOrder(rows) ==
  LET nth(n) == CHOOSE e \in rows :
                  Cardinality({f \in rows : f.seq < e.seq}) = n - 1
  IN  [n \in 1..Cardinality(rows) |-> nth(n)]

\* Falsy options (a limit of 0, an empty type) add no clause to the query.
getEvents(db, campaignId, opt) ==
  LET rows == {e \in db.events :
                 /\ e.campaignId = campaignId
                 /\ opt.afterTimestamp # NULL => e.timestamp > opt.afterTimestamp
                 /\ opt.afterSeq # NULL => e.seq > opt.afterSeq
                 /\ opt.type \in {NULL, e.type}}
      ordered == InOrder(rows)
  IN  IF opt.limit \in {NULL, 0} \/ opt.limit >= Len(ordered)
      THEN ordered ELSE SubSeq(ordered, 1, opt.limit)

getLatestSnapshot(db, campaignId) ==
  One({s \in db.snapshots : s.campaignId = campaignId})

\* INSERT ... ON CONFLICT(campaign_id) DO UPDATE
putSnapshot(db, campaignId, seq) ==
  Stored(db, [db EXCEPT !.snapshots =
    {s \in @ : s.campaignId # campaignId} \cup
    {[campaignId |-> campaignId, seq |-> seq]}])

----------------------------------------------------------------------------
(* Server admin and its sessions *)

getServerAdmin(db) == One(db.admins)

createServerAdmin(db, id, pinHash, expiresAt) ==
  [db EXCEPT !.admins = @ \cup
    {[id |-> id, pinHash |-> pinHash, passwordHash |-> NULL,
      setupPinExpiresAt |-> expiresAt]}]

updateServerAdmin(db, id, data) ==
  [db EXCEPT !.admins = {IF a.id = id THEN Assign(a, data) ELSE a : a \in @}]

createAdminSession(db, id, adminId, expiresAt) ==
  Stored(db, [db EXCEPT !.adminSessions = @ \cup
    {[id |-> id, adminId |-> adminId, expiresAt |-> expiresAt,
      revoked |-> FALSE]}])

getAdminSession(db, id) ==
  One({s \in db.adminSessions : s.id = id /\ ~s.revoked})

revokeAdminSession(db, id) ==
  [db EXCEPT !.adminSessions =
     {IF s.id = id THEN [s EXCEPT !.revoked = TRUE] ELSE s : s \in @}]

listAdminSessions(db) == db.adminSessions

cleanupExpiredAdminSessions(db, now) ==
  [db EXCEPT !.adminSessions =
     {s \in @ : ~(s.expiresAt < now \/ s.revoked)}]

----------------------------------------------------------------------------
(* Seats and invites *)

createSeat(db, campaignId, id, role) ==
  Stored(db, [db EXCEPT !.seats = @ \cup
    {[id |-> id, campaignId |-> campaignId, role |-> role,
      accountId |-> NULL, isActive |-> TRUE]}])

getSeat(db, campaignId, id) ==
  One({s \in db.seats : s.id = id /\ s.campaignId = campaignId})

listSeats(db, campaignId) == {s \in db.seats : s.campaignId = campaignId}

updateSeat(db, campaignId, id, data) ==
  Stored(db, [db EXCEPT !.seats =
    {IF s.id = id /\ s.campaignId = campaignId THEN Assign(s, data) ELSE s
       : s \in @}])

\* Mutant: without the cascade to the invites.
deleteSeatAlone(db, campaignId, id) ==
  [db EXCEPT !.seats = {s \in @ : ~(s.id = id /\ s.campaignId = campaignId)}]

\* The invites of the seat go with it: ON DELETE CASCADE.
deleteSeat(db, campaignId, id) ==
  LET kept == {s \in db.seats : ~(s.id = id /\ s.campaignId = campaignId)}
  IN  [db EXCEPT !.seats = kept,
                 !.invites = {i \in @ : i.seatId \in Ids(kept)}]

createInvite(db, campaignId, seatId, id, maxUses, expiresAt) ==
  Stored(db, [db EXCEPT !.invites = @ \cup
    {[id |-> id, campaignId |-> campaignId, seatId |-> seatId,
      maxUses |-> maxUses, usesRemaining |-> maxUses,
      expiresAt |-> expiresAt, revoked |-> FALSE]}])

getInvite(db, id) == One({i \in db.invites : i.id = id})

listInvitesForSeat(db, campaignId, seatId) ==
  {i \in db.invites : i.campaignId = campaignId /\ i.seatId = seatId}

revokeInvite(db, id) ==
  [db EXCEPT !.invites =
     {IF i.id = id THEN [i EXCEPT !.revoked = TRUE] ELSE i : i \in @}]

\* Mutant: an invite lives one instant longer.
ConsumableOnExpiry(db, id, now) ==
  {i \in db.invites : /\ i.id = id /\ i.usesRemaining > 0
                      /\ ~i.revoked /\ i.expiresAt >= now}

\* Mutant: a used-up invite goes on being consumed.
ConsumableUsedUp(db, id, now) ==
  {i \in db.invites : i.id = id /\ ~i.revoked /\ i.expiresAt > now}

\* The WHERE clause of the one UPDATE that spends a use.
Consumable(db, id, now) ==
  {i \in db.invites : /\ i.id = id /\ i.usesRemaining > 0
                      /\ ~i.revoked /\ i.expiresAt > now}

consumeInviteAtomic(db, id, now) ==
  [db EXCEPT !.invites =
     {IF i \in Consumable(db, id, now)
      THEN [i EXCEPT !.usesRemaining = @ - 1] ELSE i : i \in @}]

----------------------------------------------------------------------------
(* Player accounts and their sessions *)

createPlayerAccount(db, id, username, passwordHash) ==
  Stored(db, [db EXCEPT !.accounts = @ \cup
    {[id |-> id, username |-> username, passwordHash |-> passwordHash,
      mustChangePassword |-> FALSE, lastLoginAt |-> NULL]}])

getPlayerAccountByUsername(db, username) ==
  One({a \in db.accounts : a.username = username})

getPlayerAccountById(db, id) == One({a \in db.accounts : a.id = id})

updatePlayerAccountLastLogin(db, id, now) ==
  [db EXCEPT !.accounts =
     {IF a.id = id THEN [a EXCEPT !.lastLoginAt = now] ELSE a : a \in @}]

\* newHash = NULL: the argument is left out and the hash kept.
setPlayerAccountMustChangePassword(db, id, flag, newHash) ==
  [db EXCEPT !.accounts =
     {IF a.id # id THEN a
      ELSE [a EXCEPT !.mustChangePassword = flag,
                     !.passwordHash = IF newHash = NULL THEN @ ELSE newHash]
        : a \in @}]

listPlayerAccounts(db) == db.accounts

countSeatsForAccount(db, accountId) ==
  Cardinality({s \in db.seats : s.accountId = accountId /\ s.isActive})

listSeatIdsForAccount(db, accountId) ==
  Ids({s \in db.seats : s.accountId = accountId})

createAuthSession(db, id, accountId, expiresAt, now) ==
  Stored(db, [db EXCEPT !.sessions = @ \cup
    {[id |-> id, accountId |-> accountId, expiresAt |-> expiresAt,
      createdAt |-> now, lastUsedAt |-> now, revoked |-> FALSE]}])

getAuthSession(db, id) == One({s \in db.sessions : s.id = id /\ ~s.revoked})

updateAuthSession(db, id, data) ==
  [db EXCEPT !.sessions = {IF s.id = id THEN Assign(s, data) ELSE s : s \in @}]

revokeAuthSession(db, id) ==
  [db EXCEPT !.sessions =
     {IF s.id = id THEN [s EXCEPT !.revoked = TRUE] ELSE s : s \in @}]

revokeAllAuthSessionsForAccount(db, accountId) ==
  [db EXCEPT !.sessions =
     {IF s.accountId = accountId THEN [s EXCEPT !.revoked = TRUE] ELSE s
        : s \in @}]

listAuthSessionsForAccount(db, accountId) ==
  {s \in db.sessions : s.accountId = accountId}

ActiveSessions(db, accountId, now) ==
  {s \in db.sessions : /\ s.accountId = accountId
                       /\ ~s.revoked /\ s.expiresAt > now}

countActiveAuthSessionsForAccount(db, accountId, now) ==
  Cardinality(ActiveSessions(db, accountId, now))

\* ORDER BY created_at ASC LIMIT 1.  The query reads the rows of the account
\* in the order they were inserted, so that is how a tie is broken.
OldestSession(db, accountId, now) ==
  LET active == ActiveSessions(db, accountId, now)
      oldest == {s \in active : \A r \in active : s.createdAt <= r.createdAt}
  IN  One({s \in oldest : \A r \in oldest : s.id <= r.id})

revokeOldestAuthSessionForAccount(db, accountId, now) ==
  LET oldest == OldestSession(db, accountId, now)
  IN  IF oldest = NULL THEN db ELSE revokeAuthSession(db, oldest.id)

----------------------------------------------------------------------------
(* Server settings *)

getServerSetting(db, key) == One({s \in db.settings : s.key = key})

setServerSetting(db, key, value) ==
  [db EXCEPT !.settings =
     {s \in @ : s.key # key} \cup {[key |-> key, value |-> value]}]

=============================================================================
