-------------------------- MODULE InMemoryBackend --------------------------
(***************************************************************************)
(* The storage the route tests run on                                      *)
(* (server/src/storage/in-memory-storage.ts): the methods of SqliteStorage *)
(* under the same names and parameters, over Maps.  There are no keys      *)
(* between the Maps: nothing is refused, and a delete removes what its     *)
(* code names.  A method that throws because the row is missing changes    *)
(* nothing.  Ids are numbered in the order of insertion, which is the      *)
(* order a Map is iterated in.                                             *)
(***************************************************************************)
EXTENDS Integers, FiniteSets, Sequences

CONSTANT NULL       \* null and undefined

----------------------------------------------------------------------------
\* The value of a key of a Map, or NULL.
At(map, id) ==
  IF \E r \in map : r.id = id THEN CHOOSE r \in map : r.id = id ELSE NULL

\* The first of some values, in the order of iteration, or NULL.
First(rows) ==
  IF rows = {} THEN NULL ELSE CHOOSE r \in rows : \A q \in rows : r.id <= q.id

\* Object.assign to the value of a key, if it is there.
Patch(map, id, data) ==
  {IF r.id # id THEN r
   ELSE [f \in DOMAIN r |-> IF f \in DOMAIN data THEN data[f] ELSE r[f]]
     : r \in map}

EmptyDb ==
  [campaigns |-> {}, entities |-> {}, events |-> [c \in {} |-> <<>>],
   snapshots |-> {},
   admin |-> NULL, adminSessions |-> {}, seats |-> {}, invites |-> {},
   accounts |-> {}, sessions |-> {}, settings |-> {}]

----------------------------------------------------------------------------
(* Campaigns *)

createCampaign(db, id, name) ==
  [db EXCEPT !.campaigns = @ \cup {[id |-> id, name |-> name]}]

getCampaign(db, id) == At(db.campaigns, id)

listCampaigns(db) == db.campaigns

updateCampaign(db, id, name) ==
  [db EXCEPT !.campaigns = Patch(@, id, [name |-> name])]

deleteCampaign(db, id) ==
  LET seatIds == {s.id : s \in {s \in db.seats : s.campaignId = id}}
      kept(rows) == {r \in rows : r.campaignId # id}
  IN  [db EXCEPT !.campaigns = {c \in @ : c.id # id},
                 !.entities = kept(@), !.snapshots = kept(@), !.seats = kept(@),
                 !.events = [c \in DOMAIN @ \ {id} |-> @[c]],
                 !.invites = {i \in @ : i.seatId \notin seatIds}]

----------------------------------------------------------------------------
(* Entities, in one Map per campaign *)

createEntity(db, campaignId, id, type, data) ==
  [db EXCEPT !.entities = @ \cup
    {[id |-> id, campaignId |-> campaignId, type |-> type, data |-> data]}]

listEntities(db, campaignId, type) ==
  {e \in db.entities : e.campaignId = campaignId /\ type \in {NULL, e.type}}

getEntity(db, campaignId, id) == At(listEntities(db, campaignId, NULL), id)

updateEntity(db, campaignId, id, data) ==
  IF getEntity(db, campaignId, id) = NULL THEN db
  ELSE [db EXCEPT !.entities = Patch(@, id, [data |-> data])]

deleteEntity(db, campaignId, id) ==
  [db EXCEPT !.entities = @ \ {getEntity(db, campaignId, id)}]

----------------------------------------------------------------------------
(* Event log, an array per campaign, and snapshots *)

EventsOf(db, campaignId) ==
  IF campaignId \in DOMAIN db.events THEN db.events[campaignId] ELSE <<>>

\* The sequence number of the last element of the array.
getMaxEventSeq(db, campaignId) ==
  LET log == EventsOf(db, campaignId)
  IN  IF log = <<>> THEN 0 ELSE log[Len(log)].seq

\* Also for a campaign that is not there: its array is made.
appendEvent(db, campaignId, type, now) ==
  LET event == [campaignId |-> campaignId, type |-> type, timestamp |-> now,
                seq |-> getMaxEventSeq(db, campaignId) + 1]
      log == Append(EventsOf(db, campaignId), event)
  IN  [db EXCEPT !.events = [c \in DOMAIN @ \cup {campaignId} |->
                              IF c = campaignId THEN log ELSE @[c]]]

\* filter: the elements at some indices of an array, in their order.
Kept(array, at) ==
  LET nth(n) == CHOOSE i \in at : Cardinality({j \in at : j < i}) = n - 1
  IN  [n \in 1..Cardinality(at) |-> array[nth(n)]]

\* Only an undefined option is left out: a limit of 0 answers nothing.
getEvents(db, campaignId, opt) ==
  LET log == EventsOf(db, campaignId)
      wanted(e) == /\ opt.afterTimestamp # NULL => e.timestamp > opt.afterTimestamp
                   /\ opt.afterSeq # NULL => e.seq > opt.afterSeq
                   /\ opt.type \in {NULL, e.type}
      results == Kept(log, {i \in 1..Len(log) : wanted(log[i])})
  IN  IF opt.limit = NULL \/ opt.limit >= Len(results)
      THEN results ELSE SubSeq(results, 1, opt.limit)

getLatestSnapshot(db, campaignId) ==
  IF \E s \in db.snapshots : s.campaignId = campaignId
  THEN CHOOSE s \in db.snapshots : s.campaignId = campaignId ELSE NULL

putSnapshot(db, campaignId, seq) ==
  [db EXCEPT !.snapshots =
    {s \in @ : s.campaignId # campaignId} \cup
    {[campaignId |-> campaignId, seq |-> seq]}]

----------------------------------------------------------------------------
(* Server admin (one variable) and its sessions *)

getServerAdmin(db) == db.admin

createServerAdmin(db, id, pinHash, expiresAt) ==
  [db EXCEPT !.admin = [id |-> id, pinHash |-> pinHash, passwordHash |-> NULL,
                        setupPinExpiresAt |-> expiresAt]]

updateServerAdmin(db, id, data) ==
  IF db.admin = NULL THEN db
  ELSE [db EXCEPT !.admin = First(Patch({@}, id, data))]

createAdminSession(db, id, adminId, expiresAt) ==
  [db EXCEPT !.adminSessions = @ \cup
    {[id |-> id, adminId |-> adminId, expiresAt |-> expiresAt,
      revoked |-> FALSE]}]

getAdminSession(db, id) == At({s \in db.adminSessions : ~s.revoked}, id)

revokeAdminSession(db, id) ==
  [db EXCEPT !.adminSessions = Patch(@, id, [revoked |-> TRUE])]

listAdminSessions(db) == db.adminSessions

cleanupExpiredAdminSessions(db, now) ==
  [db EXCEPT !.adminSessions =
    @ \ {s \in @ : s.expiresAt < now \/ s.revoked}]

----------------------------------------------------------------------------
(* Seats, in one Map per campaign, and invites, in one Map by token *)

createSeat(db, campaignId, id, role) ==
  [db EXCEPT !.seats = @ \cup
    {[id |-> id, campaignId |-> campaignId, role |-> role,
      accountId |-> NULL, isActive |-> TRUE]}]

listSeats(db, campaignId) == {s \in db.seats : s.campaignId = campaignId}

getSeat(db, campaignId, id) == At(listSeats(db, campaignId), id)

updateSeat(db, campaignId, id, data) ==
  IF getSeat(db, campaignId, id) = NULL THEN db
  ELSE [db EXCEPT !.seats = Patch(@, id, data)]

\* The invites of the seat stay.
deleteSeat(db, campaignId, id) ==
  [db EXCEPT !.seats = @ \ {getSeat(db, campaignId, id)}]

\* The campaign is not kept with the invite.
createInvite(db, campaignId, seatId, id, maxUses, expiresAt) ==
  [db EXCEPT !.invites = @ \cup
    {[id |-> id, seatId |-> seatId, maxUses |-> maxUses,
      usesRemaining |-> maxUses, expiresAt |-> expiresAt, revoked |-> FALSE]}]

getInvite(db, id) == At(db.invites, id)

listInvitesForSeat(db, campaignId, seatId) ==
  IF getSeat(db, campaignId, seatId) = NULL THEN {}
  ELSE {i \in db.invites : i.seatId = seatId}

revokeInvite(db, id) == [db EXCEPT !.invites = Patch(@, id, [revoked |-> TRUE])]

consumeInviteAtomic(db, id, now) ==
  LET invite == getInvite(db, id)
  IN  IF \/ invite = NULL
         \/ invite.usesRemaining <= 0
         \/ invite.revoked
         \/ invite.expiresAt <= now
      THEN db
      ELSE [db EXCEPT !.invites =
             Patch(@, id, [usesRemaining |-> invite.usesRemaining - 1])]

----------------------------------------------------------------------------
(* Player accounts and their sessions *)

createPlayerAccount(db, id, username, passwordHash) ==
  [db EXCEPT !.accounts = @ \cup
    {[id |-> id, username |-> username, passwordHash |-> passwordHash,
      mustChangePassword |-> FALSE, lastLoginAt |-> NULL]}]

getPlayerAccountByUsername(db, username) ==
  First({a \in db.accounts : a.username = username})

getPlayerAccountById(db, id) == At(db.accounts, id)

updatePlayerAccountLastLogin(db, id, now) ==
  [db EXCEPT !.accounts = Patch(@, id, [lastLoginAt |-> now])]

setPlayerAccountMustChangePassword(db, id, flag, newHash) ==
  LET change == [mustChangePassword |-> flag]
  IN  [db EXCEPT !.accounts = Patch(@, id,
        IF newHash = NULL THEN change
        ELSE [mustChangePassword |-> flag, passwordHash |-> newHash])]

listPlayerAccounts(db) == db.accounts

listSeatIdsForAccount(db, accountId) ==
  {s.id : s \in {s \in db.seats : s.accountId = accountId}}

countSeatsForAccount(db, accountId) ==
  Cardinality({s \in db.seats : s.accountId = accountId /\ s.isActive})

createAuthSession(db, id, accountId, expiresAt, now) ==
  [db EXCEPT !.sessions = @ \cup
    {[id |-> id, accountId |-> accountId, expiresAt |-> expiresAt,
      createdAt |-> now, lastUsedAt |-> now, revoked |-> FALSE]}]

getAuthSession(db, id) == At({s \in db.sessions : ~s.revoked}, id)

updateAuthSession(db, id, data) ==
  [db EXCEPT !.sessions = Patch(@, id, data)]

revokeAuthSession(db, id) ==
  [db EXCEPT !.sessions = Patch(@, id, [revoked |-> TRUE])]

revokeAllAuthSessionsForAccount(db, accountId) ==
  [db EXCEPT !.sessions =
    {IF s.accountId = accountId /\ ~s.revoked
     THEN [s EXCEPT !.revoked = TRUE] ELSE s : s \in @}]

listAuthSessionsForAccount(db, accountId) ==
  {s \in db.sessions : s.accountId = accountId}

ActiveSessions(db, accountId, now) ==
  {s \in db.sessions : s.accountId = accountId /\ ~s.revoked /\ s.expiresAt > now}

countActiveAuthSessionsForAccount(db, accountId, now) ==
  Cardinality(ActiveSessions(db, accountId, now))

\* The stable sort by createdAt puts the first inserted of the oldest first.
OldestSession(db, accountId, now) ==
  LET active == ActiveSessions(db, accountId, now)
  IN  First({s \in active : \A r \in active : s.createdAt <= r.createdAt})

revokeOldestAuthSessionForAccount(db, accountId, now) ==
  LET oldest == OldestSession(db, accountId, now)
  IN  IF oldest = NULL THEN db ELSE revokeAuthSession(db, oldest.id)

----------------------------------------------------------------------------
(* Server settings *)

getServerSetting(db, key) ==
  IF \E s \in db.settings : s.key = key
  THEN CHOOSE s \in db.settings : s.key = key ELSE NULL

setServerSetting(db, key, value) ==
  [db EXCEPT !.settings =
    {s \in @ : s.key # key} \cup {[key |-> key, value |-> value]}]

=============================================================================
