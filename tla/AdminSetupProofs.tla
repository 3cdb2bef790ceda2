---------------------------- MODULE AdminSetupProofs ---------------------------
(***************************************************************************)
(* Theorems about AdminSetup for any number of requests, starts and flags: *)
(* however setups, logins, changes and resets interleave, and wherever the *)
(* server is stopped.                                                      *)
(***************************************************************************)
EXTENDS AdminSetup, FiniteSetTheorems, TLAPS

SessionRow == [id : Nat, adminId : Nat, expiresAt : Nat, revoked : BOOLEAN]

Databases ==
  [campaigns : {{}}, entities : {{}}, events : {{}}, snapshots : {{}}, seats : {{}},
   invites : {{}}, accounts : {{}}, sessions : {{}}, settings : {{}},
   admins : SUBSET AdminRow, adminSessions : SUBSET SessionRow]

Reqs ==
  [at : {"new", "access", "verify", "hash", "unlink", "unlinked", "write", "done"},
   kind : Endpoints \cup {"none", "logout"}, pin : Int \cup {NULL},
   pass : Secrets \cup {"wrong", NULL}, next : Secrets \cup {"short", NULL},
   admin : AdminRow \cup {NULL}, status : Statuses \cup {NULL}, start : Nat, time : Nat]

TypeOK ==
  /\ db \in Databases /\ now \in Nat /\ file \in Int \cup {NULL}
  /\ boot \in {"down", "hash", "write", "up"} /\ {starts, flags} \subseteq Nat
  /\ attempts \in [Endpoints -> Entry \cup {NULL}]
  /\ req \in [Requests -> Reqs]
  /\ told \subseteq Int /\ {flag, lost} \subseteq BOOLEAN

----------------------------------------------------------------------------
(* The inductive invariant *)

\* A start that hashes its PIN has found no admin, and makes the only one.
AdminThere ==
  /\ \A a, b \in db.admins : a = b
  /\ boot = "hash" => db.admins = {}
  /\ boot \in {"write", "up"} => db.admins # {}

\* What a request holds from one of its steps to the next.
HoldsWell(n) ==
  LET r == req[n]
  IN  /\ r.at \notin {"new", "done"} => boot = "up"
      /\ r.at # "done" => r.status = NULL
      /\ r.at \in {"verify", "hash"} => r.admin # NULL /\ r.admin.id \in Sql!Ids(db.admins)
      /\ r.kind = "setup" /\ r.at = "hash" => r.next \in Secrets
      /\ r.kind = "change" /\ r.at \in {"verify", "hash"} => r.next \in Secrets
      /\ r.start <= starts

RequestsHoldWell == \A n \in Requests : HoldsWell(n)

Resets(n, at) == req[n].kind = "reset" /\ req[n].at = at

\* The PIN that is stored was told, or is about to be, or a stop has cut the
\* start or the reset that would have told it.
PinIsTold ==
  \A a \in db.admins :
    \/ a.pinHash \in told \/ lost
    \/ boot = "write" /\ a.pinHash = -starts
    \/ \E n \in Requests : Resets(n, "write") /\ a.pinHash = n

\* There is a password or a PIN, but for a reset that is between the two.
PasswordOrPin ==
  \A a \in db.admins :
    \/ a.passwordHash # NULL \/ a.setupPinExpiresAt # NULL \/ lost
    \/ \E n \in Requests : Resets(n, "hash")

\* The attempts an endpoint has let through since the server was started.
Let(n, e) ==
  /\ req[n].kind = e /\ req[n].status # "RATE_LIMIT_EXCEEDED" /\ req[n].start = starts

InWindow(e) == {n \in Requests : Let(n, e) /\ req[n].time >= attempts[e].resetAt - RATE_WINDOW}

\* Each of them is counted, and none is later than the window of the count.
AttemptsCounted ==
  \A e \in Endpoints :
    /\ boot # "down" => \A n \in Requests : Let(n, e) =>
         attempts[e] # NULL /\ req[n].time <= attempts[e].resetAt
    /\ attempts[e] # NULL =>
         /\ Cardinality(InWindow(e)) <= attempts[e].count
         /\ attempts[e].count <= MAX_ATTEMPTS

IInv ==
  /\ TypeOK /\ AdminThere /\ RequestsHoldWell /\ PinIsTold /\ PasswordOrPin
  /\ OneResetPerFlag /\ AttemptsCounted

----------------------------------------------------------------------------
(* The statements of the storage *)

LEMMA Single ==
  ASSUME AdminThere, NEW a \in db.admins
  PROVE  db.admins = {a} /\ Admin = a
<1>1. db.admins = {a}
  BY DEF AdminThere
<1> QED BY <1>1 DEF Admin, Sql!getServerAdmin, Sql!One

\* A new session leaves the admins as they are.
LEMMA SessionMade ==
  ASSUME NEW d \in Databases, NEW id \in Nat, NEW a \in Nat, NEW t \in Nat
  PROVE  /\ Sql!createAdminSession(d, id, a, t) \in Databases
         /\ Sql!createAdminSession(d, id, a, t).admins = d.admins
<1> DEFINE R == d.adminSessions \cup
                  {[id |-> id, adminId |-> a, expiresAt |-> t, revoked |-> FALSE]}
           e == [d EXCEPT !.adminSessions = R]
<1>1. R \in SUBSET SessionRow
  <2>1. d.adminSessions \in SUBSET SessionRow
    BY DEF Databases
  <2>2. [id |-> id, adminId |-> a, expiresAt |-> t, revoked |-> FALSE] \in SessionRow
    BY DEF SessionRow
  <2> QED BY <2>1, <2>2
<1>2. Sql!createAdminSession(d, id, a, t) \in {d, e}
  BY DEF Sql!createAdminSession, Sql!Stored
<1> HIDE DEF R
<1>3. e \in Databases /\ e.admins = d.admins
  BY <1>1 DEF Databases
<1> QED BY <1>2, <1>3

LEMMA SessionsRevoked ==
  ASSUME NEW d \in Databases
  PROVE  RevokedSessions(d) \in Databases /\ RevokedSessions(d).admins = d.admins
<1> DEFINE R == {[s EXCEPT !.revoked = TRUE] : s \in d.adminSessions}
<1>1. R \in SUBSET SessionRow
  <2>1. \A s \in SessionRow : [s EXCEPT !.revoked = TRUE] \in SessionRow
    BY DEF SessionRow
  <2> QED BY <2>1 DEF Databases
<1>2. RevokedSessions(d) = [d EXCEPT !.adminSessions = R]
  BY DEF RevokedSessions
<1> HIDE DEF R
<1> QED BY <1>1, <1>2 DEF Databases

LEMMA SessionRevoked ==
  ASSUME NEW d \in Databases, NEW id
  PROVE  /\ Sql!revokeAdminSession(d, id) \in Databases
         /\ Sql!revokeAdminSession(d, id).admins = d.admins
<1> DEFINE R == {IF s.id = id THEN [s EXCEPT !.revoked = TRUE] ELSE s : s \in d.adminSessions}
<1>1. R \in SUBSET SessionRow
  BY ZenonT(30) DEF Databases, SessionRow
<1>2. Sql!revokeAdminSession(d, id) = [d EXCEPT !.adminSessions = R]
  BY DEF Sql!revokeAdminSession
<1> HIDE DEF R
<1> QED BY <1>1, <1>2 DEF Databases

LEMMA SessionsCleaned ==
  ASSUME NEW d \in Databases, NEW t
  PROVE  /\ Sql!cleanupExpiredAdminSessions(d, t) \in Databases
         /\ Sql!cleanupExpiredAdminSessions(d, t).admins = d.admins
<1> DEFINE R == {s \in d.adminSessions : ~(s.expiresAt < t \/ s.revoked)}
<1>1. R \in SUBSET SessionRow
  BY DEF Databases
<1>2. Sql!cleanupExpiredAdminSessions(d, t) = [d EXCEPT !.adminSessions = R]
  BY DEF Sql!cleanupExpiredAdminSessions
<1> HIDE DEF R
<1> QED BY <1>1, <1>2 DEF Databases

\* The one admin is updated in place.
LEMMA AdminUpdated ==
  ASSUME NEW d \in Databases, NEW a, d.admins = {a}, NEW data,
         Sql!Assign(a, data) \in AdminRow
  PROVE  /\ Sql!updateServerAdmin(d, a.id, data) \in Databases
         /\ Sql!updateServerAdmin(d, a.id, data).admins = {Sql!Assign(a, data)}
<1> DEFINE b == Sql!Assign(a, data)
           e == Sql!updateServerAdmin(d, a.id, data)
<1>1. e = [d EXCEPT !.admins = {b}]
  BY DEF Sql!updateServerAdmin
<1> HIDE DEF b
<1> QED BY <1>1 DEF Databases, b

----------------------------------------------------------------------------
(* What the other parts of the invariant are made of *)

Serves(n) ==
  /\ req[n].kind = "reset"
  /\ req[n].at \in {"unlinked", "hash", "write"} \/ req[n].status = "ok"

Served == {n \in Requests : Serves(n)}

LEMMA RequestsFinite == IsFiniteSet(Requests)
BY FS_Interval, AdminAssumption DEF Requests

LEMMA OneResetIs ==
  OneResetPerFlag <=> Cardinality(Served) + (IF flag THEN 1 ELSE 0) <= flags
BY DEF OneResetPerFlag, Served, Serves

\* No request comes to serve a flag.
LEMMA NothingServed ==
  ASSUME TypeOK, OneResetPerFlag, \A n \in Requests : Serves(n)' => Serves(n),
         flag' = flag \/ flag' = FALSE, flags' = flags
  PROVE  OneResetPerFlag'
<1>1. Served' \subseteq Served
  BY DEF Served, Requests
<1>2. IsFiniteSet(Served)
  BY RequestsFinite, FS_Subset DEF Served
<1>3. /\ Cardinality(Served') <= Cardinality(Served)
      /\ Cardinality(Served) \in Nat /\ Cardinality(Served') \in Nat
  BY <1>1, <1>2, FS_Subset, FS_CardinalityType
<1>4. OneResetPerFlag' <=> Cardinality(Served') + (IF flag' THEN 1 ELSE 0) <= flags'
  BY DEF OneResetPerFlag, Served, Serves
<1> QED BY <1>3, <1>4, OneResetIs DEF TypeOK

LEMMA InWindowFinite ==
  ASSUME NEW e PROVE IsFiniteSet(InWindow(e)) /\ Cardinality(InWindow(e)) \in Nat
BY RequestsFinite, FS_Subset, FS_CardinalityType DEF InWindow

\* No request comes to be let through.
NoneLet ==
  \A n \in Requests, e \in Endpoints :
    Let(n, e)' => Let(n, e) /\ req'[n].time = req[n].time

LEMMA NothingCounted ==
  ASSUME TypeOK, AttemptsCounted, NoneLet, UNCHANGED <<attempts, starts>>,
         boot' # "down" => boot # "down"
  PROVE  AttemptsCounted'
<1> SUFFICES ASSUME NEW e \in Endpoints
             PROVE  /\ boot' # "down" => \A n \in Requests : Let(n, e)' =>
                         attempts'[e] # NULL /\ req'[n].time <= attempts'[e].resetAt
                    /\ attempts'[e] # NULL =>
                         /\ Cardinality(InWindow(e)') <= attempts'[e].count
                         /\ attempts'[e].count <= MAX_ATTEMPTS
  BY DEF AttemptsCounted, Requests, Endpoints
<1>1. InWindow(e)' \subseteq InWindow(e)
  BY DEF InWindow, NoneLet, Requests
<1>2. /\ Cardinality(InWindow(e)') <= Cardinality(InWindow(e))
      /\ Cardinality(InWindow(e)) \in Nat /\ Cardinality(InWindow(e)') \in Nat
  BY <1>1, InWindowFinite, FS_Subset, FS_CardinalityType
<1>3. attempts[e] # NULL => attempts[e].count \in Nat
  BY DEF TypeOK, Entry
<1>4. /\ boot # "down" => \A n \in Requests : Let(n, e) =>
           attempts[e] # NULL /\ req[n].time <= attempts[e].resetAt
      /\ attempts[e] # NULL =>
           /\ Cardinality(InWindow(e)) <= attempts[e].count
           /\ attempts[e].count <= MAX_ATTEMPTS
  BY DEF AttemptsCounted
<1> QED BY <1>2, <1>3, <1>4, AdminAssumption DEF NoneLet

\* The admin and the requests that owe a PIN stay as they are.
LEMMA PinStays ==
  ASSUME PinIsTold, db'.admins = db.admins, told \subseteq told', lost => lost',
         boot = "write" => boot' = "write" /\ starts' = starts,
         \A n \in Requests : Resets(n, "write") => Resets(n, "write")'
  PROVE  PinIsTold'
BY DEF PinIsTold, Requests

LEMMA PasswordStays ==
  ASSUME PasswordOrPin, db'.admins = db.admins, lost => lost',
         \A n \in Requests : Resets(n, "hash") => Resets(n, "hash")'
  PROVE  PasswordOrPin'
BY DEF PasswordOrPin, Requests

LEMMA HeldStays ==
  ASSUME NEW n \in Requests, HoldsWell(n), req'[n] = req[n], boot = "up" => boot' = "up",
         Sql!Ids(db.admins) \subseteq Sql!Ids(db'.admins),
         starts \in Nat, starts' \in Nat, starts <= starts', req[n].start \in Nat
  PROVE  HoldsWell(n)'
BY DEF HoldsWell

----------------------------------------------------------------------------
(* The steps of the server and of its operator *)

\* No request moves.
LEMMA Still ==
  ASSUME IInv, req' = req, UNCHANGED <<attempts, flags>>,
         flag' = flag \/ flag' = FALSE, starts' \in {starts, starts + 1},
         boot = "up" => boot' = "up", boot' # "down" => boot # "down" \/ starts' # starts,
         starts' # starts => boot = "down",
         Sql!Ids(db.admins) \subseteq Sql!Ids(db'.admins)
  PROVE  RequestsHoldWell' /\ OneResetPerFlag' /\ AttemptsCounted'
<1>1. RequestsHoldWell'
  BY HeldStays DEF IInv, TypeOK, RequestsHoldWell, Requests, Reqs
<1>2. OneResetPerFlag'
  BY NothingServed DEF IInv, Serves
<1>3. CASE starts' = starts
  BY <1>1, <1>2, <1>3, NothingCounted DEF IInv, NoneLet, Let
<1>4. CASE starts' = starts + 1
  <2>1. \A n \in Requests, e \in Endpoints : ~Let(n, e)'
    BY <1>4 DEF IInv, TypeOK, RequestsHoldWell, HoldsWell, Reqs, Let
  <2>2. \A e \in Endpoints : InWindow(e)' = {}
    BY <2>1 DEF InWindow, Requests, Endpoints
  <2>3. \A e \in Endpoints : attempts[e] # NULL => attempts[e].count \in Nat
    BY DEF IInv, TypeOK, Entry
  <2>4. \A e \in Endpoints : attempts[e] # NULL => attempts[e].count <= MAX_ATTEMPTS
    BY DEF IInv, AttemptsCounted
  <2> SUFFICES ASSUME NEW e \in Endpoints, attempts[e] # NULL
               PROVE  /\ Cardinality(InWindow(e)') <= attempts[e].count
                      /\ attempts[e].count <= MAX_ATTEMPTS
    BY <1>1, <1>2, <2>1 DEF AttemptsCounted, Requests, Endpoints
  <2> QED BY <2>2, <2>3, <2>4, FS_EmptySet
<1> QED BY <1>3, <1>4

LEMMA StartsAgainKeeps == ASSUME IInv, StartsAgain PROVE IInv'
<1>1. TypeOK'
  BY DEF IInv, StartsAgain, TypeOK
<1>2. AdminThere'
  <2>1. db.admins # {}
    BY DEF StartsAgain, Admin, Sql!getServerAdmin, Sql!One
  <2> QED BY <2>1 DEF IInv, StartsAgain, AdminThere
<1>3. RequestsHoldWell' /\ OneResetPerFlag' /\ AttemptsCounted'
  BY Still DEF IInv, StartsAgain
<1>4. PinIsTold' /\ PasswordOrPin'
  BY PinStays, PasswordStays DEF IInv, StartsAgain, Resets
<1> QED BY <1>1, <1>2, <1>3, <1>4 DEF IInv

\* A row is never the NULL of its table.
LEMMA NoAdmin == ASSUME TypeOK, Admin = NULL PROVE db.admins = {}
<1> SUFFICES ASSUME db.admins # {} PROVE FALSE
  OBVIOUS
<1>1. Sql!One(db.admins) \in db.admins
  BY DEF Sql!One
<1> QED BY <1>1, AdminAssumption DEF Admin, Sql!getServerAdmin, TypeOK, Databases

LEMMA StartsFirstKeeps == ASSUME IInv, StartsFirst PROVE IInv'
<1>1. TypeOK'
  BY DEF IInv, StartsFirst, TypeOK, disk
<1>2. AdminThere'
  BY NoAdmin DEF IInv, StartsFirst, AdminThere, disk
<1>3. RequestsHoldWell' /\ OneResetPerFlag' /\ AttemptsCounted'
  BY Still DEF IInv, StartsFirst, disk
<1>4. PinIsTold' /\ PasswordOrPin'
  BY PinStays, PasswordStays DEF IInv, StartsFirst, Resets, disk
<1> QED BY <1>1, <1>2, <1>3, <1>4 DEF IInv

LEMMA StartHashedKeeps == ASSUME IInv, StartHashed PROVE IInv'
<1> DEFINE a == [id |-> starts, pinHash |-> -starts, passwordHash |-> NULL,
                 setupPinExpiresAt |-> now + SETUP_PIN_EXPIRY_MS]
<1>1. a \in AdminRow /\ a.pinHash = -starts /\ a.setupPinExpiresAt # NULL
  BY AdminAssumption DEF IInv, TypeOK, AdminRow, SETUP_PIN_EXPIRY_MS
<1>2. db' = [db EXCEPT !.admins = {a}]
  <2>1. db.admins = {}
    BY DEF IInv, AdminThere, StartHashed
  <2>2. db' = [db EXCEPT !.admins = @ \cup {a}]
    BY DEF StartHashed, Sql!createServerAdmin
  <2> HIDE DEF a
  <2> QED BY <2>1, <2>2 DEF IInv, TypeOK, Databases
<1> HIDE DEF a
<1>3. db' \in Databases /\ db'.admins = {a}
  BY <1>1, <1>2 DEF IInv, TypeOK, Databases
<1>4. TypeOK'
  BY <1>3 DEF IInv, StartHashed, TypeOK
<1>5. AdminThere'
  BY <1>3 DEF IInv, StartHashed, AdminThere
<1>6. RequestsHoldWell' /\ OneResetPerFlag' /\ AttemptsCounted'
  <2>1. Sql!Ids(db.admins) = {}
    BY DEF IInv, AdminThere, StartHashed, Sql!Ids
  <2> QED BY <2>1, Still DEF IInv, StartHashed
<1>7. PinIsTold' /\ PasswordOrPin'
  BY <1>1, <1>3 DEF StartHashed, PinIsTold, PasswordOrPin
<1> QED BY <1>4, <1>5, <1>6, <1>7 DEF IInv

LEMMA StartWritesKeeps == ASSUME IInv, StartWrites PROVE IInv'
<1>1. TypeOK'
  <2>1. starts \in Nat /\ -starts \in Int
    BY DEF IInv, TypeOK
  <2>2. file' \in Int /\ told' \subseteq Int
    BY <2>1 DEF IInv, TypeOK, StartWrites
  <2> QED BY <2>2 DEF IInv, StartWrites, TypeOK
<1>2. AdminThere'
  BY DEF IInv, StartWrites, AdminThere
<1>3. RequestsHoldWell' /\ OneResetPerFlag' /\ AttemptsCounted'
  BY Still DEF IInv, StartWrites
<1>4. PasswordOrPin'
  BY PasswordStays DEF IInv, StartWrites, Resets
<1>5. PinIsTold'
  BY DEF IInv, StartWrites, PinIsTold, Resets
<1> QED BY <1>1, <1>2, <1>3, <1>4, <1>5 DEF IInv

\* What a stop leaves of a request that was running.
Cut(r) == [r EXCEPT !.at = "done", !.status = "cut", !.admin = NULL,
                    !.pin = NULL, !.pass = NULL, !.next = NULL]

\* A request that is cut has ended, and is of the kind and the time it was.
LEMMA CutEnds ==
  ASSUME NEW r \in Reqs
  PROVE  /\ Cut(r) \in Reqs /\ Cut(r).at = "done" /\ Cut(r).status = "cut"
         /\ Cut(r).kind = r.kind /\ Cut(r).start = r.start /\ Cut(r).time = r.time
<1>1. Cut(r) \in Reqs
  BY DEF Cut, Reqs, Statuses
<1>2. Cut(r).at = "done" /\ Cut(r).status = "cut"
  BY DEF Cut, Reqs
<1>3. Cut(r).kind = r.kind /\ Cut(r).start = r.start /\ Cut(r).time = r.time
  BY DEF Cut, Reqs
<1> QED BY <1>1, <1>2, <1>3

\* A stop ends every request, and remembers when it cut a start or a reset.
LEMMA StopsKeeps == ASSUME IInv, Stops PROVE IInv'
<1>1. \A r \in Reqs :
        /\ Cut(r) \in Reqs /\ Cut(r).at = "done" /\ Cut(r).status = "cut"
        /\ Cut(r).kind = r.kind /\ Cut(r).start = r.start /\ Cut(r).time = r.time
  BY CutEnds
<1>2. req' = [n \in Requests |-> IF req[n].at \in {"new", "done"} THEN req[n] ELSE Cut(req[n])]
  BY DEF Stops, Cut
<1>3. \A n \in Requests :
        /\ req'[n] \in Reqs /\ req'[n].at \in {"new", "done"}
        /\ req'[n].kind = req[n].kind /\ req'[n].start = req[n].start
        /\ req'[n].time = req[n].time
        /\ \/ req'[n] = req[n]
           \/ /\ req'[n].at = "done" /\ req'[n].status = "cut"
              /\ req[n].at \notin {"new", "done"}
  <2> TAKE n \in Requests
  <2>1. req[n] \in Reqs
    BY DEF IInv, TypeOK
  <2>2. req'[n] = IF req[n].at \in {"new", "done"} THEN req[n] ELSE Cut(req[n])
    BY <1>2
  <2> QED BY <1>1, <2>1, <2>2
<1>4. TypeOK'
  <2>1. req' \in [Requests -> Reqs] /\ attempts' \in [Endpoints -> Entry \cup {NULL}]
    BY <1>2, <1>3 DEF Stops, NoAttempts
  <2> QED BY <2>1 DEF IInv, Stops, TypeOK, disk
<1>5. AdminThere'
  BY DEF IInv, Stops, AdminThere, disk
<1>6. RequestsHoldWell'
  <2> SUFFICES ASSUME NEW n \in Requests PROVE HoldsWell(n)'
    BY DEF RequestsHoldWell, Requests
  <2>1. HoldsWell(n) /\ starts' = starts /\ db' = db
    BY DEF IInv, RequestsHoldWell, Stops, disk
  <2>2. CASE req'[n] = req[n]
    BY <1>3, <2>1, <2>2 DEF HoldsWell
  <2>3. CASE req'[n].at = "done" /\ req'[n].status = "cut"
    BY <1>3, <2>1, <2>3 DEF HoldsWell
  <2> QED BY <1>3, <2>2, <2>3
<1>7. OneResetPerFlag'
  <2>1. \A n \in Requests : Serves(n)' => Serves(n)
    BY <1>3 DEF Serves
  <2> QED BY <2>1, NothingServed DEF IInv, Stops, disk
<1>8. AttemptsCounted'
  BY DEF Stops, AttemptsCounted, NoAttempts
<1>9. PinIsTold' /\ PasswordOrPin'
  BY DEF IInv, Stops, PinIsTold, PasswordOrPin, Resets, disk
<1> QED BY <1>4, <1>5, <1>6, <1>7, <1>8, <1>9 DEF IInv

LEMMA CleansUpKeeps == ASSUME IInv, CleansUp PROVE IInv'
<1>1. db' \in Databases /\ db'.admins = db.admins
  BY SessionsCleaned DEF IInv, TypeOK, CleansUp
<1>2. TypeOK'
  BY <1>1 DEF IInv, CleansUp, TypeOK, Rest
<1>3. AdminThere'
  BY <1>1 DEF IInv, CleansUp, AdminThere, Rest
<1>4. RequestsHoldWell' /\ OneResetPerFlag' /\ AttemptsCounted'
  BY <1>1, Still DEF IInv, CleansUp, Rest
<1>5. PinIsTold' /\ PasswordOrPin'
  BY <1>1, PinStays, PasswordStays DEF IInv, CleansUp, Resets, Rest
<1> QED BY <1>2, <1>3, <1>4, <1>5 DEF IInv

\* The script runs while no request does: no request holds the admin.
LEMMA ResetScriptKeeps == ASSUME IInv, ResetScript PROVE IInv'
<1>1. db' \in Databases /\ db'.admins = {}
  BY DEF IInv, TypeOK, Databases, ResetScript
<1>2. TypeOK'
  BY <1>1 DEF IInv, ResetScript, TypeOK
<1>3. AdminThere'
  BY <1>1 DEF ResetScript, AdminThere
<1>4. RequestsHoldWell'
  <2> SUFFICES ASSUME NEW n \in Requests PROVE HoldsWell(n)'
    BY DEF RequestsHoldWell, Requests
  <2>1. HoldsWell(n) /\ boot = "down" /\ boot' = boot /\ req' = req /\ starts' = starts
    BY DEF IInv, RequestsHoldWell, ResetScript
  <2> QED BY <2>1 DEF HoldsWell
<1>5. OneResetPerFlag'
  BY NothingServed DEF IInv, ResetScript, Serves
<1>6. AttemptsCounted'
  BY NothingCounted DEF IInv, ResetScript, NoneLet, Let
<1>7. PinIsTold' /\ PasswordOrPin'
  BY <1>1 DEF PinIsTold, PasswordOrPin
<1> QED BY <1>2, <1>3, <1>4, <1>5, <1>6, <1>7 DEF IInv

LEMMA PlaceFlagKeeps == ASSUME IInv, PlaceFlag PROVE IInv'
<1>1. TypeOK'
  BY DEF IInv, PlaceFlag, TypeOK
<1>2. AdminThere'
  BY DEF IInv, PlaceFlag, AdminThere
<1>3. RequestsHoldWell'
  BY HeldStays DEF IInv, PlaceFlag, TypeOK, RequestsHoldWell, Requests, Reqs
<1>4. OneResetPerFlag'
  <2>1. Served' = Served /\ Cardinality(Served) \in Nat
    BY RequestsFinite, FS_Subset, FS_CardinalityType DEF PlaceFlag, Served, Serves
  <2>2. OneResetPerFlag' <=> Cardinality(Served') + (IF flag' THEN 1 ELSE 0) <= flags'
    BY DEF OneResetPerFlag, Served, Serves
  <2> QED BY <2>1, <2>2, OneResetIs DEF IInv, TypeOK, PlaceFlag
<1>5. AttemptsCounted'
  BY NothingCounted DEF IInv, PlaceFlag, NoneLet, Let
<1>6. PinIsTold' /\ PasswordOrPin'
  BY PinStays, PasswordStays DEF IInv, PlaceFlag, Resets
<1> QED BY <1>1, <1>2, <1>3, <1>4, <1>5, <1>6 DEF IInv

LEMMA TickKeeps == ASSUME IInv, Tick PROVE IInv'
<1>1. TypeOK'
  BY DEF IInv, Tick, TypeOK, disk
<1>2. AdminThere'
  BY DEF IInv, Tick, AdminThere, disk
<1>3. RequestsHoldWell' /\ OneResetPerFlag' /\ AttemptsCounted'
  BY Still DEF IInv, Tick, disk
<1>4. PinIsTold' /\ PasswordOrPin'
  BY PinStays, PasswordStays DEF IInv, Tick, Resets, disk
<1> QED BY <1>1, <1>2, <1>3, <1>4 DEF IInv

----------------------------------------------------------------------------
(* The later steps of a request *)

\* Request n moves and no other does; it remains the request that began.
Only(n) ==
  /\ req' \in [Requests -> Reqs]
  /\ \A m \in Requests \ {n} : req'[m] = req[m]

Same(n) ==
  /\ req'[n].kind = req[n].kind /\ req'[n].start = req[n].start
  /\ req'[n].time = req[n].time

Moves(n) == Only(n) /\ Same(n)

\* Columns that a request may be given.
Ats == {"new", "access", "verify", "hash", "unlink", "unlinked", "write", "done"}

Fields(f) ==
  /\ DOMAIN f \subseteq {"at", "kind", "pin", "pass", "next", "admin", "status", "start", "time"}
  /\ "at" \in DOMAIN f => f.at \in Ats
  /\ "kind" \in DOMAIN f => f.kind \in Endpoints \cup {"none", "logout"}
  /\ "pin" \in DOMAIN f => f.pin \in Int \cup {NULL}
  /\ "pass" \in DOMAIN f => f.pass \in Secrets \cup {"wrong", NULL}
  /\ "next" \in DOMAIN f => f.next \in Secrets \cup {"short", NULL}
  /\ "admin" \in DOMAIN f => f.admin \in AdminRow \cup {NULL}
  /\ "status" \in DOMAIN f => f.status \in Statuses \cup {NULL}
  /\ "start" \in DOMAIN f => f.start \in Nat
  /\ "time" \in DOMAIN f => f.time \in Nat

LEMMA Assigned ==
  ASSUME NEW q \in Reqs, NEW f, Fields(f), NEW r, r = Sql!Assign(q, f)
  PROVE  /\ r \in Reqs
         /\ r.at = IF "at" \in DOMAIN f THEN f.at ELSE q.at
         /\ r.kind = IF "kind" \in DOMAIN f THEN f.kind ELSE q.kind
         /\ r.pin = IF "pin" \in DOMAIN f THEN f.pin ELSE q.pin
         /\ r.pass = IF "pass" \in DOMAIN f THEN f.pass ELSE q.pass
         /\ r.next = IF "next" \in DOMAIN f THEN f.next ELSE q.next
         /\ r.admin = IF "admin" \in DOMAIN f THEN f.admin ELSE q.admin
         /\ r.status = IF "status" \in DOMAIN f THEN f.status ELSE q.status
         /\ r.start = IF "start" \in DOMAIN f THEN f.start ELSE q.start
         /\ r.time = IF "time" \in DOMAIN f THEN f.time ELSE q.time
<1> DEFINE Cols == {"at", "kind", "pin", "pass", "next", "admin", "status", "start", "time"}
<1>1. DOMAIN q = Cols
  BY DEF Reqs
<1>2. r = [col \in Cols |-> IF col \in DOMAIN f THEN f[col] ELSE q[col]]
  BY <1>1 DEF Sql!Assign
<1>3. \A col \in Cols : r[col] = IF col \in DOMAIN f THEN f[col] ELSE q[col]
  BY <1>2
<1>4. r = [at |-> r.at, kind |-> r.kind, pin |-> r.pin, pass |-> r.pass, next |-> r.next,
           admin |-> r.admin, status |-> r.status, start |-> r.start, time |-> r.time]
  BY <1>2
<1>5. r.at \in Ats /\ r.kind \in Endpoints \cup {"none", "logout"} /\ r.pin \in Int \cup {NULL}
  BY <1>3 DEF Fields, Reqs, Ats
<1>6. r.pass \in Secrets \cup {"wrong", NULL} /\ r.next \in Secrets \cup {"short", NULL}
  BY <1>3 DEF Fields, Reqs
<1>7. r.admin \in AdminRow \cup {NULL} /\ r.status \in Statuses \cup {NULL}
  BY <1>3 DEF Fields, Reqs
<1>8. r.start \in Nat /\ r.time \in Nat
  BY <1>3 DEF Fields, Reqs
<1>9. r \in Reqs
  BY <1>4, <1>5, <1>6, <1>7, <1>8 DEF Reqs, Ats
<1> QED BY <1>3, <1>9

LEMMA Went ==
  ASSUME TypeOK, NEW n \in Requests, NEW at \in {"hash", "unlink", "unlinked", "write"},
         Goes(n, [at |-> at])
  PROVE  Moves(n) /\ req'[n] = [req[n] EXCEPT !.at = at]
<1> DEFINE r == [req[n] EXCEPT !.at = at]
<1>1. req[n] \in Reqs
  BY DEF TypeOK
<1>2. /\ r \in Reqs /\ r.kind = req[n].kind /\ r.start = req[n].start
      /\ r.time = req[n].time
  BY <1>1 DEF Reqs
<1>3. Sql!Assign(req[n], [at |-> at]) = r
  BY <1>1 DEF Sql!Assign, Reqs
<1>4. req' = [req EXCEPT ![n] = r]
  BY <1>3 DEF Goes
<1> HIDE DEF r
<1> QED BY <1>2, <1>4 DEF TypeOK, Moves, Only, Same, r

LEMMA Answered ==
  ASSUME TypeOK, NEW n \in Requests, NEW status \in Statuses, Answers(n, status)
  PROVE  Moves(n) /\ req'[n].at = "done" /\ req'[n].status = status
<1> DEFINE f == [at |-> "done", status |-> status, admin |-> NULL, pin |-> NULL,
                 pass |-> NULL, next |-> NULL]
           r == Sql!Assign(req[n], f)
<1>1. Fields(f) /\ f.at = "done" /\ f.status = status
      /\ DOMAIN f = {"at", "status", "admin", "pin", "pass", "next"}
  BY DEF Fields, Ats
<1>2. req' = [req EXCEPT ![n] = r] /\ req[n] \in Reqs
  BY DEF Goes, Answers, TypeOK
<1> HIDE DEF f
<1>3. /\ r \in Reqs /\ r.kind = req[n].kind /\ r.start = req[n].start
      /\ r.time = req[n].time /\ r.at = "done" /\ r.status = status
  BY <1>1, <1>2, Assigned
<1> HIDE DEF r
<1> QED BY <1>2, <1>3 DEF TypeOK, Moves, Only, Same

LEMMA AnsweredHolds ==
  ASSUME IInv, NEW n \in Requests, NEW status \in Statuses, Answers(n, status),
         starts' = starts
  PROVE  HoldsWell(n)'
<1>1. req'[n].at = "done" /\ req'[n].start = req[n].start
  BY Answered DEF IInv, Moves, Same
<1> QED BY <1>1 DEF IInv, RequestsHoldWell, HoldsWell

\* The admin has the same id after the step.
Keeps ==
  /\ db' \in Databases /\ Sql!Ids(db'.admins) = Sql!Ids(db.admins)
  /\ \A a, b \in db'.admins : a = b

LEMMA Later ==
  ASSUME IInv, NEW n \in Requests, Moves(n), Keeps, HoldsWell(n)', UNCHANGED Rest,
         req[n].at \notin {"new", "done"},
         file' \in Int \cup {NULL}, flag' \in BOOLEAN, told' \subseteq Int
  PROVE  TypeOK' /\ AdminThere' /\ RequestsHoldWell' /\ AttemptsCounted'
<1>1. TypeOK'
  BY DEF IInv, TypeOK, Moves, Only, Keeps, Rest
<1>2. boot = "up" /\ req[n].status = NULL
  BY DEF IInv, RequestsHoldWell, HoldsWell
<1>3. AdminThere'
  BY <1>2 DEF IInv, AdminThere, Keeps, Rest, Sql!Ids
<1>4. RequestsHoldWell'
  <2> SUFFICES ASSUME NEW m \in Requests, m # n PROVE HoldsWell(m)'
    BY DEF RequestsHoldWell, Requests
  <2>1. req'[m] = req[m] /\ HoldsWell(m) /\ req[m].start \in Nat
    BY DEF IInv, TypeOK, Reqs, RequestsHoldWell, Moves, Only
  <2> QED BY <2>1, HeldStays DEF IInv, TypeOK, Rest, Keeps
<1>5. AttemptsCounted'
  <2>1. req[n].status # "RATE_LIMIT_EXCEEDED"
    BY <1>2, AdminAssumption DEF Statuses
  <2>2. NoneLet
    BY <2>1 DEF NoneLet, Let, Moves, Only, Same, Rest
  <2> QED BY <2>2, NothingCounted DEF IInv, Rest
<1> QED BY <1>1, <1>3, <1>4, <1>5

\* A step that neither serves a flag nor touches the admin.
LEMMA Quiet ==
  ASSUME IInv, NEW n \in Requests, Moves(n), HoldsWell(n)', UNCHANGED Rest,
         req[n].at \notin {"new", "done"},
         db' \in Databases, db'.admins = db.admins,
         file' \in {file, NULL}, flag' = flag, told' = told,
         Serves(n)' => Serves(n), ~Resets(n, "hash"), ~Resets(n, "write")
  PROVE  IInv'
<1>1. Keeps
  BY DEF IInv, AdminThere, Keeps
<1>2. TypeOK' /\ AdminThere' /\ RequestsHoldWell' /\ AttemptsCounted'
  <2>1. file' \in Int \cup {NULL} /\ flag' \in BOOLEAN /\ told' \subseteq Int
    BY DEF IInv, TypeOK
  <2> QED BY <1>1, <2>1, Later
<1>3. OneResetPerFlag'
  <2>1. \A m \in Requests : Serves(m)' => Serves(m)
    BY DEF Serves, Moves, Only
  <2> QED BY <2>1, NothingServed DEF IInv, Rest
<1>4. PinIsTold' /\ PasswordOrPin'
  <2>1. \A m \in Requests, at \in {"hash", "write"} : Resets(m, at) => Resets(m, at)'
    BY DEF Resets, Moves, Only
  <2> QED BY <2>1, PinStays, PasswordStays DEF IInv, Rest
<1> QED BY <1>2, <1>3, <1>4 DEF IInv

\* The admin a request holds is the one there is, with what it was then.
LEMMA HeldAdmin ==
  ASSUME IInv, NEW n \in Requests, req[n].at \in {"verify", "hash"}
  PROVE  /\ req[n].admin \in AdminRow
         /\ \E a \in db.admins : a \in AdminRow /\ a.id = req[n].admin.id
                                /\ db.admins = {a} /\ Admin = a
<1>1. req[n].admin # NULL /\ req[n].admin.id \in Sql!Ids(db.admins)
  BY DEF IInv, RequestsHoldWell, HoldsWell
<1>2. PICK a \in db.admins : a.id = req[n].admin.id
  BY <1>1 DEF Sql!Ids
<1>3. db.admins = {a} /\ Admin = a
  BY Single DEF IInv
<1>4. req[n].admin \in AdminRow /\ a \in AdminRow
  BY <1>1 DEF IInv, TypeOK, Reqs, Databases
<1> QED BY <1>2, <1>3, <1>4

LEMMA SessionOf ==
  ASSUME IInv, NEW n \in Requests, req[n].at \in {"verify", "hash"}, NEW d \in Databases
  PROVE  Session(d, n) \in Databases /\ Session(d, n).admins = d.admins
<1>1. req[n].admin.id \in Nat
  BY HeldAdmin DEF AdminRow
<1>2. n \in Nat
  BY DEF Requests
<1>3. now + SESSION_DURATION_MS \in Nat
  BY DEF IInv, TypeOK, SESSION_DURATION_MS
<1> QED BY <1>1, <1>2, <1>3, SessionMade DEF Session

LEMMA SetupVerifiedKeeps ==
  ASSUME IInv, NEW n \in Requests, SetupVerified(n) PROVE IInv'
<1>1. /\ req[n].kind = "setup" /\ req[n].at = "verify" /\ db \in Databases
      /\ UNCHANGED <<file, flag, Rest, told>>
  BY DEF SetupVerified, Else, IInv, TypeOK
<1>2. starts' = starts
  BY <1>1 DEF Rest
<1>3. ASSUME NEW status \in Statuses, Answers(n, status), db' = db PROVE IInv'
  BY <1>1, <1>2, <1>3, Answered, AnsweredHolds, Quiet
     DEF IInv, Serves, Resets, Moves, Same
<1>4. ASSUME NEW at \in {"hash", "unlink"}, Goes(n, [at |-> at]), at = "hash" => req[n].next \in Secrets,
             db' \in Databases, db'.admins = db.admins
      PROVE  IInv'
  <2>1. Moves(n) /\ req'[n] = [req[n] EXCEPT !.at = at]
    BY <1>4, Went DEF IInv
  <2>2. HoldsWell(n)'
    <3>1. HoldsWell(n) /\ req[n] \in Reqs
      BY DEF IInv, TypeOK, RequestsHoldWell
    <3>2. /\ req'[n].at = at /\ req'[n].kind = "setup" /\ req'[n].status = req[n].status
          /\ req'[n].admin = req[n].admin /\ req'[n].next = req[n].next
          /\ req'[n].start = req[n].start
      BY <1>1, <2>1, <3>1 DEF Reqs
    <3>3. boot' = boot /\ starts' = starts
      BY <1>1 DEF Rest
    <3> QED BY <1>1, <1>4, <3>1, <3>2, <3>3 DEF HoldsWell, Sql!Ids
  <2> QED BY <1>1, <1>4, <2>1, <2>2, Quiet DEF Serves, Resets, Moves, Same
<1>5. CASE Answers(n, "INVALID_PIN") /\ UNCHANGED db
  BY <1>3, <1>5 DEF Statuses
<1>6. CASE Answers(n, "PASSWORD_TOO_SHORT") /\ UNCHANGED db
  BY <1>3, <1>6 DEF Statuses
<1>7. CASE req[n].next \in Secrets /\ Goes(n, [at |-> "hash"]) /\ UNCHANGED db
  BY <1>1, <1>4, <1>7
<1>8. CASE Goes(n, [at |-> "unlink"]) /\ db' = Session(db, n)
  BY <1>1, <1>4, <1>8, SessionOf
<1> QED BY <1>5, <1>6, <1>7, <1>8 DEF SetupVerified

LEMMA SetupUnlinksKeeps ==
  ASSUME IInv, NEW n \in Requests, SetupUnlinks(n) PROVE IInv'
<1>1. /\ req[n].kind = "setup" /\ req[n].at = "unlink" /\ db \in Databases
      /\ Answers(n, "ok") /\ file' = NULL /\ "ok" \in Statuses
      /\ UNCHANGED <<db, flag, Rest, told>>
  BY DEF SetupUnlinks, Else, IInv, TypeOK, Statuses
<1>2. starts' = starts
  BY <1>1 DEF Rest
<1> QED BY <1>1, <1>2, Answered, AnsweredHolds, Quiet DEF IInv, Serves, Resets, Moves, Same

LEMMA LoginVerifiedKeeps ==
  ASSUME IInv, NEW n \in Requests, LoginVerified(n) PROVE IInv'
<1>1. /\ req[n].kind = "login" /\ req[n].at = "verify" /\ db \in Databases
      /\ UNCHANGED <<file, flag, Rest, told>>
  BY DEF LoginVerified, Else, IInv, TypeOK
<1>2. starts' = starts
  BY <1>1 DEF Rest
<1>3. db' \in Databases /\ db'.admins = db.admins
  BY <1>1, SessionOf DEF LoginVerified
<1>4. PICK status \in Statuses : Answers(n, status)
  BY DEF LoginVerified, Statuses
<1> QED BY <1>1, <1>2, <1>3, <1>4, Answered, AnsweredHolds, Quiet
        DEF IInv, Serves, Resets, Moves, Same

LEMMA ChangeVerifiedKeeps ==
  ASSUME IInv, NEW n \in Requests, ChangeVerified(n) PROVE IInv'
<1>1. /\ req[n].kind = "change" /\ req[n].at = "verify" /\ db \in Databases
      /\ UNCHANGED <<db, file, flag, Rest, told>>
  BY DEF ChangeVerified, Else, IInv, TypeOK, disk
<1>2. boot' = boot /\ starts' = starts
  BY <1>1 DEF Rest
<1>3. CASE Answers(n, "INVALID_PASSWORD")
  <2>1. "INVALID_PASSWORD" \in Statuses
    BY DEF Statuses
  <2> QED BY <1>1, <1>2, <1>3, <2>1, Answered, AnsweredHolds, Quiet
          DEF IInv, Serves, Resets, Moves, Same
<1>4. CASE Goes(n, [at |-> "hash"])
  <2>1. Moves(n) /\ req'[n] = [req[n] EXCEPT !.at = "hash"]
    BY <1>4, Went DEF IInv
  <2>2. HoldsWell(n) /\ req[n] \in Reqs
    BY DEF IInv, TypeOK, RequestsHoldWell
  <2>3. /\ req'[n].at = "hash" /\ req'[n].kind = "change" /\ req'[n].status = req[n].status
        /\ req'[n].admin = req[n].admin /\ req'[n].next = req[n].next
        /\ req'[n].start = req[n].start
    BY <1>1, <2>1, <2>2 DEF Reqs
  <2>4. HoldsWell(n)'
    BY <1>1, <1>2, <2>2, <2>3 DEF HoldsWell
  <2> QED BY <1>1, <2>1, <2>4, Quiet DEF Serves, Resets, Moves, Same
<1> QED BY <1>3, <1>4 DEF ChangeVerified

LEMMA ResetLooksKeeps ==
  ASSUME IInv, NEW n \in Requests, ResetLooks(n) PROVE IInv'
<1>1. /\ req[n].kind = "reset" /\ req[n].at = "access" /\ db \in Databases
      /\ UNCHANGED <<db, file, flag, Rest, told>>
  BY DEF ResetLooks, Else, IInv, TypeOK, disk
<1>2. boot' = boot /\ starts' = starts
  BY <1>1 DEF Rest
<1>3. CASE Answers(n, "FLAG_NOT_FOUND")
  <2>1. "FLAG_NOT_FOUND" \in Statuses
    BY DEF Statuses
  <2> QED BY <1>1, <1>2, <1>3, <2>1, Answered, AnsweredHolds, Quiet
          DEF IInv, Serves, Resets, Moves, Same
<1>4. CASE Goes(n, [at |-> "unlink"])
  <2>1. Moves(n) /\ req'[n] = [req[n] EXCEPT !.at = "unlink"]
    BY <1>4, Went DEF IInv
  <2>2. HoldsWell(n) /\ req[n] \in Reqs
    BY DEF IInv, TypeOK, RequestsHoldWell
  <2>3. /\ req'[n].at = "unlink" /\ req'[n].kind = "reset" /\ req'[n].status = req[n].status
        /\ req'[n].start = req[n].start
    BY <1>1, <2>1, <2>2 DEF Reqs
  <2>4. HoldsWell(n)'
    BY <1>1, <1>2, <2>2, <2>3 DEF HoldsWell
  <2>5. ~Serves(n)'
    BY <1>1, <2>2, <2>3, AdminAssumption DEF Serves, HoldsWell, Statuses
  <2> QED BY <1>1, <2>1, <2>4, <2>5, Quiet DEF Resets
<1> QED BY <1>3, <1>4 DEF ResetLooks

\* The updates of the admin, each with what it leaves of the row.
LEMMA PasswordSet ==
  ASSUME NEW a \in AdminRow, NEW p
  PROVE  Sql!Assign(a, [passwordHash |-> p])
           = [id |-> a.id, pinHash |-> a.pinHash, passwordHash |-> p, setupPinExpiresAt |-> a.setupPinExpiresAt]
<1> DEFINE f == [passwordHash |-> p]
<1>1. DOMAIN f = {"passwordHash"} /\ f.passwordHash = p
  OBVIOUS
<1> HIDE DEF f
<1>2. Sql!Assign(a, f)
        = [id |-> a.id, pinHash |-> a.pinHash, passwordHash |-> p, setupPinExpiresAt |-> a.setupPinExpiresAt]
  BY <1>1 DEF Sql!Assign, AdminRow
<1> QED BY <1>2 DEF f

LEMMA PasswordChosen ==
  ASSUME NEW a \in AdminRow, NEW p
  PROVE  Sql!Assign(a, [passwordHash |-> p, setupPinExpiresAt |-> NULL])
           = [id |-> a.id, pinHash |-> a.pinHash, passwordHash |-> p, setupPinExpiresAt |-> NULL]
<1> DEFINE f == [passwordHash |-> p, setupPinExpiresAt |-> NULL]
<1>1. DOMAIN f = {"passwordHash", "setupPinExpiresAt"} /\ f.passwordHash = p /\ f.setupPinExpiresAt = NULL
  OBVIOUS
<1> HIDE DEF f
<1>2. Sql!Assign(a, f)
        = [id |-> a.id, pinHash |-> a.pinHash, passwordHash |-> p, setupPinExpiresAt |-> NULL]
  BY <1>1 DEF Sql!Assign, AdminRow
<1> QED BY <1>2 DEF f

LEMMA PinSet ==
  ASSUME NEW a \in AdminRow, NEW pin, NEW t
  PROVE  Sql!Assign(a, [pinHash |-> pin, setupPinExpiresAt |-> t])
           = [id |-> a.id, pinHash |-> pin, passwordHash |-> a.passwordHash, setupPinExpiresAt |-> t]
<1> DEFINE f == [pinHash |-> pin, setupPinExpiresAt |-> t]
<1>1. DOMAIN f = {"pinHash", "setupPinExpiresAt"} /\ f.pinHash = pin /\ f.setupPinExpiresAt = t
  OBVIOUS
<1> HIDE DEF f
<1>2. Sql!Assign(a, f)
        = [id |-> a.id, pinHash |-> pin, passwordHash |-> a.passwordHash, setupPinExpiresAt |-> t]
  BY <1>1 DEF Sql!Assign, AdminRow
<1> QED BY <1>2 DEF f

\* A step of request n that makes b of the admin.
LEMMA Rewrites ==
  ASSUME IInv, NEW n \in Requests, Moves(n), HoldsWell(n)', UNCHANGED Rest,
         req[n].at \notin {"new", "done"}, NEW a, db.admins = {a},
         NEW b \in AdminRow, b.id = a.id, db' \in Databases, db'.admins = {b},
         file' = file, flag' = flag, told' = told, Serves(n)' => Serves(n),
         (b.pinHash = a.pinHash /\ ~Resets(n, "write")) \/ (Resets(n, "write")' /\ b.pinHash = n),
         b.passwordHash # NULL \/ b.setupPinExpiresAt # NULL \/ Resets(n, "hash")'
  PROVE  IInv'
<1>1. Keeps
  BY DEF Keeps, Sql!Ids
<1>2. TypeOK' /\ AdminThere' /\ RequestsHoldWell' /\ AttemptsCounted'
  <2>1. file' \in Int \cup {NULL} /\ flag' \in BOOLEAN /\ told' \subseteq Int
    BY DEF IInv, TypeOK
  <2> QED BY <1>1, <2>1, Later
<1>3. OneResetPerFlag'
  <2>1. \A m \in Requests : Serves(m)' => Serves(m)
    BY DEF Serves, Moves, Only
  <2> QED BY <2>1, NothingServed DEF IInv, Rest
<1>4. PasswordOrPin'
  BY DEF PasswordOrPin, Requests
<1>5. PinIsTold'
  <2>1. CASE Resets(n, "write")' /\ b.pinHash = n
    BY <2>1 DEF PinIsTold, Requests
  <2>2. CASE b.pinHash = a.pinHash /\ ~Resets(n, "write")
    <3>1. \A m \in Requests : Resets(m, "write") => Resets(m, "write")'
      BY <2>2 DEF Resets, Moves, Only
    <3> QED BY <2>2, <3>1 DEF IInv, PinIsTold, Requests, Rest
  <2> QED BY <2>1, <2>2
<1> QED BY <1>2, <1>3, <1>4, <1>5 DEF IInv

LEMMA SetupHashedKeeps ==
  ASSUME IInv, NEW n \in Requests, SetupHashed(n) PROVE IInv'
<1>1. /\ req[n].kind = "setup" /\ req[n].at = "hash" /\ db \in Databases /\ req[n] \in Reqs
      /\ Goes(n, [at |-> "unlink"]) /\ UNCHANGED <<file, flag, Rest, told>> /\ HoldsWell(n)
  BY DEF SetupHashed, Else, IInv, TypeOK, RequestsHoldWell
<1>2. boot' = boot /\ starts' = starts
  BY <1>1 DEF Rest
<1>3. Moves(n) /\ req'[n] = [req[n] EXCEPT !.at = "unlink"]
  BY <1>1, Went DEF IInv
<1>4. PICK a \in AdminRow : a.id = req[n].admin.id /\ db.admins = {a}
  BY <1>1, HeldAdmin
<1> DEFINE p == req[n].next
           data == [passwordHash |-> p, setupPinExpiresAt |-> NULL]
           b == [id |-> a.id, pinHash |-> a.pinHash,
                 passwordHash |-> p, setupPinExpiresAt |-> NULL]
           e == Sql!updateServerAdmin(db, a.id, data)
<1>5. p \in Secrets /\ p # NULL
  BY <1>1, AdminAssumption DEF HoldsWell
<1> HIDE DEF p
<1>6. Sql!Assign(a, data) = b
  BY <1>5, PasswordChosen
<1>7. b \in AdminRow /\ b.id = a.id /\ b.pinHash = a.pinHash /\ b.passwordHash = p
  BY <1>5 DEF AdminRow
<1> HIDE DEF data, b
<1>8. e \in Databases /\ e.admins = {b}
  BY <1>1, <1>4, <1>6, <1>7, AdminUpdated
<1> HIDE DEF e
<1>9. db' \in Databases /\ db'.admins = {b}
  <2>1. db' = Session(e, n)
    BY <1>4 DEF SetupHashed, e, data, p
  <2> QED BY <1>1, <1>8, <2>1, SessionOf
<1>10. HoldsWell(n)'
  <2>1. /\ req'[n].at = "unlink" /\ req'[n].kind = "setup" /\ req'[n].status = req[n].status
        /\ req'[n].start = req[n].start
    BY <1>1, <1>3 DEF Reqs
  <2> QED BY <1>1, <1>2, <2>1 DEF HoldsWell
<1>11. Serves(n)' => Serves(n)
  BY <1>1, <1>3 DEF Serves, Moves, Same
<1>12. ~Resets(n, "write")
  BY <1>1 DEF Resets
<1> QED BY <1>1, <1>3, <1>4, <1>5, <1>7, <1>9, <1>10, <1>11, <1>12, Rewrites

LEMMA ChangeHashedKeeps ==
  ASSUME IInv, NEW n \in Requests, ChangeHashed(n) PROVE IInv'
<1>1. /\ req[n].kind = "change" /\ req[n].at = "hash" /\ db \in Databases /\ req[n] \in Reqs
      /\ Answers(n, "ok") /\ "ok" \in Statuses
      /\ UNCHANGED <<file, flag, Rest, told>> /\ HoldsWell(n)
  BY DEF ChangeHashed, Else, IInv, TypeOK, RequestsHoldWell, Statuses
<1>2. boot' = boot /\ starts' = starts
  BY <1>1 DEF Rest
<1>3. Moves(n) /\ req'[n].at = "done" /\ HoldsWell(n)'
  BY <1>1, <1>2, Answered, AnsweredHolds DEF IInv
<1>4. PICK a \in AdminRow : a.id = req[n].admin.id /\ db.admins = {a}
  BY <1>1, HeldAdmin
<1> DEFINE p == req[n].next
           data == [passwordHash |-> p]
           b == [id |-> a.id, pinHash |-> a.pinHash,
                 passwordHash |-> p, setupPinExpiresAt |-> a.setupPinExpiresAt]
           e == Sql!updateServerAdmin(db, a.id, data)
<1>5. p \in Secrets /\ p # NULL
  BY <1>1, AdminAssumption DEF HoldsWell
<1> HIDE DEF p
<1>6. Sql!Assign(a, data) = b
  BY <1>5, PasswordSet
<1>7. b \in AdminRow /\ b.id = a.id /\ b.pinHash = a.pinHash /\ b.passwordHash = p
  BY <1>5 DEF AdminRow
<1> HIDE DEF data, b
<1>8. e \in Databases /\ e.admins = {b}
  BY <1>1, <1>4, <1>6, <1>7, AdminUpdated
<1> HIDE DEF e
<1>9. db' \in Databases /\ db'.admins = {b}
  <2>1. db' = RevokedSessions(e)
    BY <1>4 DEF ChangeHashed, e, data, p
  <2> QED BY <1>8, <2>1, SessionsRevoked
<1>10. Serves(n)' => Serves(n)
  BY <1>1, <1>3 DEF Serves, Moves, Same
<1>11. ~Resets(n, "write")
  BY <1>1 DEF Resets
<1> QED BY <1>1, <1>3, <1>4, <1>5, <1>7, <1>9, <1>10, <1>11, Rewrites

LEMMA ResetClearsKeeps ==
  ASSUME IInv, NEW n \in Requests, ResetClears(n) PROVE IInv'
<1>1. /\ req[n].kind = "reset" /\ req[n].at = "unlinked" /\ db \in Databases
      /\ req[n] \in Reqs /\ HoldsWell(n) /\ boot = "up"
      /\ UNCHANGED <<file, flag, Rest, told>> /\ Goes(n, [at |-> "hash", admin |-> Admin])
  BY DEF ResetClears, Else, IInv, TypeOK, RequestsHoldWell, HoldsWell
<1>2. boot' = boot /\ starts' = starts
  BY <1>1 DEF Rest
<1>3. PICK a \in db.admins : TRUE
  BY <1>1 DEF IInv, AdminThere
<1>4. db.admins = {a} /\ Admin = a /\ a \in AdminRow
  BY <1>1, Single DEF IInv, Databases
<1> DEFINE f == [at |-> "hash", admin |-> a]
           r == Sql!Assign(req[n], f)
           data == [passwordHash |-> NULL]
           b == [id |-> a.id, pinHash |-> a.pinHash,
                 passwordHash |-> NULL, setupPinExpiresAt |-> a.setupPinExpiresAt]
           e == Sql!updateServerAdmin(db, a.id, data)
<1>5. Fields(f) /\ f.at = "hash" /\ f.admin = a /\ DOMAIN f = {"at", "admin"}
  BY <1>4 DEF Fields, Ats
<1>6. req' = [req EXCEPT ![n] = r]
  BY <1>1, <1>4 DEF Goes
<1> HIDE DEF f
<1>7. /\ r \in Reqs /\ r.kind = req[n].kind /\ r.start = req[n].start /\ r.time = req[n].time
      /\ r.at = "hash" /\ r.admin = a /\ r.status = req[n].status
  BY <1>1, <1>5, Assigned
<1> HIDE DEF r
<1>8. Moves(n) /\ req'[n] = r
  BY <1>6, <1>7 DEF IInv, TypeOK, Moves, Only, Same
<1>9. Sql!Assign(a, data) = b
  BY <1>4, PasswordSet
<1>10. b \in AdminRow /\ b.id = a.id /\ b.pinHash = a.pinHash
  BY <1>4 DEF AdminRow
<1> HIDE DEF data, b
<1>11. e \in Databases /\ e.admins = {b}
  BY <1>1, <1>4, <1>9, <1>10, AdminUpdated
<1> HIDE DEF e
<1>12. db' \in Databases /\ db'.admins = {b}
  <2>1. db' = RevokedSessions(e)
    BY <1>4 DEF ResetClears, e, data
  <2> QED BY <1>11, <2>1, SessionsRevoked
<1>13. HoldsWell(n)'
  <2>1. a # NULL /\ a.id \in Sql!Ids(db'.admins)
    BY <1>4, <1>10, <1>12, AdminAssumption DEF Sql!Ids
  <2> QED BY <1>1, <1>2, <1>7, <1>8, <2>1 DEF HoldsWell
<1>14. Serves(n)' => Serves(n)
  BY <1>1 DEF Serves
<1>15. ~Resets(n, "write") /\ Resets(n, "hash")'
  BY <1>1, <1>7, <1>8 DEF Resets
<1> QED BY <1>1, <1>4, <1>8, <1>10, <1>12, <1>13, <1>14, <1>15, Rewrites

LEMMA ResetHashedKeeps ==
  ASSUME IInv, NEW n \in Requests, ResetHashed(n) PROVE IInv'
<1>1. /\ req[n].kind = "reset" /\ req[n].at = "hash" /\ db \in Databases /\ req[n] \in Reqs
      /\ Goes(n, [at |-> "write"]) /\ UNCHANGED <<file, flag, Rest, told>> /\ HoldsWell(n)
  BY DEF ResetHashed, Else, IInv, TypeOK, RequestsHoldWell
<1>2. boot' = boot /\ starts' = starts
  BY <1>1 DEF Rest
<1>3. Moves(n) /\ req'[n] = [req[n] EXCEPT !.at = "write"]
  BY <1>1, Went DEF IInv
<1>4. PICK a \in AdminRow : a.id = req[n].admin.id /\ db.admins = {a}
  BY <1>1, HeldAdmin
<1> DEFINE t == now + SETUP_PIN_EXPIRY_MS
           data == [pinHash |-> n, setupPinExpiresAt |-> t]
           b == [id |-> a.id, pinHash |-> n,
                 passwordHash |-> a.passwordHash, setupPinExpiresAt |-> t]
           e == Sql!updateServerAdmin(db, a.id, data)
<1>5. t \in Nat /\ t # NULL /\ n \in Int
  BY AdminAssumption DEF IInv, TypeOK, SETUP_PIN_EXPIRY_MS, Requests
<1>6. db' = e
  BY <1>4 DEF ResetHashed
<1> HIDE DEF t
<1>7. Sql!Assign(a, data) = b
  BY PinSet
<1>8. b \in AdminRow /\ b.id = a.id /\ b.pinHash = n /\ b.setupPinExpiresAt = t
  BY <1>5 DEF AdminRow
<1> HIDE DEF data, b
<1>9. db' \in Databases /\ db'.admins = {b}
  BY <1>1, <1>4, <1>6, <1>7, <1>8, AdminUpdated
<1>10. /\ req'[n].at = "write" /\ req'[n].kind = "reset" /\ req'[n].status = req[n].status
       /\ req'[n].start = req[n].start
  BY <1>1, <1>3 DEF Reqs
<1>11. HoldsWell(n)'
  BY <1>1, <1>2, <1>10 DEF HoldsWell
<1>12. (Serves(n)' => Serves(n)) /\ Resets(n, "write")'
  BY <1>1, <1>10 DEF Serves, Resets
<1> HIDE DEF e
<1> QED BY <1>1, <1>3, <1>4, <1>5, <1>8, <1>9, <1>11, <1>12, Rewrites

LEMMA ResetUnlinksKeeps ==
  ASSUME IInv, NEW n \in Requests, ResetUnlinks(n) PROVE IInv'
<1>1. /\ req[n].kind = "reset" /\ req[n].at = "unlink" /\ db \in Databases /\ req[n] \in Reqs
      /\ UNCHANGED <<db, file, Rest, told>> /\ HoldsWell(n) /\ flag' = FALSE
  BY DEF ResetUnlinks, Else, IInv, TypeOK, RequestsHoldWell
<1>2. boot' = boot /\ starts' = starts /\ flags' = flags
  BY <1>1, SMT DEF Rest, ResetUnlinks
<1>3. Moves(n) /\ HoldsWell(n)' /\ (Serves(n)' => flag)
  <2>1. CASE flag
    <3>1. Moves(n) /\ req'[n] = [req[n] EXCEPT !.at = "unlinked"]
      BY <2>1, Went DEF IInv, ResetUnlinks
    <3>2. /\ req'[n].at = "unlinked" /\ req'[n].kind = "reset" /\ req'[n].status = req[n].status
          /\ req'[n].start = req[n].start
      BY <1>1, <3>1 DEF Reqs
    <3>3. HoldsWell(n)'
      BY <1>1, <1>2, <3>2 DEF HoldsWell
    <3> QED BY <2>1, <3>1, <3>3
  <2>2. CASE ~flag
    <3>1. Answers(n, "FLAG_DELETE_FAILED") /\ "FLAG_DELETE_FAILED" \in Statuses
      BY <2>2 DEF ResetUnlinks, Statuses
    <3> QED BY <1>2, <3>1, Answered, AnsweredHolds DEF IInv, Serves
  <2> QED BY <2>1, <2>2
<1>4. Keeps
  BY <1>1 DEF IInv, AdminThere, Keeps
<1>5. TypeOK' /\ AdminThere' /\ RequestsHoldWell' /\ AttemptsCounted'
  <2>1. file' \in Int \cup {NULL} /\ flag' \in BOOLEAN /\ told' \subseteq Int
    BY <1>1 DEF IInv, TypeOK
  <2> QED BY <1>1, <1>3, <1>4, <2>1, Later
<1>6. OneResetPerFlag'
  <2>1. CASE flag
    <3>1. Served' \subseteq Served \cup {n}
      BY <1>3 DEF Served, Serves, Moves, Only
    <3>2. IsFiniteSet(Served) /\ Cardinality(Served) \in Nat
      BY RequestsFinite, FS_Subset, FS_CardinalityType DEF Served
    <3>3. IsFiniteSet(Served \cup {n}) /\ Cardinality(Served \cup {n}) <= Cardinality(Served) + 1
      <4> HIDE DEF Served
      <4>1. Cardinality(Served \cup {n}) = IF n \in Served THEN Cardinality(Served)
                                          ELSE Cardinality(Served) + 1
        BY <3>2, FS_AddElement
      <4> QED BY <3>2, <4>1, FS_AddElement
    <3>4. IsFiniteSet(Served') /\ Cardinality(Served') <= Cardinality(Served \cup {n})
      BY <3>1, <3>3, FS_Subset
    <3>5. Cardinality(Served') \in Nat /\ Cardinality(Served \cup {n}) \in Nat
      BY <3>3, <3>4, FS_CardinalityType
    <3>6. OneResetPerFlag' <=> Cardinality(Served') + (IF flag' THEN 1 ELSE 0) <= flags'
      BY DEF OneResetPerFlag, Served, Serves
    <3> QED BY <1>1, <1>2, <2>1, <3>2, <3>3, <3>4, <3>5, <3>6, OneResetIs DEF IInv, TypeOK
  <2>2. CASE ~flag
    <3>1. \A m \in Requests : Serves(m)' => Serves(m)
      BY <1>3, <2>2 DEF Serves, Moves, Only
    <3> QED BY <1>1, <1>2, <3>1, NothingServed DEF IInv
  <2> QED BY <2>1, <2>2
<1>7. PinIsTold' /\ PasswordOrPin'
  <2>1. \A m \in Requests, at \in {"hash", "write"} : Resets(m, at) => Resets(m, at)'
    BY <1>1, <1>3 DEF Resets, Moves, Only
  <2> QED BY <1>1, <2>1, PinStays, PasswordStays DEF IInv, Rest
<1> QED BY <1>5, <1>6, <1>7 DEF IInv

LEMMA ResetWritesKeeps ==
  ASSUME IInv, NEW n \in Requests, ResetWrites(n) PROVE IInv'
<1>1. /\ req[n].kind = "reset" /\ req[n].at = "write" /\ db \in Databases /\ "ok" \in Statuses
      /\ UNCHANGED <<db, flag, Rest>> /\ Answers(n, "ok") /\ n \in Int
      /\ file' = n /\ told' = told \cup {n}
  BY DEF ResetWrites, Else, IInv, TypeOK, Statuses, Requests
<1>2. boot' = boot /\ starts' = starts /\ flags' = flags /\ lost' = lost
  BY <1>1 DEF Rest, ResetWrites
<1>3. Moves(n) /\ HoldsWell(n)'
  BY <1>1, <1>2, Answered, AnsweredHolds DEF IInv
<1>4. Keeps
  BY <1>1 DEF IInv, AdminThere, Keeps
<1>5. TypeOK' /\ AdminThere' /\ RequestsHoldWell' /\ AttemptsCounted'
  <2>1. file' \in Int \cup {NULL} /\ flag' \in BOOLEAN /\ told' \subseteq Int
    BY <1>1 DEF IInv, TypeOK
  <2> QED BY <1>1, <1>3, <1>4, <2>1, Later
<1>6. OneResetPerFlag'
  <2>1. \A m \in Requests : Serves(m)' => Serves(m)
    BY <1>1, <1>3 DEF Serves, Moves, Only
  <2> QED BY <1>1, <1>2, <2>1, NothingServed DEF IInv
<1>7. PasswordOrPin'
  <2>1. \A m \in Requests : Resets(m, "hash") => Resets(m, "hash")'
    BY <1>1, <1>3 DEF Resets, Moves, Only
  <2> QED BY <1>1, <1>2, <2>1, PasswordStays DEF IInv
<1>8. PinIsTold'
  <2>1. \A m \in Requests : Resets(m, "write") => m \in told' \/ Resets(m, "write")'
    BY <1>1, <1>3 DEF Resets, Moves, Only
  <2> QED BY <1>1, <1>2, <2>1 DEF IInv, PinIsTold, Requests
<1> QED BY <1>5, <1>6, <1>7, <1>8 DEF IInv

----------------------------------------------------------------------------
(* The arrival of a request *)

LEMMA Arrived ==
  ASSUME IInv, NEW n \in Requests, req[n].at = "new", Only(n),
         UNCHANGED <<file, flag, now, boot, starts, flags, told, lost>>,
         db' \in Databases, db'.admins = db.admins,
         attempts' \in [Endpoints -> Entry \cup {NULL}],
         HoldsWell(n)', ~Serves(n)', AttemptsCounted'
  PROVE  IInv'
<1>1. TypeOK'
  BY DEF IInv, TypeOK, Only
<1>2. AdminThere'
  BY DEF IInv, AdminThere
<1>3. RequestsHoldWell'
  <2> SUFFICES ASSUME NEW m \in Requests, m # n PROVE HoldsWell(m)'
    BY DEF RequestsHoldWell, Requests
  <2>1. req'[m] = req[m] /\ HoldsWell(m) /\ req[m].start \in Nat
    BY DEF IInv, TypeOK, Reqs, RequestsHoldWell, Only
  <2> QED BY <2>1, HeldStays DEF IInv, TypeOK
<1>4. OneResetPerFlag'
  <2>1. \A m \in Requests : Serves(m)' => Serves(m)
    BY DEF Serves, Only
  <2> QED BY <2>1, NothingServed DEF IInv
<1>5. PinIsTold' /\ PasswordOrPin'
  <2>1. \A m \in Requests, at \in {"hash", "write"} : Resets(m, at) => Resets(m, at)'
    BY DEF Resets, Only
  <2> QED BY <2>1, PinStays, PasswordStays DEF IInv
<1> QED BY <1>1, <1>2, <1>3, <1>4, <1>5 DEF IInv

\* A request that arrives and is answered in one step.
LEMMA AnsweredAtOnce ==
  ASSUME TypeOK, NEW n \in Requests, NEW kind \in Endpoints \cup {"none", "logout"},
         NEW status \in Statuses, Goes(n, [at |-> "done", kind |-> kind, status |-> status])
  PROVE  /\ Only(n) /\ req'[n].at = "done" /\ req'[n].kind = kind
         /\ req'[n].status = status /\ req'[n].start = req[n].start
<1> DEFINE f == [at |-> "done", kind |-> kind, status |-> status]
           r == Sql!Assign(req[n], f)
<1>1. /\ Fields(f) /\ f.at = "done" /\ f.kind = kind /\ f.status = status
      /\ DOMAIN f = {"at", "kind", "status"}
  BY DEF Fields, Ats
<1>2. req' = [req EXCEPT ![n] = r] /\ req[n] \in Reqs
  BY DEF Goes, TypeOK
<1> HIDE DEF f
<1>3. /\ r \in Reqs /\ r.kind = kind /\ r.start = req[n].start
      /\ r.at = "done" /\ r.status = status
  BY <1>1, <1>2, Assigned
<1> HIDE DEF r
<1> QED BY <1>2, <1>3 DEF TypeOK, Only

LEMMA LogoutKeeps ==
  ASSUME IInv, NEW n \in Requests, NEW s, Logout(n, s) PROVE IInv'
<1>1. /\ req[n].at = "new" /\ boot = "up" /\ UNCHANGED <<file, flag, Rest, told>>
      /\ Goes(n, [at |-> "done", kind |-> "logout", status |-> "ok"]) /\ "ok" \in Statuses
  BY DEF Logout, Arrives, Statuses
<1>2. UNCHANGED <<file, flag, now, boot, starts, flags, told, lost, attempts>>
  BY <1>1 DEF Rest
<1>3. db' \in Databases /\ db'.admins = db.admins
  BY SessionRevoked DEF Logout, IInv, TypeOK
<1>4. /\ Only(n) /\ req'[n].at = "done" /\ req'[n].kind = "logout"
      /\ req'[n].status = "ok" /\ req'[n].start = req[n].start
  BY <1>1, AnsweredAtOnce DEF IInv
<1>5. HoldsWell(n)' /\ ~Serves(n)'
  BY <1>2, <1>4 DEF IInv, RequestsHoldWell, HoldsWell, Serves
<1>6. AttemptsCounted'
  <2>1. NoneLet
    BY <1>2, <1>4 DEF NoneLet, Let, Only, Endpoints
  <2> QED BY <1>2, <2>1, NothingCounted DEF IInv
<1> QED BY <1>1, <1>2, <1>3, <1>4, <1>5, <1>6, Arrived DEF IInv, TypeOK

\* What a request of endpoint e holds when it is let through.
Begun(e, f) ==
  /\ Fields(f)
  /\ \/ /\ DOMAIN f = {"status"}
        /\ f.status \in Statuses \ {"ok", "RATE_LIMIT_EXCEEDED"}
     \/ /\ DOMAIN f \subseteq {"at", "pin", "pass", "next", "admin"} /\ "at" \in DOMAIN f
        /\ \/ f.at = "access"
           \/ /\ f.at = "verify" /\ "admin" \in DOMAIN f /\ f.admin \in db.admins
              /\ e = "change" => "next" \in DOMAIN f /\ f.next \in Secrets

Base(e) == [at |-> "done", kind |-> e, start |-> starts, time |-> now, status |-> NULL,
            pin |-> NULL, pass |-> NULL, next |-> NULL, admin |-> NULL]

LEMMA Replaced ==
  ASSUME NEW q \in Reqs, NEW r \in Reqs
  PROVE  Sql!Assign(q, r) = r
BY DEF Sql!Assign, Reqs

\* Request n is the attempt that is counted now.
LEMMA OneMoreCounted ==
  ASSUME IInv, NEW n \in Requests, NEW e \in Endpoints, Only(n), boot = "up", Allowed(e),
         attempts' = [attempts EXCEPT ![e] = Counted(e)],
         req'[n].kind = e, req'[n].time = now, UNCHANGED <<now, boot, starts>>
  PROVE  attempts' \in [Endpoints -> Entry \cup {NULL}] /\ AttemptsCounted'
<1> DEFINE a == attempts[e]
           c == Counted(e)
           fresh == a = NULL \/ a.resetAt < now
<1>1. now \in Nat /\ attempts \in [Endpoints -> Entry \cup {NULL}]
  BY DEF IInv, TypeOK
<1>2. a # NULL => a \in Entry /\ a.count \in Nat /\ a.resetAt \in Nat
  BY <1>1 DEF Entry
<1>3. fresh => c \in Entry /\ c.count = 1 /\ c.resetAt = now + 1
  BY <1>1 DEF Counted, RATE_WINDOW, Entry
<1>4. ~fresh => c \in Entry /\ c.count = a.count + 1 /\ c.resetAt = a.resetAt
  BY <1>2 DEF Counted, Entry
<1>5. c \in Entry /\ c # NULL
  BY <1>3, <1>4, AdminAssumption
<1> HIDE DEF c
<1>6. attempts'[e] = c /\ \A x \in Endpoints \ {e} : attempts'[x] = attempts[x]
  BY <1>1 DEF c
<1>7. attempts' \in [Endpoints -> Entry \cup {NULL}]
  BY <1>1, <1>5 DEF c
<1>8. \A m \in Requests : Let(m, e)' =>
        m = n \/ (Let(m, e) /\ req'[m] = req[m] /\ req[m].time \in Nat)
  BY DEF Let, Only, IInv, TypeOK, Reqs
<1>9. \A x \in Endpoints \ {e}, m \in Requests : Let(m, x)' => Let(m, x) /\ req'[m] = req[m]
  BY DEF Let, Only
<1>10. \A m \in Requests : Let(m, e) => a # NULL /\ req[m].time <= a.resetAt
  BY DEF IInv, AttemptsCounted
<1>11. a # NULL => Cardinality(InWindow(e)) <= a.count /\ a.count <= MAX_ATTEMPTS
  BY DEF IInv, AttemptsCounted
<1>12. \A m \in Requests : Let(m, e)' => attempts'[e] # NULL /\ req'[m].time <= attempts'[e].resetAt
  <2> SUFFICES ASSUME NEW m \in Requests, Let(m, e)'
               PROVE  req'[m].time <= c.resetAt
    BY <1>5, <1>6
  <2>1. CASE fresh
    BY <1>1, <1>2, <1>3, <1>8, <1>10, <2>1
  <2>2. CASE ~fresh
    BY <1>1, <1>2, <1>4, <1>8, <1>10, <2>2
  <2> QED BY <2>1, <2>2
<1>13. Cardinality(InWindow(e)') <= c.count /\ c.count <= MAX_ATTEMPTS
  <2>1. \A m \in InWindow(e)' : m \in Requests /\ Let(m, e)' /\ req'[m].time >= c.resetAt - 1
    BY <1>6 DEF InWindow, RATE_WINDOW, Requests
  <2>2. CASE fresh
    <3>1. InWindow(e)' \subseteq {n}
      BY <1>1, <1>2, <1>3, <1>8, <1>10, <2>1, <2>2
    <3>2. IsFiniteSet({n}) /\ Cardinality({n}) = 1
      BY FS_Singleton
    <3>3. Cardinality(InWindow(e)') <= 1
      BY <3>1, <3>2, FS_Subset
    <3> QED BY <1>3, <2>2, <3>3, AdminAssumption
  <2>3. CASE ~fresh
    <3> DEFINE W == InWindow(e)
               V == InWindow(e)'
    <3>1. V \subseteq W \cup {n}
      <4> SUFFICES ASSUME NEW m \in V, m # n PROVE m \in W
        OBVIOUS
      <4>1. m \in Requests /\ Let(m, e) /\ req[m].time >= a.resetAt - 1
        BY <1>4, <1>8, <2>1, <2>3
      <4> QED BY <4>1 DEF InWindow, RATE_WINDOW
    <3>2. IsFiniteSet(W) /\ Cardinality(W) \in Nat
      BY InWindowFinite
    <3> HIDE DEF W, V
    <3>3. /\ IsFiniteSet(W \cup {n})
          /\ Cardinality(W \cup {n}) = IF n \in W THEN Cardinality(W) ELSE Cardinality(W) + 1
      BY <3>2, FS_AddElement
    <3>4. IsFiniteSet(V) /\ Cardinality(V) <= Cardinality(W \cup {n})
      BY <3>1, <3>3, FS_Subset
    <3>5. Cardinality(V) \in Nat
      BY <3>4, FS_CardinalityType
    <3>6. Cardinality(V) <= a.count + 1
      BY <1>2, <1>11, <2>3, <3>2, <3>3, <3>4, <3>5 DEF W
    <3>7. a.count < MAX_ATTEMPTS
      BY <2>3 DEF Allowed
    <3> QED BY <1>2, <1>4, <2>3, <3>6, <3>7, AdminAssumption DEF V
  <2> QED BY <2>2, <2>3
<1>14. ASSUME NEW x \in Endpoints \ {e}
       PROVE  /\ \A m \in Requests : Let(m, x)' =>
                   attempts'[x] # NULL /\ req'[m].time <= attempts'[x].resetAt
              /\ attempts'[x] # NULL =>
                   /\ Cardinality(InWindow(x)') <= attempts'[x].count
                   /\ attempts'[x].count <= MAX_ATTEMPTS
  <2>1. attempts'[x] = attempts[x]
    BY <1>6
  <2>2. InWindow(x)' \subseteq InWindow(x)
    BY <1>9, <2>1 DEF InWindow, Requests
  <2>3. /\ Cardinality(InWindow(x)') <= Cardinality(InWindow(x))
        /\ Cardinality(InWindow(x)) \in Nat /\ Cardinality(InWindow(x)') \in Nat
    BY <2>2, InWindowFinite, FS_Subset, FS_CardinalityType
  <2>4. attempts[x] # NULL => attempts[x].count \in Nat
    BY <1>1 DEF Entry
  <2>5. /\ \A m \in Requests : Let(m, x) => attempts[x] # NULL /\ req[m].time <= attempts[x].resetAt
        /\ attempts[x] # NULL =>
             /\ Cardinality(InWindow(x)) <= attempts[x].count
             /\ attempts[x].count <= MAX_ATTEMPTS
    BY DEF IInv, AttemptsCounted
  <2> QED BY <1>9, <2>1, <2>3, <2>4, <2>5, AdminAssumption
<1>15. AttemptsCounted'
  <2> SUFFICES ASSUME NEW x \in Endpoints
               PROVE  /\ \A m \in Requests : Let(m, x)' =>
                           attempts'[x] # NULL /\ req'[m].time <= attempts'[x].resetAt
                      /\ attempts'[x] # NULL =>
                           /\ Cardinality(InWindow(x)') <= attempts'[x].count
                           /\ attempts'[x].count <= MAX_ATTEMPTS
    BY DEF AttemptsCounted, Requests, Endpoints
  <2>1. CASE x = e
    BY <1>6, <1>12, <1>13, <2>1
  <2>2. CASE x # e
    BY <1>14, <2>2
  <2> QED BY <2>1, <2>2
<1> QED BY <1>7, <1>15

LEMMA BeginsKeeps ==
  ASSUME IInv, NEW n \in Requests, NEW e \in Endpoints, NEW f, Begun(e, f), Begins(n, e, f)
  PROVE  IInv'
<1>1. /\ req[n].at = "new" /\ boot = "up" /\ db \in Databases /\ HoldsWell(n)
      /\ UNCHANGED <<db, file, flag, now, boot, starts, flags, told, lost>>
      /\ req[n] \in Reqs /\ attempts \in [Endpoints -> Entry \cup {NULL}]
  BY DEF Begins, Arrives, IInv, TypeOK, RequestsHoldWell, disk
<1>2. CASE ~Allowed(e)
  <2>1. /\ UNCHANGED attempts /\ e \in Endpoints \cup {"none", "logout"}
        /\ Goes(n, [at |-> "done", kind |-> e, status |-> "RATE_LIMIT_EXCEEDED"])
        /\ "RATE_LIMIT_EXCEEDED" \in Statuses
    BY <1>2 DEF Begins, Statuses
  <2>2. /\ Only(n) /\ req'[n].at = "done" /\ req'[n].kind = e
        /\ req'[n].status = "RATE_LIMIT_EXCEEDED" /\ req'[n].start = req[n].start
    BY <2>1, AnsweredAtOnce DEF IInv
  <2>3. HoldsWell(n)' /\ ~Serves(n)'
    BY <1>1, <2>2, AdminAssumption DEF HoldsWell, Serves, Statuses
  <2>4. AttemptsCounted'
    <3>1. NoneLet
      BY <1>1, <2>2 DEF NoneLet, Let, Only
    <3> QED BY <1>1, <2>1, <3>1, NothingCounted DEF IInv
  <2> QED BY <1>1, <2>1, <2>2, <2>3, <2>4, Arrived
<1>3. CASE Allowed(e)
  <2> DEFINE base == Base(e)
             r == Sql!Assign(base, f)
  <2>1. attempts' = [attempts EXCEPT ![e] = Counted(e)] /\ Goes(n, r)
    BY <1>3 DEF Begins, Base
  <2>2. /\ base \in Reqs /\ base.at = "done" /\ base.kind = e /\ base.start = starts
        /\ base.time = now /\ base.status = NULL /\ base.next = NULL /\ base.admin = NULL
    BY DEF Base, Reqs, IInv, TypeOK
  <2>3. Fields(f)
    BY DEF Begun
  <2> HIDE DEF base
  <2>4. /\ r \in Reqs
        /\ r.at = IF "at" \in DOMAIN f THEN f.at ELSE "done"
        /\ r.kind = IF "kind" \in DOMAIN f THEN f.kind ELSE e
        /\ r.next = IF "next" \in DOMAIN f THEN f.next ELSE NULL
        /\ r.admin = IF "admin" \in DOMAIN f THEN f.admin ELSE NULL
        /\ r.status = IF "status" \in DOMAIN f THEN f.status ELSE NULL
        /\ r.start = IF "start" \in DOMAIN f THEN f.start ELSE starts
        /\ r.time = IF "time" \in DOMAIN f THEN f.time ELSE now
    BY <2>2, <2>3, Assigned
  <2>5. r.kind = e /\ r.start = starts /\ r.time = now
    BY <2>4 DEF Begun
  <2> HIDE DEF r
  <2>6. Only(n) /\ req'[n] = r
    <3>1. req' = [req EXCEPT ![n] = r]
      BY <1>1, <2>1, <2>4, Replaced DEF Goes
    <3> QED BY <2>4, <3>1 DEF IInv, TypeOK, Only
  <2>7. attempts' \in [Endpoints -> Entry \cup {NULL}] /\ AttemptsCounted'
    BY <1>1, <1>3, <2>1, <2>5, <2>6, OneMoreCounted
  <2>8. starts \in Nat
    BY DEF IInv, TypeOK
  <2>9. HoldsWell(n)' /\ ~Serves(n)'
    <3>1. CASE DOMAIN f = {"status"} /\ f.status \in Statuses \ {"ok", "RATE_LIMIT_EXCEEDED"}
      <4>1. r.at = "done" /\ r.status \in Statuses \ {"ok", "RATE_LIMIT_EXCEEDED"}
        BY <2>4, <3>1
      <4> QED BY <1>1, <2>5, <2>6, <2>8, <4>1 DEF HoldsWell, Serves
    <3>2. CASE "at" \in DOMAIN f /\ f.at = "access" /\ "status" \notin DOMAIN f
      <4>1. r.at = "access" /\ r.status = NULL
        BY <2>4, <3>2
      <4> QED BY <1>1, <2>5, <2>6, <2>8, <4>1, AdminAssumption DEF HoldsWell, Serves, Statuses
    <3>3. CASE /\ "at" \in DOMAIN f /\ f.at = "verify" /\ "status" \notin DOMAIN f
               /\ "admin" \in DOMAIN f /\ f.admin \in db.admins
               /\ e = "change" => "next" \in DOMAIN f /\ f.next \in Secrets
      <4>1. r.at = "verify" /\ r.status = NULL /\ r.admin \in db.admins
        BY <2>4, <3>3
      <4>2. e = "change" => r.next \in Secrets
        BY <2>4, <3>3
      <4>3. r.admin # NULL /\ r.admin.id \in Sql!Ids(db'.admins)
        BY <1>1, <4>1, AdminAssumption DEF Databases, Sql!Ids
      <4> QED BY <1>1, <2>5, <2>6, <2>8, <4>1, <4>2, <4>3, AdminAssumption
              DEF HoldsWell, Serves, Statuses
    <3> QED BY <3>1, <3>2, <3>3 DEF Begun
  <2> QED BY <1>1, <2>6, <2>7, <2>9, Arrived
<1> QED BY <1>2, <1>3

\* While the server is up there is an admin to read.
LEMMA AdminRead ==
  ASSUME IInv, Admin # NULL \/ boot = "up"
  PROVE  Admin \in db.admins /\ Admin \in AdminRow
<1>1. db.admins # {}
  BY DEF IInv, AdminThere, Admin, Sql!getServerAdmin, Sql!One
<1>2. PICK a \in db.admins : TRUE
  BY <1>1
<1> QED BY <1>2, Single DEF IInv, TypeOK, Databases

LEMMA RefusedFields ==
  ASSUME NEW e, NEW status \in Statuses \ {"ok", "RATE_LIMIT_EXCEEDED"}
  PROVE  Begun(e, [status |-> status])
<1> DEFINE f == [status |-> status]
<1>1. DOMAIN f = {"status"} /\ f.status = status
  OBVIOUS
<1> HIDE DEF f
<1>2. Begun(e, f)
  BY <1>1 DEF Begun, Fields
<1> QED BY <1>2 DEF f

LEMMA SetupKeeps ==
  ASSUME IInv, NEW n \in Requests, NEW pin \in told \cup {0},
         NEW next \in Secrets \cup {NULL, "short"}, Setup(n, pin, next)
  PROVE  IInv'
<1>1. PICK f : Begins(n, "setup", f) /\ Begun("setup", f)
  <2> DEFINE f == [at |-> "verify", pin |-> pin, next |-> next, admin |-> Admin]
  <2>1. Admin # NULL => Begun("setup", f)
    <3> SUFFICES ASSUME Admin # NULL PROVE Begun("setup", f)
      OBVIOUS
    <3>1. Admin \in db.admins /\ Admin \in AdminRow /\ pin \in Int
      BY AdminRead DEF IInv, TypeOK
    <3>2. /\ DOMAIN f = {"at", "pin", "next", "admin"} /\ f.at = "verify"
          /\ f.pin = pin /\ f.next = next /\ f.admin = Admin
      OBVIOUS
    <3> HIDE DEF f
    <3> QED BY <3>1, <3>2 DEF Begun, Fields, Ats
  <2> HIDE DEF f
  <2>2. /\ Begun("setup", [status |-> "NO_ADMIN_EXISTS"])
        /\ Begun("setup", [status |-> "SETUP_PIN_EXPIRED"])
        /\ Begun("setup", [status |-> "INVALID_ADMIN_STATE"])
    BY RefusedFields DEF Statuses
  <2>3. CASE Admin = NULL
    BY <2>2, <2>3 DEF Setup
  <2>4. CASE Admin # NULL /\ (Admin.setupPinExpiresAt = NULL \/ Admin.setupPinExpiresAt < now)
    BY <2>2, <2>4 DEF Setup
  <2>5. CASE /\ Admin # NULL /\ ~(Admin.setupPinExpiresAt = NULL \/ Admin.setupPinExpiresAt < now)
             /\ Admin.pinHash = NULL
    BY <2>2, <2>5 DEF Setup
  <2>6. CASE /\ Admin # NULL /\ ~(Admin.setupPinExpiresAt = NULL \/ Admin.setupPinExpiresAt < now)
             /\ Admin.pinHash # NULL
    BY <2>1, <2>6 DEF Setup, f
  <2> QED BY <2>3, <2>4, <2>5, <2>6
<1> QED BY <1>1, BeginsKeeps DEF Endpoints

LEMMA LoginKeeps ==
  ASSUME IInv, NEW n \in Requests, NEW pass \in Secrets \cup {"wrong"}, Login(n, pass)
  PROVE  IInv'
<1>1. PICK f : Begins(n, "login", f) /\ Begun("login", f)
  <2> DEFINE f == [at |-> "verify", pass |-> pass, admin |-> Admin]
  <2>1. Admin # NULL => Begun("login", f)
    <3> SUFFICES ASSUME Admin # NULL PROVE Begun("login", f)
      OBVIOUS
    <3>1. Admin \in db.admins /\ Admin \in AdminRow
      BY AdminRead
    <3>2. /\ DOMAIN f = {"at", "pass", "admin"} /\ f.at = "verify"
          /\ f.pass = pass /\ f.admin = Admin
      OBVIOUS
    <3> HIDE DEF f
    <3> QED BY <3>1, <3>2 DEF Begun, Fields, Ats
  <2> HIDE DEF f
  <2>2. /\ Begun("login", [status |-> "NO_ADMIN_EXISTS"])
        /\ Begun("login", [status |-> "PASSWORD_NOT_SET"])
    BY RefusedFields DEF Statuses
  <2>3. CASE Admin = NULL
    BY <2>2, <2>3 DEF Login
  <2>4. CASE Admin # NULL /\ Admin.passwordHash = NULL
    BY <2>2, <2>4 DEF Login
  <2>5. CASE Admin # NULL /\ Admin.passwordHash # NULL
    BY <2>1, <2>5 DEF Login, f
  <2> QED BY <2>3, <2>4, <2>5
<1> QED BY <1>1, BeginsKeeps DEF Endpoints

LEMMA ChangePasswordKeeps ==
  ASSUME IInv, NEW n \in Requests, NEW s, NEW pass \in Secrets \cup {"wrong"},
         NEW next \in Secrets \cup {"short"}, ChangePassword(n, s, pass, next)
  PROVE  IInv'
<1>1. PICK f : Begins(n, "change", f) /\ Begun("change", f)
  <2> DEFINE f == [at |-> "verify", pass |-> pass, next |-> next, admin |-> Admin]
  <2>1. next \in Secrets => Begun("change", f)
    <3> SUFFICES ASSUME next \in Secrets PROVE Begun("change", f)
      OBVIOUS
    <3>1. boot = "up"
      BY DEF ChangePassword, Begins, Arrives
    <3>2. Admin \in db.admins /\ Admin \in AdminRow
      BY <3>1, AdminRead
    <3>3. /\ DOMAIN f = {"at", "pass", "next", "admin"} /\ f.at = "verify"
          /\ f.pass = pass /\ f.next = next /\ f.admin = Admin
      OBVIOUS
    <3> HIDE DEF f
    <3> QED BY <3>2, <3>3 DEF Begun, Fields, Ats
  <2> HIDE DEF f
  <2>2. /\ Begun("change", [status |-> "PASSWORD_TOO_SHORT"])
        /\ Begun("change", [status |-> "SESSION_EXPIRED"])
        /\ Begun("change", [status |-> "NO_PASSWORD_SET"])
    BY RefusedFields DEF Statuses
  <2>3. CASE next \notin Secrets
    BY <2>2, <2>3 DEF ChangePassword
  <2>4. CASE next \in Secrets /\ ~ValidSession(s)
    BY <2>2, <2>4 DEF ChangePassword
  <2>5. CASE next \in Secrets /\ ValidSession(s) /\ Admin.passwordHash = NULL
    BY <2>2, <2>5 DEF ChangePassword
  <2>6. CASE next \in Secrets /\ ValidSession(s) /\ Admin.passwordHash # NULL
    BY <2>1, <2>6 DEF ChangePassword, f
  <2> QED BY <2>3, <2>4, <2>5, <2>6
<1> QED BY <1>1, BeginsKeeps DEF Endpoints

LEMMA ResetKeeps == ASSUME IInv, NEW n \in Requests, Reset(n) PROVE IInv'
<1> DEFINE f == [at |-> "access"]
<1>1. DOMAIN f = {"at"} /\ f.at = "access"
  OBVIOUS
<1>2. Begins(n, "reset", f)
  BY DEF Reset
<1> HIDE DEF f
<1>3. Begun("reset", f)
  BY <1>1 DEF Begun, Fields, Ats
<1> QED BY <1>2, <1>3, BeginsKeeps DEF Endpoints

----------------------------------------------------------------------------
(* The theorems *)

LEMMA InitHolds == Init => IInv
<1> SUFFICES ASSUME Init PROVE IInv
  OBVIOUS
<1>1. TypeOK
  <2>1. NoReq \in Reqs
    BY DEF NoReq, Reqs
  <2>2. Sql!EmptyDb \in Databases
    BY DEF Sql!EmptyDb, Databases
  <2>3. db \in Databases /\ req \in [Requests -> Reqs]
    BY <2>1, <2>2 DEF Init
  <2>4. attempts \in [Endpoints -> Entry \cup {NULL}]
    BY DEF Init, NoAttempts
  <2>5. now \in Nat /\ {starts, flags} \subseteq Nat /\ told \subseteq Int
    BY DEF Init
  <2>6. {flag, lost} \subseteq BOOLEAN /\ file \in Int \cup {NULL}
    BY Zenon DEF Init
  <2>7. boot \in {"down", "hash", "write", "up"}
    BY DEF Init
  <2> QED BY <2>3, <2>4, <2>5, <2>6, <2>7 DEF TypeOK
<1>2. db.admins = {}
  BY DEF Init, Sql!EmptyDb
<1>3. \A n \in Requests : req[n] = NoReq
  BY DEF Init
<1>4. AdminThere /\ PinIsTold /\ PasswordOrPin /\ AttemptsCounted
  BY <1>2 DEF Init, AdminThere, PinIsTold, PasswordOrPin, AttemptsCounted, NoAttempts
<1>5. RequestsHoldWell
  BY <1>3 DEF Init, RequestsHoldWell, HoldsWell, NoReq
<1>6. OneResetPerFlag
  <2>1. Served = {}
    BY <1>3 DEF Served, Serves, NoReq
  <2> QED BY <2>1, OneResetIs, FS_EmptySet DEF Init
<1> QED BY <1>1, <1>4, <1>5, <1>6 DEF IInv

LEMMA StutterKeeps == ASSUME IInv, UNCHANGED vars PROVE IInv'
<1>1. TypeOK' /\ AdminThere'
  BY DEF vars, IInv, TypeOK, AdminThere
<1>2. RequestsHoldWell' /\ OneResetPerFlag' /\ AttemptsCounted'
  BY Still DEF vars, IInv
<1>3. PinIsTold' /\ PasswordOrPin'
  BY PinStays, PasswordStays DEF vars, IInv, Resets
<1> QED BY <1>1, <1>2, <1>3 DEF IInv

LEMMA NextKeeps == ASSUME IInv, [Next]_vars PROVE IInv'
<1>1. CASE ServerStep
  BY <1>1, StartsAgainKeeps, StartsFirstKeeps, StartHashedKeeps, StartWritesKeeps,
     StopsKeeps, CleansUpKeeps DEF ServerStep
<1>2. ASSUME NEW n \in Requests, RequestStep(n) PROVE IInv'
  <2>1. ASSUME NEW pin \in told \cup {0}, NEW next \in Secrets \cup {NULL, "short"},
               Setup(n, pin, next)
        PROVE  IInv'
    BY <2>1, SetupKeeps
  <2>2. ASSUME NEW pass \in Secrets \cup {"wrong"}, Login(n, pass) PROVE IInv'
    BY <2>2, LoginKeeps
  <2>3. ASSUME NEW s, NEW pass \in Secrets \cup {"wrong"}, NEW next \in Secrets \cup {"short"},
               ChangePassword(n, s, pass, next)
        PROVE  IInv'
    BY <2>3, ChangePasswordKeeps
  <2>4. ASSUME NEW s, Logout(n, s) PROVE IInv'
    BY <2>4, LogoutKeeps
  <2>5. CASE SetupVerified(n) \/ SetupHashed(n) \/ SetupUnlinks(n) \/ LoginVerified(n)
    BY <2>5, SetupVerifiedKeeps, SetupHashedKeeps, SetupUnlinksKeeps, LoginVerifiedKeeps
  <2>6. CASE ChangeVerified(n) \/ ChangeHashed(n) \/ Reset(n)
    BY <2>6, ChangeVerifiedKeeps, ChangeHashedKeeps, ResetKeeps
  <2>7. CASE ResetLooks(n) \/ ResetUnlinks(n) \/ ResetClears(n) \/ ResetHashed(n) \/ ResetWrites(n)
    BY <2>7, ResetLooksKeeps, ResetUnlinksKeeps, ResetClearsKeeps, ResetHashedKeeps,
       ResetWritesKeeps
  <2> QED BY <1>2, <2>1, <2>2, <2>3, <2>4, <2>5, <2>6, <2>7 DEF RequestStep
<1>3. CASE ResetScript \/ PlaceFlag \/ Tick
  BY <1>3, ResetScriptKeeps, PlaceFlagKeeps, TickKeeps
<1>4. CASE UNCHANGED vars
  BY <1>4, StutterKeeps
<1> QED BY <1>1, <1>2, <1>3, <1>4 DEF Next

\* Whatever the operator and the requests do, and wherever the server stops:
\* the invariant behind the theorems below.
THEOREM InductiveInvariant == Spec => []IInv
<1>1. IInv /\ [Next]_vars => IInv'
  BY NextKeeps
<1> QED BY InitHolds, <1>1, PTL DEF Spec

\* The database, the files' contents, the counters and the requests keep
\* their types (storage.ts ServerAdmin and rateLimitMap).
THEOREM TypeCorrect == Spec => []TypeOK
<1>1. IInv => TypeOK
  BY DEF IInv
<1> QED BY InductiveInvariant, <1>1, PTL

\* There is one admin when the server answers requests, and never two: no
\* stop between the hash of the first PIN and its file makes a second one.
THEOREM OneAdminEver == Spec => []OneAdmin
<1>1. IInv => OneAdmin
  <2> SUFFICES ASSUME IInv PROVE OneAdmin
    OBVIOUS
  <2>1. CASE db.admins = {}
    <3>1. Cardinality(db.admins) = 0
      BY <2>1, FS_EmptySet
    <3> QED BY <3>1 DEF IInv, AdminThere, OneAdmin
  <2>2. ASSUME NEW a \in db.admins PROVE OneAdmin
    <3>1. db.admins = {a}
      BY <2>2, Single DEF IInv
    <3>2. Cardinality({a}) = 1
      BY FS_Singleton
    <3> QED BY <3>1, <3>2 DEF IInv, AdminThere, OneAdmin
  <2> QED BY <2>1, <2>2
<1> QED BY InductiveInvariant, <1>1, PTL

\* However setups, changes of password and resets overlap, the admin is left
\* with a password or with a PIN that was told, unless a stop cut a reset.
THEOREM AdminGetsIn == Spec => []WayIn
<1>1. IInv => WayIn
  <2> SUFFICES ASSUME IInv, boot = "up", ~lost,
                      \A n \in Requests : req[n].kind = "reset" => req[n].at \notin {"hash", "write"}
               PROVE  \/ Admin.passwordHash # NULL
                      \/ /\ Admin.setupPinExpiresAt # NULL
                         /\ Admin.setupPinExpiresAt < now \/ Admin.pinHash \in told
    BY DEF WayIn
  <2>1. Admin \in db.admins
    BY AdminRead
  <2>2. Admin.pinHash \in told
    BY <2>1 DEF IInv, PinIsTold, Resets
  <2>3. Admin.passwordHash # NULL \/ Admin.setupPinExpiresAt # NULL
    BY <2>1 DEF IInv, PasswordOrPin, Resets
  <2> QED BY <2>2, <2>3
<1> QED BY InductiveInvariant, <1>1, PTL

\* Of the resets that saw one flag, at most one goes on.
THEOREM FlagServesOnce == Spec => []OneResetPerFlag
<1>1. IInv => OneResetPerFlag
  BY DEF IInv
<1> QED BY InductiveInvariant, <1>1, PTL

\* No endpoint lets more attempts through in a window than it allows, for any
\* limit and any number of requests.
THEOREM AttemptsStayBounded == Spec => []AttemptsBounded
<1>1. IInv => AttemptsBounded
  <2> SUFFICES ASSUME IInv, NEW e \in Endpoints, attempts[e] # NULL
               PROVE  Cardinality(InWindow(e)) <= MAX_ATTEMPTS
    BY DEF AttemptsBounded, InWindow, Let
  <2>1. /\ Cardinality(InWindow(e)) <= attempts[e].count /\ attempts[e].count <= MAX_ATTEMPTS
        /\ attempts[e].count \in Nat
    BY DEF IInv, AttemptsCounted, TypeOK, Entry
  <2> QED BY <2>1, InWindowFinite, AdminAssumption
<1> QED BY InductiveInvariant, <1>1, PTL

==============================================================================
