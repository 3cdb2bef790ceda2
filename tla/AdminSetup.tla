---------------------------- MODULE AdminSetup -----------------------------
(***************************************************************************)
(* The admin of the server: the start (server/src/index.ts and             *)
(* auth/setup-pin.ts), setup, login, logout and change of password         *)
(* (routes/admin-auth.ts), and the recovery by a flag file                 *)
(* (routes/admin-recovery.ts), over the SQLite storage and two files of    *)
(* the data directory.                                                     *)
(*                                                                         *)
(* Like the requests of players, a request or a start runs in one step to  *)
(* its next await of scrypt or of the file system.  The server may be      *)
(* stopped between any two steps.                                          *)
(*                                                                         *)
(* Abstracted: a secret stands for its hash; a PIN is named after what     *)
(* made it, n for request n and -k for start k; one client address.        *)
(***************************************************************************)
EXTENDS Integers, FiniteSets, Sequences

CONSTANTS NULL,
          MaxRequests, MaxStarts, MaxFlags,   \* bounds on what happens
          MaxNow,                             \* bound on the clock
          Secrets,                            \* the valid passwords
          MAX_ATTEMPTS                        \* per window of an endpoint

\* A row of the table of admins, a ServerAdmin, and an entry of rateLimitMap.
AdminRow == [id : Nat, pinHash : Int, passwordHash : Secrets \cup {NULL},
             setupPinExpiresAt : Nat \cup {NULL}]
Entry == [count : Nat, resetAt : Nat]

\* How a request ends: granted, cut by a stop, or refused with a code.
Statuses ==
  {"ok", "cut", "RATE_LIMIT_EXCEEDED", "NO_ADMIN_EXISTS", "SETUP_PIN_EXPIRED",
   "INVALID_ADMIN_STATE", "INVALID_PIN", "PASSWORD_TOO_SHORT", "PASSWORD_NOT_SET",
   "INVALID_PASSWORD", "SESSION_EXPIRED", "NO_PASSWORD_SET", "FLAG_NOT_FOUND",
   "FLAG_DELETE_FAILED"}

ASSUME AdminAssumption ==
  /\ {MaxRequests, MaxStarts, MaxFlags, MaxNow} \subseteq Nat
  /\ MAX_ATTEMPTS \in Nat \ {0}
  /\ NULL \notin Nat \cup Secrets \cup Statuses \cup AdminRow \cup Entry

Sql == INSTANCE SqliteStorage

Requests == 1..MaxRequests
SETUP_PIN_EXPIRY_MS == 1
SESSION_DURATION_MS == 1
RATE_WINDOW == 1
Endpoints == {"setup", "login", "change", "reset"}

VARIABLES db,        \* the database
          now,       \* Date.now()
          file,      \* the PIN in admin-setup-pin.txt, or NULL
          flag,      \* whether admin-reset.flag exists
          boot,      \* "down", "hash", "write" or "up"
          starts,    \* how often the server was started
          flags,     \* how often the operator placed the flag
          attempts,  \* rateLimitMap of both files: endpoint -> entry or NULL
          req,       \* req[n]: how far request n is, and what it holds
          told,      \* history: the PINs written to the file and the console
          lost       \* history: a stop cut a start or a reset half way

disk == <<db, file, flag>>
vars == <<db, now, file, flag, boot, starts, flags, attempts, req, told, lost>>

NoReq == [at |-> "new", kind |-> "none", pin |-> NULL, pass |-> NULL,
          next |-> NULL, admin |-> NULL, status |-> NULL, start |-> 0, time |-> 0]

NoAttempts == [e \in Endpoints |-> NULL]

Init ==
  /\ db = Sql!EmptyDb
  /\ now = 0
  /\ file = NULL /\ flag = FALSE
  /\ boot = "down" /\ starts = 0 /\ flags = 0
  /\ attempts = NoAttempts
  /\ req = [n \in Requests |-> NoReq]
  /\ told = {} /\ lost = FALSE

Admin == Sql!getServerAdmin(db)

----------------------------------------------------------------------------
(* The start of the server *)

\* ensureServerAdminSetup finds an admin: only the file of an expired PIN goes.
StartsAgain ==
  /\ boot = "down" /\ starts < MaxStarts
  /\ Admin # NULL
  /\ file' = IF Admin.setupPinExpiresAt # NULL /\ Admin.setupPinExpiresAt < now
             THEN NULL ELSE file
  /\ boot' = "up" /\ starts' = starts + 1
  /\ UNCHANGED <<db, now, flag, flags, attempts, req, told, lost>>

\* Mutant: an admin is made even if there is one.
StartsFirstAlways ==
  /\ boot = "down" /\ starts < MaxStarts
  /\ boot' = "hash" /\ starts' = starts + 1
  /\ UNCHANGED <<disk, now, flags, attempts, req, told, lost>>

\* It finds none, and makes a PIN ...
StartsFirst ==
  /\ boot = "down" /\ starts < MaxStarts
  /\ Admin = NULL
  /\ boot' = "hash" /\ starts' = starts + 1
  /\ UNCHANGED <<disk, now, flags, attempts, req, told, lost>>

\* ... stores its hash ...
StartHashed ==
  /\ boot = "hash"
  /\ db' = Sql!createServerAdmin(db, starts, -starts, now + SETUP_PIN_EXPIRY_MS)
  /\ boot' = "write"
  /\ UNCHANGED <<file, flag, now, starts, flags, attempts, req, told, lost>>

\* ... and tells it, before the server listens.
StartWrites ==
  /\ boot = "write"
  /\ file' = -starts /\ told' = told \cup {-starts}
  /\ boot' = "up"
  /\ UNCHANGED <<db, flag, now, starts, flags, attempts, req, lost>>

\* The server stops: requests are cut, and the attempts forgotten.
Stops ==
  /\ boot # "down"
  /\ boot' = "down"
  /\ attempts' = NoAttempts
  /\ req' = [n \in Requests |->
       IF req[n].at \in {"new", "done"} THEN req[n]
       ELSE [req[n] EXCEPT !.at = "done", !.status = "cut", !.admin = NULL,
                           !.pin = NULL, !.pass = NULL, !.next = NULL]]
  /\ lost' = (lost \/ boot = "write"
               \/ \E n \in Requests : req[n].kind = "reset"
                                      /\ req[n].at \in {"hash", "write"})
  /\ UNCHANGED <<disk, now, starts, flags, told>>

\* scripts/reset-admin-setup.ts, run while the server is down.
ResetScript ==
  /\ boot = "down" /\ Admin # NULL
  /\ db' = [db EXCEPT !.admins = {}, !.adminSessions = {}]
  /\ file' = NULL
  /\ UNCHANGED <<now, flag, boot, starts, flags, attempts, req, told, lost>>

----------------------------------------------------------------------------
(* Steps of a request *)

Arrives(n) ==
  boot = "up" /\ req[n].at = "new" /\ \A m \in 1..(n - 1) : req[m].at # "new"

Goes(n, fields) ==
  req' = [req EXCEPT ![n] = Sql!Assign(@, fields)]

Answers(n, status) ==
  Goes(n, [at |-> "done", status |-> status, admin |-> NULL, pin |-> NULL,
           pass |-> NULL, next |-> NULL])

\* Mutant: one attempt more than the limit.
AllowedOneMore(e) ==
  attempts[e] = NULL \/ attempts[e].resetAt < now \/ attempts[e].count <= MAX_ATTEMPTS

\* checkRateLimit: whether an attempt is allowed, and the entry after it.
Allowed(e) ==
  attempts[e] = NULL \/ attempts[e].resetAt < now \/ attempts[e].count < MAX_ATTEMPTS

Counted(e) ==
  IF attempts[e] = NULL \/ attempts[e].resetAt < now
  THEN [count |-> 1, resetAt |-> now + RATE_WINDOW]
  ELSE [attempts[e] EXCEPT !.count = @ + 1]

\* A request arrives at an endpoint with a limit, with what it holds then.
Begins(n, e, fields) ==
  /\ Arrives(n)
  /\ IF Allowed(e)
     THEN /\ attempts' = [attempts EXCEPT ![e] = Counted(e)]
          /\ Goes(n, Sql!Assign([at |-> "done", kind |-> e, start |-> starts,
                                 time |-> now, status |-> NULL, pin |-> NULL,
                                 pass |-> NULL, next |-> NULL, admin |-> NULL],
                                fields))
     ELSE /\ UNCHANGED attempts
          /\ Goes(n, [at |-> "done", kind |-> e, status |-> "RATE_LIMIT_EXCEEDED"])
  /\ UNCHANGED <<disk, now, boot, starts, flags, told, lost>>

Else(n, kind, at) == req[n].kind = kind /\ req[n].at = at

Rest == <<now, boot, starts, flags, attempts, lost>>

Session(d, n) ==
  Sql!createAdminSession(d, n, req[n].admin.id, now + SESSION_DURATION_MS)

\* requireAdminAuth, and the check in change-password.
ValidSession(s) ==
  LET row == Sql!getAdminSession(db, s)
  IN  row # NULL /\ row.expiresAt >= now

----------------------------------------------------------------------------
(* POST /api/admin/setup *)

Setup(n, pin, next) ==
  Begins(n, "setup",
    IF Admin = NULL THEN [status |-> "NO_ADMIN_EXISTS"]
    ELSE IF Admin.setupPinExpiresAt = NULL \/ Admin.setupPinExpiresAt < now
    THEN [status |-> "SETUP_PIN_EXPIRED"]
    ELSE IF Admin.pinHash = NULL THEN [status |-> "INVALID_ADMIN_STATE"]
    ELSE [at |-> "verify", pin |-> pin, next |-> next, admin |-> Admin])

\* Without a password the session opens at once and the PIN stays as it is.
SetupVerified(n) ==
  LET r == req[n]
  IN  /\ Else(n, "setup", "verify")
      /\ \/ /\ r.pin # r.admin.pinHash
            /\ Answers(n, "INVALID_PIN") /\ UNCHANGED db
         \/ /\ r.pin = r.admin.pinHash
            /\ r.next \notin Secrets \cup {NULL}
            /\ Answers(n, "PASSWORD_TOO_SHORT") /\ UNCHANGED db
         \/ /\ r.pin = r.admin.pinHash /\ r.next \in Secrets
            /\ Goes(n, [at |-> "hash"]) /\ UNCHANGED db
         \/ /\ r.pin = r.admin.pinHash /\ r.next = NULL
            /\ Goes(n, [at |-> "unlink"]) /\ db' = Session(db, n)
      /\ UNCHANGED <<file, flag, Rest, told>>

SetupHashed(n) ==
  /\ Else(n, "setup", "hash")
  /\ db' = Session(Sql!updateServerAdmin(db, req[n].admin.id,
             [passwordHash |-> req[n].next, setupPinExpiresAt |-> NULL]), n)
  /\ Goes(n, [at |-> "unlink"])
  /\ UNCHANGED <<file, flag, Rest, told>>

SetupUnlinks(n) ==
  /\ Else(n, "setup", "unlink")
  /\ file' = NULL
  /\ Answers(n, "ok")
  /\ UNCHANGED <<db, flag, Rest, told>>

----------------------------------------------------------------------------
(* POST /api/admin/login, logout and change-password *)

Login(n, pass) ==
  Begins(n, "login",
    IF Admin = NULL THEN [status |-> "NO_ADMIN_EXISTS"]
    ELSE IF Admin.passwordHash = NULL THEN [status |-> "PASSWORD_NOT_SET"]
    ELSE [at |-> "verify", pass |-> pass, admin |-> Admin])

LoginVerified(n) ==
  /\ Else(n, "login", "verify")
  /\ IF req[n].pass = req[n].admin.passwordHash
     THEN Answers(n, "ok") /\ db' = Session(db, n)
     ELSE Answers(n, "INVALID_PASSWORD") /\ UNCHANGED db
  /\ UNCHANGED <<file, flag, Rest, told>>

\* requireAdminCsrfToken asks for a row that is not revoked, expired or not.
Logout(n, s) ==
  /\ Arrives(n)
  /\ Sql!getAdminSession(db, s) # NULL
  /\ db' = Sql!revokeAdminSession(db, s)
  /\ Goes(n, [at |-> "done", kind |-> "logout", status |-> "ok"])
  /\ UNCHANGED <<file, flag, Rest, told>>

ChangePassword(n, s, pass, next) ==
  /\ Sql!getAdminSession(db, s) # NULL
  /\ Begins(n, "change",
       IF next \notin Secrets THEN [status |-> "PASSWORD_TOO_SHORT"]
       ELSE IF ~ValidSession(s) THEN [status |-> "SESSION_EXPIRED"]
       ELSE IF Admin.passwordHash = NULL THEN [status |-> "NO_PASSWORD_SET"]
       ELSE [at |-> "verify", pass |-> pass, next |-> next, admin |-> Admin])

ChangeVerified(n) ==
  /\ Else(n, "change", "verify")
  /\ IF req[n].pass = req[n].admin.passwordHash THEN Goes(n, [at |-> "hash"])
     ELSE Answers(n, "INVALID_PASSWORD")
  /\ UNCHANGED <<disk, Rest, told>>

\* All sessions end, the one that changed the password too.
RevokedSessions(d) == [d EXCEPT !.adminSessions = {[s EXCEPT !.revoked = TRUE] : s \in @}]

ChangeHashed(n) ==
  /\ Else(n, "change", "hash")
  /\ db' = RevokedSessions(Sql!updateServerAdmin(db, req[n].admin.id,
             [passwordHash |-> req[n].next]))
  /\ Answers(n, "ok")
  /\ UNCHANGED <<file, flag, Rest, told>>

----------------------------------------------------------------------------
(* POST /api/admin/reset *)

Reset(n) == Begins(n, "reset", [at |-> "access"])

ResetLooks(n) ==
  /\ Else(n, "reset", "access")
  /\ IF flag THEN Goes(n, [at |-> "unlink"]) ELSE Answers(n, "FLAG_NOT_FOUND")
  /\ UNCHANGED <<disk, Rest, told>>

\* Mutant: a flag that is already gone is no error, as in deleteSetupPinFile.
ResetUnlinksAnyway(n) ==
  /\ Else(n, "reset", "unlink")
  /\ flag' = FALSE
  /\ Goes(n, [at |-> "unlinked"])
  /\ UNCHANGED <<db, file, Rest, told>>

\* The flag goes before anything else; of two resets that saw it, one fails.
ResetUnlinks(n) ==
  /\ Else(n, "reset", "unlink")
  /\ IF flag THEN Goes(n, [at |-> "unlinked"]) ELSE Answers(n, "FLAG_DELETE_FAILED")
  /\ flag' = FALSE
  /\ UNCHANGED <<db, file, Rest, told>>

\* Sessions and password are cleared while the new PIN is still to be hashed.
ResetClears(n) ==
  /\ Else(n, "reset", "unlinked")
  /\ db' = RevokedSessions(Sql!updateServerAdmin(db, Admin.id, [passwordHash |-> NULL]))
  /\ Goes(n, [at |-> "hash", admin |-> Admin])
  /\ UNCHANGED <<file, flag, Rest, told>>

\* Mutant: the expiry that the setup has cleared is not set again.
ResetHashedNoExpiry(n) ==
  /\ Else(n, "reset", "hash")
  /\ db' = Sql!updateServerAdmin(db, req[n].admin.id, [pinHash |-> n])
  /\ Goes(n, [at |-> "write"])
  /\ UNCHANGED <<file, flag, Rest, told>>

ResetHashed(n) ==
  /\ Else(n, "reset", "hash")
  /\ db' = Sql!updateServerAdmin(db, req[n].admin.id,
             [pinHash |-> n, setupPinExpiresAt |-> now + SETUP_PIN_EXPIRY_MS])
  /\ Goes(n, [at |-> "write"])
  /\ UNCHANGED <<file, flag, Rest, told>>

ResetWrites(n) ==
  /\ Else(n, "reset", "write")
  /\ file' = n /\ told' = told \cup {n}
  /\ Answers(n, "ok")
  /\ UNCHANGED <<db, flag, Rest>>

----------------------------------------------------------------------------
\* The operator creates admin-reset.flag.
PlaceFlag ==
  /\ ~flag /\ flags < MaxFlags
  /\ flag' = TRUE /\ flags' = flags + 1
  /\ UNCHANGED <<db, file, now, boot, starts, attempts, req, told, lost>>

\* The hourly interval of the server.
CleansUp ==
  /\ boot = "up"
  /\ db' = Sql!cleanupExpiredAdminSessions(db, now)
  /\ UNCHANGED <<file, flag, Rest, req, told>>

Tick ==
  /\ now < MaxNow
  /\ now' = now + 1
  /\ UNCHANGED <<disk, boot, starts, flags, attempts, req, told, lost>>

ServerStep ==
  StartsAgain \/ StartsFirst \/ StartHashed \/ StartWrites \/ Stops \/ CleansUp

\* A setup is tried with a PIN that was told, or with a wrong one.
RequestStep(n) ==
  \/ \E pin \in told \cup {0}, next \in Secrets \cup {NULL, "short"} : Setup(n, pin, next)
  \/ SetupVerified(n) \/ SetupHashed(n) \/ SetupUnlinks(n)
  \/ \E pass \in Secrets \cup {"wrong"} : Login(n, pass)
  \/ LoginVerified(n)
  \/ \E s \in Sql!Ids(db.adminSessions) :
       \/ Logout(n, s)
       \/ \E pass \in Secrets \cup {"wrong"}, next \in Secrets \cup {"short"} :
            ChangePassword(n, s, pass, next)
  \/ ChangeVerified(n) \/ ChangeHashed(n)
  \/ Reset(n) \/ ResetLooks(n) \/ ResetUnlinks(n)
  \/ ResetClears(n) \/ ResetHashed(n) \/ ResetWrites(n)

Next ==
  \/ ServerStep
  \/ \E n \in Requests : RequestStep(n)
  \/ ResetScript \/ PlaceFlag \/ Tick

Spec == Init /\ [][Next]_vars

----------------------------------------------------------------------------
(* Properties *)

\* When the server answers requests there is one admin and never two, however
\* often a start was cut while it hashed or told its PIN.
OneAdmin ==
  /\ Cardinality(db.admins) <= 1
  /\ boot = "up" => db.admins # {}

\* Unless a stop has cut a start or a reset half way, the admin can get in
\* again whenever no reset is under way: there is a password, or a PIN that
\* was told and that only time has ended.  Setups, changes of password and
\* resets that overlap never leave neither.
WayIn ==
  boot = "up" /\ ~lost
  /\ (\A n \in Requests : req[n].kind = "reset" => req[n].at \notin {"hash", "write"})
  => \/ Admin.passwordHash # NULL
     \/ /\ Admin.setupPinExpiresAt # NULL
        /\ Admin.setupPinExpiresAt < now \/ Admin.pinHash \in told

\* A flag the operator placed serves one reset, also when several requests
\* saw it before the first one took it away.
OneResetPerFlag ==
  Cardinality({n \in Requests :
      /\ req[n].kind = "reset"
      /\ req[n].at \in {"unlinked", "hash", "write"} \/ req[n].status = "ok"})
  + (IF flag THEN 1 ELSE 0) <= flags

\* As long as the server runs, no endpoint lets more than its attempts through
\* in a window, however many requests verify a secret at the same time.
AttemptsBounded ==
  \A e \in Endpoints : attempts[e] # NULL =>
    Cardinality({n \in Requests :
        /\ req[n].kind = e /\ req[n].status # "RATE_LIMIT_EXCEEDED"
        /\ req[n].start = starts
        /\ req[n].time >= attempts[e].resetAt - RATE_WINDOW}) <= MAX_ATTEMPTS

\* A start that finds no password and an expired PIN makes a new one, as
\* the PIN file tells its reader: "If the PIN expires, restart the server to
\* generate a new one".
RestartRenewsPin ==
  [][boot # "up" /\ boot' = "up" =>
       LET a == Sql!getServerAdmin(db')
       IN  \/ a.passwordHash # NULL
           \/ a.setupPinExpiresAt # NULL /\ a.setupPinExpiresAt >= now]_vars

=============================================================================
