----------------------------- MODULE Accounts ------------------------------
(***************************************************************************)
(* Player accounts: the routes of server/src/routes/auth.ts, the rules of  *)
(* domain/auth/account.ts, and the admin's routes on accounts, seats,      *)
(* invites and campaigns, over the SQLite storage.                         *)
(*                                                                         *)
(* A request runs to its next await of scrypt or of a timer in one step:   *)
(* better-sqlite3 answers synchronously, so no other request runs while a  *)
(* storage call is awaited.  Between two steps of a request any other may  *)
(* run.  The process may die, and be started again, between two steps or   *)
(* inside one: the statements of a step are no transaction, so those that  *)
(* ran stay.  Every request under way is cut.                              *)
(*                                                                         *)
(* Abstracted: a password stands for its hash; a token is the id of its    *)
(* row; one client address; a row made by request n has the id n.          *)
(***************************************************************************)
EXTENDS Integers, Sequences, FiniteSets

CONSTANTS NULL,
          MaxRequests,        \* bound on the requests
          MaxNow,             \* bound on the clock
          Usernames,
          Passwords,          \* the valid ones; "short" is refused
          SESSION_CAP,
          LOGIN_RATE_MAX

\* A row of the table of sessions, an AuthSession.
SessionRow == [id : Nat, accountId : Nat, expiresAt : Nat, createdAt : Nat,
               lastUsedAt : Nat, revoked : BOOLEAN]

\* How a request ends: granted, cut by a restart, or refused with a code.
Statuses ==
  {"ok", "cut", "INVITE_GONE", "INVALID_PIN", "SEAT_NOT_FOUND", "INVITE_RACE_LOST",
   "PASSWORD_TOO_SHORT", "USERNAME_TAKEN", "RATE_LIMITED", "SEAT_ALREADY_BOUND",
   "INVALID_CREDENTIALS", "WRONG_PASSWORD", "UNAUTHORIZED", "INTERNAL"}

ASSUME AccountsAssumption ==
  /\ {MaxRequests, MaxNow} \subseteq Nat
  /\ {SESSION_CAP, LOGIN_RATE_MAX} \subseteq Nat \ {0}
  /\ NULL \notin Nat \cup Statuses \cup SessionRow   \* nothing is no value

Sql == INSTANCE SqliteStorage

Requests == 1..MaxRequests
Life == 1                     \* REFRESH_DURATION_MS, and the life of an invite
LOGIN_RATE_WINDOW == 1

VARIABLES db,       \* the database
          now,      \* Date.now()
          bucket,   \* the one entry of loginRateLimitMap, or NULL
          req       \* req[n]: how far request n is, and what it holds

vars == <<db, now, bucket, req>>

NoReq == [at |-> "new", kind |-> "none", invite |-> NULL, seat |-> NULL,
          campaign |-> NULL, pin |-> TRUE, mode |-> NULL, name |-> NULL, pass |-> NULL,
          next |-> NULL, account |-> NULL, hash |-> NULL, spent |-> FALSE,
          status |-> NULL]

\* A server in use: account 0 is logged in, seat 0 waits for its player.
Init ==
  /\ db = Sql!createAuthSession(Sql!createPlayerAccount(Sql!createInvite(
            Sql!createSeat(Sql!createCampaign(Sql!EmptyDb, 0, "c"), 0, 0, "player"),
            0, 0, 0, 2, Life), 0, "u1", "p1"), 0, 0, Life, 0)
  /\ now = 0
  /\ bucket = NULL
  /\ req = [n \in Requests |-> NoReq]

----------------------------------------------------------------------------
(* Steps of a request *)

\* Requests are numbered as they arrive.
Arrives(n) == req[n].at = "new" /\ \A m \in 1..(n - 1) : req[m].at # "new"

Goes(n, fields) == req' = [req EXCEPT ![n] = Sql!Assign(@, fields)]

\* The answer ends the request; what it held is dropped.
Answers(n, fields) ==
  Goes(n, Sql!Assign([at |-> "done", kind |-> req[n].kind, status |-> "ok",
                      spent |-> req[n].spent, account |-> req[n].account,
                      mode |-> NULL, pin |-> TRUE, campaign |-> NULL,
                      name |-> NULL, pass |-> NULL, next |-> NULL, hash |-> NULL],
                     fields))

Refuses(n, status) == Answers(n, [status |-> status])

\* A request that is answered in its first step.
AtOnce(n, kind, status) ==
  Arrives(n) /\ Answers(n, [kind |-> kind, status |-> status])

----------------------------------------------------------------------------
(* Helpers of the routes *)

\* checkLoginRateLimit: whether an attempt is allowed, and the map after it.
Allowed == bucket = NULL \/ bucket.resetAt < now \/ bucket.count < LOGIN_RATE_MAX

Counted ==
  IF bucket = NULL \/ bucket.resetAt < now
  THEN [count |-> 1, resetAt |-> now + LOGIN_RATE_WINDOW]
  ELSE [bucket EXCEPT !.count = @ + 1]

\* resolvePlayerSession, and the session of requirePlayerCsrfToken.
Session(s) ==
  LET row == Sql!getAuthSession(db, s)
  IN  IF row = NULL \/ row.expiresAt < now THEN NULL ELSE row

\* Mutant: the oldest session is evicted one too late.
RoomOverCap(d, a) ==
  IF Sql!countActiveAuthSessionsForAccount(d, a, now) > SESSION_CAP
  THEN Sql!revokeOldestAuthSessionForAccount(d, a, now) ELSE d

\* A session is opened by three statements.  At the cap the oldest makes room,
Room(d, a) ==
  IF Sql!countActiveAuthSessionsForAccount(d, a, now) >= SESSION_CAP
  THEN Sql!revokeOldestAuthSessionForAccount(d, a, now) ELSE d

\* the new one is stored,
SessionMade(d, n, a) == Sql!createAuthSession(Room(d, a), n, a, now + Life, now)

\* and the login is noted.
OpenSession(d, n, a) == Sql!updatePlayerAccountLastLogin(SessionMade(d, n, a), a, now)

\* buildMeResponse: the active seats of an account.
MySeats(d, a) == {s \in d.seats : s.accountId = a /\ s.isActive}

----------------------------------------------------------------------------
(* POST /api/auth/claim-invite *)

\* The invite is read, then the PIN verified.
ClaimInvite(n, i, pin, mode, name, pass) ==
  LET invite == Sql!getInvite(db, i)
  IN  /\ Arrives(n)
      /\ IF invite = NULL \/ invite.revoked
         THEN Answers(n, [kind |-> "claim", status |-> "INVITE_GONE"])
         ELSE Goes(n, [at |-> "pin", kind |-> "claim", invite |-> i,
                       seat |-> invite.seatId, pin |-> pin, mode |-> mode,
                       name |-> name, pass |-> pass])
      /\ UNCHANGED <<db, now, bucket>>

\* The seat, in whichever campaign has it.
SeatOf(d, id) == Sql!One({s \in d.seats : s.id = id})

Claims(n) == req[n].kind = "claim" /\ req[n].at = "pin"

ClaimRefused(n) ==
  LET r == req[n]
  IN  /\ Claims(n)
      /\ \/ ~r.pin /\ Refuses(n, "INVALID_PIN")
         \/ r.pin /\ SeatOf(db, r.seat) = NULL /\ Refuses(n, "SEAT_NOT_FOUND")
         \/ /\ r.pin /\ SeatOf(db, r.seat) # NULL
            /\ Sql!Consumable(db, r.invite, now) = {}
            /\ Refuses(n, "INVITE_RACE_LOST")
      /\ UNCHANGED <<db, now, bucket>>

\* From here on a use of the invite is spent.
Consumes(n) ==
  /\ Claims(n) /\ req[n].pin
  /\ SeatOf(db, req[n].seat) # NULL
  /\ Sql!Consumable(db, req[n].invite, now) # {}
  /\ db' = Sql!consumeInviteAtomic(db, req[n].invite, now)

\* createAccount, up to the hash of the password.
ClaimRegisters(n) ==
  LET r == req[n]
      taken == Sql!getPlayerAccountByUsername(db, r.name) # NULL
  IN  /\ r.mode = "register"
      /\ Consumes(n)
      /\ IF r.pass \notin Passwords
         THEN Answers(n, [spent |-> TRUE, status |-> "PASSWORD_TOO_SHORT"])
         ELSE IF taken
         THEN Answers(n, [spent |-> TRUE, status |-> "USERNAME_TAKEN"])
         ELSE Goes(n, [at |-> "hash", spent |-> TRUE])
      /\ UNCHANGED <<now, bucket>>

\* The account is read, or a dummy hash taken, and the password verified.
ClaimLogsIn(n) ==
  LET r == req[n]
      account == Sql!getPlayerAccountByUsername(db, r.name)
  IN  /\ r.mode = "login"
      /\ Consumes(n)
      /\ IF ~Allowed
         THEN /\ Answers(n, [spent |-> TRUE, status |-> "RATE_LIMITED"])
              /\ UNCHANGED bucket
         ELSE /\ bucket' = Counted
              /\ Goes(n, IF account = NULL
                         THEN [at |-> "verify", spent |-> TRUE]
                         ELSE [at |-> "verify", spent |-> TRUE,
                               account |-> account.id,
                               hash |-> account.passwordHash])
      /\ UNCHANGED now

\* Mutant: any seat is given to the account that claims it.
BindsAnyway(n, d, a) ==
  LET seat == SeatOf(d, req[n].seat)
  IN  IF seat = NULL
      THEN db' = d /\ Answers(n, [status |-> "SEAT_NOT_FOUND"])
      ELSE /\ db' = OpenSession(
                Sql!updateSeat(d, seat.campaignId, seat.id, [accountId |-> a]), n, a)
           /\ Answers(n, [account |-> a])

\* Mutant: a seat that is bound to another is left so, and the claim granted.
BindsIfFree(n, d, a) ==
  LET seat == SeatOf(d, req[n].seat)
  IN  IF seat = NULL
      THEN db' = d /\ Answers(n, [status |-> "SEAT_NOT_FOUND"])
      ELSE /\ db' = OpenSession(
                IF seat.accountId # NULL THEN d
                ELSE Sql!updateSeat(d, seat.campaignId, seat.id, [accountId |-> a]),
                n, a)
           /\ Answers(n, [account |-> a])

\* The seat of the claim, as it is now, given to a.
Bound(n, d, a) ==
  LET seat == SeatOf(d, req[n].seat)
  IN  Sql!updateSeat(d, seat.campaignId, seat.id, [accountId |-> a])

\* bindSeat, and the session of the claim.
Binds(n, d, a) ==
  LET seat == SeatOf(d, req[n].seat)
  IN  IF seat = NULL
      THEN db' = d /\ Answers(n, [status |-> "SEAT_NOT_FOUND"])
      ELSE IF seat.accountId \notin {NULL, a}
      THEN db' = d /\ Answers(n, [status |-> "SEAT_ALREADY_BOUND"])
      ELSE /\ db' = OpenSession(Bound(n, d, a), n, a)
           /\ Answers(n, [account |-> a])

\* The account of a registration is made.
Created(n) == Sql!createPlayerAccount(db, n, req[n].name, req[n].pass)

\* The UNIQUE name decides between two claims that both found it free.
ClaimCreates(n) ==
  LET r == req[n]
  IN  /\ r.kind = "claim" /\ r.at = "hash"
      /\ IF Created(n) = db THEN UNCHANGED db /\ Refuses(n, "INTERNAL")
         ELSE Binds(n, Created(n), n)
      /\ UNCHANGED <<now, bucket>>

\* Mutant: the seat is bound before the password is looked at.
ClaimVerifiedLate(n) ==
  LET r == req[n]
      seat == SeatOf(db, r.seat)
  IN  /\ r.kind = "claim" /\ r.at = "verify"
      /\ IF r.account = NULL
         THEN UNCHANGED db /\ Refuses(n, "INVALID_CREDENTIALS")
         ELSE IF r.pass # r.hash /\ seat # NULL /\ seat.accountId = NULL
         THEN db' = Bound(n, db, r.account) /\ Refuses(n, "INVALID_CREDENTIALS")
         ELSE Binds(n, db, r.account)
      /\ UNCHANGED <<now, bucket>>

\* Whether the password given is that of an account.
Verified(n) == req[n].account # NULL /\ req[n].pass = req[n].hash

ClaimVerified(n) ==
  LET r == req[n]
  IN  /\ r.kind = "claim" /\ r.at = "verify"
      /\ IF ~Verified(n)
         THEN UNCHANGED db /\ Refuses(n, "INVALID_CREDENTIALS")
         ELSE Binds(n, db, r.account)
      /\ UNCHANGED <<now, bucket>>

----------------------------------------------------------------------------
(* POST /api/auth/login *)

Login(n, name, pass) ==
  LET account == Sql!getPlayerAccountByUsername(db, name)
  IN  /\ Arrives(n)
      /\ IF ~Allowed
         THEN Answers(n, [kind |-> "login", status |-> "RATE_LIMITED"]) /\ UNCHANGED bucket
         ELSE /\ bucket' = Counted
              /\ Goes(n, Sql!Assign(
                   [at |-> "verify", kind |-> "login", pass |-> pass,
                    account |-> NULL, hash |-> NULL],
                   IF account = NULL THEN [account |-> NULL]
                   ELSE [account |-> account.id, hash |-> account.passwordHash]))
      /\ UNCHANGED <<db, now>>

LoginVerified(n) ==
  LET r == req[n]
  IN  /\ r.kind = "login" /\ r.at = "verify"
      /\ IF ~Verified(n)
         THEN UNCHANGED db /\ Refuses(n, "INVALID_CREDENTIALS")
         ELSE db' = OpenSession(db, n, r.account) /\ Answers(n, [status |-> "ok"])
      /\ UNCHANGED <<now, bucket>>

----------------------------------------------------------------------------
(* Requests of a logged-in player: s is the cookie, csrf whether the token *)
(* of that session came with it.                                           *)

\* POST /api/auth/refresh
Refresh(n, s) ==
  /\ Session(s) # NULL
  /\ AtOnce(n, "player", "ok")
  /\ db' = Sql!updateAuthSession(db, s, [lastUsedAt |-> now])
  /\ UNCHANGED <<now, bucket>>

\* requirePlayerCsrfToken refuses, before any handler.
Unauthorised(n, s, csrf) ==
  /\ Session(s) = NULL \/ ~csrf
  /\ AtOnce(n, "player", "UNAUTHORIZED")
  /\ UNCHANGED <<db, now, bucket>>

\* POST /api/auth/logout
Logout(n, s) ==
  /\ Session(s) # NULL
  /\ AtOnce(n, "player", "ok")
  /\ db' = Sql!revokeAuthSession(db, s)
  /\ UNCHANGED <<now, bucket>>

\* POST /api/auth/logout-all
LogoutAll(n, s) ==
  /\ Session(s) # NULL
  /\ AtOnce(n, "player", "ok")
  /\ db' = Sql!revokeAllAuthSessionsForAccount(db, Session(s).accountId)
  /\ UNCHANGED <<now, bucket>>

\* POST /api/auth/change-password: the account is read, and its hash checked
\* against the current password given.
ChangePassword(n, s, pass, next) ==
  LET account == Sql!getPlayerAccountById(db, Session(s).accountId)
  IN  /\ Arrives(n)
      /\ Session(s) # NULL
      /\ Goes(n, [at |-> "verify", kind |-> "change", pass |-> pass,
                  next |-> next, account |-> account.id,
                  hash |-> account.passwordHash])
      /\ UNCHANGED <<db, now, bucket>>

ChangeVerified(n) ==
  LET r == req[n]
  IN  /\ r.kind = "change" /\ r.at = "verify"
      /\ IF r.pass # r.hash THEN Refuses(n, "WRONG_PASSWORD")
         ELSE Goes(n, [at |-> "hash"])
      /\ UNCHANGED <<db, now, bucket>>

ChangeHashed(n) ==
  LET r == req[n]
  IN  /\ r.kind = "change" /\ r.at = "hash"
      /\ db' = Sql!setPlayerAccountMustChangePassword(db, r.account, FALSE, r.next)
      /\ Answers(n, [status |-> "ok"])
      /\ UNCHANGED <<now, bucket>>

----------------------------------------------------------------------------
(* Requests of the admin *)

\* POST /api/admin/accounts/:id/reset-password, to the hash ...
ResetPassword(n, a, temporary) ==
  /\ Arrives(n)
  /\ Sql!getPlayerAccountById(db, a) # NULL
  /\ Goes(n, [at |-> "hash", kind |-> "reset", account |-> a, next |-> temporary])
  /\ UNCHANGED <<db, now, bucket>>

\* ... and from it: the password first, the sessions after.
PasswordSet(n) ==
  Sql!setPlayerAccountMustChangePassword(db, req[n].account, TRUE, req[n].next)

ResetHashed(n) ==
  LET r == req[n]
  IN  /\ r.kind = "reset" /\ r.at = "hash"
      /\ db' = Sql!revokeAllAuthSessionsForAccount(PasswordSet(n), r.account)
      /\ Answers(n, [status |-> "ok"])
      /\ UNCHANGED <<now, bucket>>

\* POST /api/admin/accounts/:id/revoke-sessions
RevokeSessions(n, a) ==
  /\ AtOnce(n, "admin", "ok")
  /\ Sql!getPlayerAccountById(db, a) # NULL
  /\ db' = Sql!revokeAllAuthSessionsForAccount(db, a)
  /\ UNCHANGED <<now, bucket>>

\* POST /api/campaigns and PATCH /api/campaigns/:id
CreateCampaign(n) ==
  /\ AtOnce(n, "admin", "ok")
  /\ db' = Sql!createCampaign(db, n, "c")
  /\ UNCHANGED <<now, bucket>>

RenameCampaign(n, c) ==
  /\ AtOnce(n, "admin", "ok")
  /\ Sql!getCampaign(db, c) # NULL
  /\ db' = Sql!updateCampaign(db, c, "renamed")
  /\ UNCHANGED <<now, bucket>>

\* DELETE /api/campaigns/:id
DeleteCampaign(n, c) ==
  /\ AtOnce(n, "admin", "ok")
  /\ Sql!getCampaign(db, c) # NULL
  /\ db' = Sql!deleteCampaign(db, c)
  /\ UNCHANGED <<now, bucket>>

\* POST /api/campaigns/:id/seats
CreateSeat(n, c) ==
  /\ AtOnce(n, "admin", "ok")
  /\ db' = Sql!createSeat(db, c, n, "player")
  /\ UNCHANGED <<now, bucket>>

\* PATCH /api/campaigns/:id/seats/:seatId writes every field it has read back.
UpdateSeat(n, seat, role, isActive) ==
  /\ AtOnce(n, "admin", "ok")
  /\ db' = Sql!updateSeat(db, seat.campaignId, seat.id,
             [role |-> role, isActive |-> isActive, accountId |-> seat.accountId])
  /\ UNCHANGED <<now, bucket>>

\* DELETE /api/campaigns/:id/seats/:seatId
DeleteSeat(n, seat) ==
  /\ AtOnce(n, "admin", "ok")
  /\ db' = Sql!deleteSeat(db, seat.campaignId, seat.id)
  /\ UNCHANGED <<now, bucket>>

\* POST /api/campaigns/:id/invites: the seat of the body is not read, and need
\* not be of the campaign.  The PIN is hashed, and then the foreign keys decide.
CreateInvite(n, c, seat) ==
  /\ Arrives(n)
  /\ Goes(n, [at |-> "hash", kind |-> "invite", seat |-> seat, campaign |-> c])
  /\ UNCHANGED <<db, now, bucket>>

InviteHashed(n) ==
  LET r == req[n]
      d == Sql!createInvite(db, r.campaign, r.seat, n, 1, now + Life)
  IN  /\ r.kind = "invite" /\ r.at = "hash"
      /\ db' = d
      /\ Answers(n, [status |-> IF d = db THEN "INTERNAL" ELSE "ok"])
      /\ UNCHANGED <<now, bucket>>

\* DELETE /api/campaigns/:id/invites/:inviteToken
RevokeInvite(n, c, i) ==
  /\ AtOnce(n, "admin", "ok")
  /\ Sql!getSeat(db, c, Sql!getInvite(db, i).seatId) # NULL
  /\ db' = Sql!revokeInvite(db, i)
  /\ UNCHANGED <<now, bucket>>

----------------------------------------------------------------------------
\* The process has died and is started again: what was in flight is cut, and
\* the map of attempts is empty.
CutAll ==
  /\ bucket' = NULL
  /\ req' = [n \in Requests |->
       IF req[n].at \in {"new", "done"} THEN req[n]
       ELSE [req[n] EXCEPT !.at = "done", !.status = "cut", !.mode = NULL,
                           !.pin = TRUE, !.campaign = NULL, !.name = NULL,
                           !.pass = NULL, !.next = NULL, !.hash = NULL]]
  /\ UNCHANGED now

Restart == CutAll /\ UNCHANGED db

\* The databases that opening a session goes through, and so may leave.
Opening(d, n, a) == {Room(d, a), SessionMade(d, n, a), OpenSession(d, n, a)}

\* Those of bindSeat and the session after it.
Binding(n, d, a) ==
  IF SeatOf(d, req[n].seat) = NULL THEN {}
  ELSE IF SeatOf(d, req[n].seat).accountId \notin {NULL, a} THEN {}
  ELSE {Bound(n, d, a)} \cup Opening(Bound(n, d, a), n, a)

\* The process dies inside the last step of request n, after any statement.
\* (In every other step it is as if it died before the step or after it.)
Killed(n) ==
  /\ \/ /\ req[n].kind = "claim" /\ req[n].at = "hash"
        /\ Created(n) # db
        /\ db' \in {Created(n)} \cup Binding(n, Created(n), n)
     \/ /\ req[n].kind = "claim" /\ req[n].at = "verify"
        /\ Verified(n)
        /\ db' \in Binding(n, db, req[n].account)
     \/ /\ req[n].kind = "login" /\ req[n].at = "verify"
        /\ Verified(n)
        /\ db' \in Opening(db, n, req[n].account)
     \/ /\ req[n].kind = "reset" /\ req[n].at = "hash"
        /\ db' = PasswordSet(n)
  /\ CutAll

Tick ==
  /\ now < MaxNow
  /\ now' = now + 1
  /\ UNCHANGED <<db, bucket, req>>

\* Ways to claim: the name new or taken, the password right, wrong or invalid.
Attempts ==
  {<<"register", "u2", "p1">>, <<"register", "u1", "p1">>,
   <<"register", "u2", "short">>, <<"login", "u1", "p1">>,
   <<"login", "u1", "p2">>, <<"login", "u2", "p1">>}

ClaimStep(n) ==
  \/ \E i \in Sql!Ids(db.invites) \cup {0}, t \in Attempts :
       ClaimInvite(n, i, TRUE, t[1], t[2], t[3])
  \/ \E i \in Sql!Ids(db.invites) :
       ClaimInvite(n, i, FALSE, "register", "u2", "p1")
  \/ ClaimRefused(n) \/ ClaimRegisters(n) \/ ClaimLogsIn(n)
  \/ ClaimCreates(n) \/ ClaimVerified(n)

PlayerStep(n) ==
  \/ \E name \in Usernames, pass \in Passwords : Login(n, name, pass)
  \/ LoginVerified(n)
  \/ \E s \in Sql!Ids(db.sessions) :
       \/ Refresh(n, s) \/ Logout(n, s) \/ LogoutAll(n, s)
       \/ \E csrf \in BOOLEAN : Unauthorised(n, s, csrf)
       \/ \E pass \in Passwords : ChangePassword(n, s, pass, "p2")
  \/ ChangeVerified(n) \/ ChangeHashed(n)

AdminStep(n) ==
  \/ \E a \in Sql!Ids(db.accounts) :
       RevokeSessions(n, a) \/ ResetPassword(n, a, "p2")
  \/ ResetHashed(n)
  \/ CreateCampaign(n)
  \/ \E c \in Sql!Ids(db.campaigns) :
       RenameCampaign(n, c) \/ DeleteCampaign(n, c) \/ CreateSeat(n, c)
  \/ \E seat \in db.seats :
       \/ DeleteSeat(n, seat)
       \/ \E c \in Sql!Ids(db.campaigns) : CreateInvite(n, c, seat.id)
       \/ \E isActive \in BOOLEAN : UpdateSeat(n, seat, "gm", isActive)
  \/ InviteHashed(n)
  \/ \E c \in Sql!Ids(db.campaigns), i \in Sql!Ids(db.invites) : RevokeInvite(n, c, i)

Next ==
  \/ \E n \in Requests : ClaimStep(n) \/ PlayerStep(n) \/ AdminStep(n)
  \/ \E n \in Requests : Killed(n)
  \/ Restart
  \/ Tick

Spec == Init /\ [][Next]_vars

----------------------------------------------------------------------------
(* Properties *)

\* Two registrations of one name that run through the hash of the password
\* together end as one account.
OneAccountPerName ==
  \A a, b \in db.accounts : a.username = b.username => a = b

\* Every use an invite has lost was spent by one request, and no request
\* spends two: concurrent claims never share a use, whatever became of them.
UsesAccounted ==
  \A i \in db.invites :
    /\ i.usesRemaining >= 0
    /\ i.maxUses - i.usesRemaining
       = Cardinality({n \in Requests : req[n].invite = i.id /\ req[n].spent})

\* A claim that was granted holds its seat, for as long as there is the seat:
\* of two claims that both found it free only one is granted.
GrantedSeatIsHeld ==
  \A n \in Requests :
    req[n].kind = "claim" /\ req[n].status = "ok" =>
      \A s \in db.seats : s.id = req[n].seat =>
        /\ s.accountId = req[n].account
        /\ s.isActive => s \in MySeats(db, req[n].account)

\* No account has more sessions alive than the cap.
SessionsCapped ==
  \A a \in Sql!Ids(db.accounts) :
    Sql!countActiveAuthSessionsForAccount(db, a, now) <= SESSION_CAP

\* A seat that is bound was bound by a claim of it that had spent a use of an
\* invite, to the account the claim made or whose password it gave: a claim
\* that was refused leaves no seat bound, and one that the process died in
\* leaves its own account on the seat or none.
SeatBoundByClaim ==
  \A s \in db.seats : s.accountId # NULL =>
    \E n \in Requests :
      /\ req[n].kind = "claim" /\ req[n].seat = s.id /\ req[n].spent
      /\ req[n].status \in {"ok", "cut"}
      /\ s.accountId = IF req[n].account = NULL THEN n ELSE req[n].account

\* A seat that is bound is never bound to another account, by any route.
SeatStaysBound ==
  [][\A s \in db.seats : s.accountId # NULL =>
       \A t \in db'.seats : t.id = s.id => t.accountId = s.accountId]_vars

\* A use is spent only for a player whose account is validated or created,
\* as docs/components/auth-join-flow.md orders the steps of a claim.
UseSpentForAccount ==
  \A n \in Requests : req[n].spent =>
    req[n].status \notin {"INVALID_CREDENTIALS", "USERNAME_TAKEN",
                          "PASSWORD_TOO_SHORT", "RATE_LIMITED"}

=============================================================================
