---------------------------- MODULE AccountsProofs ----------------------------
(***************************************************************************)
(* Theorems about Accounts for any number of requests, any caps and names, *)
(* however the steps of the requests interleave and wherever the process   *)
(* dies, between two steps or between the statements of one.               *)
(***************************************************************************)
EXTENDS Accounts, FiniteSetTheorems, TLAPS

Name == Usernames \cup {"u1", "u2", NULL}
Hash == Passwords \cup {"p1", "p2", "short", NULL}
Ref == Nat \cup {NULL}

Titles == {"c", "renamed"}
Roles == {"player", "gm"}
Kinds == {"none", "claim", "login", "change", "player", "reset", "admin", "invite"}

CampaignRow == [id : Nat, name : Titles]
SeatRow == [id : Nat, campaignId : Nat, role : Roles, accountId : Ref,
            isActive : BOOLEAN]
InviteRow == [id : Nat, campaignId : Nat, seatId : Nat, maxUses : Nat,
              usesRemaining : Nat, expiresAt : Nat, revoked : BOOLEAN]
AccountRow == [id : Nat, username : Name, passwordHash : Hash,
               mustChangePassword : BOOLEAN, lastLoginAt : Ref]

Databases ==
  [campaigns : SUBSET CampaignRow, seats : SUBSET SeatRow, invites : SUBSET InviteRow,
   accounts : SUBSET AccountRow, sessions : SUBSET SessionRow,
   entities : {{}}, events : {{}}, snapshots : {{}}, admins : {{}},
   adminSessions : {{}}, settings : {{}}]

\* An id is the id of one row.
UniqueIds(rows) == \A r, s \in rows : r.id = s.id => r = s

\* What every statement of the routes keeps of the database.
DbOK(d) ==
  /\ d \in Databases
  /\ Sql!ForeignKeysHold(d) /\ Sql!UniqueKeysHold(d)
  /\ UniqueIds(d.seats) /\ UniqueIds(d.invites)
  /\ IsFiniteSet(d.sessions)

----------------------------------------------------------------------------
(* The inductive invariant *)

Reqs ==
  [at : {"new", "pin", "verify", "hash", "done"}, kind : Kinds, invite : Ref,
   seat : Ref, campaign : Ref, pin : BOOLEAN, mode : {"register", "login", NULL}, name : Name,
   pass : Hash, next : Hash, account : Ref, hash : Hash, spent : BOOLEAN,
   status : Statuses \cup {NULL}]

TypeOK == now \in Nat /\ req \in [Requests -> Reqs] /\ DbOK(db)

\* An id a request may hold or a row may have: of the rows there were at the
\* start, or of one that an answered request has made.
Known(k) == k = 0 \/ (k \in Requests /\ req[k].at = "done")

IdsKnown ==
  \A k \in Sql!Ids(db.seats) \cup Sql!Ids(db.invites) \cup Sql!Ids(db.accounts)
            \cup Sql!Ids(db.sessions) : Known(k)

\* What a request holds from one of its steps to the next.
HoldsWell(n) ==
  LET r == req[n]
  IN  /\ r.at # "done" => r.status = NULL
      /\ r.at \in {"new", "pin"} => ~r.spent /\ r.account = NULL
      /\ r.invite # NULL => Known(r.invite)
      /\ r.seat # NULL => Known(r.seat)
      /\ r.at = "verify" /\ r.account # NULL => r.account \in Sql!Ids(db.accounts)
      /\ r.kind = "claim" /\ r.status = "ok" => r.account \in Nat
      /\ r.kind = "claim" /\ r.at \in {"verify", "hash"} => r.spent
      /\ r.kind = "claim" /\ r.at = "hash" => r.account = NULL

RequestsHoldWell == \A n \in Requests : HoldsWell(n)

IInv ==
  /\ TypeOK /\ IdsKnown /\ RequestsHoldWell
  /\ UsesAccounted /\ GrantedSeatIsHeld /\ SessionsCapped /\ SeatBoundByClaim

----------------------------------------------------------------------------
(* What a statement of the storage does to the database d: e is what it    *)
(* leaves, and the rows that are new have their ids in N.                  *)

AccountsMove(d, e, N) ==
  /\ Sql!Ids(d.accounts) \subseteq Sql!Ids(e.accounts)
  /\ Sql!Ids(e.accounts) \subseteq Sql!Ids(d.accounts) \cup N

SessionsMove(d, e, N) == Sql!Ids(e.sessions) \subseteq Sql!Ids(d.sessions) \cup N

\* A seat is bound only if it was free.
SeatsMove(d, e, N) ==
  \A t \in e.seats :
    \/ t.id \in N
    \/ \E s \in d.seats : s.id = t.id /\ s.accountId \in {NULL, t.accountId}

InvitesMove(d, e, N) ==
  \A j \in e.invites :
    \/ j.id \in N /\ j.usesRemaining = j.maxUses
    \/ \E i \in d.invites : /\ i.id = j.id /\ i.maxUses = j.maxUses
                            /\ i.usesRemaining = j.usesRemaining

Moves(d, e, N) ==
  /\ DbOK(e)
  /\ AccountsMove(d, e, N) /\ SessionsMove(d, e, N)
  /\ SeatsMove(d, e, N) /\ InvitesMove(d, e, N)

\* No seat is bound that was not bound so before.
NoneBound(d, e) ==
  \A t \in e.seats : t.accountId # NULL =>
    \E s \in d.seats : s.id = t.id /\ s.accountId = t.accountId

LEMMA SameSeats == ASSUME NEW d, NEW e, e.seats = d.seats PROVE NoneBound(d, e)
BY DEF NoneBound

LEMMA NoneBoundComposes ==
  ASSUME NEW d, NEW e, NEW f, NoneBound(d, e), NoneBound(e, f) PROVE NoneBound(d, f)
<1> SUFFICES ASSUME NEW u \in f.seats, u.accountId # NULL
             PROVE  \E s \in d.seats : s.id = u.id /\ s.accountId = u.accountId
  BY DEF NoneBound
<1>1. PICK t \in e.seats : t.id = u.id /\ t.accountId = u.accountId
  BY DEF NoneBound
<1>2. PICK s \in d.seats : s.id = t.id /\ s.accountId = t.accountId
  BY <1>1 DEF NoneBound
<1> QED BY <1>1, <1>2

Active(d, a, t) == Sql!ActiveSessions(d, a, t)

\* No account has more sessions alive than before.
NoMoreActive(d, e) ==
  \A a, t \in Nat : Cardinality(Active(e, a, t)) <= Cardinality(Active(d, a, t))

LEMMA MovesCompose ==
  ASSUME NEW d, NEW e, NEW f, NEW N, Moves(d, e, N), Moves(e, f, N)
  PROVE  Moves(d, f, N)
<1>1. AccountsMove(d, f, N) /\ SessionsMove(d, f, N)
  BY DEF Moves, AccountsMove, SessionsMove
<1>2. SeatsMove(d, f, N)
  <2> SUFFICES ASSUME NEW t \in f.seats, t.id \notin N
               PROVE  \E s \in d.seats : s.id = t.id /\ s.accountId \in {NULL, t.accountId}
    BY DEF SeatsMove
  <2>1. PICK u \in e.seats : u.id = t.id /\ u.accountId \in {NULL, t.accountId}
    BY DEF Moves, SeatsMove
  <2>2. PICK s \in d.seats : s.id = u.id /\ s.accountId \in {NULL, u.accountId}
    BY <2>1 DEF Moves, SeatsMove
  <2> QED BY <2>1, <2>2
<1>3. InvitesMove(d, f, N)
  <2> SUFFICES ASSUME NEW k \in f.invites, ~(k.id \in N /\ k.usesRemaining = k.maxUses)
               PROVE  \E i \in d.invites : /\ i.id = k.id /\ i.maxUses = k.maxUses
                                           /\ i.usesRemaining = k.usesRemaining
    BY DEF InvitesMove
  <2>1. PICK j \in e.invites : /\ j.id = k.id /\ j.maxUses = k.maxUses
                              /\ j.usesRemaining = k.usesRemaining
    BY DEF Moves, InvitesMove
  <2>2. PICK i \in d.invites : /\ i.id = j.id /\ i.maxUses = j.maxUses
                              /\ i.usesRemaining = j.usesRemaining
    BY <2>1 DEF Moves, InvitesMove
  <2> QED BY <2>1, <2>2
<1> QED BY <1>1, <1>2, <1>3 DEF Moves

LEMMA MovesMore ==
  ASSUME NEW d, NEW e, NEW N, Moves(d, e, {})
  PROVE  Moves(d, e, N)
BY DEF Moves, AccountsMove, SessionsMove, SeatsMove, InvitesMove

LEMMA MovesNot ==
  ASSUME NEW d, DbOK(d), NEW N
  PROVE  Moves(d, d, N) /\ NoMoreActive(d, d) /\ NoneBound(d, d)
<1>1. Moves(d, d, N)
  BY DEF Moves, AccountsMove, SessionsMove, SeatsMove, InvitesMove
<1>2. \A a, t \in Nat : Cardinality(Active(d, a, t)) \in Nat
  BY FS_Subset, FS_CardinalityType DEF Active, Sql!ActiveSessions, DbOK
<1> QED BY <1>1, <1>2, SameSeats DEF NoMoreActive

----------------------------------------------------------------------------
(* A statement that replaces the rows of one table *)

LEMMA SessionsReplaced ==
  ASSUME NEW d, DbOK(d), NEW N, NEW R \in SUBSET SessionRow, IsFiniteSet(R),
         \A r \in R : r.accountId \in Sql!Ids(d.accounts),
         Sql!Ids(R) \subseteq Sql!Ids(d.sessions) \cup N,
         NEW e, e = [d EXCEPT !.sessions = R]
  PROVE  Moves(d, e, N) /\ e.sessions = R /\ e.seats = d.seats /\ e.accounts = d.accounts
<1>1. /\ e \in Databases /\ e.sessions = R
      /\ \A t \in DOMAIN d \ {"sessions"} : e[t] = d[t]
  BY DEF DbOK, Databases
<1>2. Sql!ForeignKeysHold(e) /\ Sql!UniqueKeysHold(e)
  BY <1>1 DEF DbOK, Databases, Sql!ForeignKeysHold, Sql!UniqueKeysHold, Sql!Ids
<1>3. DbOK(e)
  BY <1>1, <1>2 DEF DbOK, Databases, UniqueIds
<1>4. e.seats = d.seats /\ e.invites = d.invites /\ e.accounts = d.accounts
  BY <1>1 DEF DbOK, Databases
<1> QED
  BY <1>1, <1>3, <1>4 DEF Moves, AccountsMove, SessionsMove, SeatsMove, InvitesMove

LEMMA AccountsReplaced ==
  ASSUME NEW d, DbOK(d), NEW N, NEW R \in SUBSET AccountRow,
         \A r, s \in R : r.username = s.username => r = s,
         Sql!Ids(d.accounts) \subseteq Sql!Ids(R),
         Sql!Ids(R) \subseteq Sql!Ids(d.accounts) \cup N,
         NEW e, e = [d EXCEPT !.accounts = R]
  PROVE  Moves(d, e, N) /\ e.accounts = R /\ e.seats = d.seats /\ e.sessions = d.sessions
<1>1. /\ e \in Databases /\ e.accounts = R
      /\ \A t \in DOMAIN d \ {"accounts"} : e[t] = d[t]
  BY DEF DbOK, Databases
<1>2. /\ e.seats = d.seats /\ e.invites = d.invites /\ e.sessions = d.sessions
      /\ e.campaigns = d.campaigns
  BY <1>1 DEF DbOK, Databases
<1>3. Sql!ForeignKeysHold(e) /\ Sql!UniqueKeysHold(e)
  BY <1>1, <1>2 DEF DbOK, Databases, Sql!ForeignKeysHold, Sql!UniqueKeysHold
<1>4. DbOK(e)
  BY <1>1, <1>2, <1>3 DEF DbOK
<1> QED
  BY <1>1, <1>2, <1>4 DEF Moves, AccountsMove, SessionsMove, SeatsMove, InvitesMove

\* Seats R and the invites V to them that d may have.
Fit(d, R, V) ==
  /\ R \in SUBSET SeatRow /\ V \in SUBSET InviteRow
  /\ UniqueIds(R) /\ UniqueIds(V)
  /\ \A s \in R : /\ s.campaignId \in Sql!Ids(d.campaigns)
                  /\ s.accountId \in Sql!Ids(d.accounts) \cup {NULL}
  /\ \A i \in V : i.campaignId \in Sql!Ids(d.campaigns) /\ i.seatId \in Sql!Ids(R)

With(d, R, V) == [d EXCEPT !.seats = R, !.invites = V]

LEMMA SeatsReplaced ==
  ASSUME NEW d, DbOK(d), NEW N, NEW R, NEW V, Fit(d, R, V),
         NEW e, e = With(d, R, V),
         SeatsMove(d, e, N), InvitesMove(d, e, N)
  PROVE  Moves(d, e, N) /\ e.seats = R /\ e.sessions = d.sessions /\ e.accounts = d.accounts
<1>1. /\ e \in Databases /\ e.seats = R /\ e.invites = V
      /\ \A t \in DOMAIN d \ {"seats", "invites"} : e[t] = d[t]
  BY DEF DbOK, Databases, Fit, With
<1>2. /\ e.campaigns = d.campaigns /\ e.sessions = d.sessions
      /\ e.accounts = d.accounts
  BY <1>1 DEF DbOK, Databases
<1>3. Sql!ForeignKeysHold(e) /\ Sql!UniqueKeysHold(e)
  BY <1>1, <1>2 DEF Fit, DbOK, Databases, Sql!ForeignKeysHold, Sql!UniqueKeysHold
<1>4. DbOK(e)
  BY <1>1, <1>2, <1>3 DEF DbOK, Fit
<1> QED BY <1>1, <1>2, <1>4 DEF Moves, AccountsMove, SessionsMove

LEMMA CampaignsReplaced ==
  ASSUME NEW d, DbOK(d), NEW N, NEW R \in SUBSET CampaignRow,
         Sql!Ids(d.campaigns) \subseteq Sql!Ids(R),
         NEW e, e = [d EXCEPT !.campaigns = R]
  PROVE  Moves(d, e, N) /\ e.seats = d.seats /\ e.sessions = d.sessions
<1>1. /\ e \in Databases /\ e.campaigns = R
      /\ \A t \in DOMAIN d \ {"campaigns"} : e[t] = d[t]
  BY DEF DbOK, Databases
<1>2. /\ e.seats = d.seats /\ e.invites = d.invites /\ e.sessions = d.sessions
      /\ e.accounts = d.accounts
  BY <1>1 DEF DbOK, Databases
<1>3. Sql!ForeignKeysHold(e) /\ Sql!UniqueKeysHold(e)
  BY <1>1, <1>2 DEF DbOK, Databases, Sql!ForeignKeysHold, Sql!UniqueKeysHold
<1>4. DbOK(e)
  BY <1>1, <1>2, <1>3 DEF DbOK
<1> QED BY <1>2, <1>4 DEF Moves, AccountsMove, SessionsMove, SeatsMove, InvitesMove

\* A statement that leaves the sessions alone leaves their number alone.
LEMMA SameSessions ==
  ASSUME NEW d, DbOK(d), NEW e, e.sessions = d.sessions
  PROVE  NoMoreActive(d, e)
<1>1. \A a, t \in Nat : Cardinality(Active(d, a, t)) \in Nat
  BY FS_Subset, FS_CardinalityType DEF Active, Sql!ActiveSessions, DbOK
<1>2. \A a, t \in Nat : Active(e, a, t) = Active(d, a, t)
  BY DEF Active, Sql!ActiveSessions
<1> QED BY <1>1, <1>2 DEF NoMoreActive

----------------------------------------------------------------------------
(* The statements on campaigns, seats and invites *)

LEMMA createCampaignMoves ==
  ASSUME NEW d, DbOK(d), NEW n \in Nat, NEW name \in Titles,
         NEW e, e = Sql!createCampaign(d, n, name)
  PROVE  Moves(d, e, {n}) /\ e.sessions = d.sessions /\ e.seats = d.seats
<1> DEFINE R == d.campaigns \cup {[id |-> n, name |-> name]}
<1>1. R \in SUBSET CampaignRow /\ Sql!Ids(d.campaigns) \subseteq Sql!Ids(R)
  BY DEF DbOK, Databases, CampaignRow, Sql!Ids
<1>2. e = [d EXCEPT !.campaigns = R]
  BY DEF Sql!createCampaign
<1> QED BY <1>1, <1>2, CampaignsReplaced

LEMMA updateCampaignMoves ==
  ASSUME NEW d, DbOK(d), NEW c, NEW name \in Titles,
         NEW e, e = Sql!updateCampaign(d, c, name)
  PROVE  Moves(d, e, {}) /\ e.sessions = d.sessions /\ e.seats = d.seats
<1> DEFINE F(r) == IF r.id = c THEN [r EXCEPT !.name = name] ELSE r
           R == {F(r) : r \in d.campaigns}
<1>1. \A r \in d.campaigns : F(r) \in CampaignRow /\ F(r).id = r.id
  BY DEF DbOK, Databases, CampaignRow
<1>2. e = [d EXCEPT !.campaigns = R]
  BY DEF Sql!updateCampaign
<1> HIDE DEF F
<1>3. R \in SUBSET CampaignRow /\ Sql!Ids(d.campaigns) \subseteq Sql!Ids(R)
  BY <1>1 DEF Sql!Ids
<1> HIDE DEF R
<1> QED BY <1>2, <1>3, CampaignsReplaced

LEMMA deleteCampaignMoves ==
  ASSUME NEW d, DbOK(d), NEW c, NEW n, NEW e, e = Sql!deleteCampaign(d, c)
  PROVE  Moves(d, e, {n}) /\ e.sessions = d.sessions /\ NoneBound(d, e)
<1>1. /\ e.campaigns = {r \in d.campaigns : r.id # c}
      /\ e.seats = {r \in d.seats : r.campaignId # c}
      /\ e.invites = {i \in {r \in d.invites : r.campaignId # c} :
                        i.seatId \in Sql!Ids({r \in d.seats : r.campaignId # c})}
      /\ e.accounts = d.accounts /\ e.sessions = d.sessions
      /\ e.admins = {} /\ e.adminSessions = {} /\ e.settings = {}
      /\ e.entities = {} /\ e.events = {} /\ e.snapshots = {}
      /\ e.accounts = d.accounts
  BY DEF Sql!deleteCampaign, DbOK, Databases
<1>2. e \in Databases
  BY <1>1 DEF Sql!deleteCampaign, DbOK, Databases
<1>3. Sql!ForeignKeysHold(e) /\ Sql!UniqueKeysHold(e)
  BY <1>1 DEF DbOK, Sql!ForeignKeysHold, Sql!UniqueKeysHold, Sql!Ids
<1>4. DbOK(e)
  BY <1>1, <1>2, <1>3 DEF DbOK, UniqueIds
<1>5. NoneBound(d, e)
  BY <1>1 DEF NoneBound
<1> QED
  BY <1>1, <1>4, <1>5 DEF Moves, AccountsMove, SessionsMove, SeatsMove, InvitesMove, Sql!Ids

LEMMA createSeatMoves ==
  ASSUME NEW d, DbOK(d), NEW c, NEW n \in Nat, n \notin Sql!Ids(d.seats), NEW role \in Roles,
         NEW e, e = Sql!createSeat(d, c, n, role)
  PROVE  Moves(d, e, {n}) /\ e.sessions = d.sessions /\ NoneBound(d, e)
<1> DEFINE row == [id |-> n, campaignId |-> c, role |-> role, accountId |-> NULL,
                   isActive |-> TRUE]
           R == d.seats \cup {row}
           f == With(d, R, d.invites)
<1>1. e = IF Sql!ForeignKeysHold(f) /\ Sql!UniqueKeysHold(f) THEN f ELSE d
  <2>1. f = [d EXCEPT !.seats = @ \cup {row}]
    BY DEF DbOK, Databases, With
  <2> QED BY <2>1 DEF Sql!createSeat, Sql!Stored
<1>2. CASE e = d
  BY <1>2, MovesNot, SameSeats
<1>3. CASE e = f /\ Sql!ForeignKeysHold(f)
  <2>1. f.seats = R /\ f.invites = d.invites /\ f.campaigns = d.campaigns
    BY DEF DbOK, Databases, With
  <2>0. NoneBound(d, f)
    <3>1. row.accountId = NULL
      OBVIOUS
    <3> HIDE DEF row, f
    <3> QED BY <2>1, <3>1 DEF NoneBound
  <2>2. row \in SeatRow
    <3>1. c \in Sql!Ids(d.campaigns)
      <4>1. row \in f.seats /\ row.campaignId = c
        BY <2>1
      <4> HIDE DEF row, f
      <4> QED BY <1>3, <2>1, <4>1 DEF Sql!ForeignKeysHold
    <3> QED BY <3>1 DEF SeatRow, DbOK, Databases, CampaignRow, Sql!Ids, Ref
  <2>3. R \in SUBSET SeatRow /\ UniqueIds(R)
    <3>1. row.id = n
      OBVIOUS
    <3> HIDE DEF row
    <3> QED BY <2>2, <3>1 DEF DbOK, Databases, UniqueIds, Sql!Ids
  <2>4. SeatsMove(d, f, {n}) /\ InvitesMove(d, f, {n})
    BY <2>1, SMTT(20) DEF SeatsMove, InvitesMove
  <2>5. /\ \A s \in R : /\ s.campaignId \in Sql!Ids(d.campaigns)
                        /\ s.accountId \in Sql!Ids(d.accounts) \cup {NULL}
        /\ \A i \in d.invites : /\ i.campaignId \in Sql!Ids(d.campaigns)
                                /\ i.seatId \in Sql!Ids(R)
    <3>1. f.accounts = d.accounts
      BY DEF DbOK, Databases, With
    <3> QED BY <1>3, <2>1, <3>1 DEF Sql!ForeignKeysHold
  <2>6. d.invites \in SUBSET InviteRow /\ UniqueIds(d.invites)
    BY DEF DbOK, Databases, With
  <2> HIDE DEF R, f
  <2>7. Fit(d, R, d.invites)
    BY <2>3, <2>5, <2>6 DEF Fit
  <2> QED BY <1>3, <2>0, <2>4, <2>7, SeatsReplaced DEF f
<1> QED BY <1>1, <1>2, <1>3

LEMMA deleteSeatMoves ==
  ASSUME NEW d, DbOK(d), NEW c, NEW k, NEW e, e = Sql!deleteSeat(d, c, k)
  PROVE  Moves(d, e, {}) /\ e.sessions = d.sessions /\ NoneBound(d, e)
<1> DEFINE R == {s \in d.seats : ~(s.id = k /\ s.campaignId = c)}
           V == {i \in d.invites : i.seatId \in Sql!Ids(R)}
<1>1. e = With(d, R, V) /\ e.seats = R /\ e.invites = V
  BY DEF With, Sql!deleteSeat, DbOK, Databases
<1>2. R \subseteq d.seats /\ V \subseteq d.invites
  OBVIOUS
<1>3. Fit(d, R, V)
  BY DEF Fit, DbOK, Databases, UniqueIds, Sql!ForeignKeysHold
<1>4. SeatsMove(d, e, {}) /\ InvitesMove(d, e, {}) /\ NoneBound(d, e)
  BY <1>1, <1>2 DEF SeatsMove, InvitesMove, NoneBound
<1> HIDE DEF R, V
<1> QED BY <1>1, <1>3, <1>4, SeatsReplaced

LEMMA createInviteMoves ==
  ASSUME NEW d, DbOK(d), NEW c, NEW k, NEW n \in Nat, n \notin Sql!Ids(d.invites),
         NEW uses \in Nat, NEW expiry \in Nat,
         NEW e, e = Sql!createInvite(d, c, k, n, uses, expiry)
  PROVE  Moves(d, e, {n}) /\ e.sessions = d.sessions /\ e.seats = d.seats
<1> DEFINE row == [id |-> n, campaignId |-> c, seatId |-> k, maxUses |-> uses,
                   usesRemaining |-> uses, expiresAt |-> expiry, revoked |-> FALSE]
           V == d.invites \cup {row}
           f == With(d, d.seats, V)
<1>1. e = IF Sql!ForeignKeysHold(f) /\ Sql!UniqueKeysHold(f) THEN f ELSE d
  <2>1. f = [d EXCEPT !.invites = @ \cup {row}]
    BY DEF DbOK, Databases, With
  <2> QED BY <2>1 DEF Sql!createInvite, Sql!Stored
<1>2. CASE e = d
  BY <1>2, MovesNot
<1>3. CASE e = f /\ Sql!ForeignKeysHold(f)
  <2>1. /\ f.seats = d.seats /\ f.invites = V /\ f.campaigns = d.campaigns
        /\ f.accounts = d.accounts
    BY DEF DbOK, Databases, With
  <2>2. row \in InviteRow
    <3>1. c \in Sql!Ids(d.campaigns) /\ k \in Sql!Ids(d.seats)
      <4>1. row \in f.invites /\ row.campaignId = c /\ row.seatId = k
        BY <2>1
      <4> HIDE DEF row, f
      <4> QED BY <1>3, <2>1, <4>1 DEF Sql!ForeignKeysHold
    <3> QED BY <3>1 DEF InviteRow, DbOK, Databases, CampaignRow, SeatRow, Sql!Ids
  <2>3. V \in SUBSET InviteRow /\ UniqueIds(V)
    <3>1. row.id = n
      OBVIOUS
    <3> HIDE DEF row
    <3> QED BY <2>2, <3>1 DEF DbOK, Databases, UniqueIds, Sql!Ids
  <2>4. SeatsMove(d, f, {n}) /\ InvitesMove(d, f, {n})
    <3>1. SeatsMove(d, f, {n})
      BY <2>1 DEF SeatsMove
    <3>2. row.id = n /\ row.usesRemaining = row.maxUses
      OBVIOUS
    <3> HIDE DEF row, f
    <3>3. InvitesMove(d, f, {n})
      BY <2>1, <3>2 DEF InvitesMove
    <3> QED BY <3>1, <3>3
  <2>5. /\ \A s \in d.seats : /\ s.campaignId \in Sql!Ids(d.campaigns)
                              /\ s.accountId \in Sql!Ids(d.accounts) \cup {NULL}
        /\ \A i \in V : /\ i.campaignId \in Sql!Ids(d.campaigns)
                        /\ i.seatId \in Sql!Ids(d.seats)
    BY <1>3, <2>1 DEF Sql!ForeignKeysHold
  <2>6. d.seats \in SUBSET SeatRow /\ UniqueIds(d.seats)
    BY DEF DbOK, Databases, With
  <2> HIDE DEF V, f
  <2>7. Fit(d, d.seats, V)
    BY <2>3, <2>5, <2>6 DEF Fit
  <2> QED BY <1>3, <2>4, <2>7, SeatsReplaced DEF f
<1> QED BY <1>1, <1>2, <1>3

LEMMA revokeInviteMoves ==
  ASSUME NEW d, DbOK(d), NEW k, NEW n, NEW e, e = Sql!revokeInvite(d, k)
  PROVE  Moves(d, e, {n}) /\ e.sessions = d.sessions /\ e.seats = d.seats
<1> DEFINE F(i) == IF i.id = k THEN [i EXCEPT !.revoked = TRUE] ELSE i
           V == {F(i) : i \in d.invites}
<1>1. e = With(d, d.seats, V) /\ e.invites = V /\ e.seats = d.seats
  BY DEF With, Sql!revokeInvite, DbOK, Databases
<1>2. \A i \in d.invites : /\ F(i) \in InviteRow /\ F(i).id = i.id
                           /\ F(i).campaignId = i.campaignId /\ F(i).seatId = i.seatId
                           /\ F(i).maxUses = i.maxUses
                           /\ F(i).usesRemaining = i.usesRemaining
  BY DEF DbOK, Databases, InviteRow
<1> HIDE DEF F
<1>3. V \in SUBSET InviteRow /\ UniqueIds(V)
  BY <1>2 DEF DbOK, UniqueIds
<1>4. Fit(d, d.seats, V)
  BY <1>2, <1>3 DEF Fit, DbOK, Databases, Sql!ForeignKeysHold
<1>5. SeatsMove(d, e, {n}) /\ InvitesMove(d, e, {n})
  BY <1>1, <1>2 DEF SeatsMove, InvitesMove
<1> HIDE DEF V
<1> QED BY <1>1, <1>4, <1>5, SeatsReplaced

\* A use is spent of one invite, and nothing else changes.
LEMMA consumeMoves ==
  ASSUME NEW d, DbOK(d), NEW k, NEW t, NEW e, e = Sql!consumeInviteAtomic(d, k, t)
  PROVE  /\ DbOK(e) /\ e.accounts = d.accounts /\ e.seats = d.seats
         /\ e.sessions = d.sessions
         /\ \A j \in e.invites : \E i \in d.invites :
              /\ i.id = j.id /\ i.maxUses = j.maxUses
              /\ j.usesRemaining = IF i \in Sql!Consumable(d, k, t)
                                   THEN i.usesRemaining - 1 ELSE i.usesRemaining
<1> DEFINE F(i) == IF i \in Sql!Consumable(d, k, t)
                   THEN [i EXCEPT !.usesRemaining = @ - 1] ELSE i
           V == {F(i) : i \in d.invites}
<1>1. /\ e.invites = V /\ e.seats = d.seats /\ e.accounts = d.accounts
      /\ e.sessions = d.sessions /\ e.campaigns = d.campaigns
      /\ \A u \in DOMAIN d \ {"invites"} : e[u] = d[u]
  BY DEF Sql!consumeInviteAtomic, DbOK, Databases
<1>2. \A i \in d.invites :
        /\ F(i) \in InviteRow /\ F(i).id = i.id
        /\ F(i).campaignId = i.campaignId /\ F(i).seatId = i.seatId
        /\ F(i).maxUses = i.maxUses
        /\ F(i).usesRemaining = IF i \in Sql!Consumable(d, k, t)
                                THEN i.usesRemaining - 1 ELSE i.usesRemaining
  BY DEF DbOK, Databases, InviteRow, Sql!Consumable
<1>3. e = [d EXCEPT !.invites = V]
  BY DEF Sql!consumeInviteAtomic
<1> HIDE DEF F
<1>4. e \in Databases
  <2>1. V \in SUBSET InviteRow
    BY <1>2
  <2> QED BY <1>3, <2>1 DEF DbOK, Databases
<1>5. Sql!ForeignKeysHold(e) /\ Sql!UniqueKeysHold(e)
  <2>1. \A j \in V : j.campaignId \in Sql!Ids(d.campaigns) /\ j.seatId \in Sql!Ids(d.seats)
    BY <1>2 DEF DbOK, Sql!ForeignKeysHold
  <2> HIDE DEF V
  <2> QED BY <1>1, <2>1 DEF DbOK, Databases, Sql!ForeignKeysHold, Sql!UniqueKeysHold
<1>6. UniqueIds(e.invites)
  BY <1>1, <1>2 DEF DbOK, UniqueIds
<1> QED BY <1>1, <1>2, <1>4, <1>5, <1>6 DEF DbOK

\* The row of a seat written: its account is one there is, or none, and not
\* another than it had.
Rewrites(d, seat, data, row) ==
  /\ row = Sql!Assign(seat, data) /\ row \in SeatRow
  /\ row.id = seat.id /\ row.campaignId = seat.campaignId
  /\ row.accountId \in Sql!Ids(d.accounts) \cup {NULL}
  /\ seat.accountId \in {NULL, row.accountId}

LEMMA updateSeatMoves ==
  ASSUME NEW d, DbOK(d), NEW seat \in d.seats, NEW data, NEW row,
         Rewrites(d, seat, data, row),
         NEW e, e = Sql!updateSeat(d, seat.campaignId, seat.id, data)
  PROVE  /\ Moves(d, e, {}) /\ e.sessions = d.sessions /\ e.accounts = d.accounts
         /\ e.seats = (d.seats \ {seat}) \cup {row}
<1> DEFINE F(s) == IF s.id = seat.id /\ s.campaignId = seat.campaignId
                   THEN Sql!Assign(s, data) ELSE s
           R == {F(s) : s \in d.seats}
           f == With(d, R, d.invites)
<1>1. Sql!updateSeat(d, seat.campaignId, seat.id, data) = Sql!Stored(d, f)
  <2>1. f = [d EXCEPT !.seats = {F(s) : s \in @}]
    BY DEF DbOK, Databases, With
  <2> QED BY <2>1 DEF Sql!updateSeat
<1>0. /\ row = Sql!Assign(seat, data) /\ row \in SeatRow
      /\ row.id = seat.id /\ row.campaignId = seat.campaignId
      /\ row.accountId \in Sql!Ids(d.accounts) \cup {NULL}
      /\ seat.accountId \in {NULL, row.accountId}
  BY DEF Rewrites
<1>2. \A s \in d.seats : F(s) = IF s = seat THEN row ELSE s
  BY <1>0 DEF DbOK, UniqueIds
<1> HIDE DEF F
<1>3. R = (d.seats \ {seat}) \cup {row}
  BY <1>2
<1> HIDE DEF R
<1>4. f.seats = R /\ f.invites = d.invites
  BY DEF With, DbOK, Databases
<1>5. Fit(d, R, d.invites)
  <2>1. R \in SUBSET SeatRow /\ UniqueIds(R)
    BY <1>0, <1>3 DEF DbOK, Databases, UniqueIds
  <2>2. Sql!Ids(R) = Sql!Ids(d.seats)
    BY <1>0, <1>3 DEF Sql!Ids
  <2> QED BY <1>0, <1>3, <2>1, <2>2 DEF Fit, DbOK, Databases, Sql!ForeignKeysHold
<1>6. SeatsMove(d, f, {}) /\ InvitesMove(d, f, {})
  <2>1. InvitesMove(d, f, {})
    BY <1>4 DEF InvitesMove
  <2>2. \A t \in R : \E s \in d.seats : s.id = t.id /\ s.accountId \in {NULL, t.accountId}
    BY <1>0, <1>3
  <2> QED BY <1>4, <2>1, <2>2 DEF SeatsMove
<1> HIDE DEF f
<1>7. Moves(d, f, {}) /\ f.sessions = d.sessions /\ f.accounts = d.accounts
  BY <1>5, <1>6, SeatsReplaced DEF f
<1>8. e = f
  BY <1>1, <1>7 DEF Moves, DbOK, Sql!Stored
<1> QED BY <1>3, <1>4, <1>7, <1>8

----------------------------------------------------------------------------
(* The statements on accounts *)

LEMMA createPlayerAccountMoves ==
  ASSUME NEW d, DbOK(d), NEW n \in Nat, NEW name \in Name, NEW hash \in Hash,
         NEW e, e = Sql!createPlayerAccount(d, n, name, hash)
  PROVE  /\ Moves(d, e, {n}) /\ e.sessions = d.sessions /\ e.seats = d.seats
         /\ e = d \/ n \in Sql!Ids(e.accounts)
<1> DEFINE row == [id |-> n, username |-> name, passwordHash |-> hash,
                   mustChangePassword |-> FALSE, lastLoginAt |-> NULL]
           R == d.accounts \cup {row}
           f == [d EXCEPT !.accounts = R]
<1>1. e = IF Sql!ForeignKeysHold(f) /\ Sql!UniqueKeysHold(f) THEN f ELSE d
  BY DEF Sql!createPlayerAccount, Sql!Stored
<1>2. CASE e = d
  BY <1>2, MovesNot
<1>3. CASE e = f /\ Sql!UniqueKeysHold(f)
  <2>1. f.accounts = R
    BY DEF DbOK, Databases
  <2>2. row \in AccountRow /\ row.id = n
    BY DEF AccountRow, Ref
  <2> HIDE DEF row
  <2>3. /\ R \in SUBSET AccountRow /\ Sql!Ids(d.accounts) \subseteq Sql!Ids(R)
        /\ Sql!Ids(R) \subseteq Sql!Ids(d.accounts) \cup {n} /\ n \in Sql!Ids(R)
    BY <2>2 DEF DbOK, Databases, Sql!Ids
  <2>4. \A r, s \in R : r.username = s.username => r = s
    <3> HIDE DEF R, f
    <3> QED BY <1>3, <2>1 DEF Sql!UniqueKeysHold
  <2> HIDE DEF R
  <2> QED BY <1>3, <2>1, <2>3, <2>4, AccountsReplaced
<1> QED BY <1>1, <1>2, <1>3

\* Rows of accounts rewritten, their ids and names kept.
Renews(d, f) ==
  /\ DOMAIN f = d.accounts
  /\ \A a \in d.accounts : /\ f[a] \in AccountRow /\ f[a].id = a.id
                           /\ f[a].username = a.username
Renewed(d, f) == [d EXCEPT !.accounts = {f[a] : a \in d.accounts}]

LEMMA AccountsRenewed ==
  ASSUME NEW d, DbOK(d), NEW N, NEW f, Renews(d, f), NEW e, e = Renewed(d, f)
  PROVE  /\ Moves(d, e, N) /\ e.sessions = d.sessions /\ e.seats = d.seats
         /\ Sql!Ids(e.accounts) = Sql!Ids(d.accounts)
<1> DEFINE R == {f[a] : a \in d.accounts}
<1>1. R \in SUBSET AccountRow /\ Sql!Ids(R) = Sql!Ids(d.accounts)
  BY DEF Renews, Sql!Ids
<1>2. \A r, s \in R : r.username = s.username => r = s
  BY DEF Renews, DbOK, Sql!UniqueKeysHold
<1>3. e = [d EXCEPT !.accounts = R]
  BY DEF Renewed
<1> HIDE DEF R
<1> QED BY <1>1, <1>2, <1>3, AccountsReplaced

LEMMA updatePlayerAccountLastLoginMoves ==
  ASSUME NEW d, DbOK(d), NEW a, NEW t \in Nat, NEW N,
         NEW e, e = Sql!updatePlayerAccountLastLogin(d, a, t)
  PROVE  /\ Moves(d, e, N) /\ e.sessions = d.sessions /\ e.seats = d.seats
         /\ Sql!Ids(e.accounts) = Sql!Ids(d.accounts)
<1> DEFINE f == [r \in d.accounts |-> IF r.id = a THEN [r EXCEPT !.lastLoginAt = t] ELSE r]
<1>1. Renews(d, f)
  BY DEF Renews, DbOK, Databases, AccountRow, Ref
<1>2. e = Renewed(d, f)
  BY DEF Renewed, Sql!updatePlayerAccountLastLogin
<1> HIDE DEF f
<1> QED BY <1>1, <1>2, AccountsRenewed

LEMMA setPlayerAccountMustChangePasswordMoves ==
  ASSUME NEW d, DbOK(d), NEW a, NEW flag \in BOOLEAN, NEW hash \in Hash,
         NEW e, e = Sql!setPlayerAccountMustChangePassword(d, a, flag, hash)
  PROVE  /\ Moves(d, e, {}) /\ e.sessions = d.sessions /\ e.seats = d.seats
         /\ Sql!Ids(e.accounts) = Sql!Ids(d.accounts)
<1> DEFINE G(r) == IF r.id # a THEN r
                   ELSE [r EXCEPT !.mustChangePassword = flag,
                                  !.passwordHash = IF hash = NULL THEN @ ELSE hash]
           f == [r \in d.accounts |-> G(r)]
<1>1. Renews(d, f)
  BY DEF Renews, DbOK, Databases, AccountRow
<1>2. e = Renewed(d, f)
  BY DEF Renewed, Sql!setPlayerAccountMustChangePassword
<1> HIDE DEF f
<1> QED BY <1>1, <1>2, AccountsRenewed

----------------------------------------------------------------------------
(* The statements on sessions *)

LEMMA ActiveFinite ==
  ASSUME NEW d, DbOK(d), NEW a, NEW t
  PROVE  IsFiniteSet(Active(d, a, t)) /\ Cardinality(Active(d, a, t)) \in Nat
<1>1. Active(d, a, t) \subseteq d.sessions /\ IsFiniteSet(d.sessions)
  BY DEF Active, Sql!ActiveSessions, DbOK
<1> QED BY <1>1, FS_Subset, FS_CardinalityType

LEMMA Image ==
  ASSUME NEW S, IsFiniteSet(S), NEW f, NEW T, T \subseteq {f[x] : x \in S}
  PROVE  IsFiniteSet(T) /\ Cardinality(T) <= Cardinality(S)
<1> DEFINE g == [x \in S |-> f[x]]
           R == {f[x] : x \in S}
<1>1. g \in Surjection(S, R)
  BY DEF Surjection
<1>2. IsFiniteSet(R) /\ Cardinality(R) <= Cardinality(S)
  BY <1>1, FS_Surjection
<1>3. IsFiniteSet(T) /\ Cardinality(T) <= Cardinality(R)
  BY <1>2, FS_Subset
<1> QED BY <1>2, <1>3, FS_CardinalityType

\* Rows of sessions rewritten, none of them brought back to life.
Ages(d, f) ==
  /\ DOMAIN f = d.sessions
  /\ \A s \in d.sessions :
       /\ f[s] \in SessionRow /\ f[s].id = s.id /\ f[s].accountId = s.accountId
       /\ f[s].expiresAt = s.expiresAt /\ (s.revoked => f[s].revoked)
Aged(d, f) == [d EXCEPT !.sessions = {f[s] : s \in d.sessions}]

LEMMA SessionsAged ==
  ASSUME NEW d, DbOK(d), NEW N, NEW f, Ages(d, f), NEW e, e = Aged(d, f)
  PROVE  /\ Moves(d, e, N) /\ NoMoreActive(d, e) /\ e.seats = d.seats
         /\ e.accounts = d.accounts
<1> DEFINE R == {f[s] : s \in d.sessions}
<1>1. R \in SUBSET SessionRow /\ IsFiniteSet(R)
  BY Image DEF Ages, DbOK
<1>2. (\A r \in R : r.accountId \in Sql!Ids(d.accounts)) /\ Sql!Ids(R) = Sql!Ids(d.sessions)
  BY DEF Ages, DbOK, Sql!ForeignKeysHold, Sql!Ids
<1>3. e = [d EXCEPT !.sessions = R]
  BY DEF Aged
<1>4. NoMoreActive(d, e)
  <2>1. e.sessions = R
    BY <1>3 DEF DbOK, Databases
  <2>2. \A a, t \in Nat : Active(e, a, t) \subseteq {f[s] : s \in Active(d, a, t)}
    BY <2>1 DEF Active, Sql!ActiveSessions, Ages, DbOK, Databases, SessionRow
  <2> QED BY <2>2, Image, ActiveFinite DEF NoMoreActive
<1> HIDE DEF R
<1> QED BY <1>1, <1>2, <1>3, <1>4, SessionsReplaced

LEMMA updateAuthSessionMoves ==
  ASSUME NEW d, DbOK(d), NEW k, NEW t \in Nat, NEW N,
         NEW e, e = Sql!updateAuthSession(d, k, [lastUsedAt |-> t])
  PROVE  Moves(d, e, N) /\ NoMoreActive(d, e) /\ e.seats = d.seats
<1> DEFINE f == [s \in d.sessions |->
                   IF s.id = k THEN Sql!Assign(s, [lastUsedAt |-> t]) ELSE s]
<1>1. Ages(d, f)
  <2>1. \A s \in SessionRow : Sql!Assign(s, [lastUsedAt |-> t]) = [s EXCEPT !.lastUsedAt = t]
    BY DEF Sql!Assign, SessionRow
  <2>2. \A s \in SessionRow :
          LET r == [s EXCEPT !.lastUsedAt = t]
          IN  /\ r \in SessionRow /\ r.id = s.id /\ r.accountId = s.accountId
              /\ r.expiresAt = s.expiresAt /\ r.revoked = s.revoked
    BY DEF SessionRow
  <2>3. d.sessions \subseteq SessionRow
    BY DEF DbOK, Databases
  <2>4. DOMAIN f = d.sessions
    OBVIOUS
  <2>5. \A s \in d.sessions : f[s] = IF s.id = k THEN [s EXCEPT !.lastUsedAt = t] ELSE s
    BY <2>1, <2>3
  <2> HIDE DEF f
  <2>6. ASSUME NEW s \in d.sessions
        PROVE  /\ f[s] \in SessionRow /\ f[s].id = s.id /\ f[s].accountId = s.accountId
               /\ f[s].expiresAt = s.expiresAt /\ (s.revoked => f[s].revoked)
    BY <2>2, <2>3, <2>5, ZenonT(30) DEF SessionRow
  <2> QED BY <2>4, <2>6 DEF Ages
<1>2. e = Aged(d, f)
  BY DEF Aged, Sql!updateAuthSession
<1> HIDE DEF f
<1> QED BY <1>1, <1>2, SessionsAged

LEMMA revokeAuthSessionMoves ==
  ASSUME NEW d, DbOK(d), NEW k, NEW N, NEW e, e = Sql!revokeAuthSession(d, k)
  PROVE  /\ Moves(d, e, N) /\ NoMoreActive(d, e) /\ e.seats = d.seats
         /\ e.accounts = d.accounts
         /\ \A a, t : Active(e, a, t) \subseteq {s \in Active(d, a, t) : s.id # k}
<1> DEFINE f == [s \in d.sessions |-> IF s.id = k THEN [s EXCEPT !.revoked = TRUE] ELSE s]
<1>1. Ages(d, f)
  BY DEF Ages, DbOK, Databases, SessionRow
<1>2. e = Aged(d, f)
  BY DEF Aged, Sql!revokeAuthSession
<1>3. \A a, t : Active(e, a, t) \subseteq {s \in Active(d, a, t) : s.id # k}
  <2>1. e.sessions = {f[s] : s \in d.sessions}
    BY <1>2 DEF Aged, DbOK, Databases
  <2> QED BY <2>1 DEF Active, Sql!ActiveSessions, DbOK, Databases, SessionRow
<1> HIDE DEF f
<1> QED BY <1>1, <1>2, <1>3, SessionsAged

LEMMA revokeAllAuthSessionsForAccountMoves ==
  ASSUME NEW d, DbOK(d), NEW a, NEW N,
         NEW e, e = Sql!revokeAllAuthSessionsForAccount(d, a)
  PROVE  /\ Moves(d, e, N) /\ NoMoreActive(d, e) /\ e.seats = d.seats
         /\ e.accounts = d.accounts
<1> DEFINE f == [s \in d.sessions |->
                   IF s.accountId = a THEN [s EXCEPT !.revoked = TRUE] ELSE s]
<1>1. Ages(d, f)
  BY DEF Ages, DbOK, Databases, SessionRow
<1>2. e = Aged(d, f)
  BY DEF Aged, Sql!revokeAllAuthSessionsForAccount
<1> HIDE DEF f
<1> QED BY <1>1, <1>2, SessionsAged

\* Only a may have one session alive more.
OneMoreActive(d, e, a) ==
  \A b, u : \/ Active(e, b, u) \subseteq Active(d, b, u)
            \/ b = a /\ \E x : Active(e, b, u) \subseteq Active(d, b, u) \cup {x}

LEMMA createAuthSessionMoves ==
  ASSUME NEW d, DbOK(d), NEW n \in Nat, NEW a \in Sql!Ids(d.accounts), NEW expiry \in Nat,
         NEW t \in Nat, NEW e, e = Sql!createAuthSession(d, n, a, expiry, t)
  PROVE  /\ Moves(d, e, {n}) /\ e.seats = d.seats /\ e.accounts = d.accounts
         /\ OneMoreActive(d, e, a)
<1> DEFINE row == [id |-> n, accountId |-> a, expiresAt |-> expiry, createdAt |-> t,
                   lastUsedAt |-> t, revoked |-> FALSE]
           R == d.sessions \cup {row}
           f == [d EXCEPT !.sessions = R]
<1>1. e = IF Sql!ForeignKeysHold(f) /\ Sql!UniqueKeysHold(f) THEN f ELSE d
  BY DEF Sql!createAuthSession, Sql!Stored
<1>2. f.sessions = R
  BY DEF DbOK, Databases
<1>3. row \in SessionRow /\ row.id = n /\ row.accountId = a
  BY DEF SessionRow, DbOK, Databases, AccountRow, Sql!Ids
<1> HIDE DEF row
<1>4. /\ R \in SUBSET SessionRow /\ Sql!Ids(R) \subseteq Sql!Ids(d.sessions) \cup {n}
      /\ \A r \in R : r.accountId \in Sql!Ids(d.accounts)
  BY <1>3 DEF DbOK, Databases, Sql!Ids, Sql!ForeignKeysHold
<1>5. IsFiniteSet(R)
  BY FS_AddElement DEF DbOK
<1>6. Moves(d, f, {n}) /\ f.seats = d.seats /\ f.accounts = d.accounts
  <2> HIDE DEF R
  <2> QED BY <1>4, <1>5, SessionsReplaced
<1>7. e = f
  <2> HIDE DEF f
  <2> QED BY <1>1, <1>6 DEF Moves, DbOK
<1>8. ASSUME NEW b, NEW u
      PROVE  \/ Active(e, b, u) \subseteq Active(d, b, u)
             \/ b = a /\ \E x : Active(e, b, u) \subseteq Active(d, b, u) \cup {x}
  <2>1. CASE b = a
    <3>1. Active(e, b, u) \subseteq Active(d, b, u) \cup {row}
      BY <1>2, <1>7 DEF Active, Sql!ActiveSessions
    <3> QED BY <2>1, <3>1
  <2>2. CASE b # a
    BY <1>2, <1>3, <1>7, <2>2 DEF Active, Sql!ActiveSessions
  <2> QED BY <2>1, <2>2
<1> QED BY <1>6, <1>7, <1>8 DEF OneMoreActive

\* A set of numbers has a least one.
LEMMA Least ==
  ASSUME NEW S \in SUBSET Nat, S # {}
  PROVE  \E m \in S : \A k \in S : m <= k
<1> DEFINE R == {p \in Nat \X Nat : p[1] < p[2]}
<1>1. OpToRel(<, Nat) = R
  BY DEF OpToRel
<1>2. IsWellFoundedOn(R, Nat)
  BY <1>1, NatLessThanWellFounded
<1>3. PICK x \in S : \A y \in S : <<y, x>> \notin R
  BY <1>2, WFMin
<1>4. \A y \in S : ~(y < x)
  BY <1>3
<1> QED BY <1>4

LEMMA OneIsOf ==
  ASSUME NEW S, Sql!One(S) # NULL
  PROVE  Sql!One(S) \in S
BY DEF Sql!One

\* An account that has sessions has an oldest one.
LEMMA OldestIsActive ==
  ASSUME NEW d, DbOK(d), NEW a, NEW t, Active(d, a, t) # {}
  PROVE  Sql!OldestSession(d, a, t) \in Active(d, a, t)
<1> DEFINE act == Active(d, a, t)
           old == {s \in act : \A r \in act : s.createdAt <= r.createdAt}
           first == {s \in old : \A r \in old : s.id <= r.id}
<1>1. act \subseteq SessionRow
  BY DEF Active, Sql!ActiveSessions, DbOK, Databases
<1> HIDE DEF act
<1>2. old # {}
  <2> DEFINE T == {s.createdAt : s \in act}
  <2>1. T \in SUBSET Nat /\ T # {}
    BY <1>1 DEF SessionRow, act
  <2>2. PICK m \in T : \A k \in T : m <= k
    <3> HIDE DEF T
    <3> QED BY <2>1, Least
  <2> QED BY <2>2
<1>3. first # {}
  <2> DEFINE T == {s.id : s \in old}
  <2> HIDE DEF old
  <2>1. T \in SUBSET Nat /\ T # {}
    BY <1>1, <1>2 DEF SessionRow, old
  <2>2. PICK m \in T : \A k \in T : m <= k
    <3> HIDE DEF T
    <3> QED BY <2>1, Least
  <2> QED BY <2>2
<1>4. Sql!OldestSession(d, a, t) = Sql!One(first)
  BY DEF Sql!OldestSession, Active, act
<1> HIDE DEF first
<1>5. Sql!One(first) \in first
  BY <1>3 DEF Sql!One
<1> QED BY <1>4, <1>5 DEF first, old, act

LEMMA revokeOldestAuthSessionForAccountMoves ==
  ASSUME NEW d, DbOK(d), NEW a, NEW t, Active(d, a, t) # {}, NEW N,
         NEW e, e = Sql!revokeOldestAuthSessionForAccount(d, a, t)
  PROVE  /\ Moves(d, e, N) /\ NoMoreActive(d, e) /\ e.seats = d.seats
         /\ e.accounts = d.accounts
         /\ Cardinality(Active(e, a, t)) < Cardinality(Active(d, a, t))
<1> DEFINE s == Sql!OldestSession(d, a, t)
<1>1. s \in Active(d, a, t) /\ s \in SessionRow
  BY OldestIsActive DEF Active, Sql!ActiveSessions, DbOK, Databases
<1>2. e = Sql!revokeAuthSession(d, s.id)
  BY <1>1, AccountsAssumption DEF Sql!revokeOldestAuthSessionForAccount
<1> HIDE DEF s
<1>3. /\ Moves(d, e, N) /\ NoMoreActive(d, e) /\ e.seats = d.seats
      /\ e.accounts = d.accounts
      /\ \A b, u : Active(e, b, u) \subseteq {r \in Active(d, b, u) : r.id # s.id}
  BY <1>2, revokeAuthSessionMoves
<1>4. Active(e, a, t) \subseteq Active(d, a, t) \ {s}
  BY <1>3
<1>5. /\ IsFiniteSet(Active(d, a, t) \ {s})
      /\ Cardinality(Active(d, a, t) \ {s}) = Cardinality(Active(d, a, t)) - 1
  BY <1>1, ActiveFinite, FS_RemoveElement
<1>6. Cardinality(Active(e, a, t)) <= Cardinality(Active(d, a, t) \ {s})
  BY <1>4, <1>5, FS_Subset
<1>7. /\ Cardinality(Active(e, a, t)) \in Nat
      /\ Cardinality(Active(d, a, t)) \in Nat
  BY <1>3, ActiveFinite DEF Moves
<1> QED BY <1>3, <1>5, <1>6, <1>7

\* Every account has at most as many sessions alive as the cap.
Capped(d, t) == \A a \in Nat : Cardinality(Active(d, a, t)) <= SESSION_CAP

LEMMA CappedStays ==
  ASSUME NEW d, NEW e, NEW t \in Nat, DbOK(d), DbOK(e), NoMoreActive(d, e), Capped(d, t)
  PROVE  Capped(e, t)
<1>1. \A a \in Nat : /\ Cardinality(Active(e, a, t)) \in Nat
                     /\ Cardinality(Active(d, a, t)) \in Nat
  BY ActiveFinite
<1>2. SESSION_CAP \in Nat
  BY AccountsAssumption
<1> QED BY <1>1, <1>2 DEF NoMoreActive, Capped

\* Opening a session, after each of its statements.
LEMMA OpeningMoves ==
  ASSUME NEW d, DbOK(d), Capped(d, now), now \in Nat, NEW n \in Nat,
         NEW a \in Sql!Ids(d.accounts), NEW left \in Opening(d, n, a)
  PROVE  Moves(d, left, {n}) /\ Capped(left, now) /\ left.seats = d.seats
<1> DEFINE full == Sql!countActiveAuthSessionsForAccount(d, a, now) >= SESSION_CAP
           room == Room(d, a)
           f == SessionMade(d, n, a)
           e == OpenSession(d, n, a)
<1>0. a \in Nat /\ SESSION_CAP \in Nat \ {0}
  BY AccountsAssumption DEF DbOK, Databases, AccountRow, Sql!Ids
<1>1. /\ Moves(d, room, {n}) /\ room.seats = d.seats /\ room.accounts = d.accounts
      /\ NoMoreActive(d, room) /\ Cardinality(Active(room, a, now)) < SESSION_CAP
  <2>1. Cardinality(Active(d, a, now)) <= SESSION_CAP /\ Cardinality(Active(d, a, now)) \in Nat
    BY <1>0, ActiveFinite DEF Capped
  <2>0. full <=> Cardinality(Active(d, a, now)) >= SESSION_CAP
    <3>1. Sql!countActiveAuthSessionsForAccount(d, a, now) = Cardinality(Active(d, a, now))
      BY DEF Active, Sql!countActiveAuthSessionsForAccount, Sql!Cardinality, Cardinality
    <3> QED BY <3>1
  <2> HIDE DEF full
  <2>2. CASE full
    <3>1. Active(d, a, now) # {}
      <4>1. Cardinality(Active(d, a, now)) # 0
        BY <1>0, <2>0, <2>1, <2>2
      <4> QED BY <4>1, FS_EmptySet
    <3>0. room = Sql!revokeOldestAuthSessionForAccount(d, a, now)
      BY <2>2 DEF full, Room
    <3> HIDE DEF room
    <3>2. /\ Moves(d, room, {n}) /\ NoMoreActive(d, room) /\ room.seats = d.seats
          /\ room.accounts = d.accounts
          /\ Cardinality(Active(room, a, now)) < Cardinality(Active(d, a, now))
      BY <3>0, <3>1, revokeOldestAuthSessionForAccountMoves
    <3>3. Cardinality(Active(room, a, now)) \in Nat
      BY <3>2, ActiveFinite DEF Moves
    <3> QED BY <1>0, <2>1, <3>2, <3>3
  <2>3. CASE ~full
    <3>1. room = d
      BY <2>3 DEF full, Room
    <3> HIDE DEF room
    <3> QED BY <1>0, <2>0, <2>1, <2>3, <3>1, MovesNot
  <2> QED BY <2>2, <2>3
<1>2. /\ Moves(room, f, {n}) /\ f.seats = room.seats /\ f.accounts = room.accounts
      /\ OneMoreActive(room, f, a)
  <2>0. f = Sql!createAuthSession(room, n, a, now + Life, now)
    BY DEF SessionMade
  <2> HIDE DEF room, f
  <2>1. DbOK(room) /\ a \in Sql!Ids(room.accounts) /\ now + Life \in Nat
    BY <1>1 DEF Moves, Life
  <2> QED BY <2>0, <2>1, createAuthSessionMoves
<1>3. Capped(f, now)
  <2> SUFFICES ASSUME NEW b \in Nat PROVE Cardinality(Active(f, b, now)) <= SESSION_CAP
    BY DEF Capped
  <2> HIDE DEF room, f
  <2>1. /\ Cardinality(Active(room, b, now)) <= SESSION_CAP
        /\ Cardinality(Active(room, b, now)) \in Nat /\ IsFiniteSet(Active(room, b, now))
        /\ Cardinality(Active(f, b, now)) \in Nat
        /\ Cardinality(Active(d, b, now)) \in Nat
    <3>1. Cardinality(Active(room, b, now)) <= Cardinality(Active(d, b, now))
      BY <1>1 DEF NoMoreActive
    <3>2. Cardinality(Active(d, b, now)) <= SESSION_CAP
      BY DEF Capped
    <3> QED BY <1>0, <1>1, <1>2, <3>1, <3>2, ActiveFinite DEF Moves
  <2>2. CASE Active(f, b, now) \subseteq Active(room, b, now)
    <3>1. Cardinality(Active(f, b, now)) <= Cardinality(Active(room, b, now))
      BY <2>1, <2>2, FS_Subset
    <3> QED BY <1>0, <2>1, <3>1
  <2>3. CASE b = a /\ \E x : Active(f, b, now) \subseteq Active(room, b, now) \cup {x}
    <3>1. PICK x : Active(f, b, now) \subseteq Active(room, b, now) \cup {x}
      BY <2>3
    <3>2. /\ IsFiniteSet(Active(room, b, now) \cup {x})
          /\ Cardinality(Active(room, b, now) \cup {x}) <= Cardinality(Active(room, b, now)) + 1
      <4> DEFINE S == Active(room, b, now)
      <4> HIDE DEF S
      <4>1. IsFiniteSet(S) /\ Cardinality(S) \in Nat
        BY <2>1 DEF S
      <4>2. /\ IsFiniteSet(S \cup {x})
            /\ Cardinality(S \cup {x}) = IF x \in S THEN Cardinality(S) ELSE Cardinality(S) + 1
        BY <4>1, FS_AddElement
      <4> QED BY <4>1, <4>2 DEF S
    <3>3. /\ Cardinality(Active(f, b, now)) <= Cardinality(Active(room, b, now) \cup {x})
          /\ Cardinality(Active(room, b, now) \cup {x}) \in Nat
      BY <3>1, <3>2, FS_Subset, FS_CardinalityType
    <3> QED BY <1>0, <1>1, <2>1, <2>3, <3>2, <3>3
  <2> QED BY <1>2, <2>2, <2>3 DEF OneMoreActive
<1>4. e = Sql!updatePlayerAccountLastLogin(f, a, now)
  BY DEF OpenSession
<1> HIDE DEF room, f, e
<1>5. Moves(f, e, {n}) /\ e.sessions = f.sessions /\ e.seats = f.seats
  BY <1>2, <1>4, updatePlayerAccountLastLoginMoves DEF Moves
<1>6. Capped(e, now)
  BY <1>3, <1>5 DEF Capped, Active, Sql!ActiveSessions
<1>7. Moves(d, f, {n}) /\ Moves(d, e, {n})
  BY <1>1, <1>2, <1>5, MovesCompose
<1>8. Capped(room, now)
  BY <1>1, CappedStays DEF Moves
<1>9. left \in {room, f, e}
  BY DEF Opening, room, f, e
<1> QED BY <1>1, <1>2, <1>3, <1>5, <1>6, <1>7, <1>8, <1>9

----------------------------------------------------------------------------
(* A step of request n: what it does to the database and to the request.   *)
(* A row that is new has the number of the request, and is known from then *)
(* on because the request is answered.                                     *)

Fresh(n) == IF req'[n].at = "done" THEN {n} ELSE {}

Spends(n, i) == ~req[n].spent /\ req'[n].spent /\ req[n].invite = i.id

Only(n) == req' \in [Requests -> Reqs] /\ \A m \in Requests \ {n} : req'[m] = req[m]

RequestGoesOn(n) ==
  LET r == req[n]
      q == req'[n]
  IN  /\ r.at # "done"
      /\ q.at # "done" => q.status = NULL
      /\ q.at \in {"new", "pin"} => ~q.spent /\ q.account = NULL
      /\ q.status # "cut"
      /\ r.spent => q.spent
      /\ q.spent => q.invite = r.invite
      /\ q.invite # NULL => q.invite = r.invite \/ q.invite \in Sql!Ids(db.invites)
      /\ q.seat # NULL => q.seat = r.seat \/ q.seat \in Sql!Ids(db.seats)
      /\ q.at = "verify" /\ q.account # NULL => q.account \in Sql!Ids(db.accounts)
      /\ q.kind = "claim" /\ q.at \in {"verify", "hash"} => q.spent
      /\ q.kind = "claim" /\ q.at = "hash" => q.account = NULL

Grants(n) ==
  LET q == req'[n]
  IN  q.kind = "claim" /\ q.status = "ok" =>
        /\ q.account \in Nat
        /\ \A s \in db'.seats : s.id = q.seat => s.accountId = q.account

UsesMove(n) ==
  \A j \in db'.invites :
    \/ j.id \in Fresh(n) /\ j.usesRemaining = j.maxUses
    \/ \E i \in db.invites :
         /\ i.id = j.id /\ i.maxUses = j.maxUses
         /\ j.usesRemaining = IF Spends(n, i) THEN i.usesRemaining - 1 ELSE i.usesRemaining

\* A seat that is bound after the step was so before, or n has bound it.
BoundBy(n, t) ==
  LET q == req'[n]
  IN  /\ q.kind = "claim" /\ q.seat = t.id /\ q.spent /\ q.status \in {"ok", "cut"}
      /\ t.accountId = IF q.account = NULL THEN n ELSE q.account

SeatsBound(n) ==
  \A t \in db'.seats : t.accountId # NULL =>
    \/ \E s \in db.seats : s.id = t.id /\ s.accountId = t.accountId
    \/ BoundBy(n, t)

Steps(n) ==
  /\ now' = now /\ Only(n) /\ RequestGoesOn(n) /\ Grants(n)
  /\ DbOK(db') /\ AccountsMove(db, db', Fresh(n)) /\ SessionsMove(db, db', Fresh(n))
  /\ SeatsMove(db, db', Fresh(n)) /\ SeatsBound(n) /\ UsesMove(n)
  /\ Capped(db', now)

\* The body of SeatStaysBound.
SeatsStay ==
  \A s \in db.seats : s.accountId # NULL =>
    \A t \in db'.seats : t.id = s.id => t.accountId = s.accountId

LEMMA CappedIs ==
  ASSUME TypeOK
  PROVE  SessionsCapped <=> Capped(db, now)
<1>1. Sql!Ids(db.accounts) \subseteq Nat
  BY DEF TypeOK, DbOK, Databases, AccountRow, Sql!Ids
<1>2. \A a : Sql!countActiveAuthSessionsForAccount(db, a, now) = Cardinality(Active(db, a, now))
  BY DEF Active, Sql!countActiveAuthSessionsForAccount, Sql!Cardinality, Cardinality
<1>3. \A a \in Nat \ Sql!Ids(db.accounts) : Active(db, a, now) = {}
  BY DEF Active, Sql!ActiveSessions, TypeOK, DbOK, Sql!ForeignKeysHold
<1>4. \A a \in Nat \ Sql!Ids(db.accounts) : Cardinality(Active(db, a, now)) <= SESSION_CAP
  BY <1>3, FS_EmptySet, AccountsAssumption
<1> QED BY <1>1, <1>2, <1>4 DEF SessionsCapped, Capped

\* The number of a request that is not answered is the id of no row.
LEMMA NumberIsFree ==
  ASSUME IInv, NEW n \in Requests, req[n].at # "done"
  PROVE  /\ n \in Nat /\ n # NULL /\ ~Known(n)
         /\ n \notin Sql!Ids(db.seats) /\ n \notin Sql!Ids(db.invites)
         /\ n \notin Sql!Ids(db.accounts) /\ n \notin Sql!Ids(db.sessions)
<1>1. n \in Nat /\ n # 0 /\ n # NULL
  BY AccountsAssumption DEF Requests
<1>2. ~Known(n)
  BY <1>1 DEF Known
<1> QED BY <1>1, <1>2 DEF IInv, IdsKnown

\* An id that is known after the step.
KnownThen(k) == k = 0 \/ (k \in Requests /\ req'[k].at = "done")

LEMMA KnownStays ==
  ASSUME NEW n \in Requests, Steps(n)
  PROVE  \A k : Known(k) \/ k \in Fresh(n) => KnownThen(k)
BY DEF Steps, Only, RequestGoesOn, Known, KnownThen, Fresh

LEMMA IdsStayKnown ==
  ASSUME IInv, NEW n \in Requests, Steps(n)
  PROVE  IdsKnown'
<1>1. \A k \in Sql!Ids(db'.seats) : k \in Sql!Ids(db.seats) \cup Fresh(n)
  BY DEF Steps, SeatsMove, Sql!Ids
<1>2. \A k \in Sql!Ids(db'.invites) : k \in Sql!Ids(db.invites) \cup Fresh(n)
  BY DEF Steps, UsesMove, Sql!Ids
<1>3. /\ \A k \in Sql!Ids(db'.accounts) : k \in Sql!Ids(db.accounts) \cup Fresh(n)
      /\ \A k \in Sql!Ids(db'.sessions) : k \in Sql!Ids(db.sessions) \cup Fresh(n)
  BY DEF Steps, AccountsMove, SessionsMove
<1>4. \A k : Known(k) \/ k \in Fresh(n) => KnownThen(k)
  BY KnownStays
<1> QED BY <1>1, <1>2, <1>3, <1>4 DEF IdsKnown, IInv, Known, KnownThen

LEMMA RequestsGoOnWell ==
  ASSUME IInv, NEW n \in Requests, Steps(n)
  PROVE  RequestsHoldWell'
<1> SUFFICES ASSUME NEW m \in Requests PROVE HoldsWell(m)'
  BY DEF RequestsHoldWell
<1>1. HoldsWell(m) /\ Sql!Ids(db.accounts) \subseteq Sql!Ids(db'.accounts)
  BY DEF IInv, RequestsHoldWell, Steps, AccountsMove
<1>2. \A k : Known(k) => KnownThen(k)
  BY KnownStays
<1>3. CASE m # n
  <2>1. req'[m] = req[m]
    BY <1>3 DEF Steps, Only
  <2> QED BY <1>1, <1>2, <2>1 DEF HoldsWell, Known, KnownThen
<1>4. CASE m = n
  <2>1. RequestGoesOn(m) /\ Grants(m)
    BY <1>4 DEF Steps
  <2>2. \A k \in Sql!Ids(db.seats) \cup Sql!Ids(db.invites) : Known(k)
    BY DEF IInv, IdsKnown
  <2>3. req'[m].invite # NULL => KnownThen(req'[m].invite)
    BY <1>1, <1>2, <2>1, <2>2 DEF HoldsWell, RequestGoesOn
  <2>4. req'[m].seat # NULL => KnownThen(req'[m].seat)
    BY <1>1, <1>2, <2>1, <2>2 DEF HoldsWell, RequestGoesOn
  <2> QED BY <1>1, <2>1, <2>3, <2>4 DEF HoldsWell, RequestGoesOn, Grants, Known, KnownThen
<1> QED BY <1>3, <1>4

LEMMA UsesStayAccounted ==
  ASSUME IInv, NEW n \in Requests, Steps(n)
  PROVE  UsesAccounted'
<1> DEFINE Of(k) == {m \in Requests : req[m].invite = k /\ req[m].spent}
           Then(k) == {m \in Requests : req'[m].invite = k /\ req'[m].spent}
<1>0. /\ DbOK(db) /\ DbOK(db') /\ Only(n) /\ RequestGoesOn(n) /\ UsesMove(n)
      /\ req \in [Requests -> Reqs]
  BY DEF IInv, TypeOK, Steps
<1>1. SUFFICES ASSUME NEW j \in db'.invites
               PROVE  /\ j.usesRemaining >= 0
                      /\ j.maxUses - j.usesRemaining = Cardinality(Then(j.id))
  BY DEF UsesAccounted
<1>2. j \in InviteRow
  BY <1>0 DEF DbOK, Databases
<1>3. \A k : IsFiniteSet(Of(k)) /\ Cardinality(Of(k)) \in Nat
  <2>1. IsFiniteSet(Requests)
    BY FS_Interval, AccountsAssumption DEF Requests
  <2> QED BY <2>1, FS_Subset, FS_CardinalityType
<1>4. CASE j.id \in Fresh(n) /\ j.usesRemaining = j.maxUses
  <2>1. j.id = n
    BY <1>4 DEF Fresh
  <2>2. ~Known(n) /\ n # NULL
    BY <1>0, NumberIsFree DEF RequestGoesOn
  <2>3. \A m \in Requests : req[m].invite # n
    BY <2>2 DEF IInv, RequestsHoldWell, HoldsWell
  <2>4. \A m \in Requests : req'[m].spent => req'[m].invite # n
    BY <1>0, <2>3 DEF Only, RequestGoesOn
  <2>5. Then(j.id) = {}
    BY <2>1, <2>4
  <2> HIDE DEF Then
  <2>6. Cardinality(Then(j.id)) = 0
    BY <2>5, FS_EmptySet
  <2> QED BY <1>2, <1>4, <2>6 DEF InviteRow
<1>5. CASE \E i \in db.invites :
         /\ i.id = j.id /\ i.maxUses = j.maxUses
         /\ j.usesRemaining = IF Spends(n, i) THEN i.usesRemaining - 1 ELSE i.usesRemaining
  <2>1. PICK i \in db.invites :
          /\ i.id = j.id /\ i.maxUses = j.maxUses
          /\ j.usesRemaining = IF Spends(n, i) THEN i.usesRemaining - 1 ELSE i.usesRemaining
    BY <1>5
  <2>2. i \in InviteRow
    BY <1>0 DEF DbOK, Databases
  <2>3. i.maxUses - i.usesRemaining = Cardinality(Of(i.id))
    BY DEF IInv, UsesAccounted
  <2>4. CASE Spends(n, i)
    <3>1. Then(j.id) = Of(i.id) \cup {n} /\ n \notin Of(i.id)
      BY <1>0, <2>1, <2>4 DEF Spends, Only, RequestGoesOn
    <3>2. Cardinality(Then(j.id)) = Cardinality(Of(i.id)) + 1
      <4> HIDE DEF Of, Then
      <4> QED BY <1>3, <3>1, FS_AddElement
    <3> HIDE DEF Of, Then
    <3> QED BY <1>2, <1>3, <2>1, <2>2, <2>3, <2>4, <3>2 DEF InviteRow
  <2>5. CASE ~Spends(n, i)
    <3>1. Then(j.id) = Of(i.id)
      BY <1>0, <2>1, <2>5 DEF Spends, Only, RequestGoesOn
    <3> HIDE DEF Of, Then
    <3> QED BY <1>2, <1>3, <2>1, <2>2, <2>3, <2>5, <3>1 DEF InviteRow
  <2> QED BY <2>4, <2>5
<1> QED BY <1>0, <1>4, <1>5 DEF UsesMove

LEMMA SeatsStayHeld ==
  ASSUME IInv, NEW n \in Requests, Steps(n)
  PROVE  GrantedSeatIsHeld' /\ SeatsStay
<1>0. /\ ~Known(n) /\ n # NULL /\ n \notin Sql!Ids(db.seats)
  BY NumberIsFree DEF Steps, RequestGoesOn
<1>1. \A t \in db'.seats :
        \/ t.id = n
        \/ \E s \in db.seats : s.id = t.id /\ s.accountId \in {NULL, t.accountId}
  BY DEF Steps, SeatsMove, Fresh
<1>2. SeatsStay
  <2> SUFFICES ASSUME NEW s \in db.seats, s.accountId # NULL,
                      NEW t \in db'.seats, t.id = s.id
               PROVE  t.accountId = s.accountId
    BY DEF SeatsStay
  <2>1. t.id # n
    BY <1>0 DEF Sql!Ids
  <2>2. PICK u \in db.seats : u.id = t.id /\ u.accountId \in {NULL, t.accountId}
    BY <1>1, <2>1
  <2>3. u = s
    BY <2>2 DEF IInv, TypeOK, DbOK, UniqueIds
  <2> QED BY <2>2, <2>3
<1>3. \A m \in Requests : req'[m].kind = "claim" /\ req'[m].status = "ok" =>
        \A t \in db'.seats : t.id = req'[m].seat => t.accountId = req'[m].account
  <2> SUFFICES ASSUME NEW m \in Requests, req'[m].kind = "claim", req'[m].status = "ok",
                      NEW t \in db'.seats, t.id = req'[m].seat
               PROVE  t.accountId = req'[m].account
    OBVIOUS
  <2>1. CASE m = n
    BY <2>1 DEF Steps, Grants
  <2>2. CASE m # n
    <3>1. req'[m] = req[m]
      BY <2>2 DEF Steps, Only
    <3>2. HoldsWell(m) /\ t \in SeatRow
      BY DEF IInv, RequestsHoldWell, Steps, DbOK, Databases
    <3>3. t.id # NULL /\ req[m].account \in Nat /\ req[m].account # NULL
      BY <3>1, <3>2, AccountsAssumption DEF HoldsWell, SeatRow
    <3>4. t.id # n
      BY <1>0, <3>1, <3>2, <3>3 DEF HoldsWell
    <3>5. PICK s \in db.seats : s.id = t.id /\ s.accountId \in {NULL, t.accountId}
      BY <1>1, <3>4
    <3>6. s.accountId = req[m].account
      BY <3>1, <3>5 DEF IInv, GrantedSeatIsHeld
    <3> QED BY <3>1, <3>3, <3>5, <3>6
  <2> QED BY <2>1, <2>2
<1> QED BY <1>2, <1>3 DEF GrantedSeatIsHeld, MySeats

\* What bound a seat was answered or cut, and is so still.
LEMMA SeatsStayClaimed ==
  ASSUME IInv, NEW n \in Requests, Steps(n)
  PROVE  SeatBoundByClaim'
<1> SUFFICES ASSUME NEW t \in db'.seats, t.accountId # NULL
             PROVE  \E m \in Requests : BoundBy(m, t)
  BY DEF SeatBoundByClaim, BoundBy
<1>1. CASE \E s \in db.seats : s.id = t.id /\ s.accountId = t.accountId
  <2>1. PICK s \in db.seats : s.id = t.id /\ s.accountId = t.accountId
    BY <1>1
  <2>2. PICK m \in Requests :
          /\ req[m].kind = "claim" /\ req[m].seat = s.id /\ req[m].spent
          /\ req[m].status \in {"ok", "cut"}
          /\ s.accountId = IF req[m].account = NULL THEN m ELSE req[m].account
    BY <2>1 DEF IInv, SeatBoundByClaim
  <2>3. req[m].at = "done"
    BY <2>2, AccountsAssumption DEF IInv, RequestsHoldWell, HoldsWell, Statuses
  <2>4. req'[m] = req[m]
    BY <2>3 DEF Steps, Only, RequestGoesOn
  <2>5. BoundBy(m, t)
    BY <2>1, <2>2, <2>4 DEF BoundBy
  <2> QED BY <2>5
<1>2. CASE BoundBy(n, t)
  BY <1>2
<1> QED BY <1>1, <1>2 DEF Steps, SeatsBound

LEMMA StepsKeep ==
  ASSUME IInv, NEW n \in Requests, Steps(n)
  PROVE  IInv' /\ SeatsStay
<1>1. TypeOK'
  BY DEF IInv, TypeOK, Steps, Only
<1>2. SessionsCapped'
  <2>1. Capped(db, now)' <=> SessionsCapped'
    BY <1>1, CappedIs, PTL
  <2> QED BY <2>1 DEF Steps, Capped, Active
<1> QED
  BY <1>1, <1>2, IdsStayKnown, RequestsGoOnWell, UsesStayAccounted, SeatsStayHeld,
     SeatsStayClaimed
  DEF IInv

----------------------------------------------------------------------------
(* The steps of the requests *)

\* A request that is answered holds no more than what it was granted.
AnsweredAs(n, kind, status, spent, account) ==
  /\ Only(n)
  /\ req'[n].at = "done" /\ req'[n].kind = kind /\ req'[n].status = status
  /\ req'[n].spent = spent /\ req'[n].account = account
  /\ req'[n].invite = req[n].invite /\ req'[n].seat = req[n].seat

LEMMA Answered ==
  ASSUME TypeOK, NEW n \in Requests, NEW fields, Answers(n, fields),
         DOMAIN fields \subseteq {"kind", "status", "spent", "account"},
         "kind" \in DOMAIN fields => fields.kind \in Kinds,
         "status" \in DOMAIN fields => fields.status \in Statuses,
         "spent" \in DOMAIN fields => fields.spent \in BOOLEAN,
         "account" \in DOMAIN fields => fields.account \in Ref
  PROVE  AnsweredAs(n,
           IF "kind" \in DOMAIN fields THEN fields.kind ELSE req[n].kind,
           IF "status" \in DOMAIN fields THEN fields.status ELSE "ok",
           IF "spent" \in DOMAIN fields THEN fields.spent ELSE req[n].spent,
           IF "account" \in DOMAIN fields THEN fields.account ELSE req[n].account)
<1> DEFINE base == [at |-> "done", kind |-> req[n].kind, status |-> "ok",
                    spent |-> req[n].spent, account |-> req[n].account,
                    mode |-> NULL, pin |-> TRUE, campaign |-> NULL,
                    name |-> NULL, pass |-> NULL, next |-> NULL, hash |-> NULL]
           f == Sql!Assign(base, fields)
           q == Sql!Assign(req[n], f)
<1>1. req' = [req EXCEPT ![n] = q]
  BY DEF Answers, Goes
<1>2. req[n] \in Reqs
  BY DEF TypeOK
<1>3. /\ DOMAIN f = {"at", "kind", "status", "spent", "account", "mode", "pin",
                      "campaign", "name", "pass", "next", "hash"}
      /\ f.mode = NULL /\ f.pin = TRUE /\ f.campaign = NULL
      /\ f.at = "done" /\ f.name = NULL /\ f.pass = NULL /\ f.next = NULL /\ f.hash = NULL
      /\ f.kind = IF "kind" \in DOMAIN fields THEN fields.kind ELSE req[n].kind
      /\ f.status = IF "status" \in DOMAIN fields THEN fields.status ELSE "ok"
      /\ f.spent = IF "spent" \in DOMAIN fields THEN fields.spent ELSE req[n].spent
      /\ f.account = IF "account" \in DOMAIN fields THEN fields.account ELSE req[n].account
  BY DEF Sql!Assign
<1>4. /\ f.kind \in Kinds /\ f.status \in Statuses /\ f.spent \in BOOLEAN
      /\ f.account \in Ref
  <2>0. "ok" \in Statuses
    BY DEF Statuses
  <2>1. /\ req[n].kind \in Kinds /\ req[n].spent \in BOOLEAN /\ req[n].account \in Ref
    BY <1>2 DEF Reqs
  <2> HIDE DEF f
  <2>2. f.kind \in Kinds
    BY <1>3, <2>1
  <2>3. f.status \in Statuses
    BY <1>3, <2>0
  <2>4. f.spent \in BOOLEAN
    BY <1>3, <2>1
  <2>5. f.account \in Ref
    BY <1>3, <2>1
  <2> QED BY <2>2, <2>3, <2>4, <2>5
<1> HIDE DEF f
<1>5. /\ q \in Reqs /\ q.at = "done" /\ q.kind = f.kind /\ q.status = f.status
      /\ q.spent = f.spent /\ q.account = f.account
      /\ q.invite = req[n].invite /\ q.seat = req[n].seat
  BY <1>2, <1>3, <1>4 DEF Sql!Assign, Reqs, Name, Hash, Ref
<1> HIDE DEF q
<1>6. Only(n) /\ req'[n] = q
  BY <1>1, <1>5 DEF TypeOK, Only
<1> QED BY <1>3, <1>5, <1>6 DEF AnsweredAs

LEMMA Refused ==
  ASSUME TypeOK, NEW n \in Requests, NEW status \in Statuses, Refuses(n, status)
  PROVE  AnsweredAs(n, req[n].kind, status, req[n].spent, req[n].account)
<1> DEFINE f == [status |-> status]
<1>1. DOMAIN f = {"status"} /\ f.status = status
  OBVIOUS
<1>2. Answers(n, f)
  BY DEF Refuses
<1> HIDE DEF f
<1>3. AnsweredAs(n,
           IF "kind" \in DOMAIN f THEN f.kind ELSE req[n].kind,
           IF "status" \in DOMAIN f THEN f.status ELSE "ok",
           IF "spent" \in DOMAIN f THEN f.spent ELSE req[n].spent,
           IF "account" \in DOMAIN f THEN f.account ELSE req[n].account)
  BY <1>1, <1>2, Answered
<1> QED BY <1>1, <1>3

LEMMA AnsweredKind ==
  ASSUME TypeOK, NEW n \in Requests, NEW kind \in Kinds, NEW status \in Statuses,
         Answers(n, [kind |-> kind, status |-> status])
  PROVE  AnsweredAs(n, kind, status, req[n].spent, req[n].account)
<1> DEFINE f == [kind |-> kind, status |-> status]
<1>1. DOMAIN f = {"kind", "status"} /\ f.status = status /\ f.kind = kind
  OBVIOUS
<1> HIDE DEF f
<1>2. AnsweredAs(n,
           IF "kind" \in DOMAIN f THEN f.kind ELSE req[n].kind,
           IF "status" \in DOMAIN f THEN f.status ELSE "ok",
           IF "spent" \in DOMAIN f THEN f.spent ELSE req[n].spent,
           IF "account" \in DOMAIN f THEN f.account ELSE req[n].account)
  BY <1>1, Answered DEF f
<1> QED BY <1>1, <1>2

LEMMA AnsweredSpent ==
  ASSUME TypeOK, NEW n \in Requests, NEW status \in Statuses,
         Answers(n, [spent |-> TRUE, status |-> status])
  PROVE  AnsweredAs(n, req[n].kind, status, TRUE, req[n].account)
<1> DEFINE f == [spent |-> TRUE, status |-> status]
<1>1. DOMAIN f = {"spent", "status"} /\ f.status = status /\ f.spent = TRUE
  OBVIOUS
<1> HIDE DEF f
<1>2. AnsweredAs(n,
           IF "kind" \in DOMAIN f THEN f.kind ELSE req[n].kind,
           IF "status" \in DOMAIN f THEN f.status ELSE "ok",
           IF "spent" \in DOMAIN f THEN f.spent ELSE req[n].spent,
           IF "account" \in DOMAIN f THEN f.account ELSE req[n].account)
  BY <1>1, Answered DEF f
<1> QED BY <1>1, <1>2

LEMMA AnsweredAccount ==
  ASSUME TypeOK, NEW n \in Requests, NEW a \in Ref, Answers(n, [account |-> a])
  PROVE  AnsweredAs(n, req[n].kind, "ok", req[n].spent, a)
<1> DEFINE f == [account |-> a]
<1>1. DOMAIN f = {"account"} /\ f.account = a
  OBVIOUS
<1> HIDE DEF f
<1>2. AnsweredAs(n,
           IF "kind" \in DOMAIN f THEN f.kind ELSE req[n].kind,
           IF "status" \in DOMAIN f THEN f.status ELSE "ok",
           IF "spent" \in DOMAIN f THEN f.spent ELSE req[n].spent,
           IF "account" \in DOMAIN f THEN f.account ELSE req[n].account)
  BY <1>1, Answered DEF f
<1> QED BY <1>1, <1>2

\* A step that spends no use.
LEMMA QuietSteps ==
  ASSUME IInv, NEW n \in Requests, now' = now, Only(n), RequestGoesOn(n), Grants(n),
         Moves(db, db', Fresh(n)), SeatsBound(n), Capped(db', now),
         req'[n].spent = req[n].spent
  PROVE  Steps(n)
<1>1. UsesMove(n)
  BY DEF UsesMove, Spends, Moves, InvitesMove
<1> QED BY <1>1 DEF Steps, Moves

\* The last step of a request that grants no seat.
LEMMA LastSteps ==
  ASSUME IInv, NEW n \in Requests, req[n].at # "done", now' = now,
         Moves(db, db', {n}), NoneBound(db, db'),
         NoMoreActive(db, db') \/ Capped(db', now),
         NEW kind, NEW status \in Statuses \ {"cut"},
         AnsweredAs(n, kind, status, req[n].spent, req[n].account),
         kind # "claim" \/ status # "ok"
  PROVE  Steps(n)
<1>1. Fresh(n) = {n} /\ Only(n)
  BY DEF AnsweredAs, Fresh
<1>2. Capped(db', now)
  <2>1. now \in Nat /\ Capped(db, now) /\ DbOK(db) /\ DbOK(db')
    BY CappedIs DEF IInv, TypeOK, Moves
  <2> QED BY <2>1, CappedStays
<1>3. RequestGoesOn(n) /\ Grants(n)
  BY DEF AnsweredAs, RequestGoesOn, Grants
<1>4. SeatsBound(n)
  BY DEF NoneBound, SeatsBound
<1> QED BY <1>1, <1>2, <1>3, <1>4, QuietSteps DEF AnsweredAs

\* A step after which a request goes on, and the database is as it was.
LEMMA WaitSteps ==
  ASSUME IInv, NEW n \in Requests, UNCHANGED <<db, now>>, Only(n), RequestGoesOn(n),
         req'[n].at # "done", req'[n].spent = req[n].spent
  PROVE  Steps(n)
<1>1. Grants(n)
  BY AccountsAssumption DEF Grants, RequestGoesOn, Statuses
<1>2. Capped(db', now) /\ Moves(db, db', Fresh(n)) /\ SeatsBound(n)
  BY CappedIs, MovesNot DEF IInv, TypeOK, SeatsBound
<1> QED BY <1>1, <1>2, QuietSteps

LEMMA AtOnceSteps ==
  ASSUME IInv, NEW n \in Requests, NEW kind \in Kinds, NEW status \in Statuses \ {"cut"},
         AtOnce(n, kind, status), kind # "claim", now' = now,
         Moves(db, db', {n}), NoMoreActive(db, db'), NoneBound(db, db')
  PROVE  Steps(n)
<1>1. req[n].at = "new" /\ Answers(n, [kind |-> kind, status |-> status])
  BY DEF AtOnce, Arrives
<1>2. AnsweredAs(n, kind, status, req[n].spent, req[n].account)
  BY <1>1, AnsweredKind DEF IInv
<1> QED BY <1>1, <1>2, LastSteps

LEMMA RefusedSteps ==
  ASSUME IInv, NEW n \in Requests, req[n].at # "done",
         NEW status \in Statuses \ {"cut", "ok"}, Refuses(n, status), UNCHANGED <<db, now>>
  PROVE  Steps(n)
<1>1. AnsweredAs(n, req[n].kind, status, req[n].spent, req[n].account)
  BY Refused DEF IInv
<1>2. Moves(db, db', {n}) /\ NoMoreActive(db, db') /\ NoneBound(db, db')
  BY MovesNot DEF IInv, TypeOK
<1> QED BY <1>1, <1>2, LastSteps

----------------------------------------------------------------------------
(* Claims *)

LEMMA RowsAreTyped ==
  ASSUME IInv
  PROVE  /\ DbOK(db) /\ now \in Nat /\ NULL \notin Nat
         /\ db.seats \subseteq SeatRow /\ db.invites \subseteq InviteRow
         /\ db.accounts \subseteq AccountRow /\ db.sessions \subseteq SessionRow
         /\ \A i \in db.invites : i.seatId \in Sql!Ids(db.seats)
         /\ \A s \in db.sessions : s.accountId \in Sql!Ids(db.accounts)
         /\ \A m \in Requests : req[m] \in Reqs /\ HoldsWell(m)
<1>1. DbOK(db) /\ now \in Nat /\ req \in [Requests -> Reqs] /\ db \in Databases
  BY DEF IInv, TypeOK, DbOK
<1>2. /\ db.seats \subseteq SeatRow /\ db.invites \subseteq InviteRow
      /\ db.accounts \subseteq AccountRow /\ db.sessions \subseteq SessionRow
  BY <1>1 DEF Databases
<1>3. /\ \A i \in db.invites : i.seatId \in Sql!Ids(db.seats)
      /\ \A s \in db.sessions : s.accountId \in Sql!Ids(db.accounts)
  BY <1>1 DEF DbOK, Sql!ForeignKeysHold
<1> QED BY <1>1, <1>2, <1>3, AccountsAssumption DEF IInv, RequestsHoldWell

LEMMA AttemptsTyped ==
  ASSUME NEW t \in Attempts
  PROVE  t[1] \in {"register", "login"} /\ t[2] \in Name /\ t[3] \in Hash
BY DEF Attempts, Name, Hash

LEMMA ClaimInviteSteps ==
  ASSUME IInv, NEW n \in Requests, NEW i, NEW pin \in BOOLEAN,
         NEW mode \in {"register", "login"}, NEW name \in Name, NEW pass \in Hash,
         ClaimInvite(n, i, pin, mode, name, pass)
  PROVE  Steps(n)
<1> DEFINE invite == Sql!getInvite(db, i)
<1>1. req[n].at = "new" /\ UNCHANGED <<db, now>> /\ req[n] \in Reqs
  BY RowsAreTyped DEF ClaimInvite, Arrives
<1>2. CASE invite = NULL \/ invite.revoked
  <2>1. Answers(n, [kind |-> "claim", status |-> "INVITE_GONE"])
    BY <1>2 DEF ClaimInvite
  <2>2. AnsweredAs(n, "claim", "INVITE_GONE", req[n].spent, req[n].account)
    BY <2>1, AnsweredKind DEF IInv, Kinds, Statuses
  <2>3. Moves(db, db', {n}) /\ NoMoreActive(db, db') /\ NoneBound(db, db')
    BY <1>1, MovesNot DEF IInv, TypeOK
  <2>4. req[n].at # "done" /\ now' = now /\ "INVITE_GONE" \in Statuses \ {"cut"}
    BY <1>1 DEF Statuses
  <2>5. "INVITE_GONE" # "ok"
    OBVIOUS
  <2> QED BY <2>2, <2>3, <2>4, <2>5, LastSteps
<1>3. CASE ~(invite = NULL \/ invite.revoked)
  <2>1. Goes(n, [at |-> "pin", kind |-> "claim", invite |-> i,
                 seat |-> invite.seatId, pin |-> pin, mode |-> mode,
                 name |-> name, pass |-> pass])
    BY <1>3 DEF ClaimInvite
  <2>2. invite \in db.invites /\ invite.id = i
    BY <1>3, OneIsOf DEF Sql!getInvite
  <2> HIDE DEF invite
  <2>3. /\ i \in Nat /\ i \in Sql!Ids(db.invites)
        /\ invite.seatId \in Nat /\ invite.seatId \in Sql!Ids(db.seats)
    BY <2>2, RowsAreTyped DEF InviteRow, Sql!Ids
  <2>4. /\ Only(n) /\ req'[n].at = "pin" /\ req'[n].kind = "claim" /\ req'[n].invite = i
        /\ req'[n].seat = invite.seatId /\ req'[n].spent = req[n].spent
        /\ req'[n].status = req[n].status /\ req'[n].account = req[n].account
    BY <1>1, <2>1, <2>3 DEF IInv, TypeOK, Only, Goes, Sql!Assign, Reqs, Kinds, Ref
  <2>5. ~req[n].spent /\ req[n].status = NULL /\ req[n].account = NULL
    BY <1>1, RowsAreTyped DEF HoldsWell
  <2>6. RequestGoesOn(n)
    BY <1>1, <2>3, <2>4, <2>5, AccountsAssumption DEF RequestGoesOn, Statuses
  <2> QED BY <1>1, <2>4, <2>6, WaitSteps
<1> QED BY <1>2, <1>3

LEMMA ClaimRefusedSteps ==
  ASSUME IInv, NEW n \in Requests, ClaimRefused(n)
  PROVE  Steps(n)
BY RefusedSteps DEF ClaimRefused, Claims, Statuses

\* A claim spends a use of its invite, and no other invite loses any.
LEMMA SpendingSteps ==
  ASSUME IInv, NEW n \in Requests, Consumes(n), now' = now, Only(n), RequestGoesOn(n),
         Grants(n), req'[n].spent
  PROVE  Steps(n)
<1> DEFINE k == req[n].invite
<1>1. /\ db' = Sql!consumeInviteAtomic(db, k, now) /\ req[n].at = "pin"
      /\ Sql!Consumable(db, k, now) # {}
  BY DEF Consumes, Claims
<1>2. ~req[n].spent /\ DbOK(db) /\ now \in Nat
  BY <1>1, RowsAreTyped DEF HoldsWell
<1>3. /\ DbOK(db') /\ db'.accounts = db.accounts /\ db'.seats = db.seats
      /\ db'.sessions = db.sessions
      /\ \A j \in db'.invites : \E i \in db.invites :
           /\ i.id = j.id /\ i.maxUses = j.maxUses
           /\ j.usesRemaining = IF i \in Sql!Consumable(db, k, now)
                                THEN i.usesRemaining - 1 ELSE i.usesRemaining
  BY <1>1, <1>2, consumeMoves
<1>4. \A i \in db.invites : i \in Sql!Consumable(db, k, now) <=> Spends(n, i)
  BY <1>1, <1>2 DEF Sql!Consumable, Spends, DbOK, UniqueIds
<1>5. UsesMove(n)
  BY <1>3, <1>4 DEF UsesMove
<1>6. Capped(db', now)
  BY <1>2, <1>3, CappedIs, CappedStays, SameSessions DEF IInv
<1>7. /\ AccountsMove(db, db', Fresh(n)) /\ SessionsMove(db, db', Fresh(n))
      /\ SeatsMove(db, db', Fresh(n)) /\ SeatsBound(n)
  BY <1>3 DEF AccountsMove, SessionsMove, SeatsMove, SeatsBound
<1> QED BY <1>3, <1>5, <1>6, <1>7 DEF Steps

LEMMA SpentSteps ==
  ASSUME IInv, NEW n \in Requests, Consumes(n), now' = now,
         NEW status \in Statuses \ {"cut", "ok"},
         Answers(n, [spent |-> TRUE, status |-> status])
  PROVE  Steps(n)
<1>1. AnsweredAs(n, req[n].kind, status, TRUE, req[n].account) /\ req[n].at = "pin"
  BY AnsweredSpent DEF IInv, Consumes, Claims
<1>2. Only(n) /\ req'[n].spent /\ RequestGoesOn(n) /\ Grants(n)
  BY <1>1 DEF AnsweredAs, RequestGoesOn, Grants
<1> QED BY <1>2, SpendingSteps

LEMMA ClaimRegistersSteps ==
  ASSUME IInv, NEW n \in Requests, ClaimRegisters(n)
  PROVE  Steps(n)
<1>1. Consumes(n) /\ now' = now
  BY DEF ClaimRegisters
<1>2. CASE \/ Answers(n, [spent |-> TRUE, status |-> "PASSWORD_TOO_SHORT"])
           \/ Answers(n, [spent |-> TRUE, status |-> "USERNAME_TAKEN"])
  BY <1>1, <1>2, SpentSteps DEF Statuses
<1>3. CASE Goes(n, [at |-> "hash", spent |-> TRUE])
  <2>1. req[n] \in Reqs /\ HoldsWell(n) /\ req[n].at = "pin"
    BY <1>1, RowsAreTyped DEF Consumes, Claims
  <2>2. /\ Only(n) /\ req'[n].at = "hash" /\ req'[n].kind = req[n].kind
        /\ req'[n].invite = req[n].invite /\ req'[n].seat = req[n].seat
        /\ req'[n].spent /\ req'[n].status = req[n].status
        /\ req'[n].account = req[n].account
    BY <1>3, <2>1 DEF IInv, TypeOK, Only, Goes, Sql!Assign, Reqs
  <2>3. RequestGoesOn(n) /\ Grants(n)
    BY <2>1, <2>2, AccountsAssumption DEF RequestGoesOn, Grants, HoldsWell, Statuses
  <2> QED BY <1>1, <2>2, <2>3, SpendingSteps
<1> QED BY <1>2, <1>3 DEF ClaimRegisters

LEMMA AccountRead ==
  ASSUME IInv, NEW S \in SUBSET db.accounts, Sql!One(S) # NULL
  PROVE  /\ Sql!One(S) \in S
         /\ Sql!One(S).id \in Nat /\ Sql!One(S).id \in Sql!Ids(db.accounts)
         /\ Sql!One(S).passwordHash \in Hash
BY OneIsOf, RowsAreTyped DEF AccountRow, Sql!Ids

LEMMA ClaimLogsInSteps ==
  ASSUME IInv, NEW n \in Requests, ClaimLogsIn(n)
  PROVE  Steps(n)
<1> DEFINE account == Sql!getPlayerAccountByUsername(db, req[n].name)
<1>1. Consumes(n) /\ now' = now
  BY DEF ClaimLogsIn
<1>2. CASE Answers(n, [spent |-> TRUE, status |-> "RATE_LIMITED"])
  BY <1>1, <1>2, SpentSteps DEF Statuses
<1>3. req[n] \in Reqs /\ HoldsWell(n) /\ req[n].at = "pin"
  BY <1>1, RowsAreTyped DEF Consumes, Claims
<1>4. CASE Goes(n, IF account = NULL THEN [at |-> "verify", spent |-> TRUE]
                   ELSE [at |-> "verify", spent |-> TRUE, account |-> account.id,
                         hash |-> account.passwordHash])
  <2>1. \/ Goes(n, [at |-> "verify", spent |-> TRUE])
        \/ /\ account # NULL
           /\ Goes(n, [at |-> "verify", spent |-> TRUE, account |-> account.id,
                       hash |-> account.passwordHash])
    BY <1>4
  <2>2. account # NULL => /\ account.id \in Nat /\ account.id \in Sql!Ids(db.accounts)
                          /\ account.passwordHash \in Hash
    BY AccountRead DEF Sql!getPlayerAccountByUsername
  <2> HIDE DEF account
  <2>3. /\ Only(n) /\ req'[n].at = "verify" /\ req'[n].kind = req[n].kind
        /\ req'[n].invite = req[n].invite /\ req'[n].seat = req[n].seat
        /\ req'[n].spent /\ req'[n].status = req[n].status
        /\ req'[n].account \in {req[n].account} \cup Sql!Ids(db.accounts)
    <3>1. CASE Goes(n, [at |-> "verify", spent |-> TRUE])
      BY <1>3, <3>1 DEF IInv, TypeOK, Only, Goes, Sql!Assign, Reqs
    <3>2. CASE /\ account # NULL
               /\ Goes(n, [at |-> "verify", spent |-> TRUE, account |-> account.id,
                           hash |-> account.passwordHash])
      <4>1. account.id \in Ref
        BY <2>2, <3>2 DEF Ref
      <4> QED BY <1>3, <2>2, <3>2, <4>1 DEF IInv, TypeOK, Only, Goes, Sql!Assign, Reqs
    <3> QED BY <2>1, <3>1, <3>2
  <2>4. RequestGoesOn(n) /\ Grants(n)
    BY <1>3, <2>3, AccountsAssumption DEF RequestGoesOn, Grants, HoldsWell, Statuses
  <2> QED BY <1>1, <2>3, <2>4, SpendingSteps
<1> QED BY <1>2, <1>4 DEF ClaimLogsIn

\* The seat of a claim, bound to a: after each statement up to its session.
LEMMA BindingMoves ==
  ASSUME IInv, NEW n \in Requests, req[n].at # "done",
         NEW d, Moves(db, d, {n}), d.seats = db.seats, Capped(d, now),
         NEW a \in Sql!Ids(d.accounts), NEW x \in Binding(n, d, a)
  PROVE  /\ Moves(db, x, {n}) /\ Capped(x, now)
         /\ \A t \in x.seats : IF t.id = req[n].seat THEN t.accountId = a
                                ELSE t \in db.seats
<1> DEFINE seat == SeatOf(d, req[n].seat)
           bound == Bound(n, d, a)
           row == Sql!Assign(seat, [accountId |-> a])
<1>1. DbOK(d) /\ now \in Nat /\ n \in Nat /\ a \in Nat
  BY RowsAreTyped, NumberIsFree DEF Moves, DbOK, Databases, AccountRow, Sql!Ids
<1>2. /\ seat # NULL /\ seat.accountId \in {NULL, a}
      /\ x = bound \/ x \in Opening(bound, n, a)
  BY DEF Binding
<1>3. bound = Sql!updateSeat(d, seat.campaignId, seat.id, [accountId |-> a])
  BY DEF Bound
<1>4. seat \in d.seats /\ seat.id = req[n].seat /\ seat \in SeatRow
  BY <1>1, <1>2, OneIsOf DEF SeatOf, DbOK, Databases
<1> HIDE DEF seat, bound
<1>5. /\ row \in SeatRow /\ row.id = seat.id /\ row.campaignId = seat.campaignId
      /\ row.accountId = a
  BY <1>1, <1>4 DEF SeatRow, Ref, Sql!Assign
<1>6. /\ Moves(d, bound, {n}) /\ bound.sessions = d.sessions
      /\ bound.accounts = d.accounts /\ bound.seats = (d.seats \ {seat}) \cup {row}
  <2> DEFINE data == [accountId |-> a]
  <2>1. /\ row = Sql!Assign(seat, data)
        /\ bound = Sql!updateSeat(d, seat.campaignId, seat.id, data)
    BY <1>3
  <2> HIDE DEF row, data
  <2>2. Rewrites(d, seat, data, row)
    BY <1>2, <1>5, <2>1 DEF Rewrites
  <2> QED BY <1>1, <1>4, <2>1, <2>2, updateSeatMoves, MovesMore
<1> HIDE DEF row
<1>7. Capped(bound, now) /\ DbOK(bound) /\ a \in Sql!Ids(bound.accounts)
  BY <1>6 DEF Capped, Active, Sql!ActiveSessions, Moves
<1>8. Moves(bound, x, {n}) /\ Capped(x, now) /\ x.seats = bound.seats
  <2>1. CASE x = bound
    BY <1>7, <2>1, MovesNot
  <2>2. CASE x \in Opening(bound, n, a)
    BY <1>1, <1>7, <2>2, OpeningMoves
  <2> QED BY <1>2, <2>1, <2>2
<1>9. Moves(db, x, {n})
  BY <1>6, <1>8, MovesCompose
<1>10. \A t \in x.seats : IF t.id = req[n].seat THEN t.accountId = a ELSE t \in db.seats
  BY <1>1, <1>4, <1>5, <1>6, <1>8 DEF DbOK, UniqueIds
<1> QED BY <1>8, <1>9, <1>10

LEMMA BindsSteps ==
  ASSUME IInv, NEW n \in Requests, req[n].kind = "claim", req[n].at \in {"verify", "hash"},
         now' = now, NEW d, Moves(db, d, {n}), d.seats = db.seats, Capped(d, now),
         NEW a \in Sql!Ids(d.accounts), Binds(n, d, a)
  PROVE  Steps(n)
<1>1. CASE /\ db' = d
           /\ \/ Answers(n, [status |-> "SEAT_NOT_FOUND"])
              \/ Answers(n, [status |-> "SEAT_ALREADY_BOUND"])
  <2>1. \E status \in Statuses \ {"cut", "ok"} : Refuses(n, status)
    BY <1>1 DEF Refuses, Statuses
  <2>2. PICK status \in Statuses \ {"cut", "ok"} :
          AnsweredAs(n, req[n].kind, status, req[n].spent, req[n].account)
    BY <2>1, Refused DEF IInv
  <2> QED BY <1>1, <2>2, LastSteps, SameSeats
<1>2. CASE /\ db' \in Binding(n, d, a)
           /\ Answers(n, [account |-> a])
  <2>1. /\ Moves(db, db', {n}) /\ Capped(db', now)
        /\ \A t \in db'.seats : IF t.id = req[n].seat THEN t.accountId = a
                                 ELSE t \in db.seats
    BY <1>2, BindingMoves
  <2>2. a \in Nat /\ a # NULL
    BY AccountsAssumption DEF Moves, DbOK, Databases, AccountRow, Sql!Ids
  <2>3. AnsweredAs(n, "claim", "ok", req[n].spent, a) /\ req[n].spent
    BY <1>2, <2>2, AnsweredAccount, RowsAreTyped DEF IInv, Ref, HoldsWell
  <2>4. /\ Fresh(n) = {n} /\ Only(n) /\ RequestGoesOn(n) /\ Grants(n)
        /\ req'[n].spent = req[n].spent
    BY <2>1, <2>2, <2>3 DEF AnsweredAs, Fresh, RequestGoesOn, Grants
  <2>5. SeatsBound(n)
    BY <2>1, <2>2, <2>3 DEF SeatsBound, BoundBy, AnsweredAs
  <2> QED BY <2>1, <2>4, <2>5, QuietSteps
<1> QED BY <1>1, <1>2 DEF Binds, Binding, Opening

\* The account of a registration, if its name is free.
LEMMA CreatedMoves ==
  ASSUME IInv, NEW n \in Requests, req[n].at # "done", Created(n) # db
  PROVE  /\ Moves(db, Created(n), {n}) /\ n \in Sql!Ids(Created(n).accounts)
         /\ Created(n).seats = db.seats /\ Capped(Created(n), now)
<1> DEFINE d == Created(n)
<1>1. /\ req[n].name \in Name /\ req[n].pass \in Hash /\ n \in Nat
      /\ d = Sql!createPlayerAccount(db, n, req[n].name, req[n].pass)
  BY RowsAreTyped, NumberIsFree DEF Reqs, Created
<1> HIDE DEF d
<1>2. /\ Moves(db, d, {n}) /\ d.sessions = db.sessions /\ d.seats = db.seats
      /\ d = db \/ n \in Sql!Ids(d.accounts)
  BY <1>1, createPlayerAccountMoves, RowsAreTyped
<1>3. Capped(d, now)
  BY <1>2, CappedIs, CappedStays, SameSessions, RowsAreTyped DEF IInv, Moves
<1> QED BY <1>2, <1>3 DEF d

LEMMA ClaimCreatesSteps ==
  ASSUME IInv, NEW n \in Requests, ClaimCreates(n)
  PROVE  Steps(n)
<1>1. req[n].kind = "claim" /\ req[n].at = "hash" /\ now' = now
  BY DEF ClaimCreates
<1>2. CASE Created(n) = db
  BY <1>1, <1>2, RefusedSteps DEF ClaimCreates, Statuses
<1>3. CASE Created(n) # db
  <2>1. Binds(n, Created(n), n)
    BY <1>3 DEF ClaimCreates
  <2> QED BY <1>1, <1>3, <2>1, CreatedMoves, BindsSteps
<1> QED BY <1>2, <1>3

LEMMA ClaimVerifiedSteps ==
  ASSUME IInv, NEW n \in Requests, ClaimVerified(n)
  PROVE  Steps(n)
<1>1. req[n].kind = "claim" /\ req[n].at = "verify" /\ now' = now
  BY DEF ClaimVerified
<1>2. CASE ~Verified(n)
  BY <1>1, <1>2, RefusedSteps DEF ClaimVerified, Statuses
<1>3. CASE Verified(n)
  <2>1. Binds(n, db, req[n].account) /\ req[n].account \in Sql!Ids(db.accounts)
    BY <1>1, <1>3, RowsAreTyped DEF ClaimVerified, Verified, HoldsWell
  <2>2. Moves(db, db, {n}) /\ Capped(db, now)
    BY RowsAreTyped, MovesNot, CappedIs DEF IInv
  <2> QED BY <1>1, <2>1, <2>2, BindsSteps
<1> QED BY <1>2, <1>3

----------------------------------------------------------------------------
(* Players *)

LEMMA LoginSteps ==
  ASSUME IInv, NEW n \in Requests, NEW name, NEW pass \in Hash, Login(n, name, pass)
  PROVE  Steps(n)
<1> DEFINE account == Sql!getPlayerAccountByUsername(db, name)
<1>1. req[n].at = "new" /\ UNCHANGED <<db, now>> /\ req[n] \in Reqs /\ HoldsWell(n)
  BY RowsAreTyped DEF Login, Arrives
<1>2. CASE Answers(n, [kind |-> "login", status |-> "RATE_LIMITED"])
  <2>1. AnsweredAs(n, "login", "RATE_LIMITED", req[n].spent, req[n].account)
    BY <1>2, AnsweredKind DEF IInv, Kinds, Statuses
  <2>2. Moves(db, db', {n}) /\ NoMoreActive(db, db') /\ NoneBound(db, db')
    BY <1>1, MovesNot DEF IInv, TypeOK
  <2> QED BY <1>1, <2>1, <2>2, LastSteps DEF Statuses
<1>3. CASE Goes(n, Sql!Assign(
                   [at |-> "verify", kind |-> "login", pass |-> pass,
                    account |-> NULL, hash |-> NULL],
                   IF account = NULL THEN [account |-> NULL]
                   ELSE [account |-> account.id, hash |-> account.passwordHash]))
  <2> DEFINE f == Sql!Assign(
                   [at |-> "verify", kind |-> "login", pass |-> pass,
                    account |-> NULL, hash |-> NULL],
                   IF account = NULL THEN [account |-> NULL]
                   ELSE [account |-> account.id, hash |-> account.passwordHash])
  <2>1. account # NULL => /\ account.id \in Nat /\ account.id \in Sql!Ids(db.accounts)
                          /\ account.passwordHash \in Hash
    BY AccountRead DEF Sql!getPlayerAccountByUsername
  <2> HIDE DEF account
  <2>2. /\ DOMAIN f = {"at", "kind", "pass", "account", "hash"}
        /\ f.at = "verify" /\ f.kind = "login" /\ f.pass = pass
        /\ f.account \in Ref /\ f.hash \in Hash
        /\ f.account # NULL => f.account \in Sql!Ids(db.accounts)
    BY <2>1 DEF Sql!Assign, Ref, Hash
  <2>3. req' = [req EXCEPT ![n] = Sql!Assign(@, f)]
    BY <1>3 DEF Goes
  <2> HIDE DEF f
  <2>4. /\ Only(n) /\ req'[n].at = "verify" /\ req'[n].kind = "login"
        /\ req'[n].invite = req[n].invite
        /\ req'[n].seat = req[n].seat /\ req'[n].spent = req[n].spent
        /\ req'[n].status = req[n].status /\ req'[n].account = f.account
    BY <1>1, <2>2, <2>3 DEF IInv, TypeOK, Only, Sql!Assign, Reqs, Kinds
  <2>5. RequestGoesOn(n)
    BY <1>1, <2>2, <2>4, AccountsAssumption DEF RequestGoesOn, HoldsWell, Statuses
  <2> QED BY <1>1, <2>4, <2>5, WaitSteps
<1> QED BY <1>2, <1>3 DEF Login

LEMMA LoginVerifiedSteps ==
  ASSUME IInv, NEW n \in Requests, LoginVerified(n)
  PROVE  Steps(n)
<1>1. req[n].kind = "login" /\ req[n].at = "verify" /\ now' = now
  BY DEF LoginVerified
<1>2. CASE ~Verified(n)
  BY <1>1, <1>2, RefusedSteps DEF LoginVerified, Statuses
<1>3. CASE Verified(n)
  <2>1. /\ db' \in Opening(db, n, req[n].account) /\ Refuses(n, "ok")
        /\ req[n].account \in Sql!Ids(db.accounts)
    BY <1>1, <1>3, RowsAreTyped DEF LoginVerified, Verified, HoldsWell, Refuses, Opening
  <2>2. Capped(db, now) /\ DbOK(db) /\ now \in Nat /\ n \in Nat
    BY <1>1, RowsAreTyped, CappedIs, NumberIsFree DEF IInv
  <2>3. Moves(db, db', {n}) /\ Capped(db', now) /\ NoneBound(db, db')
    BY <2>1, <2>2, OpeningMoves, SameSeats
  <2>4. AnsweredAs(n, "login", "ok", req[n].spent, req[n].account)
    BY <1>1, <2>1, Refused DEF IInv, Statuses
  <2> QED BY <1>1, <2>3, <2>4, LastSteps DEF Statuses
<1> QED BY <1>2, <1>3

LEMMA RefreshSteps ==
  ASSUME IInv, NEW n \in Requests, NEW s, Refresh(n, s)
  PROVE  Steps(n)
<1>1. Moves(db, db', {n}) /\ NoMoreActive(db, db') /\ NoneBound(db, db')
  BY updateAuthSessionMoves, SameSeats, RowsAreTyped DEF Refresh
<1> QED BY <1>1, AtOnceSteps DEF Refresh, Kinds, Statuses

LEMMA UnauthorisedSteps ==
  ASSUME IInv, NEW n \in Requests, NEW s, NEW csrf, Unauthorised(n, s, csrf)
  PROVE  Steps(n)
<1>1. Moves(db, db', {n}) /\ NoMoreActive(db, db') /\ NoneBound(db, db')
  BY MovesNot, RowsAreTyped DEF Unauthorised
<1> QED BY <1>1, AtOnceSteps DEF Unauthorised, Kinds, Statuses

LEMMA LogoutSteps ==
  ASSUME IInv, NEW n \in Requests, NEW s, Logout(n, s)
  PROVE  Steps(n)
<1>1. Moves(db, db', {n}) /\ NoMoreActive(db, db') /\ NoneBound(db, db')
  BY revokeAuthSessionMoves, SameSeats, RowsAreTyped DEF Logout
<1> QED BY <1>1, AtOnceSteps DEF Logout, Kinds, Statuses

LEMMA LogoutAllSteps ==
  ASSUME IInv, NEW n \in Requests, NEW s, LogoutAll(n, s)
  PROVE  Steps(n)
<1>1. Moves(db, db', {n}) /\ NoMoreActive(db, db') /\ NoneBound(db, db')
  BY revokeAllAuthSessionsForAccountMoves, SameSeats, RowsAreTyped DEF LogoutAll
<1> QED BY <1>1, AtOnceSteps DEF LogoutAll, Kinds, Statuses

\* The cookie of a session that is alive is that of an account.
LEMMA SessionHasAccount ==
  ASSUME IInv, NEW s, Session(s) # NULL
  PROVE  LET account == Sql!getPlayerAccountById(db, Session(s).accountId)
         IN  /\ account.id \in Nat /\ account.id \in Sql!Ids(db.accounts)
             /\ account.passwordHash \in Hash
<1> DEFINE row == Sql!getAuthSession(db, s)
           S == {a \in db.accounts : a.id = row.accountId}
<1>1. Session(s) = row /\ row # NULL
  BY DEF Session
<1>2. row \in db.sessions
  BY <1>1, OneIsOf DEF Sql!getAuthSession
<1>3. S # {}
  BY <1>2, RowsAreTyped DEF Sql!Ids
<1>4. Sql!One(S) \in S
  <2> HIDE DEF S
  <2> QED BY <1>3 DEF Sql!One
<1>5. Sql!getPlayerAccountById(db, Session(s).accountId) = Sql!One(S)
  BY <1>1 DEF Sql!getPlayerAccountById
<1>6. Sql!One(S) \in db.accounts
  BY <1>4
<1> HIDE DEF S
<1> QED BY <1>5, <1>6, RowsAreTyped DEF AccountRow, Sql!Ids

LEMMA ChangePasswordSteps ==
  ASSUME IInv, NEW n \in Requests, NEW s, NEW pass \in Hash, NEW next \in Hash,
         ChangePassword(n, s, pass, next)
  PROVE  Steps(n)
<1> DEFINE account == Sql!getPlayerAccountById(db, Session(s).accountId)
<1>1. /\ req[n].at = "new" /\ UNCHANGED <<db, now>> /\ req[n] \in Reqs /\ HoldsWell(n)
      /\ Session(s) # NULL
      /\ Goes(n, [at |-> "verify", kind |-> "change", pass |-> pass, next |-> next,
                  account |-> account.id, hash |-> account.passwordHash])
  BY RowsAreTyped DEF ChangePassword, Arrives
<1>2. /\ account.id \in Nat /\ account.id \in Sql!Ids(db.accounts)
      /\ account.passwordHash \in Hash
  BY <1>1, SessionHasAccount
<1> HIDE DEF account
<1>3. /\ Only(n) /\ req'[n].at = "verify" /\ req'[n].kind = "change"
      /\ req'[n].invite = req[n].invite
      /\ req'[n].seat = req[n].seat /\ req'[n].spent = req[n].spent
      /\ req'[n].status = req[n].status /\ req'[n].account = account.id
  BY <1>1, <1>2 DEF IInv, TypeOK, Only, Goes, Sql!Assign, Reqs, Kinds, Ref
<1>4. RequestGoesOn(n)
  BY <1>1, <1>2, <1>3, AccountsAssumption DEF RequestGoesOn, HoldsWell, Statuses
<1> QED BY <1>1, <1>3, <1>4, WaitSteps

LEMMA ChangeVerifiedSteps ==
  ASSUME IInv, NEW n \in Requests, ChangeVerified(n)
  PROVE  Steps(n)
<1>1. /\ req[n].kind = "change" /\ req[n].at = "verify" /\ UNCHANGED <<db, now>>
      /\ req[n] \in Reqs /\ HoldsWell(n)
  BY RowsAreTyped DEF ChangeVerified
<1>2. CASE Refuses(n, "WRONG_PASSWORD")
  BY <1>1, <1>2, RefusedSteps DEF Statuses
<1>3. CASE Goes(n, [at |-> "hash"])
  <2>1. /\ Only(n) /\ req'[n].at = "hash" /\ req'[n].kind = "change"
        /\ req'[n].invite = req[n].invite
        /\ req'[n].seat = req[n].seat /\ req'[n].spent = req[n].spent
        /\ req'[n].status = req[n].status /\ req'[n].account = req[n].account
    BY <1>1, <1>3 DEF IInv, TypeOK, Only, Goes, Sql!Assign, Reqs
  <2>2. RequestGoesOn(n)
    BY <1>1, <2>1, AccountsAssumption DEF RequestGoesOn, HoldsWell, Statuses
  <2> QED BY <1>1, <2>1, <2>2, WaitSteps
<1> QED BY <1>2, <1>3 DEF ChangeVerified

LEMMA ChangeHashedSteps ==
  ASSUME IInv, NEW n \in Requests, ChangeHashed(n)
  PROVE  Steps(n)
<1>1. /\ req[n].kind = "change" /\ req[n].at = "hash" /\ now' = now
      /\ Refuses(n, "ok") /\ req[n].next \in Hash
      /\ db' = Sql!setPlayerAccountMustChangePassword(db, req[n].account, FALSE, req[n].next)
  BY RowsAreTyped DEF ChangeHashed, Refuses, Reqs
<1>2. Moves(db, db', {n}) /\ NoMoreActive(db, db') /\ NoneBound(db, db')
  <2> DEFINE d == Sql!setPlayerAccountMustChangePassword(db, req[n].account, FALSE, req[n].next)
  <2>1. PICK flag \in BOOLEAN :
          d = Sql!setPlayerAccountMustChangePassword(db, req[n].account, flag, req[n].next)
    OBVIOUS
  <2>2. db' = d /\ DbOK(db)
    BY <1>1, RowsAreTyped
  <2> HIDE DEF d
  <2>3. Moves(db, d, {n}) /\ d.sessions = db.sessions /\ d.seats = db.seats
    BY <1>1, <2>1, <2>2, setPlayerAccountMustChangePasswordMoves, MovesMore
  <2> QED BY <2>2, <2>3, SameSessions, SameSeats
<1>3. AnsweredAs(n, "change", "ok", req[n].spent, req[n].account)
  BY <1>1, Refused DEF IInv, Statuses
<1> QED BY <1>1, <1>2, <1>3, LastSteps DEF Statuses

----------------------------------------------------------------------------
(* The admin *)

LEMMA ResetPasswordSteps ==
  ASSUME IInv, NEW n \in Requests, NEW a \in Sql!Ids(db.accounts), ResetPassword(n, a, "p2")
  PROVE  Steps(n)
<1>1. /\ req[n].at = "new" /\ UNCHANGED <<db, now>> /\ req[n] \in Reqs /\ HoldsWell(n)
      /\ Goes(n, [at |-> "hash", kind |-> "reset", account |-> a, next |-> "p2"])
  BY RowsAreTyped DEF ResetPassword, Arrives
<1>2. a \in Nat
  BY RowsAreTyped DEF AccountRow, Sql!Ids
<1>3. /\ Only(n) /\ req'[n].at = "hash" /\ req'[n].kind = "reset"
      /\ req'[n].invite = req[n].invite
      /\ req'[n].seat = req[n].seat /\ req'[n].spent = req[n].spent
      /\ req'[n].status = req[n].status
  BY <1>1, <1>2 DEF IInv, TypeOK, Only, Goes, Sql!Assign, Reqs, Kinds, Ref, Hash
<1>4. RequestGoesOn(n)
  BY <1>1, <1>3, AccountsAssumption DEF RequestGoesOn, HoldsWell, Statuses
<1> QED BY <1>1, <1>3, <1>4, WaitSteps

LEMMA PasswordSetMoves ==
  ASSUME IInv, NEW n \in Requests
  PROVE  /\ Moves(db, PasswordSet(n), {n}) /\ PasswordSet(n).sessions = db.sessions
         /\ PasswordSet(n).seats = db.seats
<1> DEFINE d == PasswordSet(n)
<1>1. PICK flag \in BOOLEAN :
        d = Sql!setPlayerAccountMustChangePassword(db, req[n].account, flag, req[n].next)
  BY DEF PasswordSet
<1>2. DbOK(db) /\ req[n].next \in Hash
  BY RowsAreTyped DEF Reqs
<1> HIDE DEF d
<1>3. Moves(db, d, {n}) /\ d.sessions = db.sessions /\ d.seats = db.seats
  BY <1>1, <1>2, setPlayerAccountMustChangePasswordMoves, MovesMore
<1> QED BY <1>3 DEF d

LEMMA ResetHashedSteps ==
  ASSUME IInv, NEW n \in Requests, ResetHashed(n)
  PROVE  Steps(n)
<1> DEFINE d == PasswordSet(n)
<1>1. /\ req[n].kind = "reset" /\ req[n].at = "hash" /\ now' = now
      /\ Refuses(n, "ok") /\ db' = Sql!revokeAllAuthSessionsForAccount(d, req[n].account)
  BY DEF ResetHashed, Refuses
<1>2. Moves(db, d, {n}) /\ d.sessions = db.sessions /\ d.seats = db.seats
  BY PasswordSetMoves
<1> HIDE DEF d
<1>3. Moves(d, db', {n}) /\ NoMoreActive(d, db') /\ db'.seats = d.seats
  BY <1>1, <1>2, revokeAllAuthSessionsForAccountMoves DEF Moves
<1>4. Moves(db, db', {n}) /\ NoMoreActive(db, db') /\ NoneBound(db, db')
  BY <1>2, <1>3, MovesCompose, SameSeats DEF NoMoreActive, Active, Sql!ActiveSessions
<1>5. AnsweredAs(n, "reset", "ok", req[n].spent, req[n].account)
  BY <1>1, Refused DEF IInv, Statuses
<1> QED BY <1>1, <1>4, <1>5, LastSteps DEF Statuses

LEMMA RevokeSessionsSteps ==
  ASSUME IInv, NEW n \in Requests, NEW a, RevokeSessions(n, a)
  PROVE  Steps(n)
<1>1. Moves(db, db', {n}) /\ NoMoreActive(db, db') /\ NoneBound(db, db')
  BY revokeAllAuthSessionsForAccountMoves, SameSeats, RowsAreTyped DEF RevokeSessions
<1> QED BY <1>1, AtOnceSteps DEF RevokeSessions, Kinds, Statuses

LEMMA CreateCampaignSteps ==
  ASSUME IInv, NEW n \in Requests, CreateCampaign(n)
  PROVE  Steps(n)
<1>1. Moves(db, db', {n}) /\ db'.sessions = db.sessions /\ NoneBound(db, db')
  <2>1. n \in Nat /\ "c" \in Titles /\ db' = Sql!createCampaign(db, n, "c")
    BY AccountsAssumption DEF Requests, Titles, CreateCampaign
  <2> QED BY <2>1, createCampaignMoves, SameSeats, RowsAreTyped
<1> QED BY <1>1, AtOnceSteps, SameSessions, RowsAreTyped DEF CreateCampaign, Kinds, Statuses

LEMMA RenameCampaignSteps ==
  ASSUME IInv, NEW n \in Requests, NEW c, RenameCampaign(n, c)
  PROVE  Steps(n)
<1>1. Moves(db, db', {n}) /\ db'.sessions = db.sessions /\ NoneBound(db, db')
  <2>1. "renamed" \in Titles /\ DbOK(db) /\ db' = Sql!updateCampaign(db, c, "renamed")
    BY RowsAreTyped DEF Titles, RenameCampaign
  <2> QED BY <2>1, updateCampaignMoves, SameSeats, MovesMore
<1> QED BY <1>1, AtOnceSteps, SameSessions, RowsAreTyped DEF RenameCampaign, Kinds, Statuses

LEMMA DeleteCampaignSteps ==
  ASSUME IInv, NEW n \in Requests, NEW c, DeleteCampaign(n, c)
  PROVE  Steps(n)
<1>1. Moves(db, db', {n}) /\ db'.sessions = db.sessions /\ NoneBound(db, db')
  BY deleteCampaignMoves, RowsAreTyped DEF DeleteCampaign
<1> QED BY <1>1, AtOnceSteps, SameSessions, RowsAreTyped DEF DeleteCampaign, Kinds, Statuses

LEMMA CreateSeatSteps ==
  ASSUME IInv, NEW n \in Requests, NEW c, CreateSeat(n, c)
  PROVE  Steps(n)
<1>1. Moves(db, db', {n}) /\ db'.sessions = db.sessions /\ NoneBound(db, db')
  <2>1. /\ n \in Nat /\ n \notin Sql!Ids(db.seats) /\ "player" \in Roles
        /\ db' = Sql!createSeat(db, c, n, "player")
    BY NumberIsFree DEF Roles, CreateSeat, AtOnce, Arrives
  <2> QED BY <2>1, createSeatMoves, RowsAreTyped
<1> QED BY <1>1, AtOnceSteps, SameSessions, RowsAreTyped DEF CreateSeat, Kinds, Statuses

LEMMA UpdateSeatSteps ==
  ASSUME IInv, NEW n \in Requests, NEW seat \in db.seats, NEW isActive \in BOOLEAN,
         UpdateSeat(n, seat, "gm", isActive)
  PROVE  Steps(n)
<1> DEFINE data == [role |-> "gm", isActive |-> isActive, accountId |-> seat.accountId]
           row == Sql!Assign(seat, data)
<1>1. DbOK(db) /\ seat \in SeatRow /\ seat.accountId \in Sql!Ids(db.accounts) \cup {NULL}
  BY RowsAreTyped DEF DbOK, Sql!ForeignKeysHold
<1>2. Rewrites(db, seat, data, row)
  <2>1. /\ row \in SeatRow /\ row.id = seat.id /\ row.campaignId = seat.campaignId
        /\ row.accountId = seat.accountId
    BY <1>1 DEF Sql!Assign, SeatRow, Roles
  <2> QED BY <1>1, <2>1 DEF Rewrites
<1>3. db' = Sql!updateSeat(db, seat.campaignId, seat.id, data)
  BY DEF UpdateSeat
<1>0. row.id = seat.id /\ row.accountId = seat.accountId
  BY <1>1 DEF Sql!Assign, SeatRow, Roles
<1> HIDE DEF data, row
<1>4. /\ Moves(db, db', {n}) /\ db'.sessions = db.sessions
      /\ db'.seats = (db.seats \ {seat}) \cup {row}
  BY <1>1, <1>2, <1>3, updateSeatMoves, MovesMore
<1>5. NoneBound(db, db')
  BY <1>0, <1>4 DEF NoneBound
<1> QED BY <1>5, <1>1, <1>4, AtOnceSteps, SameSessions DEF UpdateSeat, Kinds, Statuses

LEMMA DeleteSeatSteps ==
  ASSUME IInv, NEW n \in Requests, NEW seat, DeleteSeat(n, seat)
  PROVE  Steps(n)
<1>1. Moves(db, db', {n}) /\ db'.sessions = db.sessions /\ NoneBound(db, db')
  <2>1. DbOK(db) /\ db' = Sql!deleteSeat(db, seat.campaignId, seat.id)
    BY RowsAreTyped DEF DeleteSeat
  <2> QED BY <2>1, deleteSeatMoves, MovesMore
<1> QED BY <1>1, AtOnceSteps, SameSessions, RowsAreTyped DEF DeleteSeat, Kinds, Statuses

LEMMA CreateInviteSteps ==
  ASSUME IInv, NEW n \in Requests, NEW c \in Sql!Ids(db.campaigns),
         NEW seat \in Sql!Ids(db.seats), CreateInvite(n, c, seat)
  PROVE  Steps(n)
<1>1. /\ req[n].at = "new" /\ UNCHANGED <<db, now>> /\ req[n] \in Reqs /\ HoldsWell(n)
      /\ Goes(n, [at |-> "hash", kind |-> "invite", seat |-> seat, campaign |-> c])
  BY RowsAreTyped DEF CreateInvite, Arrives
<1>2. seat \in Nat /\ c \in Nat
  BY RowsAreTyped DEF SeatRow, CampaignRow, DbOK, Databases, Sql!Ids
<1>3. /\ Only(n) /\ req'[n].at = "hash" /\ req'[n].kind = "invite"
      /\ req'[n].invite = req[n].invite /\ req'[n].seat = seat /\ req'[n].spent = req[n].spent
      /\ req'[n].status = req[n].status
  BY <1>1, <1>2 DEF IInv, TypeOK, Only, Goes, Sql!Assign, Reqs, Kinds, Ref
<1>4. RequestGoesOn(n)
  BY <1>1, <1>2, <1>3, AccountsAssumption DEF RequestGoesOn, HoldsWell, Statuses
<1> QED BY <1>1, <1>3, <1>4, WaitSteps

LEMMA InviteHashedSteps ==
  ASSUME IInv, NEW n \in Requests, InviteHashed(n)
  PROVE  Steps(n)
<1>1. /\ req[n].kind = "invite" /\ req[n].at = "hash" /\ now' = now
      /\ db' = Sql!createInvite(db, req[n].campaign, req[n].seat, n, 1, now + Life)
      /\ \E status \in Statuses \ {"cut"} : Refuses(n, status)
  BY DEF InviteHashed, Refuses, Statuses
<1>2. /\ n \in Nat /\ n \notin Sql!Ids(db.invites) /\ DbOK(db) /\ 1 \in Nat
      /\ now + Life \in Nat
  BY <1>1, NumberIsFree, RowsAreTyped DEF Life
<1>3. Moves(db, db', {n}) /\ db'.sessions = db.sessions /\ NoneBound(db, db')
  BY <1>1, <1>2, createInviteMoves, SameSeats
<1>4. PICK status \in Statuses \ {"cut"} :
        AnsweredAs(n, req[n].kind, status, req[n].spent, req[n].account)
  BY <1>1, Refused DEF IInv
<1> QED BY <1>1, <1>2, <1>3, <1>4, LastSteps, SameSessions

LEMMA RevokeInviteSteps ==
  ASSUME IInv, NEW n \in Requests, NEW c, NEW i, RevokeInvite(n, c, i)
  PROVE  Steps(n)
<1>0. /\ Moves(db, db', {n}) /\ db'.sessions = db.sessions
      /\ db'.seats = db.seats
  BY revokeInviteMoves, RowsAreTyped DEF RevokeInvite
<1>1. NoneBound(db, db')
  BY <1>0, SameSeats
<1> QED BY <1>0, <1>1, AtOnceSteps, SameSessions, RowsAreTyped DEF RevokeInvite, Kinds, Statuses

----------------------------------------------------------------------------
(* The whole *)

LEMMA ClaimStepSteps == ASSUME IInv, NEW n \in Requests, ClaimStep(n) PROVE Steps(n)
<1>1. ASSUME NEW i, NEW t \in Attempts, ClaimInvite(n, i, TRUE, t[1], t[2], t[3])
      PROVE  Steps(n)
  BY <1>1, AttemptsTyped, ClaimInviteSteps
<1>2. ASSUME NEW i, ClaimInvite(n, i, FALSE, "register", "u2", "p1")
      PROVE  Steps(n)
  BY <1>2, ClaimInviteSteps DEF Name, Hash
<1> QED
  BY <1>1, <1>2, ClaimRefusedSteps, ClaimRegistersSteps, ClaimLogsInSteps, ClaimCreatesSteps,
     ClaimVerifiedSteps
  DEF ClaimStep

LEMMA PlayerStepSteps == ASSUME IInv, NEW n \in Requests, PlayerStep(n) PROVE Steps(n)
<1>1. ASSUME NEW name \in Usernames, NEW pass \in Passwords, Login(n, name, pass)
      PROVE  Steps(n)
  BY <1>1, LoginSteps DEF Hash
<1>2. ASSUME NEW s, NEW pass \in Passwords, ChangePassword(n, s, pass, "p2")
      PROVE  Steps(n)
  BY <1>2, ChangePasswordSteps DEF Hash
<1> QED
  BY <1>1, <1>2, LoginVerifiedSteps, RefreshSteps, LogoutSteps, LogoutAllSteps,
     UnauthorisedSteps, ChangeVerifiedSteps, ChangeHashedSteps
  DEF PlayerStep

LEMMA AdminStepSteps == ASSUME IInv, NEW n \in Requests, AdminStep(n) PROVE Steps(n)
<1>1. ASSUME NEW seat \in db.seats,
             \/ DeleteSeat(n, seat)
             \/ \E c \in Sql!Ids(db.campaigns) : CreateInvite(n, c, seat.id)
             \/ \E isActive \in BOOLEAN : UpdateSeat(n, seat, "gm", isActive)
      PROVE  Steps(n)
  BY <1>1, DeleteSeatSteps, CreateInviteSteps, UpdateSeatSteps DEF Sql!Ids
<1> QED
  BY <1>1, RevokeSessionsSteps, ResetPasswordSteps, ResetHashedSteps, CreateCampaignSteps,
     RenameCampaignSteps, DeleteCampaignSteps, CreateSeatSteps, InviteHashedSteps,
     RevokeInviteSteps
  DEF AdminStep

\* The process dies: every request under way is cut, and of one at most, the
\* one it died in, statements stay.
CutIn(N, n) ==
  /\ N \subseteq {n}
  /\ N # {} => n \in Requests /\ req[n].at \notin {"new", "done"}
  /\ Moves(db, db', N) /\ Capped(db', now)
  /\ N = {} => NoneBound(db, db')
  /\ N # {} => SeatsBound(n)

LEMMA CutKeeps ==
  ASSUME IInv, CutAll, NEW N, NEW n, CutIn(N, n)
  PROVE  IInv' /\ SeatsStay
<1>0. /\ DbOK(db) /\ DbOK(db') /\ Moves(db, db', N) /\ Capped(db', now)
      /\ N \subseteq Requests /\ \A k \in N : req[k].at \notin {"new", "done"}
  BY RowsAreTyped DEF CutIn, Moves
<1>1. /\ now' = now /\ now \in Nat /\ req \in [Requests -> Reqs]
      /\ req' = [m \in Requests |->
           IF req[m].at \in {"new", "done"} THEN req[m]
           ELSE [req[m] EXCEPT !.at = "done", !.status = "cut", !.mode = NULL,
                               !.pin = TRUE, !.campaign = NULL, !.name = NULL,
                               !.pass = NULL, !.next = NULL, !.hash = NULL]]
  BY DEF IInv, TypeOK, CutAll
<1>2. \A m \in Requests :
        /\ req'[m] \in Reqs
        /\ req'[m].kind = req[m].kind /\ req'[m].invite = req[m].invite
        /\ req'[m].seat = req[m].seat /\ req'[m].spent = req[m].spent
        /\ req'[m].account = req[m].account
        /\ \/ req'[m] = req[m] /\ req[m].at \in {"new", "done"}
           \/ /\ req[m].at \notin {"new", "done"}
              /\ req'[m].at = "done" /\ req'[m].status = "cut"
  <2> TAKE m \in Requests
  <2>1. req[m] \in Reqs
    BY <1>1
  <2>2. CASE req[m].at \in {"new", "done"}
    BY <1>1, <2>1, <2>2
  <2>3. CASE req[m].at \notin {"new", "done"}
    BY <1>1, <2>1, <2>3 DEF Reqs, Name, Hash, Ref, Statuses
  <2> QED BY <2>2, <2>3
<1>3. TypeOK'
  BY <1>0, <1>1, <1>2 DEF TypeOK
<1>4. \A k : Known(k) \/ k \in N => KnownThen(k)
  BY <1>0, <1>2 DEF Known, KnownThen
<1>5. IdsKnown'
  <2>1. /\ \A k \in Sql!Ids(db'.seats) : k \in Sql!Ids(db.seats) \cup N
        /\ \A k \in Sql!Ids(db'.invites) : k \in Sql!Ids(db.invites) \cup N
    BY <1>0 DEF Moves, SeatsMove, InvitesMove, Sql!Ids
  <2>2. /\ \A k \in Sql!Ids(db'.accounts) : k \in Sql!Ids(db.accounts) \cup N
        /\ \A k \in Sql!Ids(db'.sessions) : k \in Sql!Ids(db.sessions) \cup N
    BY <1>0 DEF Moves, AccountsMove, SessionsMove
  <2> QED BY <1>4, <2>1, <2>2 DEF IInv, IdsKnown, Known, KnownThen
<1>6. RequestsHoldWell'
  <2> SUFFICES ASSUME NEW m \in Requests PROVE HoldsWell(m)'
    BY DEF RequestsHoldWell
  <2>1. HoldsWell(m)
    BY DEF IInv, RequestsHoldWell
  <2> QED BY <1>1, <1>2, <1>4, <2>1, ZenonT(30) DEF HoldsWell, Known, KnownThen
<1>7. UsesAccounted'
  <2> SUFFICES ASSUME NEW j \in db'.invites
               PROVE  /\ j.usesRemaining >= 0
                      /\ j.maxUses - j.usesRemaining
                         = Cardinality({m \in Requests : req'[m].invite = j.id /\ req'[m].spent})
    BY DEF UsesAccounted
  <2> DEFINE S == {m \in Requests : req[m].invite = j.id /\ req[m].spent}
  <2>1. {m \in Requests : req'[m].invite = j.id /\ req'[m].spent} = S
    BY <1>2
  <2>2. CASE j.id \in N /\ j.usesRemaining = j.maxUses
    <3>1. ~Known(j.id) /\ j.id # NULL
      BY <1>0, <2>2, NumberIsFree
    <3>2. S = {}
      BY <3>1 DEF IInv, RequestsHoldWell, HoldsWell
    <3>3. j \in InviteRow
      BY <1>0 DEF DbOK, Databases
    <3> HIDE DEF S
    <3>4. Cardinality(S) = 0
      BY <3>2, FS_EmptySet
    <3> QED BY <2>1, <2>2, <3>3, <3>4 DEF InviteRow
  <2>3. CASE \E i \in db.invites : /\ i.id = j.id /\ i.maxUses = j.maxUses
                                   /\ i.usesRemaining = j.usesRemaining
    BY <2>1, <2>3 DEF IInv, UsesAccounted
  <2> QED BY <1>0, <2>2, <2>3 DEF Moves, InvitesMove
<1>8. \A t \in db'.seats :
        \/ t.id \in N
        \/ \E s \in db.seats : s.id = t.id /\ s.accountId \in {NULL, t.accountId}
  BY <1>0 DEF Moves, SeatsMove
<1>9. GrantedSeatIsHeld'
  <2> SUFFICES ASSUME NEW m \in Requests, req'[m].kind = "claim", req'[m].status = "ok",
                      NEW t \in db'.seats, t.id = req'[m].seat
               PROVE  t.accountId = req'[m].account
    BY DEF GrantedSeatIsHeld, MySeats
  <2>1. req'[m] = req[m]
    BY <1>2
  <2>2. HoldsWell(m) /\ t \in SeatRow
    BY <1>0 DEF IInv, RequestsHoldWell, DbOK, Databases
  <2>3. t.id # NULL /\ req[m].account \in Nat /\ req[m].account # NULL
    BY <2>1, <2>2, AccountsAssumption DEF HoldsWell, SeatRow
  <2>4. t.id \notin N
    BY <1>0, <2>1, <2>2, <2>3, NumberIsFree DEF HoldsWell
  <2>5. PICK s \in db.seats : s.id = t.id /\ s.accountId \in {NULL, t.accountId}
    BY <1>8, <2>4
  <2>6. s.accountId = req[m].account
    BY <2>1, <2>5 DEF IInv, GrantedSeatIsHeld
  <2> QED BY <2>1, <2>3, <2>5, <2>6
<1>10. SessionsCapped'
  <2>1. Capped(db, now)' <=> SessionsCapped'
    BY <1>3, CappedIs, PTL
  <2> QED BY <1>0, <1>1, <2>1 DEF Capped, Active
<1>11. SeatBoundByClaim'
  <2> SUFFICES ASSUME NEW t \in db'.seats, t.accountId # NULL
               PROVE  \E m \in Requests : BoundBy(m, t)
    BY DEF SeatBoundByClaim, BoundBy
  <2>1. CASE \E s \in db.seats : s.id = t.id /\ s.accountId = t.accountId
    <3>1. PICK s \in db.seats : s.id = t.id /\ s.accountId = t.accountId
      BY <2>1
    <3>2. PICK m \in Requests :
            /\ req[m].kind = "claim" /\ req[m].seat = s.id /\ req[m].spent
            /\ req[m].status \in {"ok", "cut"}
            /\ s.accountId = IF req[m].account = NULL THEN m ELSE req[m].account
      BY <3>1 DEF IInv, SeatBoundByClaim
    <3>3. BoundBy(m, t)
      BY <1>2, <3>1, <3>2 DEF BoundBy
    <3> QED BY <3>3
  <2>2. CASE N # {} /\ BoundBy(n, t)
    BY <2>2 DEF CutIn
  <2> QED BY <2>1, <2>2 DEF CutIn, NoneBound, SeatsBound
<1>12. SeatsStay
  <2> SUFFICES ASSUME NEW s \in db.seats, s.accountId # NULL,
                      NEW t \in db'.seats, t.id = s.id
               PROVE  t.accountId = s.accountId
    BY DEF SeatsStay
  <2>1. t.id \notin N
    BY <1>0, NumberIsFree DEF Sql!Ids
  <2>2. PICK u \in db.seats : u.id = t.id /\ u.accountId \in {NULL, t.accountId}
    BY <1>8, <2>1
  <2>3. u = s
    BY <1>0, <2>2 DEF DbOK, UniqueIds
  <2> QED BY <2>2, <2>3
<1> QED
  BY <1>3, <1>5, <1>6, <1>7, <1>9, <1>10, <1>11, <1>12 DEF IInv

\* Between two steps.
LEMMA RestartKeeps ==
  ASSUME IInv, Restart
  PROVE  IInv' /\ SeatsStay
<1>1. CutAll /\ db' = db
  BY DEF Restart
<1>2. CutIn({}, 0)
  BY <1>1, MovesNot, CappedIs, RowsAreTyped DEF CutIn, IInv
<1> QED BY <1>1, <1>2, CutKeeps

\* Inside the last step of request n.
LEMMA KilledKeeps ==
  ASSUME IInv, NEW n \in Requests, Killed(n)
  PROVE  IInv' /\ SeatsStay
<1> DEFINE r == req[n]
<1>1. CutAll /\ req[n].at \in {"verify", "hash"} /\ n \in Nat /\ n # NULL
  BY NumberIsFree DEF Killed
<1>2. SUFFICES Moves(db, db', {n}) /\ Capped(db', now) /\ SeatsBound(n)
  <2>1. CutIn({n}, n)
    BY <1>1, <1>2 DEF CutIn
  <2> QED BY <1>1, <2>1, CutKeeps
<1>3. /\ DbOK(db) /\ Moves(db, db, {n}) /\ Capped(db, now) /\ now \in Nat
      /\ HoldsWell(n) /\ req[n] \in Reqs
  BY RowsAreTyped, MovesNot, CappedIs DEF IInv
<1>4. /\ req'[n].kind = req[n].kind /\ req'[n].seat = req[n].seat
      /\ req'[n].spent = req[n].spent /\ req'[n].account = req[n].account
      /\ req'[n].status = "cut"
  <2>1. req'[n] = [req[n] EXCEPT !.at = "done", !.status = "cut", !.mode = NULL,
                                 !.pin = TRUE, !.campaign = NULL, !.name = NULL,
                                 !.pass = NULL, !.next = NULL, !.hash = NULL]
    BY <1>1 DEF CutAll
  <2> QED BY <1>3, <2>1 DEF Reqs
<1>5. ASSUME db'.seats = db.seats PROVE SeatsBound(n)
  BY <1>5 DEF SeatsBound
<1>6. ASSUME NEW d, NEW a \in Sql!Ids(d.accounts), Moves(db, d, {n}), d.seats = db.seats,
             Capped(d, now), db' \in Binding(n, d, a), req[n].kind = "claim",
             a = IF req[n].account = NULL THEN n ELSE req[n].account
      PROVE  Moves(db, db', {n}) /\ Capped(db', now) /\ SeatsBound(n)
  <2>1. /\ Moves(db, db', {n}) /\ Capped(db', now)
        /\ \A t \in db'.seats : IF t.id = req[n].seat THEN t.accountId = a
                                 ELSE t \in db.seats
    <3>1. req[n].at # "done"
      BY <1>1
    <3>2. PICK left : left = db'
      OBVIOUS
    <3>3. /\ Moves(db, d, {n}) /\ d.seats = db.seats /\ Capped(d, now)
          /\ left \in Binding(n, d, a)
      BY <1>6, <3>2
    <3>4. /\ Moves(db, left, {n}) /\ Capped(left, now)
          /\ \A t \in left.seats : IF t.id = req[n].seat THEN t.accountId = a
                                    ELSE t \in db.seats
      BY <3>1, <3>3, BindingMoves
    <3> QED BY <3>2, <3>4
  <2>2. req[n].spent
    BY <1>1, <1>3, <1>6 DEF HoldsWell
  <2> QED BY <1>4, <1>6, <2>1, <2>2 DEF SeatsBound, BoundBy
<1>7. CASE /\ req[n].kind = "claim" /\ req[n].at = "hash" /\ Created(n) # db
           /\ db' \in {Created(n)} \cup Binding(n, Created(n), n)
  <2>1. /\ Moves(db, Created(n), {n}) /\ n \in Sql!Ids(Created(n).accounts)
        /\ Created(n).seats = db.seats /\ Capped(Created(n), now)
    BY <1>7, CreatedMoves
  <2>2. req[n].account = NULL
    BY <1>3, <1>7 DEF HoldsWell
  <2>3. CASE db' = Created(n)
    BY <1>5, <2>1, <2>3
  <2>4. CASE db' \in Binding(n, Created(n), n)
    BY <1>6, <1>7, <2>1, <2>2, <2>4
  <2> QED BY <1>7, <2>3, <2>4
<1>8. CASE /\ req[n].kind = "claim" /\ req[n].at = "verify" /\ Verified(n)
           /\ db' \in Binding(n, db, req[n].account)
  <2>1. req[n].account # NULL /\ req[n].account \in Sql!Ids(db.accounts)
    BY <1>3, <1>8 DEF Verified, HoldsWell
  <2> QED BY <1>3, <1>6, <1>8, <2>1
<1>9. CASE /\ req[n].kind = "login" /\ req[n].at = "verify" /\ Verified(n)
           /\ db' \in Opening(db, n, req[n].account)
  <2>1. req[n].account # NULL /\ req[n].account \in Sql!Ids(db.accounts)
    BY <1>3, <1>9 DEF Verified, HoldsWell
  <2>2. Moves(db, db', {n}) /\ Capped(db', now) /\ db'.seats = db.seats
    BY <1>1, <1>3, <1>9, <2>1, OpeningMoves
  <2> QED BY <1>5, <2>2
<1>10. CASE req[n].kind = "reset" /\ req[n].at = "hash" /\ db' = PasswordSet(n)
  <2>1. Moves(db, db', {n}) /\ db'.seats = db.seats /\ db'.sessions = db.sessions
    BY <1>10, PasswordSetMoves
  <2>2. Capped(db', now)
    BY <1>3, <2>1, CappedStays, SameSessions DEF Moves
  <2> QED BY <1>5, <2>1, <2>2
<1> QED BY <1>7, <1>8, <1>9, <1>10 DEF Killed

\* Sessions only expire as time goes by.
LEMMA TickKeeps ==
  ASSUME IInv, Tick
  PROVE  IInv' /\ SeatsStay
<1>1. UNCHANGED <<db, req>> /\ now' = now + 1 /\ now \in Nat /\ DbOK(db)
  BY DEF Tick, IInv, TypeOK
<1>2. TypeOK' /\ IdsKnown' /\ RequestsHoldWell'
  BY <1>1 DEF IInv, TypeOK, IdsKnown, RequestsHoldWell, HoldsWell, Known
<1>3. UsesAccounted' /\ GrantedSeatIsHeld' /\ SeatBoundByClaim'
  BY <1>1 DEF IInv, UsesAccounted, GrantedSeatIsHeld, SeatBoundByClaim, MySeats
<1>4. SessionsCapped'
  <2>1. Capped(db, now)' <=> SessionsCapped'
    BY <1>2, CappedIs, PTL
  <2>2. Capped(db, now)
    BY CappedIs DEF IInv
  <2>3. ASSUME NEW a \in Nat
        PROVE  Cardinality(Active(db, a, now + 1)) <= SESSION_CAP
    <3>1. Active(db, a, now + 1) \in SUBSET Active(db, a, now)
      BY <1>1 DEF Active, Sql!ActiveSessions, DbOK, Databases, SessionRow
    <3>2. Cardinality(Active(db, a, now + 1)) <= Cardinality(Active(db, a, now))
      BY <1>1, <3>1, ActiveFinite, FS_Subset
    <3>3. Cardinality(Active(db, a, now)) <= SESSION_CAP
      BY <2>2 DEF Capped
    <3>4. /\ Cardinality(Active(db, a, now)) \in Nat
          /\ Cardinality(Active(db, a, now + 1)) \in Nat /\ SESSION_CAP \in Nat
      BY <1>1, ActiveFinite, AccountsAssumption
    <3> QED BY <3>2, <3>3, <3>4
  <2> QED BY <1>1, <2>1, <2>3 DEF Capped, Active
<1>5. SeatsStay
  BY <1>1 DEF SeatsStay, IInv, TypeOK, DbOK, UniqueIds
<1> QED BY <1>2, <1>3, <1>4, <1>5 DEF IInv

LEMMA NextKeeps ==
  ASSUME IInv, [Next]_vars
  PROVE  IInv' /\ SeatsStay
<1>1. CASE \E n \in Requests : ClaimStep(n) \/ PlayerStep(n) \/ AdminStep(n)
  BY <1>1, ClaimStepSteps, PlayerStepSteps, AdminStepSteps, StepsKeep
<1>2. CASE Restart
  BY <1>2, RestartKeeps
<1>5. CASE \E n \in Requests : Killed(n)
  BY <1>5, KilledKeeps
<1>3. CASE Tick
  BY <1>3, TickKeeps
<1>4. CASE UNCHANGED vars
  <2>1. SeatsStay
    BY <1>4 DEF vars, SeatsStay, IInv, TypeOK, DbOK, UniqueIds
  <2>2. SessionsCapped' /\ UsesAccounted' /\ GrantedSeatIsHeld' /\ SeatBoundByClaim'
    BY <1>4 DEF vars, IInv, SessionsCapped, UsesAccounted, GrantedSeatIsHeld, MySeats,
                SeatBoundByClaim
  <2>3. TypeOK' /\ IdsKnown' /\ RequestsHoldWell'
    BY <1>4 DEF vars, IInv, TypeOK, IdsKnown, RequestsHoldWell, HoldsWell, Known
  <2> QED BY <2>1, <2>2, <2>3 DEF IInv
<1> QED BY <1>1, <1>2, <1>3, <1>4, <1>5 DEF Next

LEMMA EmptyIsSound == DbOK(Sql!EmptyDb)
BY FS_EmptySet
DEF DbOK, Databases, Sql!EmptyDb, Sql!ForeignKeysHold, Sql!UniqueKeysHold, UniqueIds, Sql!Ids

LEMMA InitHolds == Init => IInv
<1> SUFFICES ASSUME Init PROVE IInv
  OBVIOUS
<1> DEFINE d1 == Sql!createCampaign(Sql!EmptyDb, 0, "c")
           d2 == Sql!createSeat(d1, 0, 0, "player")
           d3 == Sql!createInvite(d2, 0, 0, 0, 2, Life)
           d4 == Sql!createPlayerAccount(d3, 0, "u1", "p1")
           d5 == Sql!createAuthSession(d4, 0, 0, Life, 0)
<1>1. /\ DbOK(Sql!EmptyDb) /\ Moves(Sql!EmptyDb, d1, {0})
      /\ d1.sessions = {} /\ d1.accounts = {} /\ d1.seats = {} /\ d1.invites = {}
  <2>1. "c" \in Titles /\ 0 \in Nat
    BY DEF Titles
  <2>2. Moves(Sql!EmptyDb, d1, {0})
    BY <2>1, EmptyIsSound, createCampaignMoves
  <2>3. d1.sessions = {} /\ d1.accounts = {} /\ d1.seats = {} /\ d1.invites = {}
    BY DEF Sql!createCampaign, Sql!EmptyDb
  <2> QED BY <2>2, <2>3, EmptyIsSound
<1> HIDE DEF d1
<1>2. /\ Moves(d1, d2, {0}) /\ d2.sessions = {} /\ d2.accounts = {} /\ d2.invites = {}
      /\ NoneBound(d1, d2)
  <2>1. DbOK(d1) /\ "player" \in Roles /\ 0 \in Nat /\ 0 \notin Sql!Ids(d1.seats)
    BY <1>1 DEF Moves, Roles, Sql!Ids
  <2>2. Moves(d1, d2, {0}) /\ d2.sessions = d1.sessions /\ NoneBound(d1, d2)
    BY <2>1, createSeatMoves
  <2>3. d2.accounts = {} /\ d2.invites = {}
    BY <1>1, <2>1 DEF Sql!createSeat, Sql!Stored, DbOK, Databases
  <2> QED BY <1>1, <2>2, <2>3
<1> HIDE DEF d2
<1>3. /\ Moves(d2, d3, {0}) /\ d3.sessions = {} /\ d3.accounts = {}
      /\ d3.seats = d2.seats
  <2>1. DbOK(d2) /\ 0 \in Nat /\ 2 \in Nat /\ Life \in Nat /\ 0 \notin Sql!Ids(d2.invites)
    BY <1>2 DEF Moves, Sql!Ids, Life
  <2>2. Moves(d2, d3, {0}) /\ d3.sessions = d2.sessions /\ d3.seats = d2.seats
    BY <2>1, createInviteMoves
  <2>3. d3.accounts = {}
    BY <1>2, <2>1 DEF Sql!createInvite, Sql!Stored, DbOK, Databases
  <2> QED BY <1>2, <2>2, <2>3
<1> HIDE DEF d3
<1>4. /\ Moves(d3, d4, {0}) /\ d4.sessions = {} /\ 0 \in Sql!Ids(d4.accounts)
      /\ d4.seats = d3.seats
  <2> DEFINE row == [id |-> 0, username |-> "u1", passwordHash |-> "p1",
                     mustChangePassword |-> FALSE, lastLoginAt |-> NULL]
             f == [d3 EXCEPT !.accounts = @ \cup {row}]
  <2>1. DbOK(d3) /\ row \in AccountRow /\ row.id = 0
    BY <1>3 DEF Moves, AccountRow, Name, Hash, Ref
  <2>2. f = [d3 EXCEPT !.accounts = {row}]
    BY <1>3, <2>1 DEF DbOK, Databases
  <2>3. d4 = Sql!Stored(d3, f)
    BY DEF Sql!createPlayerAccount
  <2> HIDE DEF row, f
  <2>4. /\ {row} \in SUBSET AccountRow /\ Sql!Ids({row}) = {0}
        /\ Sql!Ids(d3.accounts) \subseteq Sql!Ids({row})
        /\ Sql!Ids({row}) \subseteq Sql!Ids(d3.accounts) \cup {0}
        /\ \A r, s \in {row} : r.username = s.username => r = s
    BY <1>3, <2>1 DEF Sql!Ids
  <2>5. /\ Moves(d3, f, {0}) /\ f.accounts = {row} /\ f.sessions = d3.sessions
        /\ f.seats = d3.seats
    BY <2>1, <2>2, <2>4, AccountsReplaced
  <2>6. d4 = f
    BY <2>3, <2>5 DEF Moves, DbOK, Sql!Stored
  <2> QED BY <1>3, <2>4, <2>5, <2>6
<1> HIDE DEF d4
<1>5. Moves(d4, d5, {0}) /\ OneMoreActive(d4, d5, 0) /\ d5.seats = d4.seats
  <2>1. DbOK(d4) /\ 0 \in Nat /\ Life \in Nat
    BY <1>4 DEF Moves, Life
  <2> QED BY <1>4, <2>1, createAuthSessionMoves
<1> HIDE DEF d5
<1>6. db = d5 /\ now = 0 /\ req = [n \in Requests |-> NoReq]
  BY DEF Init, d1, d2, d3, d4, d5
<1>7. Moves(Sql!EmptyDb, db, {0})
  BY <1>1, <1>2, <1>3, <1>4, <1>5, <1>6, MovesCompose
<1>8. NoReq \in Reqs
  BY DEF NoReq, Reqs, Kinds, Ref, Name, Hash
<1>9. TypeOK
  BY <1>6, <1>7, <1>8 DEF TypeOK, Moves
<1>10. /\ \A s \in db.seats : s.id = 0
       /\ \A i \in db.invites : i.id = 0 /\ i.usesRemaining = i.maxUses
       /\ Sql!Ids(db.accounts) \subseteq {0} /\ Sql!Ids(db.sessions) \subseteq {0}
  BY <1>7 DEF Moves, SeatsMove, InvitesMove, AccountsMove, SessionsMove, Sql!EmptyDb, Sql!Ids
<1>11. IdsKnown
  BY <1>10 DEF IdsKnown, Known, Sql!Ids
<1>12. RequestsHoldWell /\ GrantedSeatIsHeld
  BY <1>6, AccountsAssumption
  DEF RequestsHoldWell, HoldsWell, GrantedSeatIsHeld, NoReq, Statuses
<1>15. SeatBoundByClaim
  <2>1. \A s \in d2.seats : s.accountId = NULL
    BY <1>1, <1>2 DEF NoneBound
  <2>2. db.seats = d2.seats
    BY <1>3, <1>4, <1>5, <1>6
  <2> QED BY <2>1, <2>2 DEF SeatBoundByClaim
<1>13. UsesAccounted
  <2> SUFFICES ASSUME NEW i \in db.invites
               PROVE  /\ i.usesRemaining >= 0
                      /\ i.maxUses - i.usesRemaining
                         = Cardinality({n \in Requests : req[n].invite = i.id /\ req[n].spent})
    BY DEF UsesAccounted
  <2> DEFINE S == {n \in Requests : req[n].invite = i.id /\ req[n].spent}
  <2>1. S = {}
    BY <1>6 DEF NoReq
  <2> HIDE DEF S
  <2>2. Cardinality(S) = 0
    BY <2>1, FS_EmptySet
  <2>3. i \in InviteRow /\ i.usesRemaining = i.maxUses
    BY <1>9, <1>10 DEF TypeOK, DbOK, Databases
  <2>4. i.usesRemaining >= 0 /\ i.maxUses - i.usesRemaining = Cardinality(S)
    BY <2>2, <2>3 DEF InviteRow
  <2> QED BY <2>4 DEF S
<1>14. SessionsCapped
  <2>1. ASSUME NEW a \in Nat
        PROVE  Cardinality(Active(db, a, now)) <= SESSION_CAP
    <3>1. Active(d4, a, now) = {}
      BY <1>4 DEF Active, Sql!ActiveSessions
    <3>2. PICK x : Active(db, a, now) \subseteq {x}
      BY <1>5, <1>6, <3>1 DEF OneMoreActive
    <3>3. Cardinality({x}) = 1 /\ IsFiniteSet({x})
      BY FS_Singleton
    <3>4. /\ Cardinality(Active(db, a, now)) <= Cardinality({x})
          /\ Cardinality(Active(db, a, now)) \in Nat
      BY <1>9, <3>2, <3>3, FS_Subset, ActiveFinite DEF TypeOK
    <3> QED BY <3>3, <3>4, AccountsAssumption
  <2> QED BY <1>9, <2>1, CappedIs DEF Capped
<1> QED BY <1>9, <1>11, <1>12, <1>13, <1>14, <1>15 DEF IInv

\* The database is well-formed, whatever the routes do to it: its foreign keys
\* hold, its ids are unique, and a request holds only ids of rows there are or
\* were.
THEOREM InductiveInvariant == Spec => []IInv
<1>1. IInv /\ [Next]_vars => IInv'
  BY NextKeeps
<1> QED BY <1>1, InitHolds, PTL DEF Spec

\* Every row and every field a request holds has its type throughout.
THEOREM TypeCorrect == Spec => []TypeOK
BY InductiveInvariant, PTL DEF IInv

\* Registrations of one name that run through the hash of the password
\* together end as one account.
THEOREM NamesAreUnique == Spec => []OneAccountPerName
<1>1. IInv => OneAccountPerName
  BY DEF IInv, TypeOK, DbOK, Sql!UniqueKeysHold, OneAccountPerName
<1> QED BY <1>1, InductiveInvariant, PTL

\* Claims never share a use of an invite, whatever became of them: a refusal
\* after the use is spent, a restart in between, a claim that lost its name.
THEOREM NoUseIsShared == Spec => []UsesAccounted
BY InductiveInvariant, PTL DEF IInv

\* Of the claims that found a seat free only one is granted, and it keeps the
\* seat through every later edit.
THEOREM ClaimIsKept == Spec => []GrantedSeatIsHeld
BY InductiveInvariant, PTL DEF IInv

\* However logins and claims interleave, the oldest session makes room.
THEOREM CapIsKept == Spec => []SessionsCapped
BY InductiveInvariant, PTL DEF IInv

\* A bound seat goes back to a claim that had spent a use and had made the
\* account or given its password, wherever the process died.
THEOREM BoundByClaim == Spec => []SeatBoundByClaim
BY InductiveInvariant, PTL DEF IInv

\* A step never gives a bound seat to another account.
THEOREM BoundSeatStays == Spec => SeatStaysBound
<1>1. IInv /\ [Next]_vars => SeatsStay
  BY NextKeeps
<1>2. SeatsStay => \A s \in db.seats : s.accountId # NULL =>
                     \A t \in db'.seats : t.id = s.id => t.accountId = s.accountId
  BY DEF SeatsStay
<1> QED BY <1>1, <1>2, InductiveInvariant, PTL DEF Spec, SeatStaysBound

==============================================================================
