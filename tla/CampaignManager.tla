-------------------------- MODULE CampaignManager --------------------------
(***************************************************************************)
(* CampaignManager and the WebSocket route that uses it: an engine is      *)
(* opened for the first connection to a campaign, shared and counted by    *)
(* the others, and closed by an idle timer after the last has gone.        *)
(*                                                                         *)
(* An action is the code between two awaits on Storage, a timer callback   *)
(* or a socket callback.  Continuations of promises that are already       *)
(* settled belong to the action that settled them.                         *)
(*                                                                         *)
(* timer is the timeout whose handle an entry keeps; strays[c] counts the  *)
(* timeouts armed for c whose handle was overwritten or went with its      *)
(* entry: nothing can clear them.                                          *)
(***************************************************************************)
EXTENDS Naturals, FiniteSets

CONSTANTS
  Connections,       \* WebSocket connections, reused once closed
  Campaigns,
  Engines,           \* identities of EngineCore objects
  None,
  StorageYields,     \* whether other callbacks run while a Storage call is
                     \* awaited; not so for the storages of the repository
  MaxExtraReleases   \* bound: calls of release with nothing to release

ASSUME ManagerAssumption ==
  /\ IsFiniteSet(Connections)
  /\ None \notin Engines \cup Campaigns
  /\ StorageYields \in BOOLEAN
  /\ MaxExtraReleases \in Nat

VARIABLES
  entries,   \* this.entries: campaign -> engine
  opening,   \* this.opening: campaign -> engine whose open is awaited
  refCount,  \* refCount of the engine's entry
  timer,     \* whether the timeout of the entry's idleTimer is armed
  strays,    \* armed timeouts nobody holds the handle of
  status,    \* status[e] of an engine: "closed", "opening" or "open"
  conn,      \* conn[k]: what the route has done for connection k
  stopped,   \* closeAll was called
  extra      \* calls of ReleaseAgain so far

entryVars == <<entries, opening, refCount, timer, strays, status>>
vars == <<entryVars, conn, stopped, extra>>

\* The route resolves the session, waits for an engine, and is attached once
\* it has the engine, the subscription and a close listener.
Conn == [phase : {"closed", "resolving", "waiting", "attached"},
         campaign : Campaigns \cup {None},
         engine : Engines \cup {None},
         socketOpen : BOOLEAN]

NoConn == [phase |-> "closed", campaign |-> None, engine |-> None,
           socketOpen |-> FALSE]

TypeOK ==
  /\ entries \in [Campaigns -> Engines \cup {None}]
  /\ opening \in [Campaigns -> Engines \cup {None}]
  /\ refCount \in [Engines -> Nat] /\ timer \in [Engines -> BOOLEAN]
  /\ strays \in [Campaigns -> Nat]
  /\ status \in [Engines -> {"closed", "opening", "open"}]
  /\ conn \in [Connections -> Conn]
  /\ stopped \in BOOLEAN /\ extra \in 0..MaxExtraReleases

Init ==
  /\ entries = [c \in Campaigns |-> None]
  /\ opening = [c \in Campaigns |-> None]
  /\ refCount = [e \in Engines |-> 0] /\ timer = [e \in Engines |-> FALSE]
  /\ strays = [c \in Campaigns |-> 0]
  /\ status = [e \in Engines |-> "closed"]
  /\ conn = [k \in Connections |-> NoConn]
  /\ stopped = FALSE /\ extra = 0

Waiters(c) == {k \in Connections : conn[k].phase = "waiting" /\ conn[k].campaign = c}
Holders(e) == {k \in Connections : conn[k].phase = "attached" /\ conn[k].engine = e}

\* A callback of a socket or a timer runs: not while a promise chain that
\* never leaves the turn is on its way.
NewTurn ==
  StorageYields \/ \A k \in Connections : conn[k].phase \in {"closed", "attached"}

----------------------------------------------------------------------------
(* The route up to acquire *)

\* A socket is accepted for campaign c; resolveAuthSession is awaited.
Upgrade(k, c) ==
  /\ ~stopped /\ NewTurn
  /\ conn[k].phase = "closed"
  /\ conn' = [conn EXCEPT ![k] = [NoConn EXCEPT !.phase = "resolving",
                                    !.campaign = c, !.socketOpen = TRUE]]
  /\ UNCHANGED <<entryVars, stopped, extra>>

\* No session or no seat: the socket is closed with 4401.
Unauthorized(k) ==
  /\ conn[k].phase = "resolving"
  /\ conn' = [conn EXCEPT ![k] = NoConn]
  /\ UNCHANGED <<entryVars, stopped, extra>>

\* Mutation: a new connection leaves the idle timer running.
AcquireKeepsTimer(k) ==
  /\ conn[k].phase = "resolving"
  /\ LET e == entries[conn[k].campaign] IN
       /\ e # None
       /\ refCount' = [refCount EXCEPT ![e] = @ + 1]
       /\ conn' = [conn EXCEPT ![k].phase = "attached", ![k].engine = e]
  /\ UNCHANGED <<entries, opening, timer, strays, status, stopped, extra>>

\* acquire finds the entry: it stops the idle timer and counts the caller.
AcquireOpen(k) ==
  /\ conn[k].phase = "resolving"
  /\ LET e == entries[conn[k].campaign] IN
       /\ e # None
       /\ refCount' = [refCount EXCEPT ![e] = @ + 1]
       /\ timer' = [timer EXCEPT ![e] = FALSE]
       /\ conn' = [conn EXCEPT ![k].phase = "attached", ![k].engine = e]
  /\ UNCHANGED <<entries, opening, strays, status, stopped, extra>>

\* acquire finds an open in progress and awaits the same promise.
AcquireOpening(k) ==
  /\ conn[k].phase = "resolving"
  /\ entries[conn[k].campaign] = None
  /\ opening[conn[k].campaign] # None
  /\ conn' = [conn EXCEPT ![k].phase = "waiting"]
  /\ UNCHANGED <<entryVars, stopped, extra>>

\* Mutation: every connection starts an open of its own.
AcquireAlone(k) ==
  /\ conn[k].phase = "resolving"
  /\ entries[conn[k].campaign] = None
  /\ \E e \in Engines :
       /\ status[e] = "closed" /\ Holders(e) = {}
       /\ opening' = [opening EXCEPT ![conn[k].campaign] = e]
       /\ status' = [status EXCEPT ![e] = "opening"]
  /\ conn' = [conn EXCEPT ![k].phase = "waiting"]
  /\ UNCHANGED <<entries, refCount, timer, strays, stopped, extra>>

\* acquire starts openEntry, which awaits EngineCore.open of a new engine.
AcquireNew(k) ==
  /\ conn[k].phase = "resolving"
  /\ entries[conn[k].campaign] = None
  /\ opening[conn[k].campaign] = None
  /\ \E e \in Engines :
       /\ status[e] = "closed" /\ Holders(e) = {}
       /\ opening' = [opening EXCEPT ![conn[k].campaign] = e]
       /\ status' = [status EXCEPT ![e] = "opening"]
  /\ conn' = [conn EXCEPT ![k].phase = "waiting"]
  /\ UNCHANGED <<entries, refCount, timer, strays, stopped, extra>>

\* Mutation: only the connection that started the open is counted.
OpenedForOne(c) ==
  /\ opening[c] # None
  /\ entries' = [entries EXCEPT ![c] = opening[c]]
  /\ opening' = [opening EXCEPT ![c] = None]
  /\ status' = [status EXCEPT ![opening[c]] = "open"]
  /\ refCount' = [refCount EXCEPT ![opening[c]] = 1]
  /\ timer' = [timer EXCEPT ![opening[c]] = FALSE]
  /\ conn' = [k \in Connections |->
                IF k \in Waiters(c)
                THEN [conn[k] EXCEPT !.phase = "attached", !.engine = opening[c]]
                ELSE conn[k]]
  /\ UNCHANGED <<strays, stopped, extra>>

\* The open succeeds: the entry is registered, and every connection that
\* awaited it goes on in the same turn.
Opened(c) ==
  /\ opening[c] # None
  /\ entries' = [entries EXCEPT ![c] = opening[c]]
  /\ opening' = [opening EXCEPT ![c] = None]
  /\ status' = [status EXCEPT ![opening[c]] = "open"]
  /\ refCount' = [refCount EXCEPT ![opening[c]] = Cardinality(Waiters(c))]
  /\ timer' = [timer EXCEPT ![opening[c]] = FALSE]
  /\ conn' = [k \in Connections |->
                IF k \in Waiters(c)
                THEN [conn[k] EXCEPT !.phase = "attached", !.engine = opening[c]]
                ELSE conn[k]]
  /\ UNCHANGED <<strays, stopped, extra>>

\* Mutation: the rejected promise stays in opening.
OpenFailsForGood(c) ==
  /\ opening[c] # None
  /\ status[opening[c]] = "opening"
  /\ status' = [status EXCEPT ![opening[c]] = "closed"]
  /\ conn' = [k \in Connections |-> IF k \in Waiters(c) THEN NoConn ELSE conn[k]]
  /\ UNCHANGED <<entries, opening, refCount, timer, strays, stopped, extra>>

\* Mutation: only the connection that started the open hears that it failed.
OpenFailsForOne(c) ==
  /\ opening[c] # None
  /\ opening' = [opening EXCEPT ![c] = None]
  /\ status' = [status EXCEPT ![opening[c]] = "closed"]
  /\ \E k \in Waiters(c) : conn' = [conn EXCEPT ![k] = NoConn]
  /\ UNCHANGED <<entries, refCount, timer, strays, stopped, extra>>

\* The open rejects: every waiting socket is closed with 4500, and the next
\* connection tries again.
OpenFails(c) ==
  /\ opening[c] # None
  /\ opening' = [opening EXCEPT ![c] = None]
  /\ status' = [status EXCEPT ![opening[c]] = "closed"]
  /\ conn' = [k \in Connections |-> IF k \in Waiters(c) THEN NoConn ELSE conn[k]]
  /\ UNCHANGED <<entries, refCount, timer, strays, stopped, extra>>

\* The socket closes before the route has a listener for it: nobody notices.
Vanish(k) ==
  /\ StorageYields
  /\ conn[k].phase \in {"resolving", "waiting"} /\ conn[k].socketOpen
  /\ conn' = [conn EXCEPT ![k].socketOpen = FALSE]
  /\ UNCHANGED <<entryVars, stopped, extra>>

----------------------------------------------------------------------------
(* release, idle close, closeAll *)

\* Mutation: the count is checked before it is decremented.
ReleaseLate(c) ==
  IF entries[c] = None
  THEN UNCHANGED <<refCount, timer, strays>>
  ELSE LET e == entries[c]
           n == IF refCount[e] > 0 THEN refCount[e] - 1 ELSE 0
       IN  /\ refCount' = [refCount EXCEPT ![e] = n]
           /\ timer' = IF refCount[e] = 0 THEN [timer EXCEPT ![e] = TRUE] ELSE timer
           /\ UNCHANGED strays

\* release(c): the count never goes below zero; at zero a timeout is started
\* and its handle stored over the one that was there.
Release(c) ==
  IF entries[c] = None
  THEN UNCHANGED <<refCount, timer, strays>>
  ELSE LET e == entries[c]
           n == IF refCount[e] > 0 THEN refCount[e] - 1 ELSE 0
       IN  /\ refCount' = [refCount EXCEPT ![e] = n]
           /\ timer' = IF n = 0 THEN [timer EXCEPT ![e] = TRUE] ELSE timer
           /\ strays' = IF n = 0 /\ timer[e]
                        THEN [strays EXCEPT ![c] = @ + 1] ELSE strays

\* The close event of an attached socket.
Disconnect(k) ==
  /\ NewTurn
  /\ conn[k].phase = "attached" /\ conn[k].socketOpen
  /\ conn' = [conn EXCEPT ![k] = NoConn]
  /\ Release(conn[k].campaign)
  /\ UNCHANGED <<entries, opening, status, stopped, extra>>

\* release is called once more when there is nothing left to release.
ReleaseAgain(c) ==
  /\ extra < MaxExtraReleases /\ NewTurn
  /\ entries[c] # None => refCount[entries[c]] = 0
  /\ extra' = extra + 1
  /\ Release(c)
  /\ UNCHANGED <<entries, opening, status, conn, stopped>>

\* The timeout of the entry fires and closeEntry closes the engine, without
\* a look at the count.
IdleTimeout(c) ==
  /\ NewTurn
  /\ entries[c] # None /\ timer[entries[c]]
  /\ entries' = [entries EXCEPT ![c] = None]
  /\ status' = [status EXCEPT ![entries[c]] = "closed"]
  /\ timer' = [timer EXCEPT ![entries[c]] = FALSE]
  /\ UNCHANGED <<opening, refCount, strays, conn, stopped, extra>>

\* A timeout without a handle fires: closeEntry closes whatever engine the
\* campaign has by now.
StrayTimeout(c) ==
  /\ NewTurn
  /\ strays[c] > 0
  /\ IF entries[c] = None
     THEN /\ strays' = [strays EXCEPT ![c] = @ - 1]
          /\ UNCHANGED <<entries, status, timer>>
     ELSE LET e == entries[c] IN
          /\ entries' = [entries EXCEPT ![c] = None]
          /\ status' = [status EXCEPT ![e] = "closed"]
          /\ timer' = [timer EXCEPT ![e] = FALSE]
          /\ strays' = IF timer[e] THEN strays ELSE [strays EXCEPT ![c] = @ - 1]
  /\ UNCHANGED <<opening, refCount, conn, stopped, extra>>

\* closeAll, when the server shuts down: opens in progress are not awaited.
CloseAll ==
  /\ ~stopped /\ NewTurn
  /\ stopped' = TRUE
  /\ entries' = [c \in Campaigns |-> None]
  /\ timer' = [e \in Engines |->
                 IF \E c \in Campaigns : entries[c] = e THEN FALSE ELSE timer[e]]
  /\ status' = [e \in Engines |->
                  IF \E c \in Campaigns : entries[c] = e THEN "closed" ELSE status[e]]
  /\ UNCHANGED <<opening, refCount, strays, conn, extra>>

\* What the route and Storage always go on with.
Admit(k) == Unauthorized(k) \/ AcquireOpen(k) \/ AcquireOpening(k) \/ AcquireNew(k)
OpenSettles(c) == Opened(c) \/ OpenFails(c)

Next ==
  \/ \E k \in Connections, c \in Campaigns : Upgrade(k, c)
  \/ \E k \in Connections : Admit(k) \/ Vanish(k) \/ Disconnect(k)
  \/ \E c \in Campaigns : OpenSettles(c) \/ ReleaseAgain(c)
                          \/ IdleTimeout(c) \/ StrayTimeout(c)
  \/ CloseAll

Spec == Init /\ [][Next]_vars

Armed(c) == entries[c] # None /\ timer[entries[c]]

\* Promises settle, their continuations run, and a timeout that stays armed
\* fires, however busy the event loop is with other connections.
FairSpec ==
  /\ Spec
  /\ \A k \in Connections : WF_vars(Admit(k))
  /\ \A c \in Campaigns :
       /\ WF_vars(OpenSettles(c))
       /\ <>[]Armed(c) => []<><<IdleTimeout(c)>>_vars

----------------------------------------------------------------------------
(* Properties *)

\* Until the server shuts down, and while release is called once per acquire
\* as the route does, the engine a connection was given is open, and is the
\* one that later connections to the campaign are given: nobody is cut off by
\* the idle timer, and no two engines serve one campaign.
HeldEngineIsOpen ==
  ~stopped /\ extra = 0 => \A k \in Connections : conn[k].phase = "attached" =>
                /\ entries[conn[k].campaign] = conn[k].engine
                /\ status[conn[k].engine] = "open"

\* An engine that is open, or being opened, can be found by its campaign,
\* and a campaign has at most one: none is left running without an owner,
\* however opens, failures, timers and the shutdown interleave.
NoOrphanEngine ==
  /\ \A e \in Engines :
       /\ status[e] = "open" => \E c \in Campaigns : entries[c] = e
       /\ status[e] = "opening" => \E c \in Campaigns : opening[c] = e
  /\ \A c \in Campaigns : entries[c] # None => opening[c] = None

\* The count of an entry is the number of connections that hold its engine,
\* and the idle timer runs exactly when that is zero; one release too many
\* leaves a timeout nobody can cancel.
CountIsExact ==
  ~stopped /\ extra = 0 => \A c \in Campaigns : entries[c] # None =>
                /\ refCount[entries[c]] = Cardinality(Holders(entries[c]))
                /\ timer[entries[c]] <=> refCount[entries[c]] = 0

\* An engine that no connection is attached to is closed in the end, unless a
\* new connection takes it over.
IdleEngineCloses ==
  \A c \in Campaigns :
    LET Used == \E k \in Connections : /\ conn[k].campaign = c
                                       /\ conn[k].phase = "attached"
    IN  entries[c] # None /\ ~Used ~> entries[c] = None \/ Used

\* A connection is attached or refused in the end, also when the open it
\* waited for fails.
ConnectSettles ==
  \A k \in Connections :
    conn[k].phase \in {"resolving", "waiting"} ~> conn[k].phase \in {"attached", "closed"}

----------------------------------------------------------------------------
(* The inductive invariant behind the theorems of CampaignManagerProofs *)

\* The two maps say what the engines are, and no engine is in them twice.
Registered ==
  /\ \A c \in Campaigns :
       /\ entries[c] # None => status[entries[c]] = "open"
       /\ opening[c] # None => status[opening[c]] = "opening"
  /\ \A c, d \in Campaigns :
       /\ entries[c] # None /\ entries[c] = entries[d] => c = d
       /\ opening[c] # None /\ opening[c] = opening[d] => c = d

\* A connection under way has a campaign, and one that waits has an open to
\* wait for; an open is awaited, and its engine is not held yet.
OpensAwaited ==
  /\ \A k \in Connections :
       /\ conn[k].phase # "closed" => conn[k].campaign # None
       /\ conn[k].phase = "waiting" => opening[conn[k].campaign] # None
       /\ conn[k].phase = "attached" => conn[k].engine # None
  /\ \A c \in Campaigns : opening[c] # None =>
       /\ \E k \in Connections : conn[k].phase = "waiting" /\ conn[k].campaign = c
       /\ Holders(opening[c]) = {}

NoStrays == \A c \in Campaigns : strays[c] = 0

IInv ==
  /\ TypeOK /\ Registered /\ NoOrphanEngine /\ OpensAwaited
  /\ ~stopped /\ extra = 0 => HeldEngineIsOpen /\ CountIsExact /\ NoStrays

============================================================================
