-------------------------- MODULE ClientConnection -------------------------
(***************************************************************************)
(* WebSocketClient: the connection of a browser to a campaign.  The play   *)
(* page connects when it is mounted and disconnects when it is left; the   *)
(* client reconnects after a loss, and renews its session when the server  *)
(* refuses it.                                                             *)
(*                                                                         *)
(* An action is one callback: of the page, of a socket, of the reconnect   *)
(* timer, or of the refresh request.  The close event of a socket comes    *)
(* some time after close() and finds the client in whatever state it is.   *)
(***************************************************************************)
EXTENDS Naturals, FiniteSets

CONSTANTS
  Sockets,        \* identities of WebSocket objects, free again after close
  NoSocket,
  MaxRefreshes,   \* bound: refresh requests in flight
  MaxFaults       \* bound: losses and refusals that the client cannot help

ASSUME ClientAssumption ==
  /\ NoSocket \notin Sockets
  /\ MaxRefreshes \in Nat /\ MaxFaults \in Nat

VARIABLES
  \* the client
  ws,               \* this.ws
  shouldReconnect,
  timer,            \* reconnectTimeout is armed
  ping,             \* pingInterval runs
  status,           \* connectionState.status
  refreshing,       \* requests to /api/auth/refresh in flight
  \* the page, the browser and the server
  mounted,          \* the play page is shown
  socket,           \* socket[s]: readyState, and whether welcome has come
  session, seat,    \* the account has a valid session, and a seat
  faults,
  \* history
  gaveUp,           \* a close code after which the client does not reconnect
  tries             \* refreshes since the last welcome, at most 2

clientVars == <<ws, shouldReconnect, timer, ping, status, refreshing>>
browserVars == <<mounted, socket>>
serverVars == <<session, seat, faults>>
historyVars == <<gaveUp, tries>>
connectionVars == <<clientVars, browserVars, serverVars, historyVars>>

\* What a close code means to handleClose: 4401, 4403, another 4xxx, any other.
Codes == {"unauthorized", "revoked", "refused", "lost"}

\* Of a socket the client has closed: "crossing" when the server may have
\* refused it before it knew.
Live == {"connecting", "open", "welcomed"}
Leaving == {"closing", "crossing"}

ConnectionTypeOK ==
  /\ ws \in Sockets \cup {NoSocket}
  /\ shouldReconnect \in BOOLEAN /\ timer \in BOOLEAN /\ ping \in BOOLEAN
  /\ status \in {"disconnected", "connecting", "connected", "reconnecting"}
  /\ refreshing \in 0..MaxRefreshes
  /\ mounted \in BOOLEAN
  /\ socket \in [Sockets -> Live \cup Leaving \cup {"none"}]
  /\ session \in BOOLEAN /\ seat \in BOOLEAN /\ faults \in 0..MaxFaults
  /\ gaveUp \in BOOLEAN /\ tries \in 0..2

ConnectionInit ==
  /\ ws = NoSocket
  /\ shouldReconnect = TRUE
  /\ timer = FALSE /\ ping = FALSE
  /\ status = "disconnected"
  /\ refreshing = 0
  /\ mounted = FALSE
  /\ socket = [s \in Sockets |-> "none"]
  /\ session = TRUE /\ seat = TRUE /\ faults = 0
  /\ gaveUp = FALSE /\ tries = 0

\* A closed socket that the code still has in this.ws counts as NoSocket.
HasSocket == ws # NoSocket /\ socket[ws] \in Live

----------------------------------------------------------------------------
(* connect, disconnect and what they are called from *)

\* Mutation: connect opens a socket whatever it has.
ConnectAnyway ==
  /\ shouldReconnect' = TRUE
  /\ gaveUp' = FALSE
  /\ \E s \in Sockets :
       /\ socket[s] = "none"
       /\ socket' = [socket EXCEPT ![s] = "connecting"]
       /\ ws' = s
  /\ status' = "connecting"

\* connect(): nothing but the flag if the socket is open or opening.
Connect ==
  /\ shouldReconnect' = TRUE
  /\ gaveUp' = FALSE
  /\ IF HasSocket
     THEN UNCHANGED <<ws, socket, status>>
     ELSE /\ \E s \in Sockets :
               /\ socket[s] = "none"
               /\ socket' = [socket EXCEPT ![s] = "connecting"]
               /\ ws' = s
          /\ status' = "connecting"

\* What close() makes of a socket.
Closed(st) ==
  IF st \notin Live THEN st ELSE IF st = "open" THEN "crossing" ELSE "closing"

CloseOwn == socket' = IF ws = NoSocket THEN socket
                      ELSE [socket EXCEPT ![ws] = Closed(socket[ws])]

\* Mutation: the interval is left running.
DisconnectKeepsPing ==
  /\ shouldReconnect' = FALSE
  /\ timer' = FALSE
  /\ CloseOwn
  /\ ws' = NoSocket
  /\ status' = "disconnected"
  /\ mounted' = FALSE
  /\ UNCHANGED ping

\* disconnect(), as the page is left.
Disconnect ==
  /\ shouldReconnect' = FALSE
  /\ ping' = FALSE /\ timer' = FALSE
  /\ CloseOwn
  /\ ws' = NoSocket
  /\ status' = "disconnected"
  /\ mounted' = FALSE

MountPage ==
  /\ ~mounted
  /\ mounted' = TRUE
  /\ Connect
  /\ UNCHANGED <<timer, ping, refreshing, serverVars, tries>>

UnmountPage ==
  /\ mounted
  /\ Disconnect
  /\ UNCHANGED <<refreshing, serverVars, historyVars>>

\* The reconnect timeout fires.
TimerFires ==
  /\ timer
  /\ timer' = FALSE
  /\ Connect
  /\ UNCHANGED <<ping, refreshing, mounted, serverVars, tries>>

----------------------------------------------------------------------------
(* Socket events *)

\* handleOpen: the upgrade is answered before the session is looked at.
Opens(s) ==
  /\ socket[s] = "connecting"
  /\ socket' = [socket EXCEPT ![s] = "open"]
  /\ ping' = TRUE
  /\ UNCHANGED <<ws, shouldReconnect, timer, status, refreshing, mounted,
                 serverVars, historyVars>>

\* The welcome message of a server that found session and seat.
Welcome(s) ==
  /\ socket[s] = "open"
  /\ session /\ seat
  /\ socket' = [socket EXCEPT ![s] = "welcomed"]
  /\ status' = "connected"
  /\ tries' = 0
  /\ UNCHANGED <<ws, shouldReconnect, timer, ping, refreshing, mounted,
                 serverVars, gaveUp>>

\* The server, the network or the client itself ends the connection: the
\* server refuses an open socket that it does not welcome.
MayClose(s, code) ==
  \/ socket[s] \in Leaving /\ code = "lost" /\ UNCHANGED serverVars
  \/ /\ socket[s] \in {"open", "crossing"} /\ ~(session /\ seat)
     /\ code = "unauthorized" /\ UNCHANGED serverVars
  \/ /\ faults < MaxFaults
     /\ \/ socket[s] \in Live /\ code = "lost"
        \/ socket[s] \in {"open", "crossing"} /\ code \in {"revoked", "refused"}
     /\ faults' = faults + 1
     /\ UNCHANGED <<session, seat>>

\* The socket is gone, whether or not it is the one in ws.
Closes(s, code) ==
  /\ MayClose(s, code)
  /\ socket' = [socket EXCEPT ![s] = "none"]
  /\ ws' = IF ws = s THEN NoSocket ELSE ws

\* handleClose after disconnect(), or while a refresh is awaited.
CloseUnwanted(s, code) ==
  /\ ~shouldReconnect
  /\ Closes(s, code)
  /\ ping' = FALSE
  /\ status' = "disconnected"
  /\ UNCHANGED <<shouldReconnect, timer, refreshing, mounted, historyVars>>

\* handleClose, 4401: the refresh is requested and awaited.
CloseUnauthorized(s) ==
  /\ shouldReconnect
  /\ Closes(s, "unauthorized")
  /\ refreshing < MaxRefreshes
  /\ ping' = FALSE
  /\ shouldReconnect' = FALSE
  /\ status' = "reconnecting"
  /\ refreshing' = refreshing + 1
  /\ tries' = IF tries < 2 THEN tries + 1 ELSE 2
  /\ UNCHANGED <<timer, mounted, gaveUp>>

\* handleClose, 4403: off to the list of campaigns, which unmounts the page.
CloseRevoked(s) ==
  /\ shouldReconnect
  /\ MayClose(s, "revoked")
  /\ IF mounted
     THEN /\ shouldReconnect' = FALSE
          /\ timer' = FALSE
          /\ mounted' = FALSE
          /\ ws' = NoSocket
          /\ socket' = [t \in Sockets |-> IF t = s THEN "none"
                                          ELSE IF t = ws THEN Closed(socket[t])
                                          ELSE socket[t]]
     ELSE /\ socket' = [socket EXCEPT ![s] = "none"]
          /\ ws' = IF ws = s THEN NoSocket ELSE ws
          /\ UNCHANGED <<shouldReconnect, timer, mounted>>
  /\ ping' = FALSE
  /\ status' = "disconnected"
  /\ UNCHANGED <<refreshing, historyVars>>

\* handleClose, another 4xxx: logged, and no reconnect.
CloseRefused(s) ==
  /\ shouldReconnect
  /\ Closes(s, "refused")
  /\ ping' = FALSE
  /\ status' = "disconnected"
  /\ gaveUp' = TRUE
  /\ UNCHANGED <<shouldReconnect, timer, refreshing, mounted, tries>>

\* Mutation: the lost connection is shown and no timeout is set.
CloseLostQuietly(s) ==
  /\ shouldReconnect
  /\ Closes(s, "lost")
  /\ ping' = FALSE
  /\ status' = "reconnecting"
  /\ UNCHANGED <<shouldReconnect, timer, refreshing, mounted, historyVars>>

\* handleClose, any other code: a reconnect is scheduled.
CloseLost(s) ==
  /\ shouldReconnect
  /\ Closes(s, "lost")
  /\ ping' = FALSE
  /\ status' = "reconnecting"
  /\ timer' = TRUE
  /\ UNCHANGED <<shouldReconnect, refreshing, mounted, historyVars>>

----------------------------------------------------------------------------
(* The silent refresh *)

\* Mutation: the answer does not connect again.
RefreshForgets ==
  /\ refreshing > 0 /\ session
  /\ refreshing' = refreshing - 1
  /\ shouldReconnect' = TRUE
  /\ UNCHANGED <<ws, socket, status, gaveUp, timer, ping, mounted, serverVars, tries>>

\* The session is still valid: connect again, without a seat as well.
RefreshSucceeds ==
  /\ refreshing > 0 /\ session
  /\ refreshing' = refreshing - 1
  /\ Connect
  /\ UNCHANGED <<timer, ping, mounted, serverVars, tries>>

\* The session is not valid or the request fails: off to the login page,
\* which unmounts this one.
RefreshFails ==
  /\ refreshing > 0
  /\ \/ ~session /\ UNCHANGED faults
     \/ session /\ faults < MaxFaults /\ faults' = faults + 1
  /\ refreshing' = refreshing - 1
  /\ IF mounted THEN Disconnect
     ELSE UNCHANGED <<ws, shouldReconnect, timer, ping, status, mounted, socket>>
  /\ UNCHANGED <<session, seat, historyVars>>

----------------------------------------------------------------------------
(* The world *)

SessionEnds == session /\ session' = FALSE
               /\ UNCHANGED <<clientVars, browserVars, seat, faults, historyVars>>

\* Logging in is another page.
LogsIn == ~mounted /\ ~session /\ session' = TRUE
          /\ UNCHANGED <<clientVars, browserVars, seat, faults, historyVars>>

SeatChanges == seat' = ~seat
               /\ UNCHANGED <<clientVars, browserVars, session, faults, historyVars>>

CloseEvent(s) ==
  \/ \E code \in Codes : CloseUnwanted(s, code)
  \/ CloseUnauthorized(s) \/ CloseRevoked(s) \/ CloseRefused(s) \/ CloseLost(s)

Refreshed == RefreshSucceeds \/ RefreshFails

\* An open socket is answered.
Answered(s) == Welcome(s) \/ (socket[s] = "open" /\ CloseEvent(s))

ConnectionNext ==
  \/ MountPage \/ UnmountPage \/ TimerFires \/ Refreshed
  \/ \E s \in Sockets : Opens(s) \/ Welcome(s) \/ CloseEvent(s)
  \/ SessionEnds \/ LogsIn \/ SeatChanges

ConnectionSpec == ConnectionInit /\ [][ConnectionNext]_connectionVars

\* Timers fire, requests are answered, and sockets open, close or are lost.
FairConnectionSpec ==
  /\ ConnectionSpec
  /\ WF_connectionVars(TimerFires) /\ WF_connectionVars(Refreshed)
  /\ \A s \in Sockets :
       /\ WF_connectionVars(Opens(s) \/ (socket[s] = "connecting" /\ CloseEvent(s)))
       /\ WF_connectionVars(Answered(s))
       /\ WF_connectionVars(socket[s] \in Leaving /\ CloseEvent(s))

----------------------------------------------------------------------------
(* Properties *)

\* However the page, the timer and late refreshes call connect, there is at
\* most one live socket, and it is the one the client sends on.
OneLiveSocket == \A s \in Sockets : socket[s] \in Live => ws = s

\* What the page shows is so: "connected" means welcomed, "connecting" that
\* a socket is on its way, and "reconnecting" that something is still under
\* way that can bring the connection back.
StatusIsTrue ==
  /\ status = "connected" => ws # NoSocket /\ socket[ws] = "welcomed"
  /\ status = "connecting" => ws # NoSocket /\ socket[ws] \in {"connecting", "open"}
  /\ status = "reconnecting" /\ mounted => timer \/ refreshing > 0 \/ HasSocket

\* A page that is shown is connected or on the way to it, unless the server
\* refused for good: no order of closes, refreshes and visits strands it.
NeverStranded == mounted /\ ~gaveUp => HasSocket \/ timer \/ refreshing > 0

\* The keepalive interval never outlives its socket.
PingHasSocket == ping => ws # NoSocket /\ socket[ws] \in {"open", "welcomed"}

\* When the seat is there to stay and the losses end, a page that stays is
\* welcomed, or has gone to the login or was refused.
Reconnects ==
  <>[]seat => (mounted ~> ~mounted \/ gaveUp \/ (ws # NoSocket /\ socket[ws] = "welcomed"))

(* Claims of comments and documents that the code does not meet *)

\* disconnect: "Closes connection gracefully and stops reconnection attempts."
DisconnectIsFinal == ~mounted => ~HasSocket /\ ~timer

\* handleClose: "Silent token refresh - one attempt, then fall back to login".
OneRefresh == tries < 2

----------------------------------------------------------------------------
(* The inductive invariant behind the theorems of ClientPagesProofs      *)

\* The client has a socket that exists, and gives up the wish to reconnect
\* only while a refresh is awaited or the page is gone.
ConnectionInv ==
  /\ ConnectionTypeOK /\ OneLiveSocket /\ StatusIsTrue /\ PingHasSocket /\ NeverStranded
  /\ ws # NoSocket => socket[ws] \in Live
  /\ mounted /\ ~shouldReconnect => refreshing > 0

============================================================================
