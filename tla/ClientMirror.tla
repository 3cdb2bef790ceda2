---------------------------- MODULE ClientMirror ---------------------------
(***************************************************************************)
(* The client's mirror of the campaign: a browser receives a view of the   *)
(* board and then the events of the engine, over a connection that may be  *)
(* lost, while its user drags tokens that move on the canvas before the    *)
(* server has agreed.                                                      *)
(*                                                                         *)
(* One client, that of seat Me, is modelled in full, with the handler of   *)
(* its socket on the server.  The engine is what EngineCore shows of it    *)
(* from outside: requests are served one after the other, and the events   *)
(* of a request go out before anything else is served.  history holds the  *)
(* board after every event, so that what the client shows can be compared  *)
(* with what the server had at the sequence number the client has reached. *)
(***************************************************************************)
EXTENDS CampaignState

CONSTANTS
  Me,         \* the seat of the client
  Inputs,     \* requests of the other seats, and of Me from another tab
  Seed,       \* the board when the engine was opened
  Rulesets,   \* what is loaded, as in EngineCore
  MaxEvents,  \* bound: requests of others are served while seq is below it
  MaxMoves,   \* bound: how often the user drags a token
  MaxDrops    \* bound: how often the connection is lost

ASSUME MirrorAssumption ==
  /\ Me \in Seats
  /\ Inputs \subseteq Input
  /\ Seed \in State /\ Integrity(Seed)
  /\ None \notin Positions
  /\ MaxEvents \in Nat /\ MaxMoves \in Nat /\ MaxDrops \in Nat

VARIABLES
  history,       \* history[n + 1]: the engine's state when its seq is n
  todo,          \* intents of the request being served, still to be carried out
  cached,        \* the engine's seats include Me
  sock,          \* the client's socket: closed, handshake or open
  up, down,      \* messages on their way to the server and to the client
  mirror,        \* campaignState: scenes, tokens, actors, activeSceneId
  pending,       \* pendingMoveOriginals: position to go back to, or None
  lastEventSeq,  \* connectionState.lastEventSeq
  synced,        \* history: a view arrived over this connection
  viewed,        \* history: the active scene of the last view
  held,          \* the token in the user's hand, or None
  moves, drops   \* bounds

engineVars == <<history, todo, cached>>
wireVars   == <<sock, up, down>>
clientVars == <<mirror, pending, lastEventSeq, synced, viewed>>
vars == <<engineVars, wireVars, clientVars, held, moves, drops>>

seq == Len(history) - 1
BoardAt(n) == history[n + 1]
state == BoardAt(seq)

\* Every message is stamped with the seq of the engine when it was sent; the
\* protocol has that number in views and events only, and the client reads
\* it nowhere else.
DownMessage ==
       [kind : {"welcome", "error", "redacted"}, seq : Nat]
  \cup [kind : {"view"}, seq : Nat, view : State]
  \cup [kind : {"event"}, seq : Nat, event : Intent]

\* resume is answered like view.request.
UpMessage == [kind : {"view.request"}] \cup [kind : {"dispatch"}, request : Request]

TypeOK ==
  /\ history \in Seq(State) /\ history # <<>>
  /\ todo \in Seq(Intent) /\ cached \in BOOLEAN
  /\ sock \in {"closed", "handshake", "open"}
  /\ up \in Seq(UpMessage) /\ down \in Seq(DownMessage)
  /\ mirror \in State
  /\ pending \in [TokenIds -> Positions \cup {None}]
  /\ lastEventSeq \in Nat /\ synced \in BOOLEAN
  /\ viewed \in SceneIds \cup {None}
  /\ held \in TokenIds \cup {None}
  /\ moves \in Nat /\ drops \in Nat

EmptyBoard ==
  [activeSceneId |-> None,
   scenes |-> [s \in SceneIds |-> None],
   tokens |-> [t \in TokenIds |-> None],
   actors |-> [a \in ActorIds |-> None]]

NoPending == [t \in TokenIds |-> None]

\* The seat of a player may be made before or after the engine is opened; a
\* GM's that is made later is not modelled.
Init ==
  /\ history = <<Seed>> /\ todo = <<>>
  /\ cached \in IF IsGm(Me) THEN {TRUE} ELSE BOOLEAN
  /\ sock = "closed" /\ up = <<>> /\ down = <<>>
  /\ mirror = EmptyBoard /\ pending = NoPending
  /\ lastEventSeq = 0 /\ synced = FALSE /\ viewed = None
  /\ held = None /\ moves = 0 /\ drops = 0

----------------------------------------------------------------------------
(* The engine and the socket's handler on the server *)

\* No request is being served.
Free == todo = <<>>

\* A token that is hidden is in a GM's views only.
Visible(token) == IsGm(Me) \/ ~token.hidden

\* getView: the active scene with its visible tokens, and the actors the seat
\* has a permission on; a GM gets all actors.
ViewOf(st) ==
  LET shown == IF st.activeSceneId \in SceneIds /\ SceneExists(st, st.activeSceneId)
               THEN st.activeSceneId ELSE None
  IN  [activeSceneId |-> shown,
       scenes |-> [s \in SceneIds |-> IF s = shown THEN st.scenes[s] ELSE None],
       tokens |-> [t \in TokenIds |->
                     IF /\ TokenExists(st, t)
                        /\ st.tokens[t].sceneId = st.activeSceneId
                        /\ Visible(st.tokens[t])
                     THEN st.tokens[t] ELSE None],
       actors |-> [a \in ActorIds |->
                     IF /\ ActorExists(st, a)
                        /\ IsGm(Me) \/ st.actors[a].seatPermissions[Me] # "none"
                     THEN st.actors[a] ELSE None]]

Plain(kind) == [kind |-> kind, seq |-> seq]
ViewMessage == [kind |-> "view", seq |-> seq, view |-> ViewOf(state)]

\* isInAudience: every event is public, but a seat that is not among those
\* cached when the engine was opened gets the number of the event only.
EventMessage(i) ==
  IF cached THEN [kind |-> "event", seq |-> seq + 1, event |-> StoredEvent(i)]
            ELSE [kind |-> "redacted", seq |-> seq + 1]

\* A message sent before the handler has attached its listener is lost.
LoseEarly ==
  /\ sock = "handshake" /\ up # <<>>
  /\ up' = Tail(up)
  /\ UNCHANGED <<engineVars, sock, down, clientVars, held, moves, drops>>

\* The handler subscribes, sends the welcome and the view in one turn.
Accept ==
  /\ sock = "handshake" /\ Free
  /\ sock' = "open"
  /\ down' = <<Plain("welcome"), ViewMessage>>
  /\ UNCHANGED <<engineVars, up, clientVars, held, moves, drops>>

\* view.request and resume are answered with the whole view.
ServeView ==
  /\ sock = "open" /\ Free /\ up # <<>>
  /\ Head(up).kind = "view.request"
  /\ up' = Tail(up)
  /\ down' = Append(down, ViewMessage)
  /\ UNCHANGED <<engineVars, sock, clientVars, held, moves, drops>>

\* What the resolvers are told of the client: what it sends names neither a
\* seat nor a role.
OwnArgs == [seatId |-> Me, isGm |-> IsGm(Me)]

\* The engine starts on a request that its resolver, told args, accepts.
Serve(args, r) ==
  /\ Resolves(state, args, r)
  /\ todo' \in IntentsOf(state, r, Rulesets)

\* A dispatch of the client is served, or answered with ACTION_REJECTED.
ServeDispatch ==
  /\ sock = "open" /\ Free /\ up # <<>>
  /\ Head(up).kind = "dispatch"
  /\ up' = Tail(up)
  /\ LET r == Head(up).request IN
       \/ Serve(OwnArgs, r) /\ UNCHANGED down
       \/ /\ ~Resolves(state, OwnArgs, r)
          /\ down' = Append(down, Plain("error"))
          /\ UNCHANGED todo
  /\ UNCHANGED <<history, cached, sock, clientVars, held, moves, drops>>

\* Another connection dispatches.
ServeOther ==
  /\ Free /\ seq < MaxEvents
  /\ \E input \in Inputs : Serve(ResolverArgs(input), input.request)
  /\ UNCHANGED <<history, cached, wireVars, clientVars, held, moves, drops>>

\* The next intent changes the state, is stored and its event broadcast.
Emit ==
  /\ ~Free
  /\ history' = Append(history, Mutate(state, Head(todo)))
  /\ todo' = Tail(todo)
  /\ down' = IF sock = "open" THEN Append(down, EventMessage(Head(todo))) ELSE down
  /\ UNCHANGED <<cached, sock, up, clientVars, held, moves, drops>>

----------------------------------------------------------------------------
(* What the client makes of a message *)

\* handleOpen: a client that has seen events asks to resume.
Open ==
  /\ sock = "closed"
  /\ sock' = "handshake"
  /\ up' = IF lastEventSeq > 0 THEN <<[kind |-> "view.request"]>> ELSE <<>>
  /\ UNCHANGED <<engineVars, down, clientVars, held, moves, drops>>

Received(kind) == sock = "open" /\ down # <<>> /\ Head(down).kind = kind

Ask == up' = Append(up, [kind |-> "view.request"])

\* handleWelcome asks for a view, although one is on its way.
Welcomed ==
  /\ Received("welcome")
  /\ down' = Tail(down)
  /\ Ask
  /\ UNCHANGED <<engineVars, sock, clientVars, held, moves, drops>>

\* Mutations: the moves that are pending survive the view; the number of the
\* view is not taken over.
TakeViewKeepsPending(m) ==
  /\ mirror' = m.view
  /\ viewed' = m.view.activeSceneId
  /\ synced' = TRUE
  /\ lastEventSeq' = m.seq
  /\ UNCHANGED pending
TakeViewKeepsSeq(m) ==
  /\ mirror' = m.view /\ pending' = NoPending
  /\ viewed' = m.view.activeSceneId
  /\ synced' = TRUE
  /\ UNCHANGED lastEventSeq

\* handleView and applyView: all that was there is replaced.
TakeView(m) ==
  /\ mirror' = m.view /\ pending' = NoPending
  /\ viewed' = m.view.activeSceneId
  /\ synced' = TRUE
  /\ lastEventSeq' = m.seq

Viewed ==
  /\ Received("view")
  /\ down' = Tail(down)
  /\ TakeView(Head(down))
  /\ UNCHANGED <<engineVars, sock, up, held, moves, drops>>

Unhandled == {"actor.replaceData", "token.replaceData", "scene.replaceData"}

\* Mutation: the permissions of seats are not followed.
ApplyEventWithoutSeats(mr, e) ==
  IF e.kind \in Unhandled \cup {"actor.linkSeat"} THEN mr ELSE Mutate(mr, e)

\* applyEvent: the client has a branch for every event but dataReplaced, and
\* it does to the mirror what the server's mutation does to the state; the
\* fields an event lacks are empty.
ApplyEvent(mr, e) == IF e.kind \in Unhandled THEN mr ELSE Mutate(mr, e)

\* Mutation: a token that is deleted leaves its pending move behind.
SettlesByMove(e, t) == e.kind = "token.move" /\ e.tokenId = t

\* The server has decided where token t is.
Settles(e, t) == e.kind \in {"token.move", "token.delete"} /\ e.tokenId = t

\* handleEvent finds an event missing and asks for a view.
Gap(n) == lastEventSeq > 0 /\ n > lastEventSeq + 1

Resync == Ask /\ UNCHANGED <<mirror, pending, lastEventSeq>>

\* A full event is applied, and settles the pending move of its token.
EventReceived ==
  /\ Received("event")
  /\ down' = Tail(down)
  /\ LET m == Head(down) IN
       IF Gap(m.seq) THEN Resync
       ELSE /\ mirror' = ApplyEvent(mirror, m.event)
            /\ pending' = [t \in TokenIds |->
                             IF Settles(m.event, t) THEN None ELSE pending[t]]
            /\ lastEventSeq' = m.seq
            /\ UNCHANGED up
  /\ UNCHANGED <<engineVars, sock, synced, viewed, held, moves, drops>>

\* A redacted event only advances the number.
RedactedReceived ==
  /\ Received("redacted")
  /\ down' = Tail(down)
  /\ IF Gap(Head(down).seq) THEN Resync
     ELSE lastEventSeq' = Head(down).seq /\ UNCHANGED <<mirror, pending, up>>
  /\ UNCHANGED <<engineVars, sock, synced, viewed, held, moves, drops>>

PutToken(mr, t, p) == [mr EXCEPT !.tokens[t].position = p]

\* Mutation: the tokens stay where they were dragged.
ForgetMoves == pending' = NoPending /\ UNCHANGED mirror

\* revertOptimisticMoves: every pending move, not only the one rejected.
RevertMoves ==
  /\ mirror' = [mirror EXCEPT !.tokens = [t \in TokenIds |->
                  IF @[t] # None /\ pending[t] # None
                  THEN [@[t] EXCEPT !.position = pending[t]] ELSE @[t]]]
  /\ pending' = NoPending

Rejected ==
  /\ Received("error")
  /\ down' = Tail(down)
  /\ RevertMoves
  /\ UNCHANGED <<engineVars, sock, up, lastEventSeq, synced, viewed, held, moves, drops>>

----------------------------------------------------------------------------
(* The user, and the loss of the connection *)

\* canDragToken, for the tokens on the canvas.
MayDrag(t) ==
  /\ TokenExists(mirror, t)
  /\ mirror.tokens[t].sceneId = mirror.activeSceneId
  /\ IsGm(Me) \/ Controls(mirror, Me, mirror.tokens[t].actorId)

\* Mutation: the position to go back to is that of the last drag.
RememberLast(t) == [pending EXCEPT ![t] = mirror.tokens[t].position]

\* The position to go back to is the one before the first pending move.
Remember(t) ==
  [pending EXCEPT ![t] = IF @ = None THEN mirror.tokens[t].position ELSE @]

\* Pointer down on a token: the only time its permission is looked at.
Grab(t) ==
  /\ held = None /\ moves < MaxMoves
  /\ MayDrag(t)
  /\ held' = t
  /\ moves' = moves + 1
  /\ UNCHANGED <<engineVars, wireVars, clientVars, drops>>

\* moveTokenOptimistic, of a token that may be gone by now.
MoveAhead(t, p) ==
  IF TokenExists(mirror, t)
  THEN pending' = Remember(t) /\ mirror' = PutToken(mirror, t, p)
  ELSE UNCHANGED <<pending, mirror>>

\* Pointer up at p: the token moves on the canvas, and the request for it is
\* sent unless the socket is closed.
Release(t, p) ==
  /\ held = t
  /\ held' = None
  /\ MoveAhead(t, p)
  /\ up' = IF sock = "closed" THEN up
           ELSE Append(up, [kind |-> "dispatch",
                            request |-> [kind |-> "token.move", tokenId |-> t, position |-> p]])
  /\ UNCHANGED <<engineVars, sock, down, lastEventSeq, synced, viewed, moves, drops>>

\* Pointer cancel, or a click that never became a drag.
LetGo ==
  /\ held # None
  /\ held' = None
  /\ UNCHANGED <<engineVars, wireVars, clientVars, moves, drops>>

Disconnect ==
  /\ drops < MaxDrops
  /\ drops' = drops + 1
  /\ sock' = "closed" /\ up' = <<>> /\ down' = <<>>
  /\ synced' = FALSE
  /\ UNCHANGED <<mirror, pending, lastEventSeq, viewed, held, moves>>

\* The connection is lost with all that is on its way.
Drop == sock # "closed" /\ Disconnect /\ UNCHANGED engineVars

\* The server restarts, or closes the idle engine and opens it again: the
\* board is that of the snapshot, the count goes on where the log ends.
Reopen ==
  /\ Disconnect
  /\ history' = [history EXCEPT ![Len(history)] = Seed]
  /\ todo' = <<>>
  /\ cached' = TRUE

Server == ServeView \/ ServeDispatch \/ Emit
Receive == Welcomed \/ Viewed \/ EventReceived \/ RedactedReceived \/ Rejected

Next ==
  \/ Server \/ ServeOther \/ LoseEarly \/ Accept
  \/ Open \/ Receive
  \/ \E t \in TokenIds : Grab(t)
  \/ \E t \in TokenIds, p \in Positions : Release(t, p)
  \/ LetGo
  \/ Drop \/ Reopen

Spec == Init /\ [][Next]_vars

\* Both ends read what they are sent, and the client reconnects.
FairSpec ==
  Spec /\ WF_vars(Server) /\ WF_vars(Receive) /\ WF_vars(Open) /\ WF_vars(Accept)

----------------------------------------------------------------------------
(* Properties *)

\* What the server had at the number the client has reached.
Base == BoardAt(lastEventSeq)

\* Where the client would show token t with no move pending.
Confirmed(t) ==
  IF pending[t] = None THEN mirror.tokens[t].position ELSE pending[t]

Following == synced /\ cached

\* Apart from moves of the user's own that are pending, the mirror is the
\* server's board at lastEventSeq: the same scene is active, every token
\* shown is there, with that actor and at that place, and none is missing
\* that was on the scene of the last view, but for tokens hidden from the
\* seat.  So a revert, whenever it comes, restores the server's board and not
\* an older one.
MirrorInStep ==
  Following =>
    /\ mirror.activeSceneId = Base.activeSceneId
    /\ \A t \in TokenIds : TokenExists(mirror, t) =>
         /\ TokenExists(Base, t)
         /\ mirror.tokens[t].actorId = Base.tokens[t].actorId
         /\ mirror.tokens[t].sceneId = Base.tokens[t].sceneId
         /\ Confirmed(t) = Base.tokens[t].position
    /\ \A t \in TokenIds :
         /\ TokenExists(Base, t)
         /\ Base.tokens[t].sceneId = viewed
         /\ Visible(Base.tokens[t])
         => TokenExists(mirror, t)

\* The client's own check never lets the user drag a token that the server,
\* at that number, would not let the seat move.
GateIsSound ==
  Following =>
    \A t \in TokenIds, p \in Positions :
      MayDrag(t) =>
        CanMoveToken(Base, OwnArgs, [kind |-> "token.move", tokenId |-> t, position |-> p])

Quiet == sock = "open" /\ Free /\ up = <<>> /\ down = <<>>

\* When nothing is on its way no move is pending any more, and every token
\* on the canvas is where the server has it.
SettledMirror ==
  Quiet /\ cached =>
    /\ pending = NoPending
    /\ \A t \in TokenIds : TokenExists(mirror, t) =>
         /\ TokenExists(state, t)
         /\ mirror.tokens[t].position = state.tokens[t].position

\* No event is missing when it is its turn: the client never meets the gap
\* that handleEvent looks for, whatever connection it is on.
NoGap ==
  synced => \A kind \in {"event", "redacted"} :
              Received(kind) => Head(down).seq = lastEventSeq + 1

\* A move shown ahead of the server is confirmed, taken back or replaced by
\* a view, also when its dispatch or the answer was lost.
PendingSettles ==
  \A t \in TokenIds : cached /\ pending[t] # None ~> pending[t] = None

(* Claims of the documentation that the code does not meet *)

OnCanvas(st) ==
  {t \in TokenIds : /\ TokenExists(st, t) /\ st.tokens[t].sceneId = st.activeSceneId
                    /\ Visible(st.tokens[t])}

\* realtime-ws.md, state authority rule: "Each connection is a projection of
\* server state"; ruleset-engine.md: "Events are the only steady-state
\* server->client information."
CanvasIsProjection == Quiet /\ cached => OnCanvas(mirror) = OnCanvas(state)

\* entities.ts, of a token's field hidden: "hidden from players and visible
\* only to the GM".
HiddenIsUnseen ==
  Following /\ ~IsGm(Me) =>
    \A t \in TokenIds : TokenExists(mirror, t) => ~Base.tokens[t].hidden

\* realtime-ws.md, audiences: public events go to all seats.
PublicReachesAll ==
  Quiet => \A t \in TokenIds :
             TokenExists(state, t) /\ state.tokens[t].sceneId = viewed
               => /\ TokenExists(mirror, t)
                  /\ mirror.tokens[t].position = state.tokens[t].position

----------------------------------------------------------------------------
(* The inductive invariant behind the theorems of ClientMirrorProofs *)

\* Only an open socket carries messages to the client, and one over which no
\* view was received has a view on its way, behind the welcome at most.
WireShape ==
  /\ sock # "open" => down = <<>> /\ ~synced
  /\ sock = "open" /\ ~synced =>
       \/ Len(down) > 0 /\ down[1].kind = "view"
       \/ Len(down) > 1 /\ down[1].kind = "welcome" /\ down[2].kind = "view"

\* By how much a message advances the count.
Advance(m) == IF m.kind \in {"event", "redacted"} THEN 1 ELSE 0

\* From the client's number to the engine's, every message takes the count
\* where its stamp says.
StampsInOrder ==
  /\ lastEventSeq <= seq
  /\ \A i \in 1..Len(down) : down[i].seq <= seq
  /\ \A i \in 1..(Len(down) - 1) : down[i + 1].seq = down[i].seq + Advance(down[i + 1])
  /\ Len(down) > 0 => down[Len(down)].seq = seq
  /\ synced => IF Len(down) > 0
               THEN down[1].seq = lastEventSeq + Advance(down[1])
               ELSE lastEventSeq = seq

\* A token that intent i creates was not there.
MakesNew(st, i) == i.kind = "token.create" => ~TokenExists(st, i.tokenId)

\* A message shows the board of its number, or how it came about.
IsEventAt(n, e) ==
  /\ n > 0
  /\ \E i \in Intent : /\ BoardAt(n) = Mutate(BoardAt(n - 1), i)
                       /\ MakesNew(BoardAt(n - 1), i)
                       /\ e = StoredEvent(i)

MessagesTrue ==
  \A i \in 1..Len(down) :
    /\ down[i].kind = "view" => down[i].view = ViewOf(BoardAt(down[i].seq))
    /\ down[i].kind = "event" => IsEventAt(down[i].seq, down[i].event)
    /\ down[i].kind = "redacted" => ~cached

\* The boards are whole, and the request being served will leave them so.
BoardsWhole ==
  /\ \A n \in 0..seq : Integrity(BoardAt(n))
  /\ ~Free => /\ MakesNew(state, Head(todo))
              /\ Integrity(Mutate(state, Head(todo)))
              /\ Safe(Mutate(state, Head(todo)), Tail(todo))

\* For every pending move its dispatch is on its way or being served, or
\* something is on its way back that settles it.
Moves(r, t) == r.kind = "token.move" /\ r.tokenId = t

Answers(m, t) ==
  \/ m.kind \in {"view", "error"}
  \/ m.kind = "event" /\ Settles(m.event, t)

PendingHasToken == \A t \in TokenIds : pending[t] # None => TokenExists(mirror, t)

PendingIsAnswered ==
  synced /\ cached =>
    \A t \in TokenIds : pending[t] # None =>
      \/ \E i \in 1..Len(up) : up[i].kind = "dispatch" /\ Moves(up[i].request, t)
      \/ \E i \in 1..Len(todo) : Moves(todo[i], t)
      \/ \E i \in 1..Len(down) : Answers(down[i], t)

\* The client knows no permission the server has not given.
PermissionsInStep ==
  Following =>
    \A a \in ActorIds : ActorExists(mirror, a) =>
      /\ ActorExists(Base, a)
      /\ mirror.actors[a].seatPermissions[Me] \in {"none", Base.actors[a].seatPermissions[Me]}

IInv ==
  /\ TypeOK /\ WireShape /\ StampsInOrder /\ MessagesTrue /\ BoardsWhole
  /\ MirrorInStep /\ PermissionsInStep
  /\ PendingHasToken /\ PendingIsAnswered

============================================================================
