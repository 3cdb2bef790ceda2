---------------------------- MODULE EngineCore -----------------------------
(***************************************************************************)
(* EngineCore, the campaign engine: dispatches are chained one behind the  *)
(* other; each runs its resolver, then for every intent changes the state  *)
(* in memory, awaits the append of the event to the log, applies what was  *)
(* stored and broadcasts it to the subscribers.  The engine may be closed, *)
(* the process may crash, and the campaign may be opened again from        *)
(* storage.                                                                *)
(*                                                                         *)
(* An action is the code between two awaits on the Storage interface.      *)
(*                                                                         *)
(* log is the events table (the position of an event is its seq).  Two     *)
(* history variables speak of one session of the engine, from an open on:  *)
(* sinceOpen is what the events stored since give on the snapshot it was   *)
(* opened with, and appendLost whether an append failed since.             *)
(***************************************************************************)
EXTENDS CampaignState

CONSTANTS
  MaxDispatches,      \* bound: how many dispatches a behaviour contains
  Inputs,             \* the requests the environment may send, with their seat
  Clients,            \* listeners that may subscribe to the engine
  Seed,               \* the state in the snapshot row, if any
  RecentLimit,        \* RECENT_EVENTS_LIMIT
  Rulesets,           \* what is loaded: "dnd", and "derived" for a ruleset
                      \* with a recomputeActorData hook
  Faults              \* which of "append" (an append rejects), "crash" occur

ASSUME BoundsAssumption ==
  /\ MaxDispatches \in Nat
  /\ RecentLimit \in Nat \ {0}
  /\ Inputs \subseteq Input
  /\ Rulesets \subseteq {"dnd", "derived"}
  /\ Faults \subseteq {"append", "crash"}

ASSUME SeedAssumption == Seed \in State /\ Integrity(Seed)

Dispatches == 1..MaxDispatches      \* dispatch d is the d-th one submitted

VARIABLES
  state,         \* this.state: scenes, tokens, actors, activeSceneId
  seq,           \* this.state.seq
  recentEvents,  \* this.state.recentEvents, each event by its seq
  closed,        \* this.state.closed
  subscribers,   \* the listeners registered with subscribe()
  cursor,        \* cursor[c]: seq of the last view or event listener c got
  call,          \* call[d]: how far dispatch d has come
  log,           \* the events table of the campaign
  sinceOpen,     \* history: the snapshot with the events stored since
  appendLost     \* history: an append failed since the engine opened

engineVars  == <<state, seq, recentEvents, closed>>
clientVars  == <<subscribers, cursor>>
storageVars == <<log, sinceOpen, appendLost>>
vars == <<engineVars, clientVars, storageVars, call>>

Running == {"append", "apply"}            \* inside dispatchInternal
Done    == {"accepted", "rejected", "lost"}
Phases  == {"new", "queued"} \cup Running \cup Done

NoCall == [phase |-> "new", input |-> None, todo |-> <<>>,
           lastSeq |-> 0, derived |-> FALSE]

Call == [phase : Phases, input : Inputs \cup {None}, todo : Seq(Intent),
         lastSeq : Nat, derived : BOOLEAN]

TypeOK ==
  /\ state \in State /\ sinceOpen \in State
  /\ seq \in Nat /\ closed \in BOOLEAN /\ appendLost \in BOOLEAN
  /\ recentEvents \in Seq(Nat)
  /\ subscribers \subseteq Clients /\ cursor \in [Clients -> Nat]
  /\ log \in Seq(Intent)
  /\ call \in [Dispatches -> Call]

\* The last RecentLimit of the seqs 1..n: pushing them one by one and
\* shifting the oldest out whenever there are more than the limit.
Window(n) ==
  LET first == IF n > RecentLimit THEN n - RecentLimit ELSE 0
  IN  [i \in 1..(n - first) |-> first + i]

\* Mutation: the window grows one too long.
PushRecentLate(q, n) ==
  IF Len(q) > RecentLimit THEN Append(Tail(q), n) ELSE Append(q, n)

PushRecent(q, n) ==
  IF Len(q) + 1 > RecentLimit THEN Append(Tail(q), n) ELSE Append(q, n)

Init ==
  /\ state = Seed /\ sinceOpen = Seed
  /\ seq = 0 /\ recentEvents = <<>>
  /\ closed = FALSE /\ appendLost = FALSE
  /\ subscribers = {} /\ cursor = [c \in Clients |-> 0]
  /\ log = <<>>
  /\ call = [d \in Dispatches |-> NoCall]

----------------------------------------------------------------------------
(* Dispatch *)

\* dispatch(): the call joins the promise chain behind the earlier ones.
Submit(d) ==
  /\ call[d].phase = "new"
  /\ \A e \in Dispatches : e < d => call[e].phase # "new"
  /\ \E input \in Inputs :
       call' = [call EXCEPT ![d].phase = "queued", ![d].input = input]
  /\ UNCHANGED <<engineVars, clientVars, storageVars>>

\* Mutations: dispatches do not wait for each other; a rejection breaks the
\* chain.
AnyTurn(d) == d \in Dispatches
TurnAfterAccepted(d) ==
  \A e \in Dispatches : e < d => call[e].phase \in {"accepted", "lost"}

\* The promises of all earlier dispatches are settled.
Turn(d) == \A e \in Dispatches : e < d => call[e].phase \in Done

\* dispatchInternal refuses: the engine is closed or the resolver throws.
Refuse(d) ==
  /\ call[d].phase = "queued" /\ Turn(d)
  /\ \/ closed
     \/ ~Resolves(state, ResolverArgs(call[d].input), call[d].input.request)
  /\ call' = [call EXCEPT ![d].phase = "rejected"]
  /\ UNCHANGED <<engineVars, clientVars, storageVars>>

\* The loop takes the first of todo: its mutation is made before the append
\* of its event is awaited.
RunIntents(d, todo) ==
  /\ state' = Mutate(state, Head(todo))
  /\ call' = [call EXCEPT ![d].phase = "append", ![d].todo = todo]

\* dispatchInternal accepts the request and starts on its intents.
Begin(d) ==
  /\ call[d].phase = "queued" /\ Turn(d)
  /\ ~closed
  /\ LET input == call[d].input IN
       /\ Resolves(state, ResolverArgs(input), input.request)
       /\ \E todo \in IntentsOf(state, input.request, Rulesets) :
            RunIntents(d, todo)
  /\ UNCHANGED <<seq, recentEvents, closed, clientVars, storageVars>>

\* Storage assigns MAX(seq) + 1 and inserts the event.
Commit(d) ==
  /\ call[d].phase = "append"
  /\ LET event == StoredEvent(Head(call[d].todo)) IN
       /\ log' = Append(log, event)
       /\ sinceOpen' = Mutate(sinceOpen, event)
  /\ call' = [call EXCEPT ![d].phase = "apply", ![d].lastSeq = Len(log) + 1]
  /\ UNCHANGED <<engineVars, clientVars, appendLost>>

\* appendEvent rejects: the exception leaves dispatchInternal, dispatch()
\* answers accepted: false, and the mutation stays in memory.
AppendFails(d) ==
  /\ "append" \in Faults
  /\ call[d].phase = "append"
  /\ appendLost' = TRUE
  /\ call' = [call EXCEPT ![d].phase = "rejected"]
  /\ UNCHANGED <<engineVars, clientVars, log, sinceOpen>>

\* applyEvent and broadcastEvent for the event just stored.
ApplyAndBroadcast(d) ==
  /\ call[d].phase = "apply"
  /\ seq' = call[d].lastSeq
  /\ recentEvents' = PushRecent(recentEvents, call[d].lastSeq)
  /\ cursor' = [c \in Clients |->
                  IF c \in subscribers THEN call[d].lastSeq ELSE cursor[c]]
  /\ UNCHANGED <<closed, subscribers, storageVars>>

\* The intents that touch an actor's data wake the derived-field hook, once.
HookDue(d) ==
  /\ "derived" \in Rulesets /\ ~call[d].derived
  /\ Head(call[d].todo).kind = "actor.replaceData"

\* The next intent of the loop follows in the same turn.
Proceed(d) ==
  /\ ApplyAndBroadcast(d)
  /\ Len(call[d].todo) > 1
  /\ RunIntents(d, Tail(call[d].todo))

\* The hook returns a patch for an actor, which is merged into its data and
\* appended like an actor.replaceData.  (One patch: a map of several is a
\* longer run of the same steps.)
RunHook(d) ==
  /\ ApplyAndBroadcast(d)
  /\ Len(call[d].todo) = 1 /\ HookDue(d)
  /\ \E a \in ActorIds, data \in Data :
       LET patch == [kind |-> "actor.replaceData", actorId |-> a, data |-> data]
       IN  /\ ActorExists(state, a)
           /\ state' = Mutate(state, patch)
           /\ call' = [call EXCEPT ![d].phase = "append",
                                   ![d].todo = <<patch>>,
                                   ![d].derived = TRUE]

\* The hook throws: the dispatch is rejected although its event went out.
HookThrows(d) ==
  /\ ApplyAndBroadcast(d)
  /\ Len(call[d].todo) = 1 /\ HookDue(d)
  /\ call' = [call EXCEPT ![d].phase = "rejected"]
  /\ UNCHANGED state

\* The last event is out, and no hook is due or it patches nothing.
Accept(d) ==
  /\ ApplyAndBroadcast(d)
  /\ Len(call[d].todo) = 1
  /\ call' = [call EXCEPT ![d].phase = "accepted"]
  /\ UNCHANGED state

----------------------------------------------------------------------------
(* Listeners, close, crash, open *)

\* The WebSocket handler subscribes and sends getView().lastSeq in one turn.
Subscribe(c) ==
  /\ ~closed
  /\ c \notin subscribers
  /\ subscribers' = subscribers \cup {c}
  /\ cursor' = [cursor EXCEPT ![c] = seq]
  /\ UNCHANGED <<engineVars, storageVars, call>>

Unsubscribe(c) ==
  /\ c \in subscribers
  /\ subscribers' = subscribers \ {c}
  /\ UNCHANGED <<engineVars, storageVars, cursor, call>>

\* close() neither waits for the dispatch in flight nor writes a snapshot.
Close ==
  /\ ~closed
  /\ closed' = TRUE
  /\ subscribers' = {}
  /\ UNCHANGED <<state, seq, recentEvents, cursor, storageVars, call>>

\* The process stops: whatever was queued or in flight is never answered.
Crash ==
  /\ "crash" \in Faults
  /\ ~closed
  /\ closed' = TRUE
  /\ subscribers' = {}
  /\ call' = [d \in Dispatches |->
                IF call[d].phase \in {"queued"} \cup Running
                THEN [call[d] EXCEPT !.phase = "lost"] ELSE call[d]]
  /\ UNCHANGED <<state, seq, recentEvents, cursor, storageVars>>

\* Mutation: open() starts counting at the snapshot's seq.
OpenAtSnapshot ==
  /\ closed
  /\ \A d \in Dispatches : call[d].phase \in {"new"} \cup Done
  /\ closed' = FALSE
  /\ state' = Seed
  /\ seq' = 0 /\ recentEvents' = <<>>
  /\ sinceOpen' = Seed /\ appendLost' = FALSE
  /\ UNCHANGED <<clientVars, log, call>>

\* EngineCore.open on a campaign whose previous engine has settled: entities
\* come from the snapshot; the events after it only move seq and
\* recentEvents.
Open ==
  /\ closed
  /\ \A d \in Dispatches : call[d].phase \in {"new"} \cup Done
  /\ closed' = FALSE
  /\ state' = Seed
  /\ seq' = Len(log)
  /\ recentEvents' = Window(Len(log))
  /\ sinceOpen' = Seed /\ appendLost' = FALSE
  /\ UNCHANGED <<clientVars, log, call>>

Deliver(d) == Proceed(d) \/ RunHook(d) \/ HookThrows(d) \/ Accept(d)

\* The turns of dispatch d that the event loop and storage always complete.
Serve(d) == Refuse(d) \/ Begin(d) \/ Commit(d) \/ AppendFails(d) \/ Deliver(d)

Next ==
  \/ \E d \in Dispatches : Submit(d) \/ Serve(d)
  \/ \E c \in Clients : Subscribe(c) \/ Unsubscribe(c)
  \/ Close \/ Crash \/ Open

Spec == Init /\ [][Next]_vars

\* A promise the code awaits settles, and its continuation runs.
FairSpec == Spec /\ \A d \in Dispatches : WF_vars(Serve(d))

----------------------------------------------------------------------------
(* Properties *)

Idle == \A d \in Dispatches : call[d].phase \notin Running

\* While the engine is open its seq is the highest seq in the log, except
\* that an event just stored and not yet applied is one ahead: no event is
\* broadcast before it is stored, none is skipped, and open() resumes the
\* count where the log ends.
SeqTracksLog ==
  ~closed => Len(log) = seq + Cardinality({d \in Dispatches : call[d].phase = "apply"})

\* A listener that stays subscribed hears every seq exactly once, in order,
\* starting right after the lastSeq of the view it got when it subscribed.
GapFree ==
  [][\A c \in Clients : c \in subscribers /\ c \in subscribers' =>
        /\ cursor'[c] - cursor[c] \in {0, 1}
        /\ cursor'[c] - cursor[c] = seq' - seq]_vars

\* The window of recent events a view carries ends with the event of the
\* view's lastSeq and has no hole, also right after the engine was reopened.
RecentIsLogTail == recentEvents = Window(seq)

\* At every await, and so in every view, each token stands on a scene that
\* exists and the active scene exists: the cascade of scene.delete takes the
\* tokens away before the scene, and no other dispatch gets in between.
BoardIntegrity == Integrity(state)

\* The events stored since the engine was opened never give, on the snapshot
\* it was opened with, a token without its scene: not between two appends of
\* one dispatch either, where a crash may cut them short.  (Across an open
\* the log as a whole gives no such board: LogReplaysWhole.)
SessionIntegrity == ~appendLost => Integrity(sinceOpen)

\* Between two dispatches the board in memory is the one that the events
\* stored since the open give on the snapshot, as long as no append was lost.
BoardIsReplay ==
  ~closed /\ Idle /\ ~appendLost => Board(state) = Board(sinceOpen)

\* What a resolver checks of a move still holds when the move is stored: the
\* seat it was told, unless it was told a GM, controls the token's actor in
\* the state as it is then, not only when the resolver looked.  (The seat is
\* that of ResolverArgs, not always the seat of the connection.)
AuthorisedAtCommit ==
  [][\A d \in Dispatches :
       LET args == ResolverArgs(call[d].input) IN
       /\ call[d].phase = "append" /\ call'[d].phase = "apply"
       /\ Head(call[d].todo).kind = "token.move"
       /\ ~args.isGm
       => LET t == Head(call[d].todo).tokenId IN
            /\ TokenExists(state, t)
            /\ Controls(state, args.seatId, state.tokens[t].actorId)]_vars

\* Every dispatch submitted is answered, or lost with the process: a refused
\* or failed dispatch does not break the chain behind it.
EveryDispatchSettles ==
  \A d \in Dispatches : call[d].phase = "queued" ~> call[d].phase \in Done

(* Claims of the documentation that the code does not meet *)

\* data-model.md: "EventRecord can reconstruct CampaignState from any retained
\* Snapshot"; on restart, "Replay events to reconstruct CampaignState".
ReopenKeepsBoard ==
  [][closed /\ ~closed' => Board(state') = Board(state)]_vars

\* data-model.md: the events reconstruct the state from any snapshot kept, so
\* the whole log does from the one there is, across every open, and gives a
\* board where each token has its scene.
LogReplaysWhole == Integrity(Applied(Seed, log))

----------------------------------------------------------------------------
(* The inductive invariant behind the theorems of EngineCoreProofs *)

\* Calls run one at a time, in order, each with an intent in hand.
CallsInOrder ==
  \A d \in Dispatches :
    /\ call[d].phase # "new" => call[d].input \in Inputs
    /\ call[d].phase \in Running => Len(call[d].todo) > 0 /\ Turn(d)

\* What a dispatch has still to do will not break the board.
RestIsSafe ==
  \A d \in Dispatches :
    call[d].phase \in Running => Safe(state, Tail(call[d].todo))

\* The seqs of the engine and of the log agree, but for the event stored and
\* not yet applied.
SeqInStep ==
  /\ \A d \in Dispatches :
       /\ call[d].phase = "append" => Len(log) = seq
       /\ call[d].phase = "apply" => /\ Len(log) = seq + 1
                                     /\ call[d].lastSeq = Len(log)
  /\ ~closed /\ (\A d \in Dispatches : call[d].phase # "apply")
       => Len(log) = seq

\* Every listener has heard all there was to hear.
SubscribersInStep ==
  \A c \in subscribers : ~closed /\ cursor[c] = seq

\* The board in memory is the one the log gives, but for an intent whose
\* event is still to be stored.
ReplayInStep ==
  ~appendLost =>
    /\ \A d \in Dispatches :
         /\ call[d].phase = "append" =>
              Board(state) = Board(Mutate(sinceOpen, StoredEvent(Head(call[d].todo))))
         /\ call[d].phase = "apply" => Board(state) = Board(sinceOpen)
    /\ ~closed /\ Idle => Board(state) = Board(sinceOpen)

\* A move whose event is being stored is one its resolver would allow still.
MovesAuthorised ==
  \A d \in Dispatches :
    /\ call[d].phase = "append"
    /\ Head(call[d].todo).kind = "token.move"
    /\ ~ResolverArgs(call[d].input).isGm
    => CanMoveToken(state, ResolverArgs(call[d].input), Head(call[d].todo))

IInv ==
  /\ TypeOK /\ CallsInOrder
  /\ BoardIntegrity /\ RestIsSafe
  /\ SeqInStep /\ SubscribersInStep /\ RecentIsLogTail
  /\ SessionIntegrity /\ ReplayInStep
  /\ MovesAuthorised

============================================================================
