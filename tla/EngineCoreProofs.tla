-------------------------- MODULE EngineCoreProofs --------------------------
(***************************************************************************)
(* Theorems about EngineCore for every campaign, every set of requests and *)
(* every number of dispatches, with all faults allowed.                    *)
(***************************************************************************)
EXTENDS EngineCoreRefinement, CampaignStateProofs, FiniteSetTheorems, SequenceTheorems

----------------------------------------------------------------------------
(* Type correctness *)

\* What is asked is a request of a seat.
LEMMA InputFields ==
  ASSUME NEW input \in Inputs
  PROVE  input.request \in Request /\ input.seatId \in Seats
BY BoundsAssumption DEF Input

\* The ways in which a turn updates the record of its call.
LEMMA CallUpdates ==
  ASSUME NEW f \in [Dispatches -> Call], NEW d \in Dispatches, NEW p \in Phases
  PROVE  /\ [f EXCEPT ![d].phase = p] \in [Dispatches -> Call]
         /\ \A i \in Inputs :
              [f EXCEPT ![d].phase = p, ![d].input = i] \in [Dispatches -> Call]
         /\ \A n \in Nat :
              [f EXCEPT ![d].phase = p, ![d].lastSeq = n] \in [Dispatches -> Call]
         /\ \A q \in Seq(Intent) :
              [f EXCEPT ![d].phase = p, ![d].todo = q] \in [Dispatches -> Call]
         /\ \A i \in Intent :
              [f EXCEPT ![d].phase = p, ![d].todo = <<i>>, ![d].derived = TRUE]
                \in [Dispatches -> Call]
<1>1. [f EXCEPT ![d].phase = p] \in [Dispatches -> Call]
  BY DEF Call
<1>2. ASSUME NEW i \in Inputs
      PROVE  [f EXCEPT ![d].phase = p, ![d].input = i] \in [Dispatches -> Call]
  BY DEF Call
<1>3. ASSUME NEW n \in Nat
      PROVE  [f EXCEPT ![d].phase = p, ![d].lastSeq = n] \in [Dispatches -> Call]
  BY DEF Call
<1>4. ASSUME NEW q \in Seq(Intent)
      PROVE  [f EXCEPT ![d].phase = p, ![d].todo = q] \in [Dispatches -> Call]
  BY DEF Call
<1>5. ASSUME NEW i \in Intent
      PROVE  [f EXCEPT ![d].phase = p, ![d].todo = <<i>>, ![d].derived = TRUE]
                \in [Dispatches -> Call]
  <2>1. <<i>> \in Seq(Intent)
    OBVIOUS
  <2>2. QED
    BY <2>1, ZenonT(30) DEF Call
<1>6. QED
  BY <1>1, <1>2, <1>3, <1>4, <1>5

\* One intent of a dispatch is mutated and the next state is a state.
LEMMA RunIntentsType ==
  ASSUME TypeOK, NEW d \in Dispatches, NEW todo \in Seq(Intent), Len(todo) > 0,
         RunIntents(d, todo)
  PROVE  state' \in State /\ call' \in [Dispatches -> Call]
<1>1. Head(todo) \in Intent
  OBVIOUS
<1>2. state' \in State
  BY <1>1, MutateType DEF RunIntents, TypeOK
<1>3. QED
  BY <1>2, CallUpdates DEF RunIntents, TypeOK, Phases, Running

LEMMA WindowType ==
  ASSUME NEW n \in Nat
  PROVE  Window(n) \in Seq(Nat)
<1>1. CASE n > RecentLimit
  <2>1. Window(n) \in [1..RecentLimit -> Nat]
    BY <1>1, BoundsAssumption DEF Window
  <2>2. QED
    BY <2>1, BoundsAssumption, SeqDef
<1>2. CASE ~(n > RecentLimit)
  <2>1. Window(n) \in [1..n -> Nat]
    BY <1>2, BoundsAssumption DEF Window
  <2>2. QED
    BY <2>1, SeqDef
<1>3. QED
  BY <1>1, <1>2

LEMMA InitType == Init => TypeOK
<1>1. NoCall \in Call
  BY DEF NoCall, Call, Phases
<1>2. Init => call \in [Dispatches -> Call]
  BY <1>1 DEF Init
<1>3. << >> \in Seq(Nat) /\ << >> \in Seq(Intent)
  OBVIOUS
<1>4. Init => cursor \in [Clients -> Nat] /\ subscribers \subseteq Clients
  BY DEF Init
<1>5. Init => state \in State /\ sinceOpen \in State
  BY SeedAssumption DEF Init
<1>6. Init => closed \in BOOLEAN /\ appendLost \in BOOLEAN
  BY FALSE \in BOOLEAN, Zenon DEF Init
<1>7. Init => recentEvents \in Seq(Nat) /\ log \in Seq(Intent) /\ seq \in Nat
  BY <1>3 DEF Init
<1>8. QED
  BY <1>2, <1>4, <1>5, <1>6, <1>7 DEF TypeOK

LEMMA StepType ==
  ASSUME TypeOK, CallsInOrder, [Next]_vars
  PROVE  TypeOK'
<1> USE DEF TypeOK
<1>0. \A d \in Dispatches : /\ call[d].todo \in Seq(Intent)
                            /\ call[d].lastSeq \in Nat
  BY DEF Call
<1>1. ASSUME NEW d \in Dispatches, Submit(d)
      PROVE  TypeOK'
  <2>1. PICK input \in Inputs :
          call' = [call EXCEPT ![d].phase = "queued", ![d].input = input]
    BY <1>1 DEF Submit
  <2>2. call' \in [Dispatches -> Call]
    BY <2>1, CallUpdates DEF Phases
  <2>3. QED
    BY <1>1, <2>2 DEF Submit, engineVars, clientVars, storageVars
<1>2. ASSUME NEW d \in Dispatches, Refuse(d)
      PROVE  TypeOK'
  BY <1>2, CallUpdates DEF Refuse, engineVars, clientVars, storageVars, Phases, Done
<1>3. ASSUME NEW d \in Dispatches, Begin(d)
      PROVE  TypeOK'
  <2>1. PICK todo \in IntentsOf(state, call[d].input.request, Rulesets) : RunIntents(d, todo)
    BY <1>3 DEF Begin
  <2>2. call[d].input.request \in Request
    BY <1>3, InputFields DEF Begin, CallsInOrder
  <2>3. todo \in Seq(Intent) /\ Len(todo) > 0
    BY <2>2, IntentsType
  <2>4. QED
    BY <1>3, <2>1, <2>3, RunIntentsType DEF Begin, clientVars, storageVars
<1>4. ASSUME NEW d \in Dispatches, Commit(d)
      PROVE  TypeOK'
  <2>1. Head(call[d].todo) \in Intent
    BY <1>0, <1>4 DEF Commit, CallsInOrder, Running
  <2>2. StoredEvent(Head(call[d].todo)) \in Intent
    BY <2>1, StoredEventType
  <2>3. sinceOpen' \in State /\ log' \in Seq(Intent)
    BY <1>4, <2>2, MutateType DEF Commit
  <2>4. call' \in [Dispatches -> Call]
    <3>1. Len(log) + 1 \in Nat /\ "apply" \in Phases
      BY DEF Phases, Running
    <3>2. call' = [call EXCEPT ![d].phase = "apply", ![d].lastSeq = Len(log) + 1]
      BY <1>4 DEF Commit
    <3>3. QED
      BY <3>1, <3>2, CallUpdates
  <2>5. QED
    BY <1>4, <2>3, <2>4 DEF Commit, engineVars, clientVars
<1>5. ASSUME NEW d \in Dispatches, AppendFails(d)
      PROVE  TypeOK'
  BY <1>5, CallUpdates DEF AppendFails, engineVars, clientVars, Phases, Done
<1>6. ASSUME NEW d \in Dispatches, Deliver(d)
      PROVE  TypeOK'
  <2>1. ApplyAndBroadcast(d)
    BY <1>6 DEF Deliver, Proceed, RunHook, HookThrows, Accept
  <2>2. /\ seq' \in Nat /\ recentEvents' \in Seq(Nat)
        /\ cursor' \in [Clients -> Nat]
        /\ closed' \in BOOLEAN /\ subscribers' \subseteq Clients
        /\ log' \in Seq(Intent) /\ sinceOpen' \in State /\ appendLost' \in BOOLEAN
    BY <1>0, <2>1, BoundsAssumption DEF ApplyAndBroadcast, PushRecent, storageVars
  <2>3. CASE Proceed(d)
    <3>1. Tail(call[d].todo) \in Seq(Intent) /\ Len(Tail(call[d].todo)) > 0
      BY <1>0, <2>3 DEF Proceed
    <3>2. QED
      BY <2>2, <2>3, <3>1, RunIntentsType DEF Proceed
  <2>4. CASE RunHook(d)
    <3>1. PICK a \in ActorIds, data \in Data :
            LET patch == [kind |-> "actor.replaceData", actorId |-> a, data |-> data]
            IN  /\ state' = Mutate(state, patch)
                /\ call' = [call EXCEPT ![d].phase = "append",
                                        ![d].todo = <<patch>>,
                                        ![d].derived = TRUE]
      BY <2>4 DEF RunHook
    <3> DEFINE patch == [kind |-> "actor.replaceData", actorId |-> a, data |-> data]
    <3>2. patch \in Intent
      BY DEF Intent, Request
    <3> HIDE DEF patch
    <3>3. /\ state' = Mutate(state, patch)
          /\ call' = [call EXCEPT ![d].phase = "append", ![d].todo = <<patch>>,
                                  ![d].derived = TRUE]
      BY <3>1 DEF patch
    <3>4. state' \in State
      BY <3>2, <3>3, MutateType
    <3>5. QED
      BY <2>2, <3>2, <3>3, <3>4, CallUpdates DEF Phases, Running
  <2>5. CASE HookThrows(d) \/ Accept(d)
    <3>1. state' = state
      BY <2>5 DEF HookThrows, Accept
    <3>2. call' \in [Dispatches -> Call]
      <4>1. PICK p \in {"accepted", "rejected"} : call' = [call EXCEPT ![d].phase = p]
        BY <2>5 DEF HookThrows, Accept
      <4>2. p \in Phases
        BY DEF Phases, Done
      <4>3. QED
        BY <4>1, <4>2, CallUpdates
    <3>3. QED
      BY <2>2, <3>1, <3>2
  <2>6. QED
    BY <1>6, <2>3, <2>4, <2>5 DEF Deliver
<1>7. ASSUME NEW c \in Clients, Subscribe(c) \/ Unsubscribe(c)
      PROVE  TypeOK'
  BY <1>7 DEF Subscribe, Unsubscribe, engineVars, storageVars
<1>8. CASE Close
  BY <1>8 DEF Close, storageVars
<1>9. CASE Crash
  <2>1. call' \in [Dispatches -> Call]
    BY <1>9, ZenonT(30) DEF Crash, Call, Phases, Done
  <2>2. QED
    BY <1>9, <2>1 DEF Crash, storageVars
<1>10. CASE Open
  <2>1. Len(log) \in Nat
    OBVIOUS
  <2>2. QED
    BY <1>10, <2>1, WindowType, SeedAssumption DEF Open, clientVars
<1>11. CASE UNCHANGED vars
  BY <1>11 DEF vars, engineVars, clientVars, storageVars
<1>12. QED
  BY <1>1, <1>2, <1>3, <1>4, <1>5, <1>6, <1>7, <1>8, <1>9, <1>10, <1>11
     DEF Next, Serve

----------------------------------------------------------------------------
(* Dispatches run one at a time, in the order of submission *)

\* At most one dispatch is inside dispatchInternal.
LEMMA OneRunning ==
  ASSUME CallsInOrder, NEW d \in Dispatches, NEW e \in Dispatches,
         call[d].phase \in Running, call[e].phase \in Running
  PROVE  d = e
<1>1. d \in Int /\ e \in Int
  BY BoundsAssumption DEF Dispatches
<1>2. ~(d < e) /\ ~(e < d)
  BY DEF CallsInOrder, Turn, Running, Done
<1>3. QED
  BY <1>1, <1>2

\* A turn of d changes no other call, and leaves d an intent while it runs.
LEMMA ServeEffect ==
  ASSUME TypeOK, CallsInOrder, NEW d \in Dispatches, Serve(d)
  PROVE  /\ call[d].phase \in {"queued"} \cup Running /\ Turn(d)
         /\ \A e \in Dispatches : e # d => call'[e] = call[e]
         /\ call'[d].input = call[d].input
         /\ call'[d].phase \in Running \cup Done /\ call'[d].phase # "lost"
         /\ call'[d].phase \in Running => Len(call'[d].todo) > 0
<1> USE DEF Running, Done
<1>1. /\ call \in [Dispatches -> Call]
      /\ call[d].todo \in Seq(Intent)
  BY DEF TypeOK, Call
<1>2. CASE Refuse(d)
  BY <1>1, <1>2 DEF Refuse, Call
<1>3. CASE Begin(d)
  <2>1. PICK todo \in IntentsOf(state, call[d].input.request, Rulesets) : RunIntents(d, todo)
    BY <1>3 DEF Begin
  <2>2. state \in State /\ call[d].input.request \in Request
    BY <1>3, InputFields DEF Begin, CallsInOrder, TypeOK
  <2>3. Len(todo) > 0
    BY <2>2, IntentsType
  <2>4. QED
    BY <1>1, <1>3, <2>1, <2>3 DEF Begin, RunIntents, Call
<1>4. CASE Commit(d)
  BY <1>1, <1>4 DEF Commit, Call, CallsInOrder
<1>5. CASE AppendFails(d)
  BY <1>1, <1>5 DEF AppendFails, Call, CallsInOrder
<1>6. CASE Proceed(d)
  <2>1. Len(Tail(call[d].todo)) > 0
    BY <1>1, <1>6 DEF Proceed
  <2>2. QED
    BY <1>1, <1>6, <2>1 DEF Proceed, ApplyAndBroadcast, RunIntents, Call, CallsInOrder
<1>7. CASE RunHook(d)
  <2>1. PICK patch : call' = [call EXCEPT ![d].phase = "append",
                                          ![d].todo = <<patch>>,
                                          ![d].derived = TRUE]
    BY <1>7 DEF RunHook
  <2>2. Len(<<patch>>) = 1
    OBVIOUS
  <2>3. QED
    BY <1>1, <1>7, <2>1, <2>2 DEF RunHook, ApplyAndBroadcast, Call, CallsInOrder
<1>8. CASE HookThrows(d)
  BY <1>1, <1>8 DEF HookThrows, ApplyAndBroadcast, Call, CallsInOrder
<1>9. CASE Accept(d)
  BY <1>1, <1>9 DEF Accept, ApplyAndBroadcast, Call, CallsInOrder
<1>10. QED
  BY <1>2, <1>3, <1>4, <1>5, <1>6, <1>7, <1>8, <1>9 DEF Serve, Deliver

LEMMA StepOrder ==
  ASSUME TypeOK, CallsInOrder, [Next]_vars
  PROVE  CallsInOrder'
<1>0. call \in [Dispatches -> Call] /\ \A d \in Dispatches : d \in Int
  BY BoundsAssumption DEF TypeOK, Dispatches
<1>1. ASSUME NEW d \in Dispatches, Submit(d)
      PROVE  CallsInOrder'
  <2>1. /\ call[d].phase = "new"
        /\ call'[d].phase = "queued" /\ call'[d].input \in Inputs
        /\ \A e \in Dispatches : e # d => call'[e] = call[e]
    BY <1>0, <1>1 DEF Submit, Call
  <2>2. QED
    BY <1>0, <2>1 DEF CallsInOrder, Turn, Running, Done
<1>2. ASSUME NEW d \in Dispatches, Serve(d)
      PROVE  CallsInOrder'
  BY <1>0, <1>2, ServeEffect DEF CallsInOrder, Turn, Running, Done
<1>3. CASE Crash
  BY <1>0, <1>3 DEF Crash, Call, CallsInOrder, Turn, Running, Done
<1>4. CASE call' = call
  BY <1>4 DEF CallsInOrder, Turn
<1>5. QED
  BY <1>1, <1>2, <1>3, <1>4
     DEF Next, Subscribe, Unsubscribe, Close, Open, vars

\* While d is served, no other dispatch is inside dispatchInternal.
LEMMA Alone ==
  ASSUME CallsInOrder, NEW d \in Dispatches, NEW e \in Dispatches, e # d,
         call[d].phase \in {"queued"} \cup Running, Turn(d)
  PROVE  call[e].phase \notin Running
<1>1. d \in Int /\ e \in Int
  BY BoundsAssumption DEF Dispatches
<1>2. CASE e < d
  BY <1>2 DEF Turn, Running, Done
<1>3. CASE d < e
  BY <1>3 DEF CallsInOrder, Turn, Running, Done
<1>4. QED
  BY <1>1, <1>2, <1>3

----------------------------------------------------------------------------
(* The board keeps its integrity at every await *)

\* A step that leaves the board alone and starts no intent.
LEMMA QuietStep ==
  ASSUME BoardIntegrity, RestIsSafe, state' = state,
         \A e \in Dispatches : call'[e].phase \in Running =>
           call[e].phase \in Running /\ call'[e].todo = call[e].todo
  PROVE  BoardIntegrity' /\ RestIsSafe'
BY DEF BoardIntegrity, RestIsSafe, Integrity, TokenExists, SceneExists, Safe,
       TokensIn

\* The patch of the hook changes no scene and no token.
LEMMA PatchKeepsIntegrity ==
  ASSUME NEW st \in State, Integrity(st), NEW a \in ActorIds, NEW data,
         NEW patch, patch = [kind |-> "actor.replaceData", actorId |-> a, data |-> data]
  PROVE  Integrity(Mutate(st, patch))
BY DEF Integrity, TokenExists, SceneExists, State, Mutate, ReplaceActorData

LEMMA StepBoard ==
  ASSUME TypeOK, CallsInOrder, BoardIntegrity, RestIsSafe, [Next]_vars
  PROVE  BoardIntegrity' /\ RestIsSafe'
<1>0. /\ call \in [Dispatches -> Call] /\ state \in State
      /\ \A d \in Dispatches : call[d].todo \in Seq(Intent)
  BY DEF TypeOK, Call
<1>1. ASSUME NEW d \in Dispatches, Submit(d)
      PROVE  BoardIntegrity' /\ RestIsSafe'
  <2>1. /\ state' = state /\ call'[d].phase \notin Running
        /\ \A e \in Dispatches : e # d => call'[e] = call[e]
    BY <1>0, <1>1 DEF Submit, engineVars, Call, Running
  <2>2. QED
    BY <2>1, QuietStep
<1>2. ASSUME NEW d \in Dispatches, Serve(d)
      PROVE  BoardIntegrity' /\ RestIsSafe'
  <2>1. /\ \A e \in Dispatches : e # d =>
             call'[e] = call[e] /\ call[e].phase \notin Running
        /\ call[d].phase \in Running => Len(call[d].todo) > 0
    BY <1>2, ServeEffect, Alone DEF CallsInOrder
  <2>2. ASSUME NEW todo \in Seq(Intent),
               call'[d].todo = todo,
               Integrity(state'), Safe(state', Tail(todo))
        PROVE  BoardIntegrity' /\ RestIsSafe'
    <3>1. BoardIntegrity'
      BY <2>2 DEF BoardIntegrity, Integrity, TokenExists, SceneExists
    <3>2. ASSUME NEW e \in Dispatches, call'[e].phase \in Running
          PROVE  Safe(state', Tail(call'[e].todo))
      BY <2>1, <2>2, <3>2
    <3>3. QED
      BY <3>1, <3>2 DEF RestIsSafe, Safe, TokensIn, TokenExists
  <2>3. CASE Refuse(d) \/ Commit(d) \/ AppendFails(d) \/ HookThrows(d) \/ Accept(d)
    <3>1. /\ state' = state
          /\ call'[d].phase \in Running =>
               call[d].phase \in Running /\ call'[d].todo = call[d].todo
      BY <1>0, <2>3 DEF Refuse, Commit, AppendFails, HookThrows, Accept,
         ApplyAndBroadcast, engineVars, Call, Running
    <3>2. QED
      BY <2>1, <3>1, QuietStep
  <2>4. CASE Begin(d)
    <3> DEFINE input == call[d].input
    <3>1. PICK todo \in IntentsOf(state, input.request, Rulesets) : RunIntents(d, todo)
      BY <2>4 DEF Begin
    <3>2. input.request \in Request /\ Resolves(state, ResolverArgs(input), input.request)
      BY <2>4, InputFields DEF Begin, CallsInOrder
    <3>3. todo \in Seq(Intent)
      BY <1>0, <3>2, IntentsType
    <3>4. state' = Mutate(state, Head(todo)) /\ call'[d].todo = todo
      BY <1>0, <3>1 DEF RunIntents, Call
    <3>5. Integrity(state') /\ Safe(state', Tail(todo))
      BY <1>0, <3>2, <3>4, BeginIsSafe DEF BoardIntegrity
    <3>6. QED
      BY <2>2, <3>3, <3>4, <3>5
  <2>5. CASE Proceed(d)
    <3> DEFINE todo == Tail(call[d].todo)
    <3>1. todo \in Seq(Intent) /\ Len(todo) > 0
      BY <1>0, <2>5 DEF Proceed
    <3>2. state' = Mutate(state, Head(todo)) /\ call'[d].todo = todo
      BY <1>0, <2>5 DEF Proceed, RunIntents, Call
    <3>3. Safe(state, todo)
      BY <2>5 DEF Proceed, ApplyAndBroadcast, RestIsSafe, Running
    <3>4. Integrity(state') /\ Safe(state', Tail(todo))
      BY <1>0, <3>1, <3>2, <3>3, SafeStep DEF BoardIntegrity
    <3>5. QED
      BY <2>2, <3>1, <3>2, <3>4
  <2>6. CASE RunHook(d)
    <3>1. PICK a \in ActorIds, data \in Data :
            LET patch == [kind |-> "actor.replaceData", actorId |-> a, data |-> data]
            IN  /\ state' = Mutate(state, patch)
                /\ call' = [call EXCEPT ![d].phase = "append",
                                        ![d].todo = <<patch>>,
                                        ![d].derived = TRUE]
      BY <2>6 DEF RunHook
    <3> DEFINE patch == [kind |-> "actor.replaceData", actorId |-> a, data |-> data]
    <3>2. patch \in Intent
      BY DEF Intent, Request
    <3>3. Integrity(Mutate(state, patch))
      BY <1>0, PatchKeepsIntegrity DEF BoardIntegrity
    <3> HIDE DEF patch
    <3>4. /\ state' = Mutate(state, patch)
          /\ call' = [call EXCEPT ![d].phase = "append", ![d].todo = <<patch>>,
                                  ![d].derived = TRUE]
      BY <3>1 DEF patch
    <3>5. <<patch>> \in Seq(Intent) /\ Tail(<<patch>>) = << >>
      BY <3>2
    <3>6. call'[d].todo = <<patch>>
      BY <1>0, <3>4 DEF Call
    <3>7. QED
      BY <2>2, <3>3, <3>4, <3>5, <3>6, NothingIsSafe
  <2>7. QED
    BY <1>2, <2>3, <2>4, <2>5, <2>6 DEF Serve, Deliver
<1>3. CASE Crash
  BY <1>0, <1>3, QuietStep DEF Crash, Call, Running
<1>4. CASE Open
  <2>1. \A d \in Dispatches : call[d].phase \notin Running /\ call' = call
    BY <1>4 DEF Open, Running, Done
  <2>2. state' = Seed
    BY <1>4 DEF Open
  <2>3. QED
    BY <2>1, <2>2, SeedAssumption
       DEF BoardIntegrity, RestIsSafe, Integrity, TokenExists, SceneExists
<1>5. CASE state' = state /\ call' = call
  BY <1>5, QuietStep
<1>6. QED
  BY <1>1, <1>2, <1>3, <1>4, <1>5
     DEF Next, Subscribe, Unsubscribe, Close, vars, engineVars

----------------------------------------------------------------------------
(* The engine, the log and the listeners agree on the sequence numbers *)

\* Pushing the next seq on the window of n gives the window of n + 1.
LEMMA PushWindow ==
  ASSUME NEW n \in Nat
  PROVE  PushRecent(Window(n), n + 1) = Window(n + 1)
<1> USE BoundsAssumption
<1> DEFINE w == Window(n)
           first == IF n > RecentLimit THEN n - RecentLimit ELSE 0
<1>1. /\ first \in Nat /\ n - first \in Nat
      /\ w = [i \in 1..(n - first) |-> first + i]
  BY DEF Window
<1>2. w \in Seq(Nat) /\ Len(w) = n - first
  <2>1. w \in Seq(Nat)
    BY WindowType
  <2>2. w \in [1..(n - first) -> Nat]
    BY <1>1
  <2>3. QED
    BY <1>1, <2>1, <2>2, LenProperties
<1>3. CASE n < RecentLimit
  <2>1. PushRecent(w, n + 1) = Append(w, n + 1)
    BY <1>1, <1>2, <1>3 DEF PushRecent
  <2>2. Append(w, n + 1) = [i \in 1..(n + 1) |-> IF i = n + 1 THEN n + 1 ELSE w[i]]
    BY <1>1, <1>2, <1>3
  <2>3. Window(n + 1) = [i \in 1..(n + 1) |-> i]
    BY <1>3 DEF Window
  <2>4. \A i \in 1..n : w[i] = i
    BY <1>1, <1>3
  <2>5. QED
    BY <2>1, <2>2, <2>3, <2>4
<1>4. CASE ~(n < RecentLimit)
  <2>1. Len(w) = RecentLimit /\ first = n - RecentLimit
    BY <1>1, <1>2, <1>4
  <2>2. PushRecent(w, n + 1) = Append(Tail(w), n + 1)
    BY <2>1 DEF PushRecent
  <2>3. Tail(w) \in Seq(Nat) /\ Len(Tail(w)) = RecentLimit - 1
        /\ \A i \in 1..(RecentLimit - 1) : Tail(w)[i] = w[i + 1]
    BY <1>2, <2>1
  <2>4. Append(Tail(w), n + 1) =
          [i \in 1..RecentLimit |-> IF i = RecentLimit THEN n + 1 ELSE Tail(w)[i]]
    BY <2>3
  <2>5. Window(n + 1) = [i \in 1..RecentLimit |-> n + 1 - RecentLimit + i]
    BY <1>4 DEF Window
  <2>6. \A i \in 1..(RecentLimit - 1) : Tail(w)[i] = n + 1 - RecentLimit + i
    BY <1>1, <2>1, <2>3
  <2>7. ASSUME NEW i \in 1..RecentLimit
        PROVE  (IF i = RecentLimit THEN n + 1 ELSE Tail(w)[i]) = n + 1 - RecentLimit + i
    <3>1. CASE i = RecentLimit
      BY <3>1
    <3>2. CASE i # RecentLimit
      <4>1. i \in 1..(RecentLimit - 1)
        BY <3>2
      <4>2. Tail(w)[i] = n + 1 - RecentLimit + i
        BY <2>6, <4>1, Zenon
      <4>3. QED
        BY <3>2, <4>2, Zenon
    <3>3. QED
      BY <3>1, <3>2
  <2>8. Append(Tail(w), n + 1) = [i \in 1..RecentLimit |-> n + 1 - RecentLimit + i]
    BY <2>4, <2>7
  <2>9. QED
    BY <2>2, <2>5, <2>8
<1>5. QED
  BY <1>3, <1>4

\* The event applied is the next one.
LEMMA ApplyNext ==
  ASSUME TypeOK, SeqInStep, RecentIsLogTail, SubscribersInStep,
         NEW d \in Dispatches, ApplyAndBroadcast(d)
  PROVE  /\ seq' = seq + 1 /\ seq' = Len(log')
         /\ RecentIsLogTail' /\ SubscribersInStep'
<1>1. seq' = seq + 1 /\ seq' = Len(log') /\ recentEvents' = PushRecent(recentEvents, seq + 1)
  BY DEF TypeOK, ApplyAndBroadcast, SeqInStep, storageVars
<1>2. RecentIsLogTail'
  <2>1. recentEvents = Window(seq) /\ seq \in Nat
    BY DEF RecentIsLogTail, TypeOK
  <2>2. recentEvents' = Window(seq + 1)
    BY <1>1, <2>1, PushWindow
  <2>3. QED
    BY <1>1, <2>2 DEF RecentIsLogTail, Window
<1>3. SubscribersInStep'
  BY <1>1 DEF TypeOK, ApplyAndBroadcast, SubscribersInStep
<1>4. QED
  BY <1>1, <1>2, <1>3

LEMMA StepSeq ==
  ASSUME TypeOK, CallsInOrder, SeqInStep, SubscribersInStep, RecentIsLogTail,
         [Next]_vars
  PROVE  SeqInStep' /\ SubscribersInStep' /\ RecentIsLogTail'
<1> USE DEF SeqInStep
<1>0. /\ call \in [Dispatches -> Call]
      /\ log \in Seq(Intent) /\ seq \in Nat /\ Len(log) \in Nat
  BY DEF TypeOK
<1>1. ASSUME UNCHANGED <<seq, log, recentEvents, closed, subscribers, cursor>>,
             \A e \in Dispatches :
               /\ call'[e].phase = "append" => call[e].phase = "append"
               /\ call'[e].phase = "apply" <=> call[e].phase = "apply"
               /\ call'[e].lastSeq = call[e].lastSeq
      PROVE  SeqInStep' /\ SubscribersInStep' /\ RecentIsLogTail'
  BY <1>1 DEF SubscribersInStep, RecentIsLogTail, Window
<1>2. ASSUME NEW d \in Dispatches, Submit(d)
      PROVE  SeqInStep' /\ SubscribersInStep' /\ RecentIsLogTail'
  <2>1. \A e \in Dispatches :
          /\ e # d => call'[e] = call[e]
          /\ call[d].phase = "new" /\ call'[d].phase = "queued"
          /\ call'[d].lastSeq = call[d].lastSeq
    BY <1>0, <1>2 DEF Submit, Call
  <2>2. QED
    BY <1>1, <1>2, <2>1 DEF Submit, engineVars, clientVars, storageVars
<1>3. ASSUME NEW d \in Dispatches, Serve(d)
      PROVE  SeqInStep' /\ SubscribersInStep' /\ RecentIsLogTail'
  <2>1. \A e \in Dispatches : e # d =>
          call'[e] = call[e] /\ call'[e].phase \notin {"append", "apply"}
    BY <1>3, ServeEffect, Alone DEF Running
  <2>2. CASE Refuse(d) \/ AppendFails(d)
    <3>1. /\ call[d].phase # "apply" /\ call'[d].phase = "rejected"
          /\ call'[d].lastSeq = call[d].lastSeq
      BY <1>0, <2>2 DEF Refuse, AppendFails, Call
    <3>2. QED
      BY <1>1, <2>1, <2>2, <3>1
         DEF Refuse, AppendFails, engineVars, clientVars, storageVars
  <2>3. CASE Begin(d)
    <3>1. /\ ~closed /\ call[d].phase = "queued" /\ call'[d].phase = "append"
          /\ UNCHANGED <<seq, log, recentEvents, closed, subscribers, cursor>>
      BY <1>0, <2>3 DEF Begin, RunIntents, Call, clientVars, storageVars
    <3>2. Len(log) = seq
      BY <2>1, <3>1
    <3>3. QED
      BY <2>1, <3>1, <3>2 DEF SubscribersInStep, RecentIsLogTail, Window
  <2>4. CASE Commit(d)
    <3>1. /\ call[d].phase = "append" /\ call'[d].phase = "apply"
          /\ call'[d].lastSeq = Len(log) + 1
          /\ UNCHANGED <<seq, recentEvents, closed, subscribers, cursor>>
      BY <1>0, <2>4 DEF Commit, Call, engineVars, clientVars
    <3>2. Len(log') = Len(log) + 1
      BY <1>0, <2>4 DEF Commit
    <3>3. QED
      BY <2>1, <3>1, <3>2 DEF SubscribersInStep, RecentIsLogTail, Window
  <2>5. CASE Deliver(d)
    <3>1. ApplyAndBroadcast(d)
      BY <2>5 DEF Deliver, Proceed, RunHook, HookThrows, Accept
    <3>2. call'[d].phase # "apply"
      <4>1. CASE Proceed(d)
        BY <1>0, <4>1 DEF Proceed, RunIntents, Call
      <4>2. CASE RunHook(d)
        BY <1>0, <4>2 DEF RunHook, Call
      <4>3. CASE HookThrows(d) \/ Accept(d)
        BY <1>0, <4>3 DEF HookThrows, Accept, Call
      <4>4. QED
        BY <2>5, <4>1, <4>2, <4>3 DEF Deliver
    <3>3. QED
      BY <2>1, <3>1, <3>2, ApplyNext
  <2>6. QED
    BY <1>3, <2>2, <2>3, <2>4, <2>5 DEF Serve
<1>4. ASSUME NEW c \in Clients, Subscribe(c) \/ Unsubscribe(c)
      PROVE  SeqInStep' /\ SubscribersInStep' /\ RecentIsLogTail'
  BY <1>4 DEF Subscribe, Unsubscribe, engineVars, storageVars,
     SubscribersInStep, RecentIsLogTail, Window, TypeOK
<1>5. CASE Close
  BY <1>5 DEF Close, storageVars, SubscribersInStep, RecentIsLogTail, Window
<1>6. CASE Crash
  <2>1. \A e \in Dispatches : call'[e].phase \notin {"append", "apply"}
    BY <1>0, <1>6 DEF Crash, Call, Running
  <2>2. QED
    BY <1>6, <2>1 DEF Crash, storageVars, SubscribersInStep, RecentIsLogTail, Window
<1>7. CASE Open
  <2>1. \A e \in Dispatches : call'[e].phase \notin {"append", "apply"}
    BY <1>7 DEF Open, Done
  <2>2. subscribers' = {}
    BY <1>7 DEF Open, SubscribersInStep, clientVars
  <2>3. /\ seq' = Len(log) /\ log' = log
        /\ recentEvents' = Window(Len(log))
    BY <1>7 DEF Open
  <2>4. QED
    BY <2>1, <2>2, <2>3 DEF SubscribersInStep, RecentIsLogTail, Window
<1>8. CASE UNCHANGED vars
  BY <1>1, <1>8 DEF vars, engineVars, clientVars, storageVars
<1>9. QED
  BY <1>2, <1>3, <1>4, <1>5, <1>6, <1>7, <1>8 DEF Next

----------------------------------------------------------------------------
(* The board in memory is the one the log gives *)

\* An intent on one state and its event on the other keep two boards equal.
LEMMA BoardsStayEqual ==
  ASSUME NEW st1 \in State, NEW st2 \in State, Board(st1) = Board(st2),
         NEW i \in Intent
  PROVE  Board(Mutate(st1, i)) = Board(Mutate(st2, StoredEvent(i)))
BY SameBoardIff, ReplayKeepsBoard

LEMMA StepReplay ==
  ASSUME TypeOK, CallsInOrder, BoardIntegrity, SessionIntegrity, ReplayInStep,
         [Next]_vars
  PROVE  SessionIntegrity' /\ ReplayInStep'
<1>0. /\ call \in [Dispatches -> Call]
      /\ state \in State /\ sinceOpen \in State
      /\ \A d \in Dispatches : call[d].todo \in Seq(Intent)
  BY DEF TypeOK, Call
<1>1. ASSUME sinceOpen' = sinceOpen, appendLost' = appendLost
      PROVE  SessionIntegrity'
  BY <1>1 DEF SessionIntegrity, Integrity, TokenExists, SceneExists
<1>2. ASSUME UNCHANGED <<state, sinceOpen, appendLost, closed>>,
             \A e \in Dispatches :
               /\ call'[e].phase \in Running <=> call[e].phase \in Running
               /\ call[e].phase \in Running => call'[e] = call[e]
      PROVE  SessionIntegrity' /\ ReplayInStep'
  <2>1. SessionIntegrity'
    BY <1>1, <1>2
  <2>2. Board(state') = Board(state) /\ Board(sinceOpen') = Board(sinceOpen)
    BY <1>2
  <2>3. \A q : Board(Mutate(sinceOpen, q)') = Board(Mutate(sinceOpen, q))
    BY <1>2
  <2>4. ReplayInStep'
    BY <1>2, <2>2, <2>3 DEF ReplayInStep, Idle, Running
  <2>5. QED
    BY <2>1, <2>4
<1>3. ASSUME NEW d \in Dispatches, Submit(d)
      PROVE  SessionIntegrity' /\ ReplayInStep'
  <2>1. \A e \in Dispatches :
          /\ e # d => call'[e] = call[e]
          /\ call[d].phase \notin Running /\ call'[d].phase \notin Running
    BY <1>0, <1>3 DEF Submit, Call, Running
  <2>2. QED
    BY <1>2, <1>3, <2>1 DEF Submit, engineVars, storageVars
<1>4. ASSUME NEW d \in Dispatches, Serve(d)
      PROVE  SessionIntegrity' /\ ReplayInStep'
  <2>1. \A e \in Dispatches : e # d =>
          call'[e] = call[e] /\ call[e].phase \notin Running
    BY <1>4, ServeEffect, Alone
  <2>2. CASE Refuse(d)
    <3>1. call[d].phase \notin Running /\ call'[d].phase \notin Running
      BY <1>0, <2>2 DEF Refuse, Call, Running
    <3>2. QED
      BY <1>2, <2>1, <2>2, <3>1 DEF Refuse, engineVars, storageVars
  <2>3. ASSUME NEW i \in Intent, ~appendLost => Board(state) = Board(sinceOpen),
               state' = Mutate(state, i), UNCHANGED <<sinceOpen, appendLost>>,
               call'[d].phase = "append", Head(call'[d].todo) = i
        PROVE  SessionIntegrity' /\ ReplayInStep'
    <3>1. SessionIntegrity'
      BY <1>1, <2>3
    <3>2. ~appendLost => Board(state') = Board(Mutate(sinceOpen, StoredEvent(i)))
      BY <1>0, <2>3, BoardsStayEqual
    <3>3. Board(Mutate(sinceOpen, StoredEvent(i))') = Board(Mutate(sinceOpen, StoredEvent(i)))
      BY <2>3
    <3>4. ~Idle'
      BY <2>3 DEF Idle, Running
    <3>5. QED
      BY <2>1, <2>3, <3>1, <3>2, <3>3, <3>4 DEF ReplayInStep, Running
  <2>4. CASE Begin(d)
    <3>1. PICK todo \in IntentsOf(state, call[d].input.request, Rulesets) : RunIntents(d, todo)
      BY <2>4 DEF Begin
    <3>2. call[d].input.request \in Request
      BY <2>4, InputFields DEF Begin, CallsInOrder
    <3>3. todo \in Seq(Intent) /\ Len(todo) > 0
      BY <1>0, <3>2, IntentsType
    <3>4. /\ Head(todo) \in Intent /\ state' = Mutate(state, Head(todo))
          /\ call'[d].phase = "append" /\ call'[d].todo = todo
      BY <1>0, <3>1, <3>3 DEF RunIntents, Call
    <3>5. ~closed /\ Idle
      BY <2>1, <2>4 DEF Begin, Idle, Running
    <3>6. QED
      BY <2>3, <2>4, <3>4, <3>5 DEF Begin, storageVars, ReplayInStep
  <2>5. CASE Commit(d)
    <3> DEFINE i == Head(call[d].todo)
    <3>1. i \in Intent
      BY <1>0, <2>5 DEF Commit, CallsInOrder, Running
    <3>2. /\ sinceOpen' = Mutate(sinceOpen, StoredEvent(i)) /\ state' = state
          /\ appendLost' = appendLost
          /\ call[d].phase = "append" /\ call'[d].phase = "apply"
      BY <1>0, <2>5 DEF Commit, engineVars, Call
    <3>3. ~appendLost => Board(state') = Board(sinceOpen')
      BY <3>2 DEF ReplayInStep
    <3>4. sinceOpen' \in State /\ state' \in State
      BY <1>0, <3>1, <3>2, MutateType, StoredEventType
    <3>5. Integrity(state')
      BY <3>2 DEF BoardIntegrity
    <3>6. SessionIntegrity'
      <4>1. ~appendLost => Integrity(sinceOpen')
        BY <3>3, <3>4, <3>5, SameBoardIff, SameIntegrity
      <4>2. QED
        BY <3>2, <4>1 DEF SessionIntegrity, Integrity, TokenExists, SceneExists
    <3>7. ReplayInStep'
      BY <2>1, <3>2, <3>3 DEF ReplayInStep, Idle, Running
    <3>8. QED
      BY <3>6, <3>7
  <2>6. CASE AppendFails(d)
    BY <2>6 DEF AppendFails, SessionIntegrity, ReplayInStep
  <2>7. CASE Proceed(d)
    <3>1. Tail(call[d].todo) \in Seq(Intent) /\ Len(Tail(call[d].todo)) > 0
      BY <1>0, <2>7 DEF Proceed
    <3>2. /\ Head(Tail(call[d].todo)) \in Intent
          /\ state' = Mutate(state, Head(Tail(call[d].todo)))
          /\ call'[d].phase = "append" /\ call'[d].todo = Tail(call[d].todo)
      BY <1>0, <2>7, <3>1 DEF Proceed, RunIntents, Call
    <3>3. ~appendLost => Board(state) = Board(sinceOpen)
      BY <2>7 DEF Proceed, ApplyAndBroadcast, ReplayInStep
    <3>4. QED
      BY <2>3, <2>7, <3>2, <3>3 DEF Proceed, ApplyAndBroadcast, storageVars
  <2>8. CASE RunHook(d)
    <3>1. PICK a \in ActorIds, data \in Data :
            LET patch == [kind |-> "actor.replaceData", actorId |-> a, data |-> data]
            IN  /\ state' = Mutate(state, patch)
                /\ call' = [call EXCEPT ![d].phase = "append",
                                        ![d].todo = <<patch>>,
                                        ![d].derived = TRUE]
      BY <2>8 DEF RunHook
    <3> DEFINE patch == [kind |-> "actor.replaceData", actorId |-> a, data |-> data]
    <3>2. patch \in Intent
      BY DEF Intent, Request
    <3> HIDE DEF patch
    <3>3. /\ state' = Mutate(state, patch)
          /\ call' = [call EXCEPT ![d].phase = "append", ![d].todo = <<patch>>,
                                  ![d].derived = TRUE]
      BY <3>1 DEF patch
    <3>4. call'[d].phase = "append" /\ call'[d].todo = <<patch>>
      BY <1>0, <3>3 DEF Call
    <3>5. Head(<<patch>>) = patch
      OBVIOUS
    <3>6. ~appendLost => Board(state) = Board(sinceOpen)
      BY <2>8 DEF RunHook, ApplyAndBroadcast, ReplayInStep
    <3>7. UNCHANGED <<sinceOpen, appendLost>>
      BY <2>8 DEF RunHook, ApplyAndBroadcast, storageVars
    <3>8. QED
      BY <2>3, <3>2, <3>3, <3>4, <3>5, <3>6, <3>7
  <2>9. CASE HookThrows(d) \/ Accept(d)
    <3>1. /\ UNCHANGED <<state, sinceOpen, appendLost>>
          /\ call[d].phase = "apply" /\ call'[d].phase \notin Running
      BY <1>0, <2>9 DEF HookThrows, Accept, ApplyAndBroadcast, storageVars, Call, Running
    <3>2. \A e \in Dispatches : call'[e].phase \notin Running
      BY <2>1, <3>1
    <3>3. ~appendLost => Board(state) = Board(sinceOpen)
      BY <3>1 DEF ReplayInStep
    <3>4. Board(state') = Board(state) /\ Board(sinceOpen') = Board(sinceOpen)
      BY <3>1
    <3>5. ReplayInStep'
      BY <3>1, <3>2, <3>3, <3>4 DEF ReplayInStep, Running
    <3>6. QED
      BY <1>1, <3>1, <3>5
  <2>10. QED
    BY <1>4, <2>2, <2>4, <2>5, <2>6, <2>7, <2>8, <2>9 DEF Serve, Deliver
<1>5. CASE Crash
  <2>1. \A e \in Dispatches : call'[e].phase \notin Running
    BY <1>0, <1>5 DEF Crash, Call, Running
  <2>2. QED
    BY <1>1, <1>5, <2>1 DEF Crash, storageVars, ReplayInStep, Running
<1>6. CASE Open
  <2>1. \A e \in Dispatches : call'[e].phase \notin Running
    BY <1>6 DEF Open, Running, Done
  <2>2. state' = Seed /\ sinceOpen' = Seed
    BY <1>6 DEF Open
  <2>3. SessionIntegrity'
    BY <2>2, SeedAssumption DEF SessionIntegrity, Integrity, TokenExists, SceneExists
  <2>4. Board(state') = Board(sinceOpen')
    BY <2>2
  <2>5. QED
    BY <2>1, <2>3, <2>4 DEF ReplayInStep, Running
<1>7. CASE Close
  <2>1. UNCHANGED <<state, sinceOpen, appendLost, call>> /\ closed' = TRUE
    BY <1>7 DEF Close, storageVars
  <2>2. Board(state') = Board(state) /\ Board(sinceOpen') = Board(sinceOpen)
    BY <2>1
  <2>3. \A q : Board(Mutate(sinceOpen, q)') = Board(Mutate(sinceOpen, q))
    BY <2>1
  <2>4. QED
    BY <1>1, <2>1, <2>2, <2>3 DEF ReplayInStep
<1>8. CASE UNCHANGED <<state, sinceOpen, appendLost, closed, call>>
  BY <1>2, <1>8
<1>9. QED
  BY <1>3, <1>4, <1>5, <1>6, <1>7, <1>8
     DEF Next, Subscribe, Unsubscribe, vars, engineVars, storageVars

----------------------------------------------------------------------------
(* A move that is being stored is one its seat may make *)

\* If the intents of a request begin with a move, the request is that move.
LEMMA MoveComesFirst ==
  ASSUME NEW st \in State, NEW r \in Request, NEW rulesets,
         NEW todo \in IntentsOf(st, r, rulesets), Head(todo).kind = "token.move"
  PROVE  Head(todo) = r
<1>1. CASE r.kind = "scene.delete"
  <2>1. PICK q \in Orders(TokensIn(st, r.sceneId)) : todo = Cascade(r, q)
    BY <1>1 DEF IntentsOf
  <2>2. Safe(st, todo)
    BY <1>1, <2>1, CascadeIsSafe
  <2>3. todo \in Seq(Intent) /\ Len(todo) > 0
    BY IntentsType
  <2>4. Head(todo) = todo[1] /\ 1 \in 1..Len(todo)
    BY <2>3
  <2>5. QED
    BY <2>2, <2>4 DEF Safe
<1>2. CASE r.kind = "token.move" /\ "dnd" \in rulesets
  <2> DEFINE chat == [kind |-> "chat.send"]
  <2>1. todo = <<r, chat>>
    BY <1>2, MoveIntents
  <2> HIDE DEF chat
  <2>2. QED
    BY <2>1
<1>3. CASE ~(r.kind = "scene.delete") /\ ~(r.kind = "token.move" /\ "dnd" \in rulesets)
  <2>1. todo = <<r>>
    BY <1>3 DEF IntentsOf
  <2>2. QED
    BY <2>1
<1>4. QED
  BY <1>1, <1>2, <1>3

\* Moving a token leaves whoever may move it able to move it.
LEMMA MoveStaysAllowed ==
  ASSUME NEW st \in State, NEW r \in Request, NEW args,
         CanMoveToken(st, args, r)
  PROVE  CanMoveToken(Mutate(st, r), args, r)
<1>1. /\ r.tokenId \in TokenIds /\ r.position \in Positions
      /\ st.tokens[r.tokenId] \in Token
  BY RequestFields DEF CanMoveToken, TokenExists, State
<1>2. /\ Mutate(st, r).actors = st.actors
      /\ Mutate(st, r).tokens[r.tokenId] \in Token
      /\ Mutate(st, r).tokens[r.tokenId].actorId = st.tokens[r.tokenId].actorId
  BY <1>1, EntityAssumption
     DEF CanMoveToken, TokenExists, Mutate, MoveToken, State, Token
<1>3. QED
  BY <1>2, EntityAssumption DEF CanMoveToken, TokenExists, Controls, ActorExists

LEMMA StepMoves ==
  ASSUME TypeOK, CallsInOrder, RestIsSafe, MovesAuthorised, [Next]_vars
  PROVE  MovesAuthorised'
<1>0. /\ call \in [Dispatches -> Call] /\ state \in State
      /\ \A d \in Dispatches : call[d].todo \in Seq(Intent)
  BY DEF TypeOK, Call
<1>1. ASSUME state' = state,
             \A e \in Dispatches : call'[e].phase = "append" => call'[e] = call[e]
      PROVE  MovesAuthorised'
  BY <1>1 DEF MovesAuthorised, CanMoveToken, TokenExists, Controls, ActorExists
<1>2. ASSUME NEW d \in Dispatches, Submit(d)
      PROVE  MovesAuthorised'
  <2>1. /\ state' = state /\ call'[d].phase = "queued"
        /\ \A e \in Dispatches : e # d => call'[e] = call[e]
    BY <1>0, <1>2 DEF Submit, engineVars, Call
  <2>2. QED
    BY <1>1, <2>1
<1>3. ASSUME NEW d \in Dispatches, Serve(d)
      PROVE  MovesAuthorised'
  <2>1. \A e \in Dispatches : e # d => call'[e] = call[e] /\ call'[e].phase # "append"
    BY <1>3, ServeEffect, Alone DEF Running
  <2>2. CASE Refuse(d) \/ Commit(d) \/ AppendFails(d) \/ HookThrows(d) \/ Accept(d)
    <3>1. state' = state /\ call'[d].phase # "append"
      BY <1>0, <2>2 DEF Refuse, Commit, AppendFails, HookThrows, Accept,
         ApplyAndBroadcast, engineVars, Call
    <3>2. QED
      BY <1>1, <2>1, <3>1
  <2>3. CASE Begin(d)
    <3> DEFINE args == ResolverArgs(call[d].input)
               r == call[d].input.request
    <3>1. PICK todo \in IntentsOf(state, r, Rulesets) : RunIntents(d, todo)
      BY <2>3 DEF Begin
    <3>2. r \in Request /\ Resolves(state, args, r)
      BY <2>3, InputFields DEF Begin, CallsInOrder
    <3>3. /\ state' = Mutate(state, Head(todo)) /\ call'[d].todo = todo
          /\ call'[d].input = call[d].input
      BY <1>0, <3>1 DEF RunIntents, Call
    <3>4. ASSUME Head(todo).kind = "token.move", ~args.isGm
          PROVE  CanMoveToken(state', args, Head(todo))
      <4>1. Head(todo) = r
        BY <1>0, <3>2, <3>4, MoveComesFirst
      <4>2. CanMoveToken(state, args, r)
        BY <3>2, <3>4, <4>1 DEF Resolves, CanSpeak
      <4>3. QED
        BY <1>0, <3>2, <3>3, <4>1, <4>2, MoveStaysAllowed
    <3>5. QED
      BY <2>1, <3>3, <3>4
         DEF MovesAuthorised, CanMoveToken, TokenExists, Controls, ActorExists
  <2>4. CASE Proceed(d)
    <3> DEFINE rest == Tail(call[d].todo)
    <3>1. rest \in Seq(Intent) /\ Len(rest) > 0 /\ Safe(state, rest)
      BY <1>0, <2>4 DEF Proceed, ApplyAndBroadcast, RestIsSafe, Running
    <3>2. Head(rest) = rest[1] /\ 1 \in 1..Len(rest)
      BY <3>1
    <3>3. Head(rest).kind # "token.move"
      BY <3>1, <3>2 DEF Safe
    <3>4. call'[d].todo = rest
      BY <1>0, <2>4 DEF Proceed, RunIntents, Call
    <3>5. QED
      BY <2>1, <3>3, <3>4 DEF MovesAuthorised
  <2>5. CASE RunHook(d)
    <3>1. PICK patch : /\ patch.kind = "actor.replaceData"
                       /\ call' = [call EXCEPT ![d].phase = "append",
                                               ![d].todo = <<patch>>,
                                               ![d].derived = TRUE]
      BY <2>5 DEF RunHook
    <3>2. call'[d].todo = <<patch>> /\ Head(<<patch>>) = patch
      BY <1>0, <3>1 DEF Call
    <3>3. QED
      BY <2>1, <3>1, <3>2 DEF MovesAuthorised
  <2>6. QED
    BY <1>3, <2>2, <2>3, <2>4, <2>5 DEF Serve, Deliver
<1>4. CASE Crash
  BY <1>0, <1>1, <1>4 DEF Crash, Call, Running
<1>5. CASE Open
  BY <1>5 DEF Open, Done, MovesAuthorised
<1>6. CASE state' = state /\ call' = call
  BY <1>1, <1>6
<1>7. QED
  BY <1>2, <1>3, <1>4, <1>5, <1>6
     DEF Next, Subscribe, Unsubscribe, Close, vars, engineVars

----------------------------------------------------------------------------
(* The theorems *)

\* The invariant is inductive: it holds of the state open() builds from an
\* empty log, and every step of a dispatch, of a listener, of close, of a
\* crash and of a reopening keeps it.
THEOREM Inductive == Spec => []IInv
<1>1. Init => IInv
  <2> SUFFICES ASSUME Init PROVE IInv
    OBVIOUS
  <2>1. \A d \in Dispatches : call[d].phase = "new"
    BY DEF Init, NoCall
  <2>2. TypeOK
    BY InitType
  <2>3. CallsInOrder /\ RestIsSafe /\ MovesAuthorised
    BY <2>1 DEF CallsInOrder, RestIsSafe, MovesAuthorised, Running
  <2>4. BoardIntegrity /\ SessionIntegrity /\ ReplayInStep
    BY <2>1, SeedAssumption DEF Init, BoardIntegrity, SessionIntegrity, ReplayInStep
  <2>5. SeqInStep /\ SubscribersInStep
    BY <2>1 DEF Init, SeqInStep, SubscribersInStep
  <2>6. RecentIsLogTail
    <3>1. Window(0) = [i \in 1..0 |-> i]
      BY BoundsAssumption DEF Window
    <3>2. Window(0) = << >>
      BY <3>1
    <3>3. QED
      BY <3>2 DEF Init, RecentIsLogTail
  <2>7. QED
    BY <2>2, <2>3, <2>4, <2>5, <2>6 DEF IInv
<1>2. IInv /\ [Next]_vars => IInv'
  <2> SUFFICES ASSUME IInv, [Next]_vars PROVE IInv'
    OBVIOUS
  <2>1. TypeOK' /\ CallsInOrder'
    BY StepType, StepOrder DEF IInv
  <2>2. BoardIntegrity' /\ RestIsSafe'
    BY StepBoard DEF IInv
  <2>3. SeqInStep' /\ SubscribersInStep' /\ RecentIsLogTail'
    BY StepSeq DEF IInv
  <2>4. SessionIntegrity' /\ ReplayInStep'
    BY StepReplay DEF IInv
  <2>5. MovesAuthorised'
    BY StepMoves DEF IInv
  <2>6. QED
    BY <2>1, <2>2, <2>3, <2>4, <2>5 DEF IInv
<1>3. QED
  BY <1>1, <1>2, PTL DEF Spec

\* Every variable of the engine keeps its type.
THEOREM TypeCorrect == Spec => []TypeOK
<1>1. IInv => TypeOK
  BY DEF IInv
<1>2. QED
  BY <1>1, Inductive, PTL

\* No interleaving of dispatches, closings, crashes and failing appends puts
\* a token or the active scene on a scene that does not exist.
THEOREM BoardKeepsIntegrity == Spec => []BoardIntegrity
<1>1. IInv => BoardIntegrity
  BY DEF IInv
<1>2. QED
  BY <1>1, Inductive, PTL

\* Nor do the events of one open engine give such a board on its snapshot,
\* wherever a crash cuts them short.
THEOREM SessionKeepsIntegrity == Spec => []SessionIntegrity
<1>1. IInv => SessionIntegrity
  BY DEF IInv
<1>2. QED
  BY <1>1, Inductive, PTL

\* Between two dispatches memory and log agree on the board.
THEOREM BoardFollowsLog == Spec => []BoardIsReplay
<1>1. IInv => BoardIsReplay
  BY DEF IInv, ReplayInStep, BoardIsReplay
<1>2. QED
  BY <1>1, Inductive, PTL

\* An open engine counts exactly the events of the log.
THEOREM SeqFollowsLog == Spec => []SeqTracksLog
<1>1. IInv => SeqTracksLog
  <2> SUFFICES ASSUME IInv, ~closed PROVE
        Len(log) = seq + Cardinality({d \in Dispatches : call[d].phase = "apply"})
    BY DEF SeqTracksLog
  <2> DEFINE applying == {d \in Dispatches : call[d].phase = "apply"}
  <2>1. seq \in Nat
    BY DEF IInv, TypeOK
  <2>2. CASE applying = {}
    <3>1. Cardinality(applying) = 0
      BY <2>2, FS_EmptySet
    <3>2. Len(log) = seq
      BY <2>2 DEF IInv, SeqInStep
    <3>3. QED
      BY <2>1, <3>1, <3>2
  <2>3. CASE applying # {}
    <3>1. PICK d \in Dispatches : call[d].phase = "apply"
      BY <2>3
    <3>2. applying = {d}
      BY <3>1, OneRunning DEF IInv, Running
    <3>3. Cardinality(applying) = 1
      BY <3>2, FS_Singleton
    <3>4. Len(log) = seq + 1
      BY <3>1 DEF IInv, SeqInStep
    <3>5. QED
      BY <3>3, <3>4
  <2>4. QED
    BY <2>2, <2>3
<1>2. QED
  BY <1>1, Inductive, PTL

\* The window of recent events always ends at the engine's seq, without holes.
THEOREM RecentFollowsLog == Spec => []RecentIsLogTail
<1>1. IInv => RecentIsLogTail
  BY DEF IInv
<1>2. QED
  BY <1>1, Inductive, PTL

\* A listener hears every event stored while it is subscribed, once and in
\* order, whatever else the campaign does.
THEOREM DeliveryIsGapFree == Spec => GapFree
<1>1. IInv /\ IInv' /\ [Next]_vars =>
        \A c \in Clients : c \in subscribers /\ c \in subscribers' =>
          /\ cursor'[c] - cursor[c] \in {0, 1}
          /\ cursor'[c] - cursor[c] = seq' - seq
  <2> SUFFICES ASSUME IInv, IInv', [Next]_vars, NEW c \in Clients,
                      c \in subscribers, c \in subscribers'
               PROVE  /\ cursor'[c] - cursor[c] \in {0, 1}
                      /\ cursor'[c] - cursor[c] = seq' - seq
    OBVIOUS
  <2>1. /\ cursor[c] = seq /\ cursor'[c] = seq'
        /\ seq \in Nat /\ ~closed
    BY DEF IInv, SubscribersInStep, TypeOK
  <2>2. ASSUME NEW d \in Dispatches, ApplyAndBroadcast(d)
        PROVE  seq' = seq + 1
    BY <2>2 DEF ApplyAndBroadcast, IInv, SeqInStep
  <2>3. ASSUME NEW d \in Dispatches, Submit(d) \/ Serve(d)
        PROVE  ApplyAndBroadcast(d) \/ seq' = seq
    BY <2>3 DEF Submit, Serve, Refuse, Begin, Commit, AppendFails, Deliver,
       Proceed, RunHook, HookThrows, Accept, engineVars
  <2>4. seq' = seq \/ seq' = seq + 1
    BY <2>1, <2>2, <2>3
       DEF Next, Subscribe, Unsubscribe, Close, Crash, Open, vars, engineVars
  <2>5. QED
    BY <2>1, <2>4
<1>2. QED
  BY <1>1, Inductive, PTL DEF Spec, GapFree

\* A move is stored only while the seat the resolver was told controls the
\* token's actor, unless the resolver was told a GM.
THEOREM MovesAreAuthorised == Spec => AuthorisedAtCommit
<1>1. IInv /\ [Next]_vars =>
        \A d \in Dispatches :
          LET args == ResolverArgs(call[d].input) IN
          /\ call[d].phase = "append" /\ call'[d].phase = "apply"
          /\ Head(call[d].todo).kind = "token.move"
          /\ ~args.isGm
          => LET t == Head(call[d].todo).tokenId IN
               /\ TokenExists(state, t)
               /\ Controls(state, args.seatId, state.tokens[t].actorId)
  BY DEF IInv, MovesAuthorised, CanMoveToken
<1>2. QED
  BY <1>1, Inductive, PTL DEF Spec, AuthorisedAtCommit

----------------------------------------------------------------------------
(* The engine implements AtomicCampaign *)

\* What AtomicCampaign says of requests and intents is what CampaignState says.
LEMMA SameOperators ==
  /\ \A st, i : Atomic!Mutate(st, i) = Mutate(st, i)
  /\ \A st, q : Atomic!Applied(st, q) = Applied(st, q)
  /\ \A q : Atomic!StoredEvents(q) = StoredEvents(q)
  /\ \A st, args, r : Atomic!Resolves(st, args, r) <=> Resolves(st, args, r)
  /\ \A input : Atomic!ResolverArgs(input) = ResolverArgs(input)
  /\ \A st, r, rulesets : Atomic!IntentsOf(st, r, rulesets) = IntentsOf(st, r, rulesets)
  /\ Atomic!Dispatches = Dispatches
<1>1. ASSUME NEW st, NEW i
      PROVE  Atomic!Mutate(st, i) = Mutate(st, i)
  BY DEF Mutate, Atomic!Mutate,
     MoveToken, CreateToken, DeleteToken, LinkToken, ReplaceTokenData, CreateActor,
     DeleteActor, LinkSeat, ReplaceActorData, CreateScene, DeleteScene, ActivateScene,
     ReplaceSceneData,
     Atomic!MoveToken, Atomic!CreateToken, Atomic!DeleteToken, Atomic!LinkToken,
     Atomic!ReplaceTokenData, Atomic!CreateActor, Atomic!DeleteActor, Atomic!LinkSeat,
     Atomic!ReplaceActorData, Atomic!CreateScene, Atomic!DeleteScene,
     Atomic!ActivateScene, Atomic!ReplaceSceneData
<1>2. ASSUME NEW st, NEW q
      PROVE  Atomic!Applied(st, q) = Applied(st, q)
  BY <1>1 DEF Applied, Atomic!Applied
<1>3. ASSUME NEW i
      PROVE  Atomic!StoredEvent(i) = StoredEvent(i)
  BY DEF StoredEvent, Atomic!StoredEvent
<1>4. ASSUME NEW q
      PROVE  Atomic!StoredEvents(q) = StoredEvents(q)
  BY <1>3 DEF StoredEvents, Atomic!StoredEvents
<1>5. ASSUME NEW st, NEW args, NEW r
      PROVE  Atomic!Resolves(st, args, r) <=> Resolves(st, args, r)
  BY DEF Resolves, CanMoveToken, CanSpeak, CanEditTokens, CanEditActors, CanEditScenes,
     TokenExists, ActorExists, SceneExists, Controls,
     Atomic!Resolves, Atomic!CanMoveToken, Atomic!CanSpeak, Atomic!CanEditTokens,
     Atomic!CanEditActors, Atomic!CanEditScenes, Atomic!TokenExists,
     Atomic!ActorExists, Atomic!SceneExists, Atomic!Controls
<1>6. ASSUME NEW st, NEW r, NEW rulesets
      PROVE  Atomic!IntentsOf(st, r, rulesets) = IntentsOf(st, r, rulesets)
  <2>0. ASSUME NEW S
        PROVE  Atomic!Cardinality(S) = Cardinality(S)
    BY DEF Cardinality, Atomic!Cardinality
  <2>1. ASSUME NEW q
        PROVE  Atomic!Cascade(r, q) = Cascade(r, q)
    BY DEF Cascade, DeleteTokenIntent, Atomic!Cascade, Atomic!DeleteTokenIntent
  <2>2. ASSUME NEW S
        PROVE  Atomic!Orders(S) = Orders(S)
    BY <2>0 DEF Orders, Atomic!Orders
  <2>3. Atomic!TokensIn(st, r.sceneId) = TokensIn(st, r.sceneId)
    BY DEF TokensIn, TokenExists, Atomic!TokensIn, Atomic!TokenExists
  <2>4. ASSUME NEW flat
        PROVE  Atomic!mergeIntents(flat) = mergeIntents(flat)
    BY DEF mergeIntents, Kept, Collides, collisionKey, Cardinality, Atomic!mergeIntents,
       Atomic!Kept, Atomic!Collides, Atomic!collisionKey, Atomic!Cardinality
  <2>5. QED
    BY <2>1, <2>2, <2>3, <2>4 DEF IntentsOf, Atomic!IntentsOf
<1>7. Atomic!Dispatches = Dispatches
  BY DEF Dispatches, Atomic!Dispatches
<1>8. ASSUME NEW input
      PROVE  Atomic!ResolverArgs(input) = ResolverArgs(input)
  BY DEF ResolverArgs, IsGm, Atomic!ResolverArgs, Atomic!IsGm
<1>9. QED
  BY <1>1, <1>2, <1>4, <1>5, <1>6, <1>7, <1>8

\* No two calls are inside dispatchInternal.
OneAtATime(calls) ==
  \A d, e \in Dispatches : calls[d].phase \in Running /\ calls[e].phase \in Running => d = e

\* What is left of the dispatch that is being served, and of none.
LEMMA RestOfRunning ==
  ASSUME NEW calls, OneAtATime(calls), NEW d \in Dispatches, calls[d].phase \in Running
  PROVE  /\ Unmutated(calls) = Tail(calls[d].todo)
         /\ Unlogged(calls) = IF calls[d].phase = "append" THEN calls[d].todo
                              ELSE Tail(calls[d].todo)
<1>1. Current(calls) = d
  BY DEF Current, OneAtATime
<1>2. Unmutated(calls) = Tail(calls[d].todo)
  BY <1>1 DEF Unmutated
<1>3. (\E e \in Dispatches : calls[e].phase = "append") <=> calls[d].phase = "append"
  BY DEF OneAtATime, Running
<1>4. QED
  BY <1>1, <1>2, <1>3 DEF Unlogged

LEMMA RestOfNone ==
  ASSUME NEW calls, \A d \in Dispatches : calls[d].phase \notin Running
  PROVE  Unmutated(calls) = << >> /\ Unlogged(calls) = << >>
BY DEF Unmutated, Unlogged, Running

\* Steps that touch no dispatch that is being served leave the rest.
LEMMA RestStays ==
  ASSUME NEW c1, NEW c2, OneAtATime(c1), OneAtATime(c2),
         \A d \in Dispatches : /\ c2[d].phase \in Running <=> c1[d].phase \in Running
                               /\ c1[d].phase \in Running => c2[d] = c1[d]
  PROVE  Unmutated(c2) = Unmutated(c1) /\ Unlogged(c2) = Unlogged(c1)
<1>1. CASE \A d \in Dispatches : c1[d].phase \notin Running
  BY <1>1, RestOfNone
<1>2. ASSUME NEW d \in Dispatches, c1[d].phase \in Running
      PROVE  Unmutated(c2) = Unmutated(c1) /\ Unlogged(c2) = Unlogged(c1)
  <2>1. c2[d].phase \in Running /\ c2[d] = c1[d]
    BY <1>2
  <2>2. /\ Unmutated(c2) = Tail(c2[d].todo) /\ Unmutated(c1) = Tail(c1[d].todo)
        /\ Unlogged(c2) = IF c2[d].phase = "append" THEN c2[d].todo ELSE Tail(c2[d].todo)
        /\ Unlogged(c1) = IF c1[d].phase = "append" THEN c1[d].todo ELSE Tail(c1[d].todo)
    BY <1>2, <2>1, RestOfRunning
  <2>3. QED
    BY <2>1, <2>2
<1>3. QED
  BY <1>1, <1>2

\* What the proof that a step refines one of AtomicCampaign needs of a state.
RInv ==
  /\ IInv /\ OneAtATime(call)
  /\ \A d \in Dispatches : call[d].phase # "lost"

LEMMA RefinementInvariant ==
  ASSUME Faults = {}
  PROVE  Spec => []RInv
<1> DEFINE Found == \A d \in Dispatches : call[d].phase # "lost"
<1>1. Init => Found
  BY DEF Init, NoCall
<1>2. IInv /\ Found /\ [Next]_vars => Found'
  <2> SUFFICES ASSUME IInv, Found, [Next]_vars PROVE Found'
    OBVIOUS
  <2>0. call \in [Dispatches -> Call]
    BY DEF IInv, TypeOK
  <2>1. ASSUME NEW d \in Dispatches, Submit(d)
        PROVE  Found'
    BY <2>0, <2>1 DEF Submit, Call
  <2>2. ASSUME NEW d \in Dispatches, Serve(d)
        PROVE  Found'
    BY <2>2, ServeEffect DEF IInv
  <2>3. CASE call' = call
    BY <2>3
  <2>4. QED
    BY <2>1, <2>2, <2>3 DEF Next, Subscribe, Unsubscribe, Close, Crash, Open, vars
<1>3. IInv => OneAtATime(call)
  BY OneRunning DEF IInv, OneAtATime
<1>4. IInv /\ Found => RInv
  BY <1>3 DEF RInv
<1>5. QED
  BY <1>1, <1>2, <1>4, Inductive, PTL DEF Spec

\* What the caller of d is told is what it would be told by AtomicCampaign.
LEMMA AnswersBar ==
  ASSUME NEW d \in Dispatches, NEW p \in Phases, p # "lost"
  PROVE  /\ Answer(p) = "new" <=> p = "new"
         /\ Answer(p) = "waiting" <=> p = "queued"
         /\ Answer(p) = "accepted" <=> p \in Running \cup {"accepted"}
         /\ Answer(p) = "rejected" <=> p = "rejected"
BY DEF Answer, Phases, Running, Done

\* In the step of a dispatch that is being served, the answer given to it has
\* been decided: AtomicCampaign took it when the dispatch began.
LEMMA ServedStays ==
  ASSUME RInv, NEW d \in Dispatches, Serve(d),
         call[d].phase \in Running, call'[d].phase \in Running \cup {"accepted"}
  PROVE  inputBar' = inputBar /\ answerBar' = answerBar
<1>1. /\ \A e \in Dispatches : e # d => call'[e] = call[e]
      /\ call'[d].input = call[d].input
  BY ServeEffect DEF RInv, IInv
<1>2. Answer(call[d].phase) = "accepted" /\ Answer(call'[d].phase) = "accepted"
  BY AnswersBar DEF Phases, Running, Done
<1>3. \A e \in Dispatches : /\ call'[e].input = call[e].input
                            /\ Answer(call'[e].phase) = Answer(call[e].phase)
  BY <1>1, <1>2
<1>4. QED
  BY <1>3 DEF inputBar, answerBar

\* The dispatch that is about to begin or to be refused finds nothing left of
\* another, and it is its turn.
LEMMA TurnBar ==
  ASSUME RInv, NEW d \in Dispatches, call[d].phase = "queued", Turn(d)
  PROVE  /\ \A e \in Dispatches : call[e].phase \notin Running
         /\ stateBar = state /\ logBar = log
         /\ Atomic!Turn(d)
<1>1. \A e \in Dispatches : call[e].phase \notin Running
  BY Alone DEF RInv, IInv, Running
<1>2. Unmutated(call) = << >> /\ Unlogged(call) = << >>
  BY <1>1, RestOfNone
<1>3. stateBar = state /\ logBar = log
  <2>1. log \in Seq(Intent)
    BY DEF RInv, IInv, TypeOK
  <2>2. QED
    BY <1>2, <2>1, AppliedNothing, StoredEventsOfNothing DEF stateBar, logBar
<1>4. Atomic!Turn(d)
  <2>1. answerBar[d] = "waiting"
    BY DEF answerBar, Answer, Running
  <2>2. ASSUME NEW e \in Dispatches, e < d
        PROVE  answerBar[e] \in {"accepted", "rejected"}
    <3>1. call[e].phase \in {"accepted", "rejected"}
      BY <2>2 DEF Turn, Done, RInv
    <3>2. QED
      BY <3>1 DEF answerBar, Answer, Running
  <2>3. QED
    BY <2>1, <2>2, SameOperators DEF Atomic!Turn
<1>5. QED
  BY <1>1, <1>3, <1>4

LEMMA SubmitRefines ==
  ASSUME RInv, RInv', NEW d \in Dispatches, Submit(d)
  PROVE  Atomic!Submit(d)
<1>0. call \in [Dispatches -> Call]
  BY DEF RInv, IInv, TypeOK
<1>1. PICK i \in Inputs : call' = [call EXCEPT ![d].phase = "queued", ![d].input = i]
  BY DEF Submit
<1>2. /\ call[d].phase = "new" /\ call'[d].phase = "queued" /\ call'[d].input = i
      /\ \A e \in Dispatches : e # d => call'[e] = call[e]
  BY <1>0, <1>1 DEF Submit, Call
<1>3. Unmutated(call') = Unmutated(call) /\ Unlogged(call') = Unlogged(call)
  <2>1. OneAtATime(call) /\ OneAtATime(call')
    BY DEF RInv
  <2>2. QED
    BY <1>2, <2>1, RestStays DEF Running
<1>4. stateBar' = stateBar /\ logBar' = logBar
  BY <1>3 DEF Submit, engineVars, storageVars, stateBar, logBar
<1>5. inputBar' = [inputBar EXCEPT ![d] = i]
  BY <1>2 DEF inputBar
<1>6. answerBar' = [answerBar EXCEPT ![d] = "waiting"]
  <2>1. Answer("queued") = "waiting"
    BY DEF Answer, Running
  <2>2. \A e \in Dispatches : e # d => Answer(call'[e].phase) = Answer(call[e].phase)
    BY <1>2
  <2>3. QED
    BY <1>2, <2>1, <2>2 DEF answerBar
<1>7. answerBar[d] = "new" /\ \A e \in Dispatches : e < d => answerBar[e] # "new"
  <2>1. \A e \in Dispatches : call[e].phase \in Phases /\ call[e].phase # "lost"
    BY <1>0 DEF RInv, Call
  <2>2. \A e \in Dispatches : Answer(call[e].phase) = "new" <=> call[e].phase = "new"
    BY <2>1, AnswersBar
  <2>3. \A e \in Dispatches : e < d => call[e].phase # "new"
    BY DEF Submit
  <2>4. QED
    BY <1>2, <2>2, <2>3 DEF answerBar
<1>8. QED
  BY <1>4, <1>5, <1>6, <1>7, SameOperators DEF Atomic!Submit

LEMMA RefuseRefines ==
  ASSUME RInv, NEW d \in Dispatches, Refuse(d)
  PROVE  Atomic!Reject(d)
<1>0. call \in [Dispatches -> Call]
  BY DEF RInv, IInv, TypeOK
<1>1. /\ call'[d].phase = "rejected" /\ call'[d].input = call[d].input
      /\ \A e \in Dispatches : e # d => call'[e] = call[e]
      /\ state' = state /\ log' = log
  BY <1>0 DEF Refuse, Call, engineVars, storageVars
<1>2. /\ stateBar = state /\ logBar = log /\ Atomic!Turn(d)
      /\ \A e \in Dispatches : call[e].phase \notin Running
  BY TurnBar DEF Refuse
<1>3. stateBar' = stateBar /\ logBar' = logBar
  <2>1. \A e \in Dispatches : call'[e].phase \notin Running
    BY <1>1, <1>2 DEF Running
  <2>2. Unmutated(call') = Unmutated(call) /\ Unlogged(call') = Unlogged(call)
    BY <1>2, <2>1, RestOfNone
  <2>3. QED
    BY <1>1, <2>2 DEF stateBar, logBar
<1>4. inputBar' = inputBar
  BY <1>1 DEF inputBar
<1>5. answerBar' = [answerBar EXCEPT ![d] = "rejected"]
  <2>1. Answer("rejected") = "rejected"
    BY DEF Answer, Running
  <2>2. \A e \in Dispatches : e # d => Answer(call'[e].phase) = Answer(call[e].phase)
    BY <1>1
  <2>3. QED
    BY <1>1, <2>1, <2>2 DEF answerBar
<1>6. QED
  BY <1>2, <1>3, <1>4, <1>5 DEF Atomic!Reject

\* The dispatch takes its abstract step, all its intents at once, when the
\* code has only made the first mutation.
LEMMA BeginRefines ==
  ASSUME RInv, RInv', NEW d \in Dispatches, Begin(d)
  PROVE  Atomic!Accept(d)
<1>0. /\ call \in [Dispatches -> Call] /\ state \in State /\ log \in Seq(Intent)
      /\ call[d].input.request \in Request
  BY InputFields DEF RInv, IInv, TypeOK, CallsInOrder, Begin
<1> DEFINE input == call[d].input
<1>1. PICK todo \in IntentsOf(state, input.request, Rulesets) : RunIntents(d, todo)
  BY DEF Begin
<1>2. todo \in Seq(Intent) /\ Len(todo) > 0
  BY <1>0, IntentsType
<1>3. /\ call'[d].phase = "append" /\ call'[d].todo = todo /\ call'[d].input = input
      /\ \A e \in Dispatches : e # d => call'[e] = call[e]
      /\ state' = Mutate(state, Head(todo)) /\ log' = log
  BY <1>0, <1>1 DEF Begin, RunIntents, Call, storageVars
<1>4. stateBar = state /\ logBar = log /\ Atomic!Turn(d)
  BY TurnBar DEF Begin
<1>5. Unmutated(call') = Tail(todo) /\ Unlogged(call') = todo
  <2>1. OneAtATime(call') /\ call'[d].phase \in Running
    BY <1>3 DEF RInv, Running
  <2>2. QED
    BY <1>3, <2>1, RestOfRunning
<1>6. stateBar' = Applied(stateBar, todo)
  <2>1. stateBar' = Applied(Mutate(state, Head(todo)), Tail(todo))
    BY <1>3, <1>5 DEF stateBar
  <2>2. QED
    BY <1>2, <1>4, <2>1, AppliedStep
<1>7. logBar' = logBar \o StoredEvents(todo)
  BY <1>3, <1>4, <1>5 DEF logBar
<1>8. inputBar' = inputBar
  BY <1>3 DEF inputBar
<1>9. answerBar' = [answerBar EXCEPT ![d] = "accepted"]
  <2>1. Answer("append") = "accepted"
    BY DEF Answer, Running
  <2>2. \A e \in Dispatches : e # d => Answer(call'[e].phase) = Answer(call[e].phase)
    BY <1>3
  <2>3. QED
    BY <1>3, <2>1, <2>2 DEF answerBar
<1>10. /\ Atomic!Resolves(stateBar, Atomic!ResolverArgs(inputBar[d]), inputBar[d].request)
       /\ todo \in Atomic!IntentsOf(stateBar, inputBar[d].request, Rulesets)
  <2>1. inputBar[d] = input
    BY DEF inputBar
  <2>2. Resolves(state, ResolverArgs(input), input.request)
    BY DEF Begin
  <2>3. QED
    BY <1>1, <1>4, <2>1, <2>2, SameOperators
<1>11. /\ stateBar' = Atomic!Applied(stateBar, todo)
       /\ logBar' = logBar \o Atomic!StoredEvents(todo)
  BY <1>6, <1>7, SameOperators
<1>12. QED
  BY <1>4, <1>8, <1>9, <1>10, <1>11 DEF Atomic!Accept

\* The append of an event, and what follows it, the callers cannot see.
LEMMA CommitStutters ==
  ASSUME RInv, RInv', NEW d \in Dispatches, Commit(d)
  PROVE  UNCHANGED <<stateBar, logBar, inputBar, answerBar>>
<1> DEFINE todo == call[d].todo
<1>0. /\ call \in [Dispatches -> Call] /\ log \in Seq(Intent)
      /\ todo \in Seq(Intent) /\ Len(todo) > 0
  BY DEF RInv, IInv, TypeOK, CallsInOrder, Call, Commit, Running
<1>1. /\ call[d].phase = "append" /\ call'[d].phase = "apply" /\ call'[d].todo = todo
      /\ state' = state /\ log' = Append(log, StoredEvent(Head(todo)))
  BY <1>0 DEF Commit, Call, engineVars
<1>2. /\ Unmutated(call) = Tail(todo) /\ Unlogged(call) = todo
      /\ Unmutated(call') = Tail(todo) /\ Unlogged(call') = Tail(todo)
  <2>1. /\ OneAtATime(call) /\ OneAtATime(call')
        /\ call[d].phase \in Running /\ call'[d].phase \in Running
    BY <1>1 DEF RInv, Running
  <2>2. QED
    BY <1>1, <2>1, RestOfRunning
<1>3. stateBar' = stateBar
  BY <1>1, <1>2 DEF stateBar
<1>4. logBar' = logBar
  BY <1>0, <1>1, <1>2, StoredEventsStep DEF logBar
<1>5. inputBar' = inputBar /\ answerBar' = answerBar
  BY <1>1, ServedStays DEF Serve, Running
<1>6. QED
  BY <1>3, <1>4, <1>5

LEMMA ProceedStutters ==
  ASSUME RInv, RInv', NEW d \in Dispatches, Proceed(d)
  PROVE  UNCHANGED <<stateBar, logBar, inputBar, answerBar>>
<1> DEFINE todo == Tail(call[d].todo)
<1>0. /\ call \in [Dispatches -> Call] /\ call[d].todo \in Seq(Intent)
  BY DEF RInv, IInv, TypeOK, Call
<1>1. todo \in Seq(Intent) /\ Len(todo) > 0
  BY <1>0 DEF Proceed
<1>2. /\ call[d].phase = "apply" /\ call'[d].phase = "append" /\ call'[d].todo = todo
      /\ state' = Mutate(state, Head(todo)) /\ log' = log
  BY <1>0 DEF Proceed, ApplyAndBroadcast, RunIntents, Call, storageVars
<1> HIDE DEF todo
<1>3. /\ Unmutated(call) = todo /\ Unlogged(call) = todo
      /\ Unmutated(call') = Tail(todo) /\ Unlogged(call') = todo
  <2>1. /\ OneAtATime(call) /\ OneAtATime(call')
        /\ call[d].phase \in Running /\ call'[d].phase \in Running
    BY <1>2 DEF RInv, Running
  <2>2. Unmutated(call) = todo /\ Unlogged(call) = todo
    BY <1>2, <2>1, RestOfRunning DEF todo
  <2>3. Unmutated(call') = Tail(todo) /\ Unlogged(call') = todo
    BY <1>2, <2>1, RestOfRunning
  <2>4. QED
    BY <2>2, <2>3
<1>4. stateBar' = stateBar
  BY <1>1, <1>2, <1>3, AppliedStep DEF stateBar
<1>5. logBar' = logBar
  BY <1>2, <1>3 DEF logBar
<1>6. inputBar' = inputBar /\ answerBar' = answerBar
  BY <1>2, ServedStays DEF Serve, Deliver, Running
<1>7. QED
  BY <1>4, <1>5, <1>6

LEMMA TailOfOne ==
  ASSUME NEW S, NEW q \in Seq(S), Len(q) = 1
  PROVE  Tail(q) = << >>
BY HeadTailProperties, EmptySeq

LEMMA AcceptStutters ==
  ASSUME RInv, NEW d \in Dispatches, Accept(d)
  PROVE  UNCHANGED <<stateBar, logBar, inputBar, answerBar>>
<1>0. /\ call \in [Dispatches -> Call] /\ call[d].todo \in Seq(Intent)
      /\ OneAtATime(call)
  BY DEF RInv, IInv, TypeOK, Call
<1>1. /\ call[d].phase = "apply" /\ call'[d].phase = "accepted"
      /\ Tail(call[d].todo) = << >>
      /\ state' = state /\ log' = log
  <2>1. /\ call[d].phase = "apply" /\ call'[d].phase = "accepted"
        /\ state' = state /\ log' = log /\ Len(call[d].todo) = 1
    BY <1>0 DEF Accept, ApplyAndBroadcast, Call, storageVars
  <2>2. Tail(call[d].todo) = << >>
    BY <1>0, <2>1, TailOfOne
  <2>3. QED
    BY <2>1, <2>2
<1>2. Unmutated(call) = << >> /\ Unlogged(call) = << >>
  BY <1>0, <1>1, RestOfRunning DEF Running
<1>3. \A e \in Dispatches : call'[e].phase \notin Running
  <2>1. \A e \in Dispatches : e # d => call'[e] = call[e] /\ call[e].phase \notin Running
    BY <1>0, <1>1 DEF Accept, OneAtATime, Running
  <2>2. QED
    BY <1>1, <2>1 DEF Running
<1>4. Unmutated(call') = << >> /\ Unlogged(call') = << >>
  BY <1>3, RestOfNone
<1>5. stateBar' = stateBar /\ logBar' = logBar
  BY <1>1, <1>2, <1>4 DEF stateBar, logBar
<1>6. inputBar' = inputBar /\ answerBar' = answerBar
  BY <1>1, ServedStays DEF Serve, Deliver, Running
<1>7. QED
  BY <1>5, <1>6

LEMMA OpenRefines ==
  ASSUME RInv, Open
  PROVE  Atomic!Restart
<1>1. \A d \in Dispatches : call[d].phase \notin Running
  BY DEF Open, Running, Done
<1>2. Unmutated(call) = << >> /\ call' = call /\ state' = Seed /\ log' = log
  BY <1>1, RestOfNone DEF Open
<1>3. stateBar' = Seed
  BY <1>2, AppliedNothing DEF stateBar
<1>4. UNCHANGED <<logBar, inputBar, answerBar>>
  BY <1>2 DEF logBar, inputBar, answerBar
<1>5. QED
  BY <1>3, <1>4 DEF Atomic!Restart

\* The engine implements AtomicCampaign, for every campaign and any number of
\* dispatches and listeners: while no append fails, the process does not crash
\* and no ruleset derives fields, callers cannot tell the awaits inside a
\* dispatch from a single step.
THEOREM EngineServesAtomically ==
  ASSUME Faults = {}, "derived" \notin Rulesets
  PROVE  Spec => ServesAtomically
<1>1. Init => Atomic!Init
  <2> SUFFICES ASSUME Init PROVE Atomic!Init
    OBVIOUS
  <2>1. \A d \in Dispatches : call[d] = NoCall
    BY DEF Init
  <2>2. Unmutated(call) = << >> /\ Unlogged(call) = << >>
    BY <2>1, RestOfNone DEF NoCall, Running
  <2>3. stateBar = Seed /\ logBar = << >>
    <3>1. << >> \in Seq(Intent)
      OBVIOUS
    <3>2. QED
      BY <2>2, <3>1, AppliedNothing, StoredEventsOfNothing DEF Init, stateBar, logBar
  <2>4. inputBar = [d \in Dispatches |-> None]
    BY <2>1 DEF inputBar, NoCall
  <2>5. answerBar = [d \in Dispatches |-> "new"]
    BY <2>1 DEF answerBar, NoCall, Answer, Running
  <2>6. QED
    BY <2>3, <2>4, <2>5, SameOperators DEF Atomic!Init
<1>2. RInv /\ RInv' /\ [Next]_vars => [Atomic!Next]_(Atomic!vars)
  <2> SUFFICES ASSUME RInv, RInv', [Next]_vars
               PROVE  Atomic!Next \/ UNCHANGED <<stateBar, logBar, inputBar, answerBar>>
    BY DEF Atomic!vars
  <2>1. ASSUME NEW d \in Dispatches, Submit(d)
        PROVE  Atomic!Next
    BY <2>1, SubmitRefines, SameOperators DEF Atomic!Next
  <2>2. ASSUME NEW d \in Dispatches, Refuse(d)
        PROVE  Atomic!Next
    BY <2>2, RefuseRefines, SameOperators DEF Atomic!Next
  <2>3. ASSUME NEW d \in Dispatches, Begin(d)
        PROVE  Atomic!Next
    BY <2>3, BeginRefines, SameOperators DEF Atomic!Next
  <2>4. ASSUME NEW d \in Dispatches, Commit(d) \/ Proceed(d) \/ Accept(d)
        PROVE  UNCHANGED <<stateBar, logBar, inputBar, answerBar>>
    BY <2>4, CommitStutters, ProceedStutters, AcceptStutters
  <2>5. ASSUME NEW d \in Dispatches
        PROVE  ~AppendFails(d) /\ ~RunHook(d) /\ ~HookThrows(d)
    BY DEF AppendFails, RunHook, HookThrows, HookDue
  <2>6. CASE Open
    BY <2>6, OpenRefines DEF Atomic!Next
  <2>7. CASE state' = state /\ log' = log /\ call' = call
    BY <2>7 DEF stateBar, logBar, inputBar, answerBar
  <2>8. ~Crash
    BY DEF Crash
  <2>9. QED
    BY <2>1, <2>2, <2>3, <2>4, <2>5, <2>6, <2>7, <2>8
       DEF Next, Serve, Deliver, Subscribe, Unsubscribe, Close, vars, engineVars, storageVars
<1>3. QED
  BY <1>1, <1>2, RefinementInvariant, PTL DEF Spec, ServesAtomically, Atomic!Spec

============================================================================
