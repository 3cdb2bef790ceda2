------------------------ MODULE EngineCoreRefinement ------------------------
(***************************************************************************)
(* EngineCore implements AtomicCampaign while no append fails, the process *)
(* does not crash and no hook throws.  A dispatch takes its abstract step  *)
(* when dispatchInternal begins on it: the intents still to be processed   *)
(* are applied to the abstract state and log ahead of time.                *)
(***************************************************************************)
EXTENDS EngineCore

\* The dispatch inside dispatchInternal, when there is one: never two.
Current(calls) == CHOOSE d \in Dispatches : calls[d].phase \in Running

\* Its intents whose mutation, and those whose event, are still to come.
Unmutated(calls) ==
  IF \E d \in Dispatches : calls[d].phase \in Running
  THEN Tail(calls[Current(calls)].todo) ELSE << >>

Unlogged(calls) ==
  IF \E d \in Dispatches : calls[d].phase = "append"
  THEN calls[Current(calls)].todo ELSE Unmutated(calls)

Answer(phase) ==
  CASE phase \in Running -> "accepted"
    [] phase = "queued" -> "waiting"
    [] OTHER -> phase

stateBar  == Applied(state, Unmutated(call))
logBar    == log \o StoredEvents(Unlogged(call))
inputBar  == [d \in Dispatches |-> call[d].input]
answerBar == [d \in Dispatches |-> Answer(call[d].phase)]

Atomic == INSTANCE AtomicCampaign WITH
  state <- stateBar, log <- logBar, input <- inputBar, answer <- answerBar

\* Callers cannot tell the engine, with its awaits between the mutation of
\* the state, the append to storage and the broadcast, from one that serves
\* each request in one step in the order of submission.
ServesAtomically == Atomic!Spec

============================================================================
