--------------------------- MODULE AtomicCampaign ---------------------------
(***************************************************************************)
(* What the engine promises its callers: the requests of a campaign take   *)
(* effect one at a time, in the order they were submitted, each entirely   *)
(* on both the state and the event log, or not at all.  Restarting the     *)
(* engine brings back the seeded state and leaves the log alone.           *)
(***************************************************************************)
EXTENDS CampaignState

CONSTANTS MaxDispatches, Inputs, Seed, Rulesets

Dispatches == 1..MaxDispatches

VARIABLES
  state,    \* the campaign state
  log,      \* the stored events
  input,    \* input[d]: the request of dispatch d
  answer    \* answer[d]: "new", "waiting", "accepted" or "rejected"

vars == <<state, log, input, answer>>

Init ==
  /\ state = Seed
  /\ log = <<>>
  /\ input = [d \in Dispatches |-> None]
  /\ answer = [d \in Dispatches |-> "new"]

Submit(d) ==
  /\ answer[d] = "new"
  /\ \A e \in Dispatches : e < d => answer[e] # "new"
  /\ \E i \in Inputs : input' = [input EXCEPT ![d] = i]
  /\ answer' = [answer EXCEPT ![d] = "waiting"]
  /\ UNCHANGED <<state, log>>

Turn(d) ==
  /\ answer[d] = "waiting"
  /\ \A e \in Dispatches : e < d => answer[e] \in {"accepted", "rejected"}

Reject(d) ==
  /\ Turn(d)
  /\ answer' = [answer EXCEPT ![d] = "rejected"]
  /\ UNCHANGED <<state, log, input>>

\* All intents of the request at once.
Accept(d) ==
  /\ Turn(d)
  /\ Resolves(state, ResolverArgs(input[d]), input[d].request)
  /\ \E todo \in IntentsOf(state, input[d].request, Rulesets) :
       /\ state' = Applied(state, todo)
       /\ log' = log \o StoredEvents(todo)
  /\ answer' = [answer EXCEPT ![d] = "accepted"]
  /\ UNCHANGED input

Restart ==
  /\ state' = Seed
  /\ UNCHANGED <<log, input, answer>>

Next ==
  \/ \E d \in Dispatches : Submit(d) \/ Reject(d) \/ Accept(d)
  \/ Restart

Spec == Init /\ [][Next]_vars

============================================================================
