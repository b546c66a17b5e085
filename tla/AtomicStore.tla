---------------------------- MODULE AtomicStore ----------------------------
(***************************************************************************)
(* What Store.Update promises processes that write state.json through it   *)
(* only (internal/state/state.go): each update takes effect at one moment, *)
(* on the state as it is then, or not at all; it is reported done only     *)
(* after it took effect, and failed only if it never does.                 *)
(***************************************************************************)
CONSTANT Updaters

VARIABLES
  state,    \* the updates in the state
  outcome   \* what became of each update

vars == <<state, outcome>>

Init ==
  /\ state = {}
  /\ outcome = [u \in Updaters |-> "none"]

Apply(u) ==
  /\ outcome[u] = "none"
  /\ state' = state \cup {u}
  /\ outcome' = [outcome EXCEPT ![u] = "applied"]

ReportDone(u) ==
  /\ outcome[u] = "applied"
  /\ outcome' = [outcome EXCEPT ![u] = "done"]
  /\ UNCHANGED state

ReportFailure(u) ==
  /\ outcome[u] = "none"
  /\ outcome' = [outcome EXCEPT ![u] = "failed"]
  /\ UNCHANGED state

Next == \E u \in Updaters : Apply(u) \/ ReportDone(u) \/ ReportFailure(u)

Spec == Init /\ [][Next]_vars
=============================================================================
