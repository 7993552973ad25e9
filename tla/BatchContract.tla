---------------------------- MODULE BatchContract ----------------------------
(***************************************************************************)
(* What AsyncEvaluator promises its callers about one logical batch        *)
(* (src/variopt/evaluators/async_evaluator/contracts.py and artifacts.py): *)
(* every request is reported at most once, the batch completes with the    *)
(* report of its last request, a suspended batch reports nothing until it  *)
(* is resumed, and a batch that completed, failed or was cancelled stays   *)
(* so.  AsyncJoblib is shown to implement this specification.              *)
(***************************************************************************)
EXTENDS Integers

CONSTANT Requests

VARIABLES
  phase,     \* where the batch is in its life
  delivered  \* how many completion groups reported each request

contractVars == <<phase, delivered>>

Phases == {"new", "running", "parked", "completed", "failed", "cancelled"}

Init ==
  /\ phase = "new"
  /\ delivered = [i \in Requests |-> 0]

Submit == phase = "new" /\ phase' = "running" /\ UNCHANGED delivered

Deliver(i) ==
  /\ phase = "running"
  /\ delivered[i] = 0
  /\ delivered' = [delivered EXCEPT ![i] = 1]
  /\ phase' = IF \A j \in Requests : delivered'[j] = 1 THEN "completed"
                                                       ELSE "running"

Fail == phase = "running" /\ phase' = "failed" /\ UNCHANGED delivered

(* A caller's cancel or discard, or a backend that was interrupted. *)
Cancel ==
  /\ phase \in {"running", "parked"}
  /\ phase' = "cancelled"
  /\ UNCHANGED delivered

Park   == phase = "running" /\ phase' = "parked" /\ UNCHANGED delivered
Unpark == phase = "parked" /\ phase' = "running" /\ UNCHANGED delivered

Next ==
  \/ Submit \/ Fail \/ Cancel \/ Park \/ Unpark
  \/ \E i \in Requests : Deliver(i)

Spec == Init /\ [][Next]_contractVars
=============================================================================
