---------------------------- MODULE EpisodeBatch ----------------------------
(***************************************************************************)
(* One batch of request-local episodes: the limits are allocated, the      *)
(* coordinator reserves them from the budget and dispatches one episode    *)
(* per request (study/execution.py, _evaluate_request_local_episode_batch);*)
(* workers run the episodes, each against a runner that stops it at its    *)
(* limit (evaluators/episodes.py); results arrive in the order episodes    *)
(* end, and the reservation is settled or forfeited (execution.py).        *)
(*                                                                         *)
(* An evaluator reports a failure as soon as one episode raises; episodes  *)
(* that other workers are running may still call the objective after that. *)
(***************************************************************************)
EXTENDS EvaluationLimits, Sequences

VARIABLES
  budget,    \* EvaluationBudget.remaining
  episode,   \* state of each episode, calls it made, cost it reported
  results,   \* indexed results in the order they arrived
  fate       \* "none", "dispatched", "kernel_path", "settled", "failed",
             \* or "lost" when the evaluator itself fails

batchVars == <<budget, episode, results, fate>>
episodesVars == <<preferred, available, limits, active, level, left, phase,
                  budget, episode, results, fate>>

Episode ==
  [state: {"queued", "running", "returned", "raised"},
   consumed: 0..MaxPreferred, cost: 0..MaxPreferred]
Result == [index: Slots, cost: 1..MaxPreferred]

BatchTypeOK ==
  /\ AllocTypeOK
  /\ budget \in 0..available
  /\ episode \in [Slots -> Episode]
  /\ results \in Seq(Result) /\ Len(results) <= Requests
  /\ fate \in {"none", "dispatched", "kernel_path", "settled", "failed", "lost"}

BatchInit ==
  /\ AllocInit
  /\ budget = available
  /\ episode = [i \in Slots |-> [state |-> "queued", consumed |-> 0, cost |-> 0]]
  /\ results = <<>>
  /\ fate = "none"

Reserved == SumFunction(limits)

ChooseLimits == Allocate /\ UNCHANGED batchVars

\* limits is None: the kernel runs the batch itself.
TakeKernelPath ==
  /\ fate = "none"
  /\ phase = "refused"
  /\ fate' = "kernel_path"
  /\ UNCHANGED <<allocVars, budget, episode, results>>

\* EvaluationReservationBatch.__init__ takes the sum of the limits at once.
Dispatch ==
  /\ fate = "none"
  /\ phase = "granted"
  /\ Reserved <= budget
  /\ budget' = budget - Reserved
  /\ fate' = "dispatched"
  /\ UNCHANGED <<allocVars, episode, results>>

Start(i) ==
  /\ fate = "dispatched"
  /\ episode[i].state = "queued"
  /\ episode' = [episode EXCEPT ![i].state = "running"]
  /\ UNCHANGED <<allocVars, budget, results, fate>>

\* remaining_evaluations # 0
HasCallsLeft(i) == episode[i].consumed < limits[i]

\* BoundedRequestLocalEvaluationRunner.evaluate: the call counts before it is
\* made, and whether or not it fails.  Without calls left the runner raises.
CallObjective(i) ==
  /\ episode[i].state = "running"
  /\ HasCallsLeft(i)
  /\ episode' = [episode EXCEPT ![i].consumed = @ + 1]
  /\ UNCHANGED <<allocVars, budget, results, fate>>

\* Mutant: the reported cost is not compared with the calls the runner made.
Mutant_TrustKernel(i, cost) == cost > 0 /\ cost <= limits[i]

\* The checks of execute_request_local_episode on the cost a kernel reports.
CostAccepted(i, cost) ==
  cost > 0 /\ cost <= limits[i] /\ cost = episode[i].consumed

\* The kernel returns an attempt; a rejected cost raises in the worker.
Return(i, cost) ==
  /\ episode[i].state = "running"
  /\ IF CostAccepted(i, cost)
     THEN /\ episode' = [episode EXCEPT ![i] =
               [state |-> "returned", consumed |-> @.consumed, cost |-> cost]]
          /\ results' = Append(results, [index |-> i, cost |-> cost])
     ELSE /\ episode' = [episode EXCEPT ![i].state = "raised"]
          /\ UNCHANGED results
  /\ UNCHANGED <<allocVars, budget, fate>>

\* The kernel raises, the runner's refusal included.
Raise(i) ==
  /\ episode[i].state = "running"
  /\ episode' = [episode EXCEPT ![i].state = "raised"]
  /\ UNCHANGED <<allocVars, budget, results, fate>>

\* Mutant: results are taken in the order they arrived.
Mutant_ArrivalOrder == results

\* ordered_request_local_episode_attempts
Ordered == [i \in Slots |-> results[CHOOSE k \in Slots : results[k].index = i]]

\* validate_aligned_attempts, and the bounds settle checks.
InOrder == \A i \in Slots : Ordered[i].index = i
WithinLimits == \A i \in Slots : Ordered[i].cost <= limits[i]

\* settle: what the episodes did not consume goes back to the budget.
Refunded(costs) == budget + Reserved - SumFunction(costs)

\* All the results are in.
SettleBatch ==
  /\ fate = "dispatched"
  /\ Len(results) = Requests
  /\ IF InOrder /\ WithinLimits
     THEN /\ budget' = Refunded([i \in Slots |-> Ordered[i].cost])
          /\ fate' = "settled"
     ELSE /\ fate' = "failed"
          /\ UNCHANGED budget
  /\ UNCHANGED <<allocVars, episode, results>>

\* Mutant: a failed batch is refunded what its episodes have not used so far.
Mutant_RefundFailure ==
  budget + Reserved - SumFunction([i \in Slots |-> episode[i].consumed])

\* reservation.forfeit()
BudgetAfterFailure == budget

\* The evaluator reports an episode that raised.
Forfeit ==
  /\ fate = "dispatched"
  /\ \E i \in Slots : episode[i].state = "raised"
  /\ budget' = BudgetAfterFailure
  /\ fate' = "failed"
  /\ UNCHANGED <<allocVars, episode, results>>

\* The evaluator fails for a reason of its own: transport, a worker that dies.
LoseEvaluator ==
  /\ fate = "dispatched"
  /\ budget' = BudgetAfterFailure
  /\ fate' = "lost"
  /\ UNCHANGED <<allocVars, episode, results>>

Work(i) ==
  \/ Start(i) \/ CallObjective(i) \/ Raise(i)
  \/ \E cost \in 0..MaxPreferred : Return(i, cost)

Coordinate == ChooseLimits \/ TakeKernelPath \/ Dispatch \/ SettleBatch \/ Forfeit

BatchNext == Coordinate \/ LoseEvaluator \/ \E i \in Slots : Work(i)

BatchSpec == BatchInit /\ [][BatchNext]_episodesVars
-----------------------------------------------------------------------------
\* The episode of every request calls the objective no more often than its
\* limit, and what it reports is what it called.
EpisodesBounded ==
  \A i \in Slots :
    /\ fate \notin {"none", "kernel_path"} => episode[i].consumed <= limits[i]
    /\ episode[i].state = "returned" =>
         episode[i].cost \in 1..limits[i] /\ episode[i].cost = episode[i].consumed

\* Episodes that all end well settle the batch, in whatever order they end.
NoNeedlessForfeit ==
  fate = "failed" => \E i \in Slots : episode[i].state = "raised"

\* The budget is charged as promised, at every step, workers that outlive a
\* failure included.
Contract == INSTANCE ReservationContract WITH
  Budget    <- MaxAvailable,
  remaining <- budget,
  reserved  <- IF fate \in {"none", "kernel_path"} THEN 0 ELSE Reserved,
  evaluated <- SumFunction([i \in Slots |-> episode[i].consumed]),
  standing  <- CASE fate = "none" -> "idle"
                 [] fate = "kernel_path" -> "declined"
                 [] fate = "dispatched" -> "reserved"
                 [] fate = "settled" -> "settled"
                 [] OTHER -> "forfeited"
ChargesAsPromised == Contract!Spec
=============================================================================
