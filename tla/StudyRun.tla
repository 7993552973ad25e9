------------------------------ MODULE StudyRun ------------------------------
(***************************************************************************)
(* One call of variopt.study.execution.run: the synchronous loop that asks *)
(* a run method for proposals, lets a kernel evaluate them, settles the    *)
(* evaluation budget, appends the step to the history and tells the run    *)
(* method.  Every point at which user code may raise is a step of its own, *)
(* because what has been spent, appended and told differs at each.         *)
(*                                                                         *)
(* Proposals, attempts and trace events are counted, not represented: the  *)
(* history is append-only, so a cut of it is its lengths.  A run-method    *)
(* state is what it has been told and the two predicates the loop asks of  *)
(* it.  Per-request limits of an episode batch are abstracted to their sum;*)
(* EvaluationLimits models their allocation.                               *)
(***************************************************************************)
EXTENDS Integers

CONSTANTS
  MaxEvaluations,    \* run(max_evaluations)
  BatchSize,         \* run(batch_size)
  CountCost,         \* run(count_evaluation_cost)
  StopAtCheckpoint,  \* run(stop_at_checkpoint_boundary)
  Kernel,            \* what the study's kernel does with a batch
  MaxStepCost        \* bound: evaluations one step performs or reports

ASSUME RunAssumption ==
  /\ MaxEvaluations \in Nat
  /\ BatchSize \in Nat \ {0}
  /\ CountCost \in BOOLEAN
  /\ StopAtCheckpoint \in BOOLEAN
  /\ Kernel \in {"direct", "search", "episodes"}
  /\ MaxStepCost \in Nat

VARIABLES
  pc,         \* where the loop is
  remaining,  \* EvaluationBudget.remaining, or record_budget_remaining
  state,      \* the run-method state the loop holds
  step,       \* the batch being evaluated
  history,    \* StudyRunHistory, as the lengths of its lists
  snapshot,   \* safe_snapshot
  unsafeSince,\* unsafe_since_safe_snapshot
  outcome,    \* what the call returned or raised
  evaluated   \* evaluations the evaluator was made to perform (observer)

vars == <<pc, remaining, state, step, history, snapshot, unsafeSince, outcome,
          evaluated>>

Smaller(a, b) == IF a <= b THEN a ELSE b

States == [steps : Nat, slots : Nat, pending : BOOLEAN, safe : BOOLEAN,
           exhausted : BOOLEAN]
Steps == [slots : Nat, before : Nat, queried : Nat, reserved : Nat,
          cost : Nat, counted : Nat]
Histories == [steps : Nat, slots : Nat, cost : Nat, evaluations : Nat]

NoStep == [slots |-> 0, before |-> 0, queried |-> 0, reserved |-> 0,
           cost |-> 0, counted |-> 0]
EmptyHistory == [steps |-> 0, slots |-> 0, cost |-> 0, evaluations |-> 0]

\* A checkpoint-safe cut of the history with the state it belongs to.
Cut(h, s) == [taken |-> TRUE, history |-> h, state |-> s]
FreshState == [steps |-> 0, slots |-> 0, pending |-> FALSE, safe |-> FALSE,
               exhausted |-> FALSE]
NoCut == [taken |-> FALSE, history |-> EmptyHistory, state |-> FreshState]
Cuts == [taken : BOOLEAN, history : Histories, state : States]

Kinds == {"none", "report", "checkpoint_report", "failed", "bare_cause",
          "budget_exhausted", "never_safe"}
\* report and state are those returned, or the partial ones of a
\* RunExecutionFailed, whose checkpoint-safe pair is checkpoint.
Outcomes == [kind : Kinds, report : Histories, state : States, checkpoint : Cuts]
NoOutcome == [kind |-> "none", report |-> EmptyHistory, state |-> FreshState,
              checkpoint |-> NoCut]

TypeOK ==
  /\ pc \in {"loop", "asked", "running", "episodes", "returned", "exit", "done"}
  /\ remaining \in Nat
  /\ state \in States
  /\ step \in Steps
  /\ history \in Histories
  /\ snapshot \in Cuts
  /\ unsafeSince \in BOOLEAN
  /\ outcome \in Outcomes
  /\ evaluated \in Nat
-----------------------------------------------------------------------------
\* The state a run starts from is fresh, or the checkpoint of an earlier run.
Init ==
  \E safe, exhausted \in BOOLEAN :
    LET s == [FreshState EXCEPT !.safe = safe, !.exhausted = exhausted] IN
    /\ pc = "loop"
    /\ remaining = MaxEvaluations
    /\ state = s
    /\ step = NoStep
    /\ history = EmptyHistory
    /\ snapshot = IF StopAtCheckpoint /\ safe THEN Cut(EmptyHistory, s) ELSE NoCut
    /\ unsafeSince = FALSE
    /\ outcome = NoOutcome
    /\ evaluated = 0

HasWork == remaining > 0 /\ ~state.exhausted

End(kind, report, s, checkpoint) ==
  /\ pc' = "done"
  /\ outcome' = [kind |-> kind, report |-> report, state |-> s,
                 checkpoint |-> checkpoint]

\* RunReport rejects a count below the cost of the attempts it lists.
ValidReport(h) == h.evaluations >= h.cost

\* raise_run_execution_failed: a report that cannot be built gives way to the
\* bare cause, without partial or checkpoint-safe state.
RaiseRunExecutionFailed(report, s) ==
  IF ValidReport(report) /\ (snapshot.taken => ValidReport(snapshot.history))
  THEN End("failed", report, s, snapshot)
  ELSE End("bare_cause", EmptyHistory, FreshState, NoCut)

\* _current_evaluation_count
Spent(left) == MaxEvaluations - left

\* Mutant: the evaluations of the failing step are left out.
Mutant_HistoryOnly(left) == history

\* The report of a step that failed before it was appended.
PartialReport(left) == [history EXCEPT !.evaluations = Spent(left)]

\* except Exception around _evaluate_step_feedback
FailExecution(left) ==
  /\ remaining' = left
  /\ RaiseRunExecutionFailed(PartialReport(left), state)
  /\ UNCHANGED <<state, step, history, snapshot, unsafeSince, evaluated>>

\* except EvaluationBudgetExhausted around _evaluate_step_feedback: the latest
\* cut is returned as if the run had ended there, or the exception goes on alone.
EndExhausted ==
  IF StopAtCheckpoint /\ snapshot.taken
  THEN End("checkpoint_report", snapshot.history, snapshot.state, snapshot)
  ELSE End("budget_exhausted", EmptyHistory, FreshState, NoCut)

FailBudget ==
  /\ EndExhausted
  /\ UNCHANGED <<remaining, state, step, history, snapshot, unsafeSince, evaluated>>
-----------------------------------------------------------------------------
\* run_method.ask and the hooks that decorate its proposals.
Ask ==
  /\ pc = "loop"
  /\ HasWork
  /\ \E n \in 1..Smaller(BatchSize, remaining) :
       step' = [NoStep EXCEPT !.slots = n, !.before = remaining]
  /\ pc' = "asked"
  /\ UNCHANGED <<remaining, state, history, snapshot, unsafeSince, outcome, evaluated>>

\* ask or a hook raises, or returns no proposals or too many.
AskFails == pc = "loop" /\ HasWork /\ FailExecution(remaining)

\* Mutant: the executor forgets to charge the ledger.
Mutant_QueryUncharged(count) ==
  /\ pc \in {"asked", "running"}
  /\ step.queried + count <= MaxStepCost
  /\ count <= remaining
  /\ step' = [step EXCEPT !.queried = @ + count]
  /\ evaluated' = evaluated + count
  /\ pc' = "running"
  /\ UNCHANGED <<remaining, state, history, snapshot, unsafeSince, outcome>>

\* The batch executor handed to the kernel charges the ledger before it submits.
KernelQuery(count) ==
  /\ pc \in {"asked", "running"}
  /\ Kernel = "direct" => pc = "asked" /\ count = step.slots
  /\ step.queried + count <= MaxStepCost
  /\ CountCost => count <= remaining
  /\ remaining' = IF CountCost THEN remaining - count ELSE remaining
  /\ step' = [step EXCEPT !.queried = @ + count]
  /\ evaluated' = evaluated + count
  /\ pc' = "running"
  /\ UNCHANGED <<state, history, snapshot, unsafeSince, outcome>>

\* The query is refused before any of it is evaluated.
KernelQueryRefused ==
  /\ pc \in {"asked", "running"}
  /\ CountCost
  /\ Kernel # "direct"
  /\ step.queried + remaining < MaxStepCost
  /\ FailBudget

\* The evaluator, the kernel or the alignment check of its result raises.
KernelFails == pc \in {"asked", "running"} /\ FailExecution(remaining)

\* _consume_reported_evaluation_cost: what the attempts report beyond what the
\* executor charged is charged now.
Unmetered(reported) ==
  IF CountCost /\ reported > step.before - remaining
  THEN reported - (step.before - remaining) ELSE 0

\* Mutants: the step counts only what its attempts report, or only what the
\* executor charged.
Mutant_CountReported(reported) == reported
Mutant_CountCharged(reported) == IF CountCost THEN step.before - remaining ELSE reported

\* The evaluation-count delta of the step: never less than it was charged.
Counted(reported) ==
  IF CountCost
  THEN step.before - remaining + Unmetered(reported)
  ELSE reported

\* A kernel that returns has evaluated or reported at least one evaluation.
KernelReturns(reported) ==
  /\ pc \in {"asked", "running"}
  /\ Kernel = "direct" => pc = "running"
  /\ step.queried + reported > 0
  /\ IF Unmetered(reported) > remaining
     THEN FailBudget
     ELSE /\ remaining' = remaining - Unmetered(reported)
          /\ step' = [step EXCEPT !.cost = reported, !.counted = Counted(reported)]
          /\ pc' = "returned"
          /\ UNCHANGED <<state, history, snapshot, unsafeSince, outcome, evaluated>>

\* _evaluate_request_local_episode_batch reserves a limit for every request,
\* at least one evaluation each and no more than is left.
ReserveEpisodes ==
  /\ pc = "asked"
  /\ Kernel = "episodes"
  /\ CountCost
  /\ \E limit \in step.slots..Smaller(remaining, MaxStepCost) :
       /\ step' = [step EXCEPT !.reserved = limit]
       /\ remaining' = remaining - limit
  /\ pc' = "episodes"
  /\ UNCHANGED <<state, history, snapshot, unsafeSince, outcome, evaluated>>

\* EvaluationReservationBatch.settle: what the episodes did not use is refunded.
EpisodesSettle(used) ==
  /\ pc = "episodes"
  /\ used \in 1..step.reserved
  /\ remaining' = remaining + step.reserved - used
  /\ step' = [step EXCEPT !.cost = used, !.counted = used]
  /\ evaluated' = evaluated + used
  /\ pc' = "returned"
  /\ UNCHANGED <<state, history, snapshot, unsafeSince, outcome>>

\* Mutant: a failed episode batch is refunded and tried again.
Mutant_RetryEpisodes ==
  /\ pc = "episodes"
  /\ remaining' = step.before
  /\ pc' = "asked"
  /\ UNCHANGED <<state, step, history, snapshot, unsafeSince, outcome, evaluated>>

\* The evaluator raises, or its costs are misaligned or beyond a limit: the
\* whole reservation is forfeited, and may have been used up.
EpisodesForfeited ==
  /\ pc = "episodes"
  /\ evaluated' = evaluated + step.reserved
  /\ UNCHANGED <<remaining, state, step, history, snapshot, unsafeSince>>

EpisodesFail ==
  EpisodesForfeited /\ RaiseRunExecutionFailed(PartialReport(remaining), state)

\* The runner of an episode refuses a call beyond its limit and the kernel lets
\* the exception through: to the run it is its own budget that is exhausted.
EpisodesRefused == EpisodesForfeited /\ EndExhausted

\* The materializer or the alignment check of the feedback raises.
MaterializeFails == pc = "returned" /\ FailExecution(remaining)

\* StudyRunHistory.append_step
Appended ==
  [steps |-> history.steps + 1,
   slots |-> history.slots + step.slots,
   cost |-> history.cost + step.cost,
   evaluations |-> history.evaluations + step.counted]

Told(safe, exhausted) ==
  [steps |-> state.steps + 1, slots |-> state.slots + step.slots,
   pending |-> FALSE, safe |-> safe, exhausted |-> exhausted]

\* Mutants: the cut is taken before the step is appended, or only once.
Mutant_CutBeforeAppend(s) ==
  IF StopAtCheckpoint /\ s.safe THEN Cut(history, s) ELSE snapshot
Mutant_CutOnce(s) ==
  IF StopAtCheckpoint /\ s.safe /\ ~snapshot.taken THEN Cut(Appended, s) ELSE snapshot

\* StudyRunHistory.checkpoint_snapshot, when the state told is safe.
Checkpointed(s) ==
  IF StopAtCheckpoint /\ s.safe THEN Cut(Appended, s) ELSE snapshot

\* What is left once the step has been told.
RemainingAfterTell == IF CountCost THEN remaining ELSE step.before - step.slots

\* tell_attempts returns; the boundary bookkeeping that ends the iteration.
Tell(safe, exhausted) ==
  LET s == Told(safe, exhausted) IN
  /\ pc = "returned"
  /\ history' = Appended
  /\ state' = s
  /\ remaining' = RemainingAfterTell
  /\ snapshot' = Checkpointed(s)
  /\ unsafeSince' = IF ~StopAtCheckpoint THEN FALSE
                    ELSE IF safe THEN unsafeSince ELSE TRUE
  /\ pc' = IF StopAtCheckpoint /\ safe /\ unsafeSince THEN "exit" ELSE "loop"
  /\ step' = NoStep
  /\ UNCHANGED <<outcome, evaluated>>

\* tell_attempts raises: the history has the step, the state is post-ask.
TellFails ==
  /\ pc = "returned"
  /\ history' = Appended
  /\ RaiseRunExecutionFailed(Appended, [state EXCEPT !.pending = TRUE])
  /\ UNCHANGED <<remaining, state, step, snapshot, unsafeSince, evaluated>>

\* The loop is left: a run told to stop at a boundary rolls back to the latest.
Finish ==
  /\ pc = "exit" \/ (pc = "loop" /\ ~HasWork)
  /\ CASE ~StopAtCheckpoint \/ state.safe -> End("report", history, state, NoCut)
       [] StopAtCheckpoint /\ ~state.safe /\ snapshot.taken ->
            End("checkpoint_report", snapshot.history, snapshot.state, snapshot)
       [] OTHER -> End("never_safe", EmptyHistory, FreshState, NoCut)
  /\ UNCHANGED <<remaining, state, step, history, snapshot, unsafeSince, evaluated>>

Next ==
  \/ Ask \/ AskFails
  \/ \E count \in 1..MaxStepCost : KernelQuery(count)
  \/ KernelQueryRefused \/ KernelFails
  \/ \E reported \in 0..MaxStepCost : KernelReturns(reported)
  \/ ReserveEpisodes
  \/ \E used \in 1..MaxStepCost : EpisodesSettle(used)
  \/ EpisodesFail \/ EpisodesRefused
  \/ MaterializeFails
  \/ \E safe, exhausted \in BOOLEAN : Tell(safe, exhausted)
  \/ TellFails
  \/ Finish

Spec == Init /\ [][Next]_vars

\* The loop is a sequential call: while it can continue, it does.
FairSpec == Spec /\ WF_vars(Next)
-----------------------------------------------------------------------------
\* Evaluations charged to the ledger and not yet part of the history.
InFlight ==
  CASE pc \in {"asked", "running"} -> step.before - remaining
    [] pc = "episodes" -> step.reserved
    [] pc = "returned" -> step.counted
    [] OTHER -> 0

\* Until the call ends, every unit of the budget is left, charged to the step
\* in progress, or counted by the history: reservations, refunds and late
\* charges neither lose nor invent any.  The unit is an evaluation, or the
\* attempt slot when evaluation costs are not counted.
LedgerBalanced ==
  pc # "done" =>
    IF CountCost
    THEN history.evaluations + InFlight + remaining = MaxEvaluations
    ELSE history.slots + remaining = MaxEvaluations

\* With a hard budget, the evaluator is never made to perform more evaluations
\* than the call was given, whatever kernels, refunds and failures do.
HardBudget == CountCost => evaluated <= MaxEvaluations

\* A terminal report, and the partial report of a hard failure, account for
\* every evaluation the call took from the budget, appended or not.
ReportCoversSpending ==
  CountCost /\ outcome.kind \in {"report", "failed"} =>
    outcome.report.evaluations = MaxEvaluations - remaining

\* Neither the history nor a cut of it counts less than the attempts it lists,
\* so their reports can be built (RunReport.__post_init__).
ReportsValid ==
  /\ ValidReport(history)
  /\ ValidReport(snapshot.history)

\* Report and state agree on a checkpoint: the run method has been told exactly
\* the steps the report lists, has nothing outstanding and calls itself safe.
Aligned(h, s) == s.safe /\ ~s.pending /\ s.steps = h.steps /\ s.slots = h.slots
CheckpointAligned ==
  /\ snapshot.taken => Aligned(snapshot.history, snapshot.state)
  /\ outcome.checkpoint.taken =>
       Aligned(outcome.checkpoint.history, outcome.checkpoint.state)
  /\ StopAtCheckpoint /\ outcome.kind \in {"report", "checkpoint_report"} =>
       Aligned(outcome.report, outcome.state)

\* The cut a run rolls back to is the latest there is: it lags the history
\* exactly while the run method has been unsafe since.
RollbackIsLatest ==
  StopAtCheckpoint /\ pc = "loop" =>
    (unsafeSince <=> history.steps > IF snapshot.taken
                                     THEN snapshot.history.steps ELSE 0)

\* "hard study execution failures carry partial report/state and
\* checkpoint-safe report/state projections when available" (CHANGELOG.md:287):
\* no failure of a call of user code ends the run with the bare exception, and
\* a budget that is refused does only if there is no cut to return to.
FailuresCarryReports ==
  /\ outcome.kind # "bare_cause"
  /\ snapshot.taken => outcome.kind \notin {"budget_exhausted", "never_safe"}

\* "The unresolved reservation remains charged and the study raises
\* `RunExecutionFailed`" (docs/reference/evaluator-contracts.md:109-110): a call
\* that ends with a batch of episodes reserved and not settled is a failed one.
Unresolved == step.reserved > 0 /\ step.counted = 0
UnresolvedBatchFails == pc = "done" /\ Unresolved => outcome.kind = "failed"

\* The loop ends: every iteration spends budget, a slot, or the call.
Termination == <>(pc = "done")
=============================================================================
