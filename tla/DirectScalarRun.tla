--------------------------- MODULE DirectScalarRun ---------------------------
(***************************************************************************)
(* variopt.study.execution._optimize_direct_scalar_sequential: the fused   *)
(* loop Study.optimize takes when a direct scalar objective is evaluated   *)
(* sequentially.  It keeps a history of its own, evaluates proposals one   *)
(* by one without a kernel, and derives the terminal count from the budget *)
(* instead of the history.  It is shown to implement StudyRun with the     *)
(* direct kernel, so that callers cannot tell which loop served them.      *)
(***************************************************************************)
EXTENDS Integers

CONSTANTS MaxEvaluations, BatchSize, CountCost, StopAtCheckpoint

ASSUME DirectAssumption ==
  /\ MaxEvaluations \in Nat /\ BatchSize \in Nat \ {0}
  /\ CountCost \in BOOLEAN /\ StopAtCheckpoint \in BOOLEAN

VARIABLES
  pc, remaining, state,
  batch,      \* the proposals in hand: how many, charged, looked at, costing
  history,    \* _DirectScalarRunHistory, as the lengths of its lists
  snapshot, unsafeSince, outcome,
  submitted   \* evaluations charged or started (observer)

vars == <<pc, remaining, state, batch, history, snapshot, unsafeSince, outcome,
          submitted>>

FreshState == [steps |-> 0, slots |-> 0, pending |-> FALSE, safe |-> FALSE,
               exhausted |-> FALSE]
EmptyHistory == [steps |-> 0, slots |-> 0, cost |-> 0, evaluations |-> 0]
NoBatch == [slots |-> 0, before |-> 0, charged |-> 0, looked |-> 0, cost |-> 0]
NoCut == [taken |-> FALSE, history |-> EmptyHistory, state |-> FreshState]
NoOutcome == [kind |-> "none", report |-> EmptyHistory, state |-> FreshState,
              checkpoint |-> NoCut]
Cut(h, s) == [taken |-> TRUE, history |-> h, state |-> s]
Smaller(a, b) == IF a <= b THEN a ELSE b

Init ==
  \E safe, exhausted \in BOOLEAN :
    LET s == [FreshState EXCEPT !.safe = safe, !.exhausted = exhausted] IN
    /\ pc = "loop" /\ remaining = MaxEvaluations /\ state = s
    /\ batch = NoBatch /\ history = EmptyHistory
    /\ snapshot = IF StopAtCheckpoint /\ safe THEN Cut(EmptyHistory, s) ELSE NoCut
    /\ unsafeSince = FALSE /\ outcome = NoOutcome /\ submitted = 0

HasWork == remaining > 0 /\ ~state.exhausted

End(kind, report, s, checkpoint) ==
  /\ pc' = "done"
  /\ outcome' = [kind |-> kind, report |-> report, state |-> s,
                 checkpoint |-> checkpoint]

\* Mutant: the count of the failing batch is taken before it was charged.
Mutant_CountBeforeCharge == MaxEvaluations - batch.before

\* _current_evaluation_count, which failures and the terminal result report.
Spent == MaxEvaluations - remaining

\* _DirectScalarRunHistory.raise_run_execution_failed.  Direct evaluations cost
\* one each, so the report can always be built.
RaiseRunExecutionFailed(report, s) == End("failed", report, s, snapshot)

FailExecution ==
  /\ RaiseRunExecutionFailed([history EXCEPT !.evaluations = Spent], state)
  /\ UNCHANGED <<remaining, state, batch, history, snapshot, unsafeSince, submitted>>
-----------------------------------------------------------------------------
Ask ==
  /\ pc = "loop" /\ HasWork
  /\ \E n \in 1..Smaller(BatchSize, remaining) :
       batch' = [NoBatch EXCEPT !.slots = n, !.before = remaining]
  /\ pc' = "asked"
  /\ UNCHANGED <<remaining, state, history, snapshot, unsafeSince, outcome, submitted>>

\* ask raises, or returns no proposals or too many, or their specifications
\* cannot be had or do not align.
AskFails == ((pc = "loop" /\ HasWork) \/ pc = "asked") /\ FailExecution

\* The whole batch is charged before the first proposal is looked at.  No more
\* proposals were asked for than were left, so the charge never fails.
Charge ==
  /\ pc = "asked"
  /\ remaining' = IF CountCost THEN remaining - batch.slots ELSE remaining
  /\ batch' = [batch EXCEPT !.charged = batch.slots]
  /\ submitted' = submitted + batch.slots
  /\ pc' = "evaluating"
  /\ UNCHANGED <<state, history, snapshot, unsafeSince, outcome>>

\* The objective returns a value or raises: either way the slot is filled.
EvaluateNext ==
  /\ pc = "evaluating"
  /\ batch.looked < batch.slots
  /\ batch' = [batch EXCEPT !.looked = @ + 1]
  /\ UNCHANGED <<pc, remaining, state, history, snapshot, unsafeSince, outcome,
                 submitted>>

\* space.validate rejects a candidate in the middle of the batch.
CandidateInvalid ==
  pc = "evaluating" /\ batch.looked < batch.slots /\ FailExecution

BuildBatch ==
  /\ pc = "evaluating"
  /\ batch.looked = batch.slots
  /\ batch' = [batch EXCEPT !.cost = batch.slots]
  /\ pc' = "returned"
  /\ UNCHANGED <<remaining, state, history, snapshot, unsafeSince, outcome, submitted>>

\* _DirectScalarRunHistory.append_batch
Appended ==
  [steps |-> history.steps + 1, slots |-> history.slots + batch.slots,
   cost |-> history.cost + batch.cost,
   evaluations |-> history.evaluations + batch.cost]

Tell(safe, exhausted) ==
  LET s == [steps |-> state.steps + 1, slots |-> state.slots + batch.slots,
            pending |-> FALSE, safe |-> safe, exhausted |-> exhausted] IN
  /\ pc = "returned"
  /\ history' = Appended
  /\ state' = s
  /\ remaining' = IF CountCost THEN remaining ELSE remaining - batch.slots
  /\ snapshot' = IF StopAtCheckpoint /\ safe THEN Cut(Appended, s) ELSE snapshot
  /\ unsafeSince' = (StopAtCheckpoint /\ (~safe \/ unsafeSince))
  /\ pc' = IF StopAtCheckpoint /\ safe /\ unsafeSince THEN "exit" ELSE "loop"
  /\ batch' = NoBatch
  /\ UNCHANGED <<outcome, submitted>>

TellFails ==
  /\ pc = "returned"
  /\ history' = Appended
  /\ RaiseRunExecutionFailed(Appended, [state EXCEPT !.pending = TRUE])
  /\ UNCHANGED <<remaining, state, batch, snapshot, unsafeSince, submitted>>

Finish ==
  /\ pc = "exit" \/ (pc = "loop" /\ ~HasWork)
  /\ \/ /\ ~StopAtCheckpoint \/ state.safe
        /\ End("report", [history EXCEPT !.evaluations = Spent], state, NoCut)
     \/ /\ StopAtCheckpoint /\ ~state.safe /\ snapshot.taken
        /\ End("checkpoint_report", snapshot.history, snapshot.state, snapshot)
     \/ /\ StopAtCheckpoint /\ ~state.safe /\ ~snapshot.taken
        /\ End("never_safe", EmptyHistory, FreshState, NoCut)
  /\ UNCHANGED <<remaining, state, batch, history, snapshot, unsafeSince, submitted>>

Next ==
  \/ Ask \/ AskFails
  \/ Charge \/ EvaluateNext \/ CandidateInvalid \/ BuildBatch
  \/ \E safe, exhausted \in BOOLEAN : Tell(safe, exhausted)
  \/ TellFails
  \/ Finish

Spec == Init /\ [][Next]_vars
-----------------------------------------------------------------------------
\* The batch in hand as the step of the general loop: one query for all of it.
GeneralStep ==
  [slots |-> batch.slots, before |-> batch.before, queried |-> batch.charged,
   reserved |-> 0, cost |-> batch.cost, counted |-> batch.cost]

General == INSTANCE StudyRun WITH
  Kernel <- "direct",
  MaxStepCost <- BatchSize,
  pc <- IF pc = "evaluating" THEN "running" ELSE pc,
  step <- GeneralStep,
  evaluated <- submitted

\* The fused loop implements the general one: it asks, charges, reports, rolls
\* back and fails as run() does with the direct kernel.
ImplementsStudyRun == General!Spec
=============================================================================
