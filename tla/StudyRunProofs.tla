--------------------------- MODULE StudyRunProofs ---------------------------
(***************************************************************************)
(* StudyRun's budget, report and checkpoint invariants, for every budget,  *)
(* batch size, kernel and mode of accounting.                              *)
(*                                                                         *)
(* Argument.  What is counted nowhere yet is exactly InFlight, so the      *)
(* ledger balances between two calls of user code (LedgerInv); what the    *)
(* evaluator performed is bounded by what was charged (PerformedInv); the  *)
(* history never counts less than its attempts cost (ReportsValid); and    *)
(* the run method has been told what the history lists (ToldInv), so a cut *)
(* taken when it calls itself safe is aligned.                             *)
(*                                                                         *)
(* Then the attempts themselves, from the worker that makes them to the    *)
(* loaded report: the artifacts a study tells, reports and projects.       *)
(***************************************************************************)
EXTENDS StudyRun, AttemptArtifacts, SumTheorems, SequenceTheorems, TLAPS

\* The step in progress never has charged more than was left when it began,
\* and what is returned counts at least what its attempts cost.
StepInv ==
  /\ pc \in {"asked", "running"} =>
       /\ remaining <= step.before
       /\ CountCost => step.before = remaining + step.queried
       /\ ~CountCost => step.before = remaining
  /\ pc = "asked" => step.queried = 0
  /\ pc \in {"asked", "running", "episodes", "returned"} => step.slots <= step.before
  /\ pc = "returned" => step.cost <= step.counted
  /\ pc = "returned" /\ ~CountCost => step.before = remaining
  /\ pc = "episodes" => CountCost

\* The run method has been told the history, between steps and while one runs.
ToldInv ==
  pc # "done" => ~state.pending /\ state.steps = history.steps
                 /\ state.slots = history.slots

\* What the evaluator performed has been charged.
PerformedInv ==
  CountCost =>
    /\ evaluated + remaining <= MaxEvaluations
    /\ pc = "episodes" => evaluated + remaining + step.reserved <= MaxEvaluations

\* Where the latest cut is, and what the end of a run returns.
CutInv ==
  /\ RollbackIsLatest
  /\ StopAtCheckpoint /\ pc \in {"asked", "running", "episodes", "returned"} =>
       (unsafeSince <=> history.steps > IF snapshot.taken
                                         THEN snapshot.history.steps ELSE 0)
  /\ pc # "done" => outcome = NoOutcome
  /\ pc = "exit" => state.safe
  /\ snapshot.taken => StopAtCheckpoint /\ snapshot.history.steps <= history.steps

IInv == /\ TypeOK /\ StepInv /\ ToldInv /\ PerformedInv /\ CutInv
        /\ LedgerBalanced /\ HardBudget /\ ReportCoversSpending /\ ReportsValid
        /\ CheckpointAligned /\ (CountCost => FailuresCarryReports)
-----------------------------------------------------------------------------
\* What is in flight is a count, and with what is left never exceeds the budget.
LEMMA InFlightNat ==
  ASSUME TypeOK, StepInv PROVE InFlight \in Nat
BY DEF TypeOK, StepInv, InFlight, Steps

\* Nothing charged is more than the call was given.
LEMMA SpentNat ==
  ASSUME TypeOK, StepInv, LedgerBalanced, pc # "done"
  PROVE  remaining <= MaxEvaluations /\ Spent(remaining) \in Nat
BY InFlightNat, RunAssumption DEF TypeOK, LedgerBalanced, Spent, Histories

\* A failure before the step is appended: the partial report covers what was
\* spent, and can be built when costs are counted.
LEMMA FailExecutionStep ==
  ASSUME IInv, pc # "done", FailExecution(remaining)
  PROVE  IInv'
<1>1. remaining <= MaxEvaluations /\ Spent(remaining) \in Nat
  BY SpentNat DEF IInv
<1>2. CountCost => Spent(remaining) >= history.cost
  BY <1>1, InFlightNat, RunAssumption
     DEF IInv, LedgerBalanced, Spent, ReportsValid, ValidReport, TypeOK, Histories
<1>3. PartialReport(remaining) \in Histories
      /\ PartialReport(remaining).evaluations = MaxEvaluations - remaining
      /\ (CountCost => ValidReport(PartialReport(remaining)))
  BY <1>1, <1>2 DEF PartialReport, Histories, IInv, TypeOK, ValidReport, Spent
<1>4. remaining' = remaining /\ pc' = "done"
      /\ UNCHANGED <<state, step, history, snapshot, unsafeSince, evaluated>>
  BY DEF FailExecution, RaiseRunExecutionFailed, End
<1>5. CASE ValidReport(PartialReport(remaining))
           /\ (snapshot.taken => ValidReport(snapshot.history))
  <2>1. outcome' = [kind |-> "failed", report |-> PartialReport(remaining),
                    state |-> state, checkpoint |-> snapshot]
    BY <1>5 DEF FailExecution, RaiseRunExecutionFailed, End
  <2> QED
    BY <1>3, <1>4, <1>5, <2>1
       DEF IInv, TypeOK, StepInv, ToldInv, PerformedInv, CutInv, RollbackIsLatest,
           LedgerBalanced, HardBudget, ReportCoversSpending, ReportsValid,
           CheckpointAligned, FailuresCarryReports, Outcomes, Kinds, Cuts
<1>6. CASE ~(ValidReport(PartialReport(remaining))
             /\ (snapshot.taken => ValidReport(snapshot.history)))
  <2>1. outcome' = [kind |-> "bare_cause", report |-> EmptyHistory,
                    state |-> FreshState, checkpoint |-> NoCut]
    BY <1>6 DEF FailExecution, RaiseRunExecutionFailed, End
  <2>2. ~CountCost
    BY <1>3, <1>6 DEF IInv, ReportsValid
  <2> QED
    BY <1>4, <2>1, <2>2
       DEF IInv, TypeOK, StepInv, ToldInv, PerformedInv, CutInv, RollbackIsLatest,
           LedgerBalanced, HardBudget, ReportCoversSpending, ReportsValid,
           CheckpointAligned, FailuresCarryReports, Outcomes, Kinds, Cuts,
           EmptyHistory, FreshState, NoCut, Histories, States
<1> QED BY <1>5, <1>6

\* Running out of budget rolls back to the latest cut, or raises.
LEMMA ExhaustedStep ==
  ASSUME IInv, pc # "done", EndExhausted, PerformedInv', HardBudget', evaluated' \in Nat,
         UNCHANGED <<remaining, state, step, history, snapshot, unsafeSince>>
  PROVE  IInv'
<1>1. pc' = "done"
  BY DEF EndExhausted, End
<1>a. StepInv' /\ ToldInv' /\ LedgerBalanced' /\ CutInv' /\ ReportsValid'
  BY <1>1 DEF IInv, StepInv, ToldInv, LedgerBalanced, CutInv, RollbackIsLatest,
              ReportsValid, ValidReport
<1>2. CASE StopAtCheckpoint /\ snapshot.taken
  <2>1. outcome' = [kind |-> "checkpoint_report", report |-> snapshot.history,
                    state |-> snapshot.state, checkpoint |-> snapshot]
    BY <1>2 DEF EndExhausted, End
  <2>2. TypeOK'
    BY <1>1, <2>1 DEF IInv, TypeOK, Outcomes, Kinds, Cuts
  <2>3. ReportCoversSpending' /\ FailuresCarryReports'
    BY <2>1 DEF ReportCoversSpending, FailuresCarryReports
  <2>4. CheckpointAligned'
    BY <1>2, <2>1 DEF IInv, CheckpointAligned, Aligned
  <2> QED BY <1>a, <2>2, <2>3, <2>4 DEF IInv
<1>3. CASE ~(StopAtCheckpoint /\ snapshot.taken)
  <2>1. outcome' = [kind |-> "budget_exhausted", report |-> EmptyHistory,
                    state |-> FreshState, checkpoint |-> NoCut]
    BY <1>3 DEF EndExhausted, End
  <2>2. TypeOK'
    BY <1>1, <2>1 DEF IInv, TypeOK, Outcomes, Kinds, Cuts, NoCut, EmptyHistory,
                      FreshState, Histories, States
  <2>3. ReportCoversSpending' /\ FailuresCarryReports'
    BY <1>3, <2>1 DEF IInv, CutInv, ReportCoversSpending, FailuresCarryReports
  <2>4. CheckpointAligned'
    BY <2>1 DEF IInv, CheckpointAligned, Aligned, NoCut
  <2> QED BY <1>a, <2>2, <2>3, <2>4 DEF IInv
<1> QED BY <1>2, <1>3

\* Nothing is performed when the budget refuses a query or a late charge.
LEMMA FailBudgetStep ==
  ASSUME IInv, pc # "done", FailBudget
  PROVE  IInv'
<1>1. EndExhausted
      /\ UNCHANGED <<remaining, state, step, history, snapshot, unsafeSince, evaluated>>
  BY DEF FailBudget
<1>2. pc' = "done"
  BY <1>1 DEF EndExhausted, End
<1>3. PerformedInv' /\ HardBudget' /\ evaluated' \in Nat
  BY <1>1, <1>2 DEF IInv, TypeOK, PerformedInv, HardBudget
<1> QED BY <1>1, <1>3, ExhaustedStep

\* Init establishes the invariant.
LEMMA InitStep == Init => IInv
<1> SUFFICES ASSUME NEW safe \in BOOLEAN, NEW exhausted \in BOOLEAN,
                    pc = "loop", remaining = MaxEvaluations,
                    state = [FreshState EXCEPT !.safe = safe, !.exhausted = exhausted],
                    step = NoStep, history = EmptyHistory,
                    snapshot = IF StopAtCheckpoint /\ safe
                               THEN Cut(EmptyHistory, state) ELSE NoCut,
                    unsafeSince = FALSE, outcome = NoOutcome, evaluated = 0
             PROVE  IInv
  BY DEF Init
<1>1. state \in States /\ state.steps = 0 /\ state.slots = 0 /\ ~state.pending
      /\ state.safe = safe
  BY DEF FreshState, States
<1>2. snapshot \in Cuts
      /\ (snapshot.taken => StopAtCheckpoint /\ safe /\ snapshot.state = state)
      /\ snapshot.history = EmptyHistory
  BY <1>1 DEF Cut, NoCut, Cuts, EmptyHistory, Histories, FreshState, States
<1>a. TypeOK
  BY <1>1, <1>2, RunAssumption
     DEF IInv, TypeOK, Outcomes, Kinds, Cuts, EmptyHistory, FreshState, NoCut,
         Histories, States, NoOutcome, NoStep, Steps, ValidReport, Aligned
<1>b. StepInv
  BY <1>1, <1>2, RunAssumption
     DEF IInv, TypeOK, StepInv, Outcomes, Kinds, Cuts, EmptyHistory, FreshState,
         NoCut, Histories, States, NoOutcome, NoStep, Steps, ValidReport, Aligned
<1>c. ToldInv
  BY <1>1, <1>2, RunAssumption
     DEF IInv, TypeOK, ToldInv, Outcomes, Kinds, Cuts, EmptyHistory, FreshState,
         NoCut, Histories, States, NoOutcome, NoStep, Steps, ValidReport, Aligned
<1>d. PerformedInv /\ HardBudget
  BY <1>1, <1>2, RunAssumption
     DEF IInv, TypeOK, StepInv, PerformedInv, HardBudget, Outcomes, Kinds, Cuts,
         EmptyHistory, FreshState, NoCut, Histories, States, NoOutcome, NoStep,
         Steps, ValidReport, Aligned
<1>e. LedgerBalanced
  BY <1>1, <1>2, RunAssumption
     DEF IInv, TypeOK, StepInv, LedgerBalanced, InFlight, Outcomes, Kinds, Cuts,
         EmptyHistory, FreshState, NoCut, Histories, States, NoOutcome, NoStep,
         Steps, ValidReport, Aligned
<1>f. CutInv
  BY <1>1, <1>2, RunAssumption
     DEF IInv, TypeOK, CutInv, RollbackIsLatest, Outcomes, Kinds, Cuts, EmptyHistory,
         FreshState, NoCut, Histories, States, NoOutcome, NoStep, Steps, ValidReport,
         Aligned
<1>g. ReportCoversSpending /\ FailuresCarryReports
  BY DEF ReportCoversSpending, FailuresCarryReports, NoOutcome
<1>h. ReportsValid
  BY <1>2 DEF ReportsValid, ValidReport, EmptyHistory
<1>i. CheckpointAligned
  <2>1. snapshot.taken => Aligned(snapshot.history, snapshot.state)
    <3>1. EmptyHistory.steps = 0 /\ EmptyHistory.slots = 0
      BY DEF EmptyHistory
    <3>2. ASSUME snapshot.taken PROVE state.safe
      BY <1>1, <1>2, <3>2, Zenon
    <3> QED BY <1>1, <1>2, <3>1, <3>2, Zenon DEF Aligned
  <2>2. outcome.kind = "none" /\ ~outcome.checkpoint.taken
    BY DEF NoOutcome, NoCut
  <2> QED BY <2>1, <2>2 DEF CheckpointAligned
<1> QED BY <1>a, <1>b, <1>c, <1>d, <1>e, <1>f, <1>g, <1>h, <1>i DEF IInv

\* A step is asked for: nothing is charged yet.
LEMMA AskStep == ASSUME IInv, Ask PROVE IInv'
<1>1. PICK n \in 1..Smaller(BatchSize, remaining) :
        step' = [NoStep EXCEPT !.slots = n, !.before = remaining]
  BY DEF Ask
<1>2. n \in Nat /\ n <= remaining
  BY <1>1, RunAssumption DEF Smaller, IInv, TypeOK
<1>3. step' \in Steps /\ step'.slots = n /\ step'.before = remaining
      /\ step'.queried = 0
  BY <1>1, <1>2 DEF NoStep, Steps, IInv, TypeOK
<1> QED
  BY <1>2, <1>3, RunAssumption DEF Ask, IInv, TypeOK, StepInv, ToldInv, PerformedInv,
                                   CutInv, RollbackIsLatest,
           LedgerBalanced, InFlight, HardBudget, ReportCoversSpending, ReportsValid,
           CheckpointAligned, FailuresCarryReports

\* The executor charges what it submits.
LEMMA QueryStep ==
  ASSUME IInv, NEW count \in 1..MaxStepCost, KernelQuery(count) PROVE IInv'
<1>1. step' = [step EXCEPT !.queried = @ + count] /\ count \in Nat /\ step \in Steps
  BY RunAssumption DEF KernelQuery, IInv, TypeOK
<1>2. step' \in Steps /\ step'.queried = step.queried + count
      /\ step'.before = step.before /\ step'.slots = step.slots
  BY <1>1 DEF Steps
<1>3. CASE CountCost
  <2>1. remaining' = remaining - count /\ remaining' \in Nat
    BY <1>3, <1>1 DEF KernelQuery, IInv, TypeOK
  <2>a. TypeOK'
    BY <1>1, <1>2, <1>3, <2>1, RunAssumption
       DEF IInv, TypeOK, KernelQuery, Steps, Histories
  <2>b. StepInv'
    BY <1>1, <1>2, <1>3, <2>1, RunAssumption
       DEF IInv, TypeOK, StepInv, KernelQuery, Steps, Histories
  <2>c. ToldInv'
    BY <1>1, <1>2, <1>3, <2>1, RunAssumption
       DEF IInv, TypeOK, ToldInv, KernelQuery, Steps, Histories
  <2>d. PerformedInv' /\ HardBudget'
    BY <1>1, <1>2, <1>3, <2>1, RunAssumption
       DEF IInv, TypeOK, StepInv, PerformedInv, HardBudget, KernelQuery, Steps,
           Histories
  <2>e. LedgerBalanced'
    BY <1>1, <1>2, <1>3, <2>1, RunAssumption
       DEF IInv, TypeOK, StepInv, LedgerBalanced, InFlight, KernelQuery, Steps,
           Histories
  <2>f. CutInv'
    BY <1>1, <1>2, <1>3, <2>1, RunAssumption
       DEF IInv, TypeOK, CutInv, RollbackIsLatest, KernelQuery, Steps, Histories
  <2>g. ReportCoversSpending' /\ (CountCost => FailuresCarryReports')
    BY <1>1, <1>2, <1>3, <2>1, RunAssumption
       DEF IInv, CutInv, ReportCoversSpending, FailuresCarryReports, NoOutcome,
           KernelQuery
  <2>h. ReportsValid'
    BY <1>1, <1>2, <1>3, <2>1, RunAssumption
       DEF IInv, ReportsValid, ValidReport, KernelQuery
  <2>i. CheckpointAligned'
    BY <1>1, <1>2, <1>3, <2>1, RunAssumption
       DEF IInv, CheckpointAligned, Aligned, KernelQuery
  <2> QED BY <2>a, <2>b, <2>c, <2>d, <2>e, <2>f, <2>g, <2>h, <2>i DEF IInv
<1>4. CASE ~CountCost
  <2>1. remaining' = remaining
    BY <1>4 DEF KernelQuery
  <2> QED
    BY <1>1, <1>2, <1>4, <2>1, RunAssumption DEF KernelQuery, IInv, TypeOK, StepInv,
                                                 ToldInv, PerformedInv, CutInv,
                                                 RollbackIsLatest,
           LedgerBalanced, InFlight, HardBudget, ReportCoversSpending, ReportsValid,
           CheckpointAligned, FailuresCarryReports, Aligned, ValidReport
<1> QED BY <1>3, <1>4

\* What the attempts report beyond what was charged is charged, or refused.
LEMMA ReturnStep ==
  ASSUME IInv, NEW reported \in 0..MaxStepCost, KernelReturns(reported) PROVE IInv'
<1>1. CASE Unmetered(reported) > remaining
  BY <1>1, FailBudgetStep DEF KernelReturns
<1>2. CASE ~(Unmetered(reported) > remaining)
  <2>1. remaining' = remaining - Unmetered(reported)
        /\ step' = [step EXCEPT !.cost = reported, !.counted = Counted(reported)]
        /\ pc' = "returned"
        /\ UNCHANGED <<state, history, snapshot, unsafeSince, outcome, evaluated>>
    BY <1>2 DEF KernelReturns
  <2>2. /\ reported \in Nat /\ remaining \in Nat /\ step \in Steps
        /\ pc \in {"asked", "running"} /\ remaining <= step.before
    BY RunAssumption DEF KernelReturns, IInv, TypeOK, StepInv
  <2>3. /\ Unmetered(reported) \in Nat /\ Unmetered(reported) <= remaining
        /\ Counted(reported) \in Nat /\ reported <= Counted(reported)
        /\ CountCost => Counted(reported) = step.before - remaining + Unmetered(reported)
        /\ ~CountCost => Unmetered(reported) = 0
    BY <2>2, <1>2 DEF Unmetered, Counted, Steps
  <2>4. /\ step' \in Steps /\ step'.counted = Counted(reported)
        /\ step'.cost = reported /\ step'.slots = step.slots
        /\ step'.before = step.before
    BY <2>1, <2>2, <2>3 DEF Steps
  <2>a. TypeOK'
    BY <2>1, <2>2, <2>3, <2>4, RunAssumption
       DEF IInv, TypeOK, Steps, Histories
  <2>b. StepInv'
    BY <2>1, <2>2, <2>3, <2>4, RunAssumption
       DEF IInv, TypeOK, StepInv, Steps, Histories
  <2>c. ToldInv'
    BY <2>1, <2>2, <2>3, <2>4, RunAssumption
       DEF IInv, TypeOK, ToldInv, Steps, Histories
  <2>d. PerformedInv' /\ HardBudget'
    BY <2>1, <2>2, <2>3, <2>4, RunAssumption
       DEF IInv, TypeOK, StepInv, PerformedInv, HardBudget, Steps, Histories
  <2>e. LedgerBalanced'
    BY <2>1, <2>2, <2>3, <2>4, RunAssumption
       DEF IInv, TypeOK, StepInv, LedgerBalanced, InFlight, Steps, Histories
  <2>f. CutInv'
    BY <2>1, <2>2, <2>3, <2>4, RunAssumption
       DEF IInv, TypeOK, CutInv, RollbackIsLatest, Steps, Histories
  <2>g. ReportCoversSpending' /\ (CountCost => FailuresCarryReports')
    BY <2>1, <2>2, <2>3, <2>4, RunAssumption
       DEF IInv, CutInv, ReportCoversSpending, FailuresCarryReports, NoOutcome
  <2>h. ReportsValid'
    BY <2>1, <2>2, <2>3, <2>4, RunAssumption
       DEF IInv, ReportsValid, ValidReport
  <2>i. CheckpointAligned'
    BY <2>1, <2>2, <2>3, <2>4, RunAssumption
       DEF IInv, CheckpointAligned, Aligned
  <2> QED BY <2>a, <2>b, <2>c, <2>d, <2>e, <2>f, <2>g, <2>h, <2>i DEF IInv
<1> QED BY <1>1, <1>2

\* A reservation moves its limits from the ledger into flight.
LEMMA ReserveStep == ASSUME IInv, ReserveEpisodes PROVE IInv'
<1>1. PICK limit \in step.slots..Smaller(remaining, MaxStepCost) :
        step' = [step EXCEPT !.reserved = limit] /\ remaining' = remaining - limit
  BY DEF ReserveEpisodes
<1>2. limit \in Nat /\ limit <= remaining
  BY <1>1, RunAssumption DEF Smaller, IInv, TypeOK, Steps
<1>3. step' \in Steps /\ step'.reserved = limit /\ remaining' \in Nat
  BY <1>1, <1>2 DEF IInv, TypeOK, Steps
<1>a. TypeOK'
  BY <1>1, <1>2, <1>3, RunAssumption
     DEF IInv, TypeOK, ReserveEpisodes, Steps, Histories
<1>b. StepInv'
  BY <1>1, <1>2, <1>3, RunAssumption
     DEF IInv, TypeOK, StepInv, ReserveEpisodes, Steps, Histories
<1>c. ToldInv'
  BY <1>1, <1>2, <1>3, RunAssumption
     DEF IInv, TypeOK, ToldInv, ReserveEpisodes, Steps, Histories
<1>d. PerformedInv' /\ HardBudget'
  BY <1>1, <1>2, <1>3, RunAssumption
     DEF IInv, TypeOK, StepInv, PerformedInv, HardBudget, ReserveEpisodes, Steps,
         Histories
<1>e. LedgerBalanced'
  BY <1>1, <1>2, <1>3, RunAssumption
     DEF IInv, TypeOK, StepInv, LedgerBalanced, InFlight, ReserveEpisodes, Steps,
         Histories
<1>f. CutInv'
  BY <1>1, <1>2, <1>3, RunAssumption
     DEF IInv, TypeOK, CutInv, RollbackIsLatest, ReserveEpisodes, Steps, Histories
<1>g. ReportCoversSpending' /\ (CountCost => FailuresCarryReports')
  BY <1>1, <1>2, <1>3, RunAssumption
     DEF IInv, CutInv, ReportCoversSpending, FailuresCarryReports, NoOutcome,
         ReserveEpisodes
<1>h. ReportsValid'
  BY <1>1, <1>2, <1>3, RunAssumption
     DEF IInv, ReportsValid, ValidReport, ReserveEpisodes
<1>i. CheckpointAligned'
  BY <1>1, <1>2, <1>3, RunAssumption
     DEF IInv, CheckpointAligned, Aligned, ReserveEpisodes
<1> QED BY <1>a, <1>b, <1>c, <1>d, <1>e, <1>f, <1>g, <1>h, <1>i DEF IInv

\* Settling refunds what was not used.
LEMMA SettleStep ==
  ASSUME IInv, NEW used \in 1..MaxStepCost, EpisodesSettle(used) PROVE IInv'
<1>1. used \in Nat /\ used <= step.reserved /\ step \in Steps /\ remaining \in Nat
  BY DEF EpisodesSettle, IInv, TypeOK, Steps
<1>2. step' \in Steps /\ step'.cost = used /\ step'.counted = used
      /\ step'.slots = step.slots /\ step'.before = step.before
  BY <1>1 DEF EpisodesSettle, Steps
<1>3. remaining' = remaining + step.reserved - used /\ remaining' \in Nat
      /\ step.slots \in Nat
  BY <1>1 DEF EpisodesSettle, Steps
<1>a. TypeOK'
  BY <1>1, <1>2, <1>3, RunAssumption
     DEF IInv, TypeOK, EpisodesSettle, Steps, Histories
<1>b. StepInv'
  BY <1>1, <1>2, <1>3, RunAssumption
     DEF IInv, TypeOK, StepInv, EpisodesSettle, Steps, Histories
<1>c. ToldInv'
  BY <1>1, <1>2, <1>3, RunAssumption
     DEF IInv, TypeOK, ToldInv, EpisodesSettle, Steps, Histories
<1>d. PerformedInv' /\ HardBudget'
  BY <1>1, <1>2, <1>3, RunAssumption
     DEF IInv, TypeOK, StepInv, PerformedInv, HardBudget, EpisodesSettle, Steps,
         Histories
<1>e. LedgerBalanced'
  BY <1>1, <1>2, <1>3, RunAssumption
     DEF IInv, TypeOK, StepInv, LedgerBalanced, InFlight, EpisodesSettle, Steps,
         Histories
<1>f. CutInv'
  BY <1>1, <1>2, <1>3, RunAssumption
     DEF IInv, TypeOK, CutInv, RollbackIsLatest, EpisodesSettle, Steps, Histories
<1>g. ReportCoversSpending' /\ (CountCost => FailuresCarryReports')
  BY <1>1, <1>2, <1>3, RunAssumption
     DEF IInv, CutInv, ReportCoversSpending, FailuresCarryReports, NoOutcome,
         EpisodesSettle
<1>h. ReportsValid'
  BY <1>1, <1>2, <1>3, RunAssumption
     DEF IInv, ReportsValid, ValidReport, EpisodesSettle
<1>i. CheckpointAligned'
  BY <1>1, <1>2, <1>3, RunAssumption
     DEF IInv, CheckpointAligned, Aligned, EpisodesSettle
<1> QED BY <1>a, <1>b, <1>c, <1>d, <1>e, <1>f, <1>g, <1>h, <1>i DEF IInv

\* What a forfeited batch performed was reserved for it.
LEMMA ForfeitedStep ==
  ASSUME IInv, EpisodesForfeited, pc' = "done"
  PROVE  /\ pc = "episodes" /\ CountCost /\ evaluated' \in Nat
         /\ UNCHANGED <<remaining, state, step, history, snapshot, unsafeSince>>
         /\ PerformedInv' /\ HardBudget'
<1>1. /\ pc = "episodes" /\ CountCost /\ step.reserved \in Nat
      /\ evaluated' = evaluated + step.reserved
      /\ UNCHANGED <<remaining, state, step, history, snapshot, unsafeSince>>
  BY DEF EpisodesForfeited, IInv, StepInv, TypeOK, Steps
<1>2. evaluated' \in Nat
  BY <1>1 DEF IInv, TypeOK
<1>3. PerformedInv' /\ HardBudget'
  BY <1>1, RunAssumption DEF IInv, TypeOK, PerformedInv, HardBudget
<1> QED BY <1>1, <1>2, <1>3

\* A failed episode batch forfeits its reservation: what was in flight is spent.
LEMMA EpisodesFailStep == ASSUME IInv, EpisodesFail PROVE IInv'
<1>0. pc' = "done" /\ EpisodesForfeited
  BY DEF EpisodesFail, RaiseRunExecutionFailed, End
<1>1. pc = "episodes" /\ pc # "done" /\ CountCost /\ step.reserved \in Nat
  BY <1>0, ForfeitedStep DEF IInv, TypeOK, Steps
<1>2. remaining <= MaxEvaluations /\ Spent(remaining) \in Nat
  BY <1>1, SpentNat DEF IInv
<1>3. Spent(remaining) >= history.cost
  BY <1>1, <1>2, RunAssumption
     DEF IInv, LedgerBalanced, InFlight, Spent, ReportsValid, ValidReport, TypeOK,
         Histories
<1>4. PartialReport(remaining) \in Histories
      /\ PartialReport(remaining).evaluations = MaxEvaluations - remaining
      /\ ValidReport(PartialReport(remaining))
  BY <1>2, <1>3 DEF PartialReport, Histories, IInv, TypeOK, ValidReport, Spent
<1>5. /\ pc' = "done" /\ evaluated' \in Nat
      /\ UNCHANGED <<remaining, state, step, history, snapshot, unsafeSince>>
      /\ outcome' = [kind |-> "failed", report |-> PartialReport(remaining),
                     state |-> state, checkpoint |-> snapshot]
  BY <1>0, <1>4, ForfeitedStep DEF EpisodesFail, RaiseRunExecutionFailed, End, IInv, ReportsValid
<1>a. TypeOK'
  BY <1>1, <1>4, <1>5 DEF IInv, TypeOK, Outcomes, Kinds, Cuts
<1>b. StepInv' /\ ToldInv' /\ LedgerBalanced' /\ CutInv' /\ ReportsValid'
  BY <1>5 DEF IInv, StepInv, ToldInv, LedgerBalanced, CutInv, RollbackIsLatest,
              ReportsValid, ValidReport
<1>c. PerformedInv' /\ HardBudget'
  BY <1>0, ForfeitedStep
<1>d. ReportCoversSpending' /\ FailuresCarryReports'
  BY <1>4, <1>5 DEF ReportCoversSpending, FailuresCarryReports
<1>e. CheckpointAligned'
  BY <1>5 DEF IInv, CheckpointAligned, Aligned
<1> QED BY <1>a, <1>b, <1>c, <1>d, <1>e DEF IInv

\* So does one whose runner refused a call, though the run takes it for the end
\* of its budget.
LEMMA EpisodesRefusedStep == ASSUME IInv, EpisodesRefused PROVE IInv'
<1>1. pc' = "done" /\ EpisodesForfeited /\ EndExhausted
  BY DEF EpisodesRefused, EndExhausted, End
<1>2. pc # "done"
  BY <1>1 DEF EpisodesForfeited
<1> QED BY <1>1, <1>2, ForfeitedStep, ExhaustedStep

\* Appending a returned step keeps history and ledger together.
LEMMA AppendedStep ==
  ASSUME IInv, pc = "returned"
  PROVE  /\ Appended \in Histories
         /\ ValidReport(Appended)
         /\ Appended.steps = history.steps + 1
         /\ Appended.slots = history.slots + step.slots
         /\ CountCost => Appended.evaluations + remaining = MaxEvaluations
BY RunAssumption
   DEF IInv, TypeOK, StepInv, LedgerBalanced, InFlight, ReportsValid, ValidReport,
       Appended, Histories, Steps

\* The run method raises when told: the report has the step, the state has not.
LEMMA TellFailsStep == ASSUME IInv, TellFails PROVE IInv'
<1>1. /\ pc = "returned" /\ pc' = "done" /\ history' = Appended
      /\ UNCHANGED <<remaining, state, step, snapshot, unsafeSince, evaluated>>
  BY DEF TellFails, RaiseRunExecutionFailed, End
<1>2. /\ Appended \in Histories /\ ValidReport(Appended)
      /\ Appended.steps = history.steps + 1
      /\ CountCost => Appended.evaluations + remaining = MaxEvaluations
  BY <1>1, AppendedStep
<1>3. outcome' = [kind |-> "failed", report |-> Appended,
                  state |-> [state EXCEPT !.pending = TRUE], checkpoint |-> snapshot]
  BY <1>2 DEF TellFails, RaiseRunExecutionFailed, End, IInv, ReportsValid
<1>4. [state EXCEPT !.pending = TRUE] \in States
  BY DEF IInv, TypeOK, States
<1>a. TypeOK'
  BY <1>1, <1>2, <1>3, <1>4 DEF IInv, TypeOK, Outcomes, Kinds, Cuts
<1>b. StepInv' /\ ToldInv' /\ LedgerBalanced' /\ PerformedInv' /\ HardBudget'
  BY <1>1 DEF IInv, StepInv, ToldInv, LedgerBalanced, PerformedInv, HardBudget
<1>c. CutInv'
  BY <1>1, <1>2 DEF IInv, CutInv, RollbackIsLatest, TypeOK, Cuts, Histories
<1>d. ReportCoversSpending' /\ FailuresCarryReports'
  BY <1>1, <1>2, <1>3, RunAssumption
     DEF ReportCoversSpending, FailuresCarryReports, Histories, IInv, TypeOK
<1>e. ReportsValid'
  BY <1>1, <1>2 DEF IInv, ReportsValid, ValidReport
<1>f. CheckpointAligned'
  BY <1>1, <1>3 DEF IInv, CheckpointAligned, Aligned
<1> QED BY <1>a, <1>b, <1>c, <1>d, <1>e, <1>f DEF IInv

\* A cut taken when the state told is safe lists exactly what it was told.
LEMMA TellStep ==
  ASSUME IInv, NEW safe \in BOOLEAN, NEW exhausted \in BOOLEAN, Tell(safe, exhausted)
  PROVE  IInv'
<1> DEFINE s == Told(safe, exhausted)
<1>1. /\ pc = "returned" /\ pc' \in {"loop", "exit"}
      /\ pc' = "exit" => safe /\ unsafeSince
      /\ pc' = "loop" /\ StopAtCheckpoint => ~safe \/ ~unsafeSince
      /\ history' = Appended /\ state' = s /\ step' = NoStep
      /\ UNCHANGED <<outcome, evaluated>>
  BY Zenon DEF Tell
<1>2. /\ Appended \in Histories /\ ValidReport(Appended)
      /\ Appended.steps = history.steps + 1
      /\ Appended.slots = history.slots + step.slots
      /\ CountCost => Appended.evaluations + remaining = MaxEvaluations
  BY <1>1, AppendedStep
<1>3. /\ s \in States /\ s.safe = safe /\ ~s.pending
      /\ s.steps = state.steps + 1 /\ s.slots = state.slots + step.slots
  BY DEF IInv, TypeOK, States, Steps, Told
<1>4. s.steps = Appended.steps /\ s.slots = Appended.slots
  BY <1>1, <1>2, <1>3 DEF IInv, ToldInv
<1>5. remaining' = RemainingAfterTell /\ remaining' \in Nat
      /\ (CountCost => remaining' = remaining)
      /\ (~CountCost => remaining' = remaining - step.slots)
  BY <1>1 DEF Tell, RemainingAfterTell, IInv, TypeOK, StepInv, Steps
<1>6. /\ StopAtCheckpoint /\ safe => snapshot' = Cut(Appended, s)
      /\ ~(StopAtCheckpoint /\ safe) => snapshot' = snapshot
  BY <1>3 DEF Tell, Checkpointed
<1>7. /\ Cut(Appended, s) \in Cuts /\ Cut(Appended, s).taken
      /\ Cut(Appended, s).history = Appended /\ Cut(Appended, s).state = s
  <2> HIDE DEF s
  <2> QED BY <1>2, <1>3 DEF Cuts, Cut
<1>8. /\ snapshot' \in Cuts
      /\ StopAtCheckpoint /\ safe =>
           snapshot'.taken /\ snapshot'.history = Appended /\ snapshot'.state = s
  <2> HIDE DEF s
  <2> QED BY <1>6, <1>7, Zenon DEF IInv, TypeOK
<1>9. /\ ~StopAtCheckpoint => unsafeSince' = FALSE
      /\ StopAtCheckpoint /\ safe => unsafeSince' = unsafeSince
      /\ StopAtCheckpoint /\ ~safe => unsafeSince' = TRUE
      /\ unsafeSince' \in BOOLEAN
  BY DEF Tell, IInv, TypeOK
<1>a. TypeOK'
  BY <1>1, <1>2, <1>3, <1>5, <1>8, <1>9 DEF IInv, TypeOK, NoStep, Steps
<1>b. StepInv'
  BY <1>1 DEF StepInv
<1>c. ToldInv'
  BY <1>1, <1>3, <1>4 DEF ToldInv
<1>d. PerformedInv' /\ HardBudget'
  BY <1>1, <1>5 DEF IInv, PerformedInv, HardBudget
<1>e. LedgerBalanced'
  BY <1>1, <1>2, <1>5, RunAssumption
     DEF IInv, TypeOK, StepInv, LedgerBalanced, InFlight, Histories, Steps
<1>f. CutInv'
  <2>1. outcome' = NoOutcome /\ (pc' = "exit" => state'.safe)
    BY <1>1, <1>3, Zenon DEF IInv, CutInv
  <2>2. snapshot'.taken => StopAtCheckpoint /\ snapshot'.history.steps <= history'.steps
    BY <1>1, <1>2, <1>6, <1>8 DEF IInv, CutInv, TypeOK, Cuts, Histories
  <2>3. RollbackIsLatest'
    BY <1>1, <1>2, <1>6, <1>8, <1>9
       DEF IInv, CutInv, RollbackIsLatest, TypeOK, Cuts, Histories
  <2> QED BY <1>1, <2>1, <2>2, <2>3 DEF CutInv
<1>g. ReportCoversSpending' /\ FailuresCarryReports'
  BY <1>1 DEF IInv, CutInv, ReportCoversSpending, FailuresCarryReports, NoOutcome
<1>h. ReportsValid'
  BY <1>1, <1>2, <1>6, <1>8 DEF IInv, ReportsValid, ValidReport
<1>i. CheckpointAligned'
  <2>1. snapshot'.taken => Aligned(snapshot'.history, snapshot'.state)
    <3>1. CASE StopAtCheckpoint /\ safe
      BY <3>1, <1>3, <1>4, <1>8, Zenon DEF Aligned
    <3>2. CASE ~(StopAtCheckpoint /\ safe)
      BY <3>2, <1>6 DEF IInv, CheckpointAligned
    <3> QED BY <3>1, <3>2
  <2>2. outcome'.kind = "none" /\ ~outcome'.checkpoint.taken
    BY <1>1 DEF IInv, CutInv, NoOutcome, NoCut
  <2> QED BY <2>1, <2>2 DEF CheckpointAligned, Aligned
<1> QED BY <1>a, <1>b, <1>c, <1>d, <1>e, <1>f, <1>g, <1>h, <1>i DEF IInv

\* Leaving the loop reports the whole history, or the latest cut of it.
LEMMA FinishStep == ASSUME IInv, Finish PROVE IInv'
<1>1. /\ pc \in {"loop", "exit"} /\ pc' = "done"
      /\ UNCHANGED <<remaining, state, step, history, snapshot, unsafeSince, evaluated>>
  BY DEF Finish, End
<1>2. (CountCost => history.evaluations = MaxEvaluations - remaining)
      /\ state.steps = history.steps /\ state.slots = history.slots /\ ~state.pending
  BY <1>1, RunAssumption
     DEF IInv, LedgerBalanced, InFlight, ToldInv, TypeOK, Histories
<1>a. StepInv' /\ ToldInv' /\ LedgerBalanced' /\ PerformedInv' /\ HardBudget'
      /\ CutInv' /\ ReportsValid'
  BY <1>1 DEF IInv, StepInv, ToldInv, LedgerBalanced, PerformedInv, HardBudget,
              CutInv, RollbackIsLatest, ReportsValid, ValidReport
<1>3. CASE ~StopAtCheckpoint \/ state.safe
  <2>1. outcome' = [kind |-> "report", report |-> history, state |-> state,
                    checkpoint |-> NoCut]
    BY <1>3 DEF Finish, End
  <2>2. TypeOK'
    BY <1>1, <2>1 DEF IInv, TypeOK, Outcomes, Kinds, Cuts, NoCut, EmptyHistory,
                      FreshState, Histories, States
  <2>3. ReportCoversSpending' /\ FailuresCarryReports'
    BY <1>1, <1>2, <2>1 DEF ReportCoversSpending, FailuresCarryReports
  <2>4. CheckpointAligned'
    BY <1>1, <1>2, <1>3, <2>1 DEF IInv, CheckpointAligned, Aligned, NoCut
  <2> QED BY <1>a, <2>2, <2>3, <2>4 DEF IInv
<1>4. CASE StopAtCheckpoint /\ ~state.safe /\ snapshot.taken
  <2>1. outcome' = [kind |-> "checkpoint_report", report |-> snapshot.history,
                    state |-> snapshot.state, checkpoint |-> snapshot]
    BY <1>4 DEF Finish, End
  <2>2. TypeOK'
    BY <1>1, <2>1 DEF IInv, TypeOK, Outcomes, Kinds, Cuts
  <2>3. ReportCoversSpending' /\ FailuresCarryReports'
    BY <2>1 DEF ReportCoversSpending, FailuresCarryReports
  <2>4. CheckpointAligned'
    BY <1>1, <1>4, <2>1 DEF IInv, CheckpointAligned, Aligned
  <2> QED BY <1>a, <2>2, <2>3, <2>4 DEF IInv
<1>5. CASE StopAtCheckpoint /\ ~state.safe /\ ~snapshot.taken
  <2>1. outcome' = [kind |-> "never_safe", report |-> EmptyHistory,
                    state |-> FreshState, checkpoint |-> NoCut]
    BY <1>5 DEF Finish, End
  <2>2. TypeOK'
    BY <1>1, <2>1 DEF IInv, TypeOK, Outcomes, Kinds, Cuts, NoCut, EmptyHistory,
                      FreshState, Histories, States
  <2>3. ReportCoversSpending' /\ FailuresCarryReports'
    BY <1>1, <1>5, <2>1 DEF ReportCoversSpending, FailuresCarryReports
  <2>4. CheckpointAligned'
    BY <1>1, <2>1 DEF IInv, CheckpointAligned, Aligned, NoCut
  <2> QED BY <1>a, <2>2, <2>3, <2>4 DEF IInv
<1> QED BY <1>3, <1>4, <1>5

\* Every step keeps the invariant.
LEMMA NextStep == IInv /\ [Next]_vars => IInv'
<1> SUFFICES ASSUME IInv, [Next]_vars PROVE IInv'
  OBVIOUS
<1>1. CASE Ask
  BY <1>1, AskStep
<1>2. CASE AskFails
  BY <1>2, FailExecutionStep DEF AskFails
<1>3. ASSUME NEW count \in 1..MaxStepCost, KernelQuery(count) PROVE IInv'
  BY <1>3, QueryStep
<1>4. CASE KernelQueryRefused
  BY <1>4, FailBudgetStep DEF KernelQueryRefused
<1>5. CASE KernelFails
  BY <1>5, FailExecutionStep DEF KernelFails
<1>6. ASSUME NEW reported \in 0..MaxStepCost, KernelReturns(reported) PROVE IInv'
  BY <1>6, ReturnStep
<1>7. CASE ReserveEpisodes
  BY <1>7, ReserveStep
<1>8. ASSUME NEW used \in 1..MaxStepCost, EpisodesSettle(used) PROVE IInv'
  BY <1>8, SettleStep
<1>9. CASE EpisodesFail \/ EpisodesRefused
  BY <1>9, EpisodesFailStep, EpisodesRefusedStep
<1>10. CASE MaterializeFails
  BY <1>10, FailExecutionStep DEF MaterializeFails
<1>11. ASSUME NEW safe \in BOOLEAN, NEW exhausted \in BOOLEAN, Tell(safe, exhausted)
       PROVE  IInv'
  BY <1>11, TellStep
<1>12. CASE TellFails
  BY <1>12, TellFailsStep
<1>13. CASE Finish
  BY <1>13, FinishStep
<1>14. CASE UNCHANGED vars
  BY <1>14 DEF vars, IInv, TypeOK, StepInv, ToldInv, PerformedInv, CutInv,
     RollbackIsLatest, LedgerBalanced, InFlight, HardBudget, ReportCoversSpending,
     ReportsValid, ValidReport, CheckpointAligned, Aligned, FailuresCarryReports
<1> QED
  BY <1>1, <1>2, <1>3, <1>4, <1>5, <1>6, <1>7, <1>8, <1>9, <1>10, <1>11, <1>12,
     <1>13, <1>14, Zenon DEF Next

\* The invariant holds in every state of every run.
THEOREM Invariance == Spec => []IInv
BY InitStep, NextStep, PTL DEF Spec

\* No evaluation of the budget is lost or invented by reservations, refunds,
\* late charges and failures: what is not left is counted or in flight.
THEOREM Ledger == Spec => []LedgerBalanced
<1>1. IInv => LedgerBalanced BY DEF IInv
<1> QED BY <1>1, Invariance, PTL

\* The evaluator never performs more evaluations than the hard budget.
THEOREM Budget == Spec => []HardBudget
<1>1. IInv => HardBudget BY DEF IInv
<1> QED BY <1>1, Invariance, PTL

\* A terminal or partial report covers everything the call spent.
THEOREM Reporting == Spec => []ReportCoversSpending
<1>1. IInv => ReportCoversSpending BY DEF IInv
<1> QED BY <1>1, Invariance, PTL

\* Every checkpoint the run hands out pairs a safe state with its own report.
THEOREM Alignment == Spec => []CheckpointAligned
<1>1. IInv => CheckpointAligned BY DEF IInv
<1> QED BY <1>1, Invariance, PTL

\* A rollback loses no step it could have kept.
THEOREM Rollback == Spec => []RollbackIsLatest
<1>1. IInv => RollbackIsLatest BY DEF IInv, CutInv
<1> QED BY <1>1, Invariance, PTL

\* With evaluation costs counted, a run that fails in user code ends with its
\* reports, and one that was refused an evaluation, by the budget or by the
\* runner of an episode, returns to the latest cut once there is one.
THEOREM Recovery == ASSUME CountCost PROVE Spec => []FailuresCarryReports
<1>1. IInv => FailuresCarryReports BY DEF IInv
<1> QED BY <1>1, Invariance, PTL

-----------------------------------------------------------------------------
(***************************************************************************)
(* The artifacts of a batch on their way through a study: ProvenanceKept   *)
(* and AcceptedIsReported for every batch whose requests bear distinct     *)
(* numbers.                                                                *)
(*                                                                         *)
(* Argument.  ArtifactsGood.  A success that was accepted once is Sound,   *)
(* whatever it is turned into: its refinement and its records are alike    *)
(* what they ought to be.  It is Kept: what it no longer may compare, it   *)
(* remembers having compared.  The attempts of a batch stay the answers of *)
(* its requests; out of their order they are not aligned, so an accepted   *)
(* batch is in it, and a report carries it in it.                          *)
(***************************************************************************)
(* A function on 1..n is a sequence of length n. *)
LEMMA LenIs ==
  ASSUME NEW S, NEW n \in Nat, NEW f \in [1..n -> S]
  PROVE  f \in Seq(S) /\ Len(f) = n /\ DOMAIN f = 1..n
<1>1. f \in Seq(S)
  BY IsASeq
<1>2. DOMAIN f = 1..n
  OBVIOUS
<1> QED BY <1>1, <1>2, LenProperties, SMT

(* So is the empty one. *)
LEMMA EmptyIs ==
  ASSUME NEW f, NEW S, f \in [1..0 -> S]
  PROVE  f = << >>
<1>1. f \in Seq(S) /\ Len(f) = 0
  BY LenIs
<1> QED BY <1>1, EmptySeq

(* The k-th place. *)
LEMMA Places ==
  ASSUME NEW d \in Nat, NEW P \in SUBSET (1..d)
  PROVE  /\ IsFiniteSet(P) /\ Cardinality(P) \in Nat
         /\ \A k \in 1..Cardinality(P) : PlaceAt(P, k) \in P
         /\ \A k, l \in 1..Cardinality(P) : k < l => PlaceAt(P, k) < PlaceAt(P, l)
         /\ \A i \in P : \E k \in 1..Cardinality(P) : PlaceAt(P, k) = i
<1> DEFINE n == Cardinality(P)
           rank(i) == Cardinality(Before(P, i))
<1>1. IsFiniteSet(P) /\ n \in Nat
  <2>1. IsFiniteSet(1..d)
    BY FS_Interval
  <2> QED BY <2>1, FS_Subset, FS_CardinalityType
<1>2. P \in SUBSET Int
  OBVIOUS
<1>3. /\ \A i \in P : rank(i) \in 0..(n - 1)
      /\ \A i, j \in P : i < j => rank(i) < rank(j)
      /\ \A k \in 0..(n - 1) : \E i \in P : rank(i) = k
  BY <1>1, <1>2, Ranking
<1>4. \A k : PlaceAt(P, k) = CHOOSE i \in P : rank(i) = k - 1
  BY DEF PlaceAt, Before
<1> HIDE DEF rank, n
<1>5. \A k \in 1..n : PlaceAt(P, k) \in P /\ rank(PlaceAt(P, k)) = k - 1
  <2> TAKE k \in 1..n
  <2>1. k - 1 \in 0..(n - 1)
    BY <1>1
  <2>2. \E i \in P : rank(i) = k - 1
    BY <1>3, <2>1
  <2> QED BY Zenon, <1>4, <2>2
<1>6. ASSUME NEW k \in 1..n, NEW l \in 1..n, k < l
      PROVE  PlaceAt(P, k) < PlaceAt(P, l)
  <2> DEFINE i == PlaceAt(P, k)
             j == PlaceAt(P, l)
  <2>1. i \in P /\ j \in P /\ rank(i) = k - 1 /\ rank(j) = l - 1
    BY <1>5
  <2> HIDE DEF i, j
  <2>2. rank(i) < rank(j) /\ rank(i) \in Int /\ rank(j) \in Int /\ i \in Int /\ j \in Int
    BY <1>6, <2>1
  <2>3. ~(j < i) /\ j # i
    BY <1>3, <2>1, <2>2
  <2>4. i < j
    BY <2>2, <2>3
  <2> QED BY <2>4 DEF i, j
<1>7. ASSUME NEW i \in P
      PROVE  \E k \in 1..n : PlaceAt(P, k) = i
  <2>1. rank(i) + 1 \in 1..n /\ rank(i) \in Nat
    BY <1>1, <1>3
  <2> DEFINE k == rank(i) + 1
             j == PlaceAt(P, k)
  <2>2. j \in P /\ rank(j) = k - 1
    BY <1>5, <2>1
  <2>3. rank(j) = rank(i)
    BY <2>1, <2>2
  <2> HIDE DEF j
  <2>4. i \in Int /\ j \in Int /\ ~(i < j) /\ ~(j < i)
    BY <1>3, <2>1, <2>2, <2>3
  <2>5. j = i
    BY <2>4
  <2> QED BY <2>1, <2>5 DEF j
<1> QED BY <1>1, <1>5, <1>6, <1>7 DEF n

(* Picking the places of P keeps their elements and their order. *)
LEMMA PickedAre ==
  ASSUME NEW d \in Nat, NEW P \in SUBSET (1..d), NEW S, NEW seq, \A i \in P : seq[i] \in S
  PROVE  /\ PickedAt(P, seq) \in [1..Cardinality(P) -> S]
         /\ PickedAt(P, seq) \in Seq(S)
         /\ Len(PickedAt(P, seq)) = Cardinality(P)
         /\ \A k \in 1..Cardinality(P) : PickedAt(P, seq)[k] = seq[PlaceAt(P, k)]
         /\ \A i \in P : \E k \in 1..Cardinality(P) : PickedAt(P, seq)[k] = seq[i]
         /\ ToSet(PickedAt(P, seq)) = {seq[i] : i \in P}
<1>1. /\ Cardinality(P) \in Nat
      /\ \A k \in 1..Cardinality(P) : PlaceAt(P, k) \in P
      /\ \A i \in P : \E k \in 1..Cardinality(P) : PlaceAt(P, k) = i
  BY Places
<1> DEFINE n == Cardinality(P)
           f == PickedAt(P, seq)
<1>2. f = [k \in 1..n |-> seq[PlaceAt(P, k)]]
  BY DEF PickedAt
<1>3. f \in [1..n -> S] /\ \A k \in 1..n : f[k] = seq[PlaceAt(P, k)]
  BY <1>1, <1>2
<1>4. \A i \in P : \E k \in 1..n : f[k] = seq[i]
  BY Zenon, <1>1, <1>3
<1>5. f \in Seq(S) /\ Len(f) = n /\ DOMAIN f = 1..n
  BY <1>1, <1>3, LenIs
<1>6. ToSet(f) = {seq[i] : i \in P}
  <2>1. ToSet(f) = {f[k] : k \in 1..n}
    BY <1>5 DEF ToSet
  <2> HIDE DEF f
  <2>2. ASSUME NEW k \in 1..n PROVE f[k] \in {seq[i] : i \in P}
    BY <1>1, <1>3
  <2>3. ASSUME NEW i \in P PROVE seq[i] \in {f[k] : k \in 1..n}
    BY <1>4
  <2> QED BY Zenon, <2>1, <2>2, <2>3
<1> QED BY <1>3, <1>4, <1>5, <1>6

(* Sums of counts. *)

(* A sum over a place and the rest. *)
LEMMA SumSplit ==
  ASSUME NEW S, IsFiniteSet(S), NEW A \in SUBSET S, NEW f, \A x \in S : f[x] \in Int
  PROVE  SumFunctionOnSet(f, S) = SumFunctionOnSet(f, A) + SumFunctionOnSet(f, S \ A)
<1> DEFINE Sum(T) == SumFunctionOnSet(f, T)
           B == {T \in SUBSET S : Sum(T) # Sum(A \cap T) + Sum(T \ A)}
<1> HIDE DEF Sum
<1> SUFFICES ASSUME B # {} PROVE FALSE
  <2>1. A \cap S = A /\ S \in SUBSET S
    OBVIOUS
  <2>2. S \notin B
    OBVIOUS
  <2>3. Sum(S) = Sum(A) + Sum(S \ A)
    BY <2>1, <2>2
  <2> QED BY <2>3 DEF Sum
<1>1. PICK T \in B : \A U \in B : U \subseteq T => U = T
  <2>1. B \subseteq SUBSET S
    OBVIOUS
  <2> HIDE DEF B
  <2> QED BY <2>1, SmallestSet
<1>2. Sum({}) = 0
  BY SumEmpty DEF Sum
<1>3. T # {}
  <2>1. {} \notin B
    <3>1. A \cap {} = {} /\ {} \ A = {}
      OBVIOUS
    <3> QED BY <1>2, <3>1
  <2> QED BY <2>1
<1>4. PICK x \in T : TRUE
  BY <1>3
<1>5. IsFiniteSet(T) /\ IsFiniteSet(A \cap T) /\ IsFiniteSet(T \ A) /\ T \in SUBSET S
  BY FS_Subset
<1> DEFINE U == T \ {x}
<1>6. U \notin B /\ U \in SUBSET S
  <2>1. U \subseteq T /\ U # T
    BY <1>4
  <2> QED BY <1>1, <2>1
<1>7. Sum(U) = Sum(A \cap U) + Sum(U \ A)
  BY <1>6
<1>8. Sum(T) = f[x] + Sum(U) /\ f[x] \in Int
  BY <1>4, <1>5, SumRemove DEF Sum
<1>9. IsFiniteSet(U) /\ IsFiniteSet(A \cap U) /\ IsFiniteSet(U \ A)
  BY <1>5, FS_Subset
<1>10. Sum(A \cap U) \in Int /\ Sum(U \ A) \in Int
  <2>1. A \cap U \in SUBSET S /\ U \ A \in SUBSET S
    BY <1>6
  <2> QED BY <1>9, <2>1, SumType DEF Sum
<1>11. CASE x \in A
  <2>1. (A \cap T) \ {x} = A \cap U /\ T \ A = U \ A /\ x \in A \cap T
    BY <1>4, <1>11
  <2>2. Sum(A \cap T) = f[x] + Sum((A \cap T) \ {x})
    BY <1>5, <2>1, SumRemove DEF Sum
  <2>3. Sum((A \cap T) \ {x}) = Sum(A \cap U) /\ Sum(T \ A) = Sum(U \ A)
    BY Zenon, <2>1
  <2>4. Sum(T) = Sum(A \cap T) + Sum(T \ A)
    <3> DEFINE a == Sum(A \cap U)
               b == Sum(U \ A)
    <3>1. Sum(U) = a + b /\ Sum(T) = f[x] + Sum(U) /\ f[x] \in Int /\ a \in Int /\ b \in Int
      BY <1>7, <1>8, <1>10
    <3>2. Sum(A \cap T) = f[x] + a /\ Sum(T \ A) = b
      BY <2>2, <2>3
    <3> HIDE DEF a, b, U, B
    <3> QED BY <3>1, <3>2
  <2> QED BY <1>1, <2>4
<1>12. CASE x \notin A
  <2>1. (T \ A) \ {x} = U \ A /\ A \cap T = A \cap U /\ x \in T \ A
    BY <1>4, <1>12
  <2>2. Sum(T \ A) = f[x] + Sum((T \ A) \ {x})
    BY <1>5, <2>1, SumRemove DEF Sum
  <2>3. Sum((T \ A) \ {x}) = Sum(U \ A) /\ Sum(A \cap T) = Sum(A \cap U)
    BY Zenon, <2>1
  <2>4. Sum(T) = Sum(A \cap T) + Sum(T \ A)
    <3> DEFINE a == Sum(A \cap U)
               b == Sum(U \ A)
    <3>1. Sum(U) = a + b /\ Sum(T) = f[x] + Sum(U) /\ f[x] \in Int /\ a \in Int /\ b \in Int
      BY <1>7, <1>8, <1>10
    <3>2. Sum(A \cap T) = a /\ Sum(T \ A) = f[x] + b
      BY <2>2, <2>3
    <3> HIDE DEF a, b, U, B
    <3> QED BY <3>1, <3>2
  <2> QED BY <1>1, <2>4
<1> QED BY <1>11, <1>12

(* The sum of what was picked is the sum over the places. *)
LEMMA SumOfPicked ==
  ASSUME NEW d \in Nat, NEW P \in SUBSET (1..d), NEW seq, DOMAIN seq = 1..d,
         \A i \in 1..d : seq[i].count \in Int
  PROVE  SumOf(PickedAt(P, seq)) = SumFunctionOnSet([i \in 1..d |-> seq[i].count], P)
<1> DEFINE n == Cardinality(P)
           picked == PickedAt(P, seq)
           f == [k \in 1..n |-> picked[k].count]
           e == [i \in 1..d |-> seq[i].count]
           h == [k \in 1..n |-> PlaceAt(P, k)]
<1>0. P \in SUBSET Int
  OBVIOUS
<1>1. /\ IsFiniteSet(P) /\ n \in Nat
      /\ \A k \in 1..n : PlaceAt(P, k) \in P
      /\ \A k, l \in 1..n : k < l => PlaceAt(P, k) < PlaceAt(P, l)
      /\ \A i \in P : \E k \in 1..n : PlaceAt(P, k) = i
  BY Places
<1>2. picked = [k \in 1..n |-> seq[PlaceAt(P, k)]]
  BY DEF PickedAt
<1>3. h \in Bijection(1..n, P)
  <2>1. h \in [1..n -> P]
    BY <1>1
  <2>2. \A k, l \in 1..n : h[k] = h[l] => k = l
    <3> SUFFICES ASSUME NEW k \in 1..n, NEW l \in 1..n, PlaceAt(P, k) = PlaceAt(P, l)
                 PROVE  k = l
      OBVIOUS
    <3>1. PlaceAt(P, k) \in P /\ P \in SUBSET Int
      BY Zenon, <1>1, <1>0
    <3>2. \A p \in Int : ~(p < p)
      OBVIOUS
    <3>3. ~(k < l) /\ ~(l < k)
      BY Zenon, <1>1, <3>1, <3>2
    <3> QED BY <1>1, <3>3
  <2>3. \A i \in P : \E k \in 1..n : h[k] = i
    BY <1>1
  <2> HIDE DEF h
  <2> QED BY <2>1, <2>2, <2>3 DEF Bijection, Injection, Surjection, IsInjective
<1>4. \A k \in 1..n : f[k] \in Int /\ f[k] = e[h[k]]
  BY <1>1, <1>2
<1>5. IsFiniteSet(1..n)
  BY <1>1, FS_Interval
<1>6. SumFunctionOnSet(f, 1..n) = SumFunctionOnSet(e, P)
  <2> DEFINE K == 1..n
  <2>1. IsFiniteSet(K) /\ h \in Bijection(K, P) /\ \A k \in K : f[k] \in Int /\ f[k] = e[h[k]]
    BY <1>3, <1>4, <1>5
  <2> HIDE DEF f, e, h, K
  <2>2. SumFunctionOnSet(f, K) = SumFunctionOnSet(e, P)
    BY <1>1, <2>1, SumReindex
  <2> QED BY <2>2 DEF K
<1>7. SumOf(picked) = SumFunctionOnSet(f, 1..n)
  <2>1. DOMAIN picked = 1..n
    BY <1>2
  <2>2. [i \in DOMAIN picked |-> picked[i].count] = f /\ DOMAIN f = 1..n
    BY <2>1
  <2> QED BY <2>2 DEF SumOf, SumFunction
<1> QED BY <1>6, <1>7

(* SumOf as a sum over the places. *)
LEMMA SumOfAll ==
  ASSUME NEW d \in Nat, NEW seq, DOMAIN seq = 1..d, \A i \in 1..d : seq[i].count \in Int
  PROVE  /\ SumOf(seq) = SumFunctionOnSet([i \in 1..d |-> seq[i].count], 1..d)
         /\ SumOf(seq) \in Int
<1> DEFINE e == [i \in 1..d |-> seq[i].count]
<1>1. SumOf(seq) = SumFunctionOnSet(e, 1..d)
  BY DEF SumOf, SumFunction
<1>2. IsFiniteSet(1..d) /\ \A i \in 1..d : e[i] \in Int
  BY FS_Interval
<1>3. SumFunctionOnSet(e, 1..d) \in Int
  <2> HIDE DEF e
  <2> QED BY <1>2, SumType
<1> QED BY <1>1, <1>3

(* The costs of the successes and of the failures add up to those of the batch. *)
LEMMA SumOfParts ==
  ASSUME NEW d \in Nat, NEW seq, DOMAIN seq = 1..d, \A i \in 1..d : seq[i].count \in Int
  PROVE  SumOf(seq) = SumOf(Successes(seq)) + SumOf(Failures(seq))
<1> DEFINE P == SuccessPlaces(seq)
           e == [i \in 1..d |-> seq[i].count]
<1>1. P \in SUBSET (1..d) /\ (1..d) \ P \in SUBSET (1..d)
  BY DEF SuccessPlaces
<1>2. SumOf(Successes(seq)) = SumFunctionOnSet(e, P)
  BY <1>1, SumOfPicked DEF Successes
<1>3. SumOf(Failures(seq)) = SumFunctionOnSet(e, (1..d) \ P)
  BY <1>1, SumOfPicked DEF Failures
<1>4. IsFiniteSet(1..d) /\ \A i \in 1..d : e[i] \in Int
  BY FS_Interval
<1>5. SumFunctionOnSet(e, 1..d) = SumFunctionOnSet(e, P) + SumFunctionOnSet(e, (1..d) \ P)
  <2> HIDE DEF e, P
  <2> QED BY <1>1, <1>4, SumSplit
<1> QED BY <1>2, <1>3, <1>5, SumOfAll

(* A success, its refinement and its record. *)
Refines(s)  == s.ref # << >>
Source(s)   == s.ref[1].source
Refined(s)  == s.ref[1].refined
Recorded(s) == s.payload.record # << >>
Rec(s)      == s.payload.record[1]

(* The same candidate in the eyes of the space. *)
Alike(a, b) == Class[a.val] = Class[b.val]

(* What is true of a success that was accepted once, whatever it was turned
   into since. *)
Sound(s) ==
  /\ s \in Successful /\ Coherent(s) /\ s.count >= 0
  /\ Refines(s) => Alike(Refined(s), s.request.cand)
  /\ Recorded(s) => /\ Alike(Rec(s).cand, s.request.cand)
                    /\ Rec(s).request.id = s.request.id
  /\ Refines(s) /\ Recorded(s) /\ Rec(s).request.at # s.request.at =>
       Alike(Rec(s).request.cand, Source(s))

(* It has a record of a copy that `==` does not take for the candidate. *)
Copied(w, s) ==
  /\ Recorded(s) /\ Rec(s).cand.at # s.request.cand.at
  /\ ~(w = "scalar" /\ Rec(s).cand.val = s.request.cand.val)

(* Having been accepted it remembers the comparisons, and may make the one it
   does not remember. *)
Kept(w, s) ==
  /\ Refines(s) => s.aligned = <<s.request.cand.at, Refined(s).at>>
  /\ Refines(s) /\ Recorded(s) /\ Rec(s).request.at # s.request.at =>
       s.sourced = <<Rec(s).request.cand.at, Source(s).at>>
  /\ s.equality \/ ~Copied(w, s)

(* An optional value is a sequence of one element at most. *)
LEMMA OneAtMost ==
  ASSUME NEW S, NEW q \in Seq(S), Len(q) <= 1
  PROVE  /\ q = << >> => DOMAIN q = {} /\ ToSet(q) = {}
         /\ q # << >> => DOMAIN q = {1} /\ q[1] \in S /\ ToSet(q) = {q[1]}
<1>1. CASE q = << >>
  BY <1>1 DEF ToSet
<1>2. CASE q # << >>
  <2>a. Len(q) \in Nat /\ Len(q) # 0
    BY <1>2, EmptySeq, LenProperties
  <2>b. \A n \in Nat : n # 0 /\ n <= 1 => n = 1
    OBVIOUS
  <2>1. Len(q) = 1
    BY <2>a, <2>b
  <2>2. DOMAIN q = {1}
    BY <2>1, LenProperties
  <2>3. q[1] \in S
    BY <2>1, ElementOfSeq
  <2> QED BY <1>2, <2>2, <2>3 DEF ToSet
<1> QED BY <1>1, <1>2

(* The parts of a success and their types. *)
LEMMA Shape ==
  ASSUME NEW s \in Successful, Len(s.ref) <= 1, Len(s.payload.record) <= 1
  PROVE  /\ s.request \in Requested /\ s.request.cand \in Objects /\ s.request.at \in Nat \ {0}
         /\ s.count \in Int /\ s.equality \in BOOLEAN /\ s.required \in BOOLEAN /\ s.ok = TRUE
         /\ ~Refines(s) => s.ref = << >> /\ DOMAIN s.ref = {} /\ ToSet(s.ref) = {}
         /\ Refines(s) => /\ DOMAIN s.ref = {1} /\ ToSet(s.ref) = {s.ref[1]}
                          /\ s.ref[1] \in [source : Objects, refined : Objects]
                          /\ Source(s) \in Objects /\ Refined(s) \in Objects
         /\ ~Recorded(s) => s.payload.record = << >> /\ DOMAIN s.payload.record = {} /\ ToSet(s.payload.record) = {}
         /\ Recorded(s) => /\ DOMAIN s.payload.record = {1} /\ ToSet(s.payload.record) = {Rec(s)}
                           /\ Rec(s) \in [request : Requested, cand : Objects]
                           /\ Rec(s).request \in Requested /\ Rec(s).request.cand \in Objects
                           /\ Rec(s).cand \in Objects /\ Rec(s).request.at \in Nat \ {0}
<1>1. /\ s.request \in Requested /\ s.count \in Int /\ s.equality \in BOOLEAN /\ s.required \in BOOLEAN
      /\ s.ok = TRUE /\ s.ref \in Seq([source : Objects, refined : Objects])
      /\ s.payload \in Payloads
  BY DEF Successful
<1>2. s.payload.record \in Seq([request : Requested, cand : Objects])
  BY <1>1 DEF Payloads
<1>3. s.request.cand \in Objects /\ s.request.at \in Nat \ {0}
  BY <1>1 DEF Requested
<1>4. /\ ~Refines(s) => s.ref = << >> /\ DOMAIN s.ref = {} /\ ToSet(s.ref) = {}
      /\ Refines(s) => /\ DOMAIN s.ref = {1} /\ ToSet(s.ref) = {s.ref[1]}
                       /\ s.ref[1] \in [source : Objects, refined : Objects]
  BY <1>1, OneAtMost DEF Refines
<1>5. Refines(s) => Source(s) \in Objects /\ Refined(s) \in Objects
  BY <1>4 DEF Source, Refined
<1>6. /\ ~Recorded(s) => s.payload.record = << >> /\ DOMAIN s.payload.record = {} /\ ToSet(s.payload.record) = {}
      /\ Recorded(s) => /\ DOMAIN s.payload.record = {1} /\ ToSet(s.payload.record) = {Rec(s)}
                        /\ Rec(s) \in [request : Requested, cand : Objects]
  <2> DEFINE q == s.payload.record
             R == [request : Requested, cand : Objects]
  <2>1. q \in Seq(R) /\ Len(q) <= 1
    BY <1>2
  <2>2. (Recorded(s) <=> q # << >>) /\ Rec(s) = q[1]
    BY DEF Recorded, Rec
  <2> HIDE DEF q, R
  <2>3. /\ q = << >> => DOMAIN q = {} /\ ToSet(q) = {}
        /\ q # << >> => DOMAIN q = {1} /\ q[1] \in R /\ ToSet(q) = {q[1]}
    BY <2>1, OneAtMost
  <2>4. /\ ~Recorded(s) => q = << >> /\ DOMAIN q = {} /\ ToSet(q) = {}
        /\ Recorded(s) => DOMAIN q = {1} /\ ToSet(q) = {Rec(s)} /\ Rec(s) \in R
    BY Zenon, <2>2, <2>3
  <2> QED BY Zenon, <2>4 DEF q, R
<1>7. Recorded(s) => /\ Rec(s).request \in Requested /\ Rec(s).cand \in Objects
                     /\ Rec(s).request.cand \in Objects /\ Rec(s).request.at \in Nat \ {0}
  BY <1>6 DEF Requested
<1> QED BY <1>1, <1>3, <1>4, <1>5, <1>6, <1>7

(* The objects of a success, one by one. *)
LEMMA ObjectsAre ==
  ASSUME NEW s \in Successful, Len(s.ref) <= 1, Len(s.payload.record) <= 1
  PROVE  ObjectsOf(s) = {s.request.cand} \cup (IF Refines(s) THEN {Source(s), Refined(s)} ELSE {})
                          \cup (IF Recorded(s) THEN {Rec(s).cand, Rec(s).request.cand} ELSE {})
<1>1. UNION {{r.source, r.refined} : r \in ToSet(s.ref)} = IF Refines(s) THEN {Source(s), Refined(s)} ELSE {}
  <2>1. CASE Refines(s)
    <3>1. {{r.source, r.refined} : r \in {s.ref[1]}} = {{Source(s), Refined(s)}}
      BY DEF Source, Refined
    <3>2. ToSet(s.ref) = {s.ref[1]}
      BY <2>1, Shape
    <3> QED BY <2>1, <3>1, <3>2
  <2>2. CASE ~Refines(s)
    <3>1. ToSet(s.ref) = {}
      BY <2>2, Shape
    <3> QED BY <2>2, <3>1
  <2> QED BY <2>1, <2>2
<1>2. UNION {{r.cand, r.request.cand} : r \in ToSet(s.payload.record)}
        = IF Recorded(s) THEN {Rec(s).cand, Rec(s).request.cand} ELSE {}
  <2>1. CASE Recorded(s)
    <3>1. ToSet(s.payload.record) = {Rec(s)}
      BY <2>1, Shape
    <3> QED BY <2>1, <3>1
  <2>2. CASE ~Recorded(s)
    <3>1. ToSet(s.payload.record) = {}
      BY <2>2, Shape
    <3> QED BY <2>2, <3>1
  <2> QED BY <2>1, <2>2
<1> DEFINE X == UNION {{r.source, r.refined} : r \in ToSet(s.ref)}
           Y == UNION {{r.cand, r.request.cand} : r \in ToSet(s.payload.record)}
<1>3. ObjectsOf(s) = {s.request.cand} \cup X \cup Y
  BY DEF ObjectsOf
<1>4. X = IF Refines(s) THEN {Source(s), Refined(s)} ELSE {}
  BY <1>1
<1>5. Y = IF Recorded(s) THEN {Rec(s).cand, Rec(s).request.cand} ELSE {}
  BY <1>2
<1> HIDE DEF X, Y
<1> QED BY Zenon, <1>3, <1>4, <1>5

(* Two objects of one success with the same identity are one object. *)
LEMMA CoherentIs ==
  ASSUME NEW s \in Successful, Len(s.ref) <= 1, Len(s.payload.record) <= 1
  PROVE  Coherent(s) <=>
           /\ \A a, b \in ObjectsOf(s) : Same(a, b) => a = b
           /\ Recorded(s) /\ Rec(s).request.at = s.request.at => Rec(s).request = s.request
<1>1. (\A r \in ToSet(s.payload.record) : r.request.at = s.request.at => r.request = s.request)
        <=> (Recorded(s) /\ Rec(s).request.at = s.request.at => Rec(s).request = s.request)
  <2>1. CASE Recorded(s)
    <3>1. ToSet(s.payload.record) = {Rec(s)}
      BY <2>1, Shape
    <3> QED BY <2>1, <3>1
  <2>2. CASE ~Recorded(s)
    <3>1. ToSet(s.payload.record) = {}
      BY <2>2, Shape
    <3> QED BY <2>2, <3>1
  <2> QED BY <2>1, <2>2
<1> QED BY <1>1 DEF Coherent

(* A success of the same or fewer objects is as coherent. *)
LEMMA FewerObjects ==
  ASSUME NEW s \in Successful, Coherent(s), NEW t \in Successful,
         Len(t.ref) <= 1, Len(t.payload.record) <= 1, ObjectsOf(t) \subseteq ObjectsOf(s),
         Recorded(t) /\ Rec(t).request.at = t.request.at => Rec(t).request = t.request
  PROVE  Coherent(t)
<1>1. \A a, b \in ObjectsOf(s) : Same(a, b) => a = b
  BY DEF Coherent
<1> QED BY <1>1, CoherentIs

(* What acceptance comes to. *)

(* A sound success has the shape that the lemmas about its parts ask for. *)
LEMMA SoundShape ==
  ASSUME NEW s, Sound(s)
  PROVE  s \in Successful /\ Coherent(s) /\ Len(s.ref) <= 1 /\ Len(s.payload.record) <= 1
  BY DEF Sound, Coherent

(* Acceptance, comparison by comparison (EvaluationSuccess._validate). *)
LEMMA AcceptedIs ==
  ASSUME NEW s \in Successful, Len(s.ref) <= 1, Len(s.payload.record) <= 1
  PROVE  Accepted(s) <=> s.count >= 0 /\ RefinementAccepted(s) /\ (Recorded(s) => RecordAccepted(s, Rec(s)))
<1>1. CASE Recorded(s)
  <2>1. ToSet(s.payload.record) = {Rec(s)}
    BY <1>1, Shape
  <2> QED BY <1>1, <2>1 DEF Accepted
<1>2. CASE ~Recorded(s)
  <2>1. ToSet(s.payload.record) = {}
    BY <1>2, Shape
  <2> QED BY <1>2, <2>1 DEF Accepted
<1> QED BY <1>1, <1>2

(* A success as it was made: what accepts it is a comparison. *)
LEMMA MadeSound ==
  ASSUME NEW s \in Successful, Coherent(s), NotYetCompared(s), Accepted(s)
  PROVE  Sound(s) /\ (s.equality \/ ~Copied(raw, s))
<1>0. Len(s.ref) <= 1 /\ Len(s.payload.record) <= 1
  BY DEF Coherent
<1>1. /\ s.count >= 0 /\ RefinementAccepted(s)
      /\ Recorded(s) => RecordAccepted(s, Rec(s))
  BY <1>0, AcceptedIs
<1>2. \A a, b : Equal(s.equality, a, b) => Alike(a, b)
  BY DEF Equal, Alike
<1>3. Refines(s) => Alike(Refined(s), s.request.cand)
  <2> SUFFICES ASSUME Refines(s) PROVE Alike(Refined(s), s.request.cand)
    OBVIOUS
  <2>1. Refined(s).at # 0 /\ Refined(s).at \in Nat
    BY <1>0, Shape DEF Objects
  <2>2. ~AlignmentCompared(s)
    BY <2>1 DEF AlignmentCompared, NotYetCompared, NotCompared, Refined
  <2>3. Equal(s.equality, s.request.cand, Refined(s))
    BY <1>1, <2>2 DEF RefinementAccepted, Refines, Refined
  <2> QED BY <1>2, <2>3 DEF Alike
<1>4. ASSUME Recorded(s)
      PROVE  /\ Alike(Rec(s).cand, s.request.cand) /\ Rec(s).request.id = s.request.id
             /\ s.equality \/ ~Copied(raw, s)
  <2>1. Same(Rec(s).cand, s.request.cand) \/ Equal(s.equality, Rec(s).cand, s.request.cand)
    BY <1>1, <1>4 DEF RecordAccepted
  <2>2. Same(Rec(s).cand, s.request.cand) => Rec(s).cand = s.request.cand
    BY <1>0, <1>4, ObjectsAre DEF Coherent
  <2>3. Alike(Rec(s).cand, s.request.cand)
    BY <1>2, <2>1, <2>2 DEF Alike
  <2>4. Rec(s).request.id = s.request.id
    BY <1>0, <1>1, <1>4, CoherentIs DEF RecordAccepted
  <2>5. s.equality \/ ~Copied(raw, s)
    BY <1>0, Shape, <2>1 DEF Copied, Same, Equal
  <2> QED BY <2>3, <2>4, <2>5
<1>5. ASSUME Refines(s), Recorded(s), Rec(s).request.at # s.request.at
      PROVE  Alike(Rec(s).request.cand, Source(s))
  <2>1. Source(s).at # 0 /\ Source(s).at \in Nat
    BY <1>0, <1>5, Shape DEF Objects
  <2>2. ~SourceCompared(s, Rec(s))
    BY <2>1 DEF SourceCompared, NotYetCompared, NotCompared, Source
  <2>3. Equal(s.equality, Source(s), Rec(s).request.cand)
    BY <1>1, <1>5, <2>2 DEF RecordAccepted, SourceAccepted, Refines, Source
  <2> QED BY <1>2, <2>3 DEF Alike
<1>6. ~Recorded(s) => ~Copied(raw, s)
  BY DEF Copied
<1> QED BY <1>1, <1>3, <1>4, <1>5, <1>6 DEF Sound

(* A sound success is accepted, under the predicate of the space and by what it
   remembers. *)
LEMMA SoundIsAccepted ==
  ASSUME NEW s, Sound(s), s.equality \/ Kept(raw, s)
  PROVE  Accepted(s)
<1>0. s \in Successful /\ Coherent(s) /\ Len(s.ref) <= 1 /\ Len(s.payload.record) <= 1
  BY SoundShape
<1>1. s.equality => \A a, b : Equal(s.equality, a, b) <=> Alike(a, b)
  BY <1>0, Shape DEF Equal, Alike
<1>2. RefinementAccepted(s)
  <2>1. CASE s.equality
    BY <1>1, <2>1 DEF RefinementAccepted, MayCompare, Sound, Alike, Refines, Refined
  <2>2. CASE Kept(raw, s)
    BY <2>2 DEF RefinementAccepted, AlignmentCompared, Kept, Refines, Refined
  <2> QED BY <2>1, <2>2
<1>3. ASSUME Recorded(s)
      PROVE  RecordAccepted(s, Rec(s))
  <2>1. Rec(s).request.id = s.request.id
    BY <1>3 DEF Sound
  <2>2. Same(Rec(s).cand, s.request.cand) \/ Equal(s.equality, Rec(s).cand, s.request.cand)
    <3>1. CASE s.equality
      BY <1>1, <1>3, <3>1 DEF Sound
    <3>2. CASE ~s.equality /\ Kept(raw, s)
      BY <1>0, Shape, <1>3, <3>2 DEF Kept, Copied, Same, Equal
    <3> QED BY <3>1, <3>2
  <2>3. Rec(s).request.at # s.request.at => SourceAccepted(s, Rec(s))
    <3>1. CASE s.equality
      BY <1>1, <1>3, <3>1 DEF SourceAccepted, MayCompare, Sound, Alike, Refines, Source
    <3>2. CASE Kept(raw, s)
      BY <1>3, <3>2 DEF SourceAccepted, SourceCompared, Kept, Refines, Source
    <3> QED BY <3>1, <3>2
  <2> QED BY <2>1, <2>2, <2>3 DEF RecordAccepted
<1>4. s.count >= 0
  BY DEF Sound
<1> QED BY <1>0, <1>2, <1>3, <1>4, AcceptedIs

(* What the conversions of a success keep. *)

(* The answer it is: what is told of it, whose identity and candidates aside. *)
Keeps(s, t) ==
  /\ t.ok = s.ok /\ t.count = s.count
  /\ t.payload.score = s.payload.score /\ t.payload.kind = s.payload.kind
  /\ t.request.id = s.request.id /\ Alike(t.request.cand, s.request.cand)
  /\ Refines(t) <=> Refines(s)
  /\ Refines(s) => Alike(Source(t), Source(s)) /\ Alike(Refined(t), Refined(s))

(* What a success is remade with: nothing but what it compares with and what it remembers. *)
Redressed(s, t) ==
  /\ t \in Successful
  /\ t.request = s.request /\ t.payload = s.payload /\ t.count = s.count /\ t.ref = s.ref

(* What a success is remade with does not make it unsound. *)
LEMMA RedressedSound ==
  ASSUME NEW s, Sound(s), NEW t, Redressed(s, t)
  PROVE  Sound(t) /\ Keeps(s, t) /\ \A w : Copied(w, t) <=> Copied(w, s)
<1>0. s \in Successful /\ Coherent(s) /\ Len(s.ref) <= 1 /\ Len(s.payload.record) <= 1
  BY SoundShape
<1>1. t \in Successful /\ Len(t.ref) <= 1 /\ Len(t.payload.record) <= 1
  BY <1>0 DEF Redressed
<1>2. /\ Refines(t) <=> Refines(s)
      /\ Recorded(t) <=> Recorded(s)
      /\ Source(t) = Source(s) /\ Refined(t) = Refined(s) /\ Rec(t) = Rec(s)
  BY DEF Redressed, Refines, Recorded, Source, Refined, Rec
<1>3. ObjectsOf(t) = ObjectsOf(s)
  BY DEF Redressed, ObjectsOf
<1>4. Coherent(t)
  <2>1. Recorded(t) /\ Rec(t).request.at = t.request.at => Rec(t).request = t.request
    BY <1>0, <1>2, CoherentIs DEF Redressed
  <2> QED BY <1>0, <1>1, <1>3, <2>1, FewerObjects
<1>5. t.ok = s.ok
  BY <1>0, <1>1 DEF Successful
<1> QED BY <1>1, <1>2, <1>4, <1>5 DEF Sound, Keeps, Copied, Redressed, Alike

(* An accepted success remembers its comparisons and stays the answer it was. *)
LEMMA RememberedIs ==
  ASSUME NEW s, Sound(s)
  PROVE  /\ Redressed(s, Remembered(s)) /\ Remembered(s).equality = s.equality
         /\ Sound(Remembered(s)) /\ Keeps(s, Remembered(s))
         /\ \A w : Copied(w, Remembered(s)) <=> Copied(w, s)
         /\ \A w : s.equality \/ ~Copied(w, s) => Kept(w, Remembered(s))
<1> DEFINE t == Remembered(s)
<1>0. s \in Successful /\ Coherent(s) /\ Len(s.ref) <= 1 /\ Len(s.payload.record) <= 1
  BY SoundShape
<1>1. /\ t.request = s.request /\ t.payload = s.payload /\ t.count = s.count /\ t.ref = s.ref
      /\ t.equality = s.equality /\ t.required = s.required
      /\ t.aligned = IF s.ref = << >> THEN NotCompared ELSE <<s.request.cand.at, s.ref[1].refined.at>>
      /\ t.sourced = IF \/ s.ref = << >> \/ s.payload.record = << >>
                        \/ s.payload.record[1].request.at = s.request.at THEN NotCompared
                     ELSE <<s.payload.record[1].request.cand.at, s.ref[1].source.at>>
  BY <1>0 DEF Remembered, Successful
<1>2. s.request.cand.at \in Nat
  BY <1>0, Shape DEF Objects
<1>3. Refines(s) => s.ref[1].refined.at \in Nat /\ s.ref[1].source.at \in Nat
  BY <1>0, Shape DEF Objects, Refined, Source
<1>4. Recorded(s) => s.payload.record[1].request.cand.at \in Nat
  BY <1>0, Shape DEF Objects, Rec
<1>5. t.aligned \in Nat \X Nat /\ t.sourced \in Nat \X Nat
  BY <1>1, <1>2, <1>3, <1>4 DEF NotCompared, Refines, Recorded
<1>6. t \in Successful
  <2>1. t = [s EXCEPT !.aligned = t.aligned, !.sourced = t.sourced]
    BY DEF Remembered
  <2> HIDE DEF t
  <2> QED BY <1>0, <1>5, <2>1 DEF Successful
<1>7. Redressed(s, t)
  BY <1>1, <1>6 DEF Redressed
<1> HIDE DEF t
<1>8. Sound(t) /\ Keeps(s, t) /\ \A w : Copied(w, t) <=> Copied(w, s)
  BY <1>7, RedressedSound
<1>9. ASSUME NEW w, s.equality \/ ~Copied(w, s)
      PROVE  Kept(w, t)
  <2>1. t.equality \/ ~Copied(w, t)
    BY <1>1, <1>8, <1>9
  <2>2. Refines(t) => t.aligned = <<t.request.cand.at, Refined(t).at>>
    BY <1>1 DEF Refines, Refined
  <2>3. Refines(t) /\ Recorded(t) /\ Rec(t).request.at # t.request.at =>
          t.sourced = <<Rec(t).request.cand.at, Source(t).at>>
    BY <1>1 DEF Refines, Recorded, Rec, Source
  <2> QED BY <2>1, <2>2, <2>3 DEF Kept
<1> QED BY <1>1, <1>7, <1>8, <1>9 DEF t

(* A success that is constructed again is compared again, from nothing
   remembered. *)
LEMMA MadeAgainIs ==
  ASSUME NEW s, Sound(s), NEW equality \in BOOLEAN
  PROVE  /\ Redressed(s, MadeAgain(s, equality)) /\ MadeAgain(s, equality).equality = equality
         /\ Sound(MadeAgain(s, equality)) /\ Keeps(s, MadeAgain(s, equality))
         /\ \A w : Copied(w, MadeAgain(s, equality)) <=> Copied(w, s)
<1> DEFINE t == MadeAgain(s, equality)
<1>0. s \in Successful
  BY SoundShape
<1>1. t \in Successful
  BY <1>0 DEF Successful, MadeAgain, Success, NotCompared
<1>2. Redressed(s, t) /\ t.equality = equality
  BY <1>1 DEF Redressed, MadeAgain, Success
<1> HIDE DEF t
<1> QED BY <1>2, RedressedSound DEF t

(* Bound to the predicate of the space it is accepted. *)
LEMMA ReboundIs ==
  ASSUME NEW s, Sound(s)
  PROVE  /\ Redressed(s, Rebound(s)) /\ Rebound(s).equality
         /\ Sound(Rebound(s)) /\ Keeps(s, Rebound(s))
         /\ \A w : Copied(w, Rebound(s)) <=> Copied(w, s)
<1> DEFINE t == Rebound(s)
<1>0. s \in Successful
  BY SoundShape
<1>1. t \in Successful
  BY <1>0 DEF Successful, Rebound, WithPayload
<1>2. Redressed(s, t) /\ t.equality
  BY <1>0, <1>1 DEF Redressed, Rebound, WithPayload, Successful
<1> HIDE DEF t
<1> QED BY <1>2, RedressedSound DEF t

(* Without its record. *)
LEMMA Unrecorded ==
  ASSUME NEW s, Sound(s), NEW request \in Requested, NEW equality \in BOOLEAN,
         request.cand \in ObjectsOf(s), Alike(request.cand, s.request.cand), request.id = s.request.id
  PROVE  LET t == Success(request, WithoutRecord(s), s.count, s.ref, equality)
         IN Sound(t) /\ Keeps(s, t) /\ ~Recorded(t) /\ t.equality = equality
<1> DEFINE t == Success(request, WithoutRecord(s), s.count, s.ref, equality)
<1>0. s \in Successful /\ Coherent(s) /\ Len(s.ref) <= 1 /\ Len(s.payload.record) <= 1
  BY SoundShape
<1>1. WithoutRecord(s) \in Payloads
  <2>1. s.payload \in Payloads
    BY <1>0 DEF Successful
  <2>2. << >> \in Seq([request : Requested, cand : Objects])
    BY EmptySeq
  <2> QED BY <2>1, <2>2 DEF Payloads, WithoutRecord
<1>2. /\ WithoutRecord(s).record = << >> /\ WithoutRecord(s).score = s.payload.score
      /\ WithoutRecord(s).kind = s.payload.kind
  <2>1. s.payload \in Payloads
    BY <1>0 DEF Successful
  <2> QED BY <2>1 DEF WithoutRecord, Payloads
<1>3. t \in Successful
  BY <1>0, <1>1 DEF Successful, Success, NotCompared
<1>4. /\ t.request = request /\ t.payload = WithoutRecord(s) /\ t.count = s.count /\ t.ref = s.ref
      /\ t.equality = equality /\ t.ok = s.ok
  BY <1>0 DEF Success, Successful
<1> HIDE DEF t
<1>5. ~Recorded(t) /\ (Refines(t) <=> Refines(s)) /\ Source(t) = Source(s) /\ Refined(t) = Refined(s)
  BY <1>2, <1>4 DEF Recorded, Refines, Source, Refined
<1>6. Len(t.ref) <= 1 /\ Len(t.payload.record) <= 1
  BY <1>0, <1>2, <1>4, EmptySeq
<1>7. Coherent(t)
  <2>1. ObjectsOf(t) = {request.cand} \cup (IF Refines(s) THEN {Source(s), Refined(s)} ELSE {})
    BY <1>3, <1>4, <1>5, <1>6, ObjectsAre
  <2>2. ObjectsOf(t) \subseteq ObjectsOf(s)
    BY <1>0, <2>1, ObjectsAre
  <2> QED BY <1>0, <1>3, <1>5, <1>6, <2>2, FewerObjects
<1>8. Sound(t)
  BY <1>3, <1>4, <1>5, <1>7 DEF Sound, Alike
<1>9. Keeps(s, t)
  BY <1>2, <1>4, <1>5 DEF Keeps, Alike
<1> QED BY <1>4, <1>5, <1>8, <1>9 DEF t

(* A scalar payload without its record. *)
LEMMA ScalarIs ==
  ASSUME NEW s, Sound(s), NEW equality \in BOOLEAN
  PROVE  /\ Sound(ScalarSuccess(s, equality)) /\ Keeps(s, ScalarSuccess(s, equality))
         /\ ~Recorded(ScalarSuccess(s, equality)) /\ ScalarSuccess(s, equality).equality = equality
<1>0. s \in Successful /\ Coherent(s) /\ Len(s.ref) <= 1 /\ Len(s.payload.record) <= 1
  BY SoundShape
<1>1. s.request \in Requested /\ s.request.cand \in ObjectsOf(s)
  BY <1>0, Shape, ObjectsAre
<1>2. Alike(s.request.cand, s.request.cand)
  BY DEF Alike
<1> QED BY <1>1, <1>2, Unrecorded DEF ScalarSuccess

(* A vector payload without its record. *)
LEMMA VectorIs ==
  ASSUME NEW s, Sound(s), Recorded(s), NEW equality \in BOOLEAN
  PROVE  /\ Sound(VectorSuccess(s, equality)) /\ Keeps(s, VectorSuccess(s, equality))
         /\ ~Recorded(VectorSuccess(s, equality)) /\ VectorSuccess(s, equality).equality = equality
<1> DEFINE r == Rec(s)
           q == RecordRequest(s)
<1>0. s \in Successful /\ Coherent(s) /\ Len(s.ref) <= 1 /\ Len(s.payload.record) <= 1
  BY SoundShape
<1>1. /\ r.request \in Requested /\ r.cand \in Objects /\ r.cand \in ObjectsOf(s)
      /\ r.request.cand \in ObjectsOf(s) /\ r.request.cand \in Objects
  BY <1>0, Shape, ObjectsAre
<1>2. Alike(r.cand, s.request.cand) /\ r.request.id = s.request.id
  BY DEF Sound
<1>3. q = IF Same(r.request.cand, r.cand) THEN r.request
          ELSE [r.request EXCEPT !.at = @ + 100, !.cand = r.cand]
  BY DEF RecordRequest, Rec
<1> HIDE DEF r, q
<1>4. q \in Requested /\ q.id = s.request.id /\ q.cand = r.cand
  <2>1. CASE Same(r.request.cand, r.cand)
    <3>1. r.request.cand = r.cand
      BY <1>0, <1>1, <2>1 DEF Coherent
    <3> QED BY <1>1, <1>2, <1>3, <2>1, <3>1
  <2>2. CASE ~Same(r.request.cand, r.cand)
    <3>1. r.request.at + 100 \in Nat \ {0} /\ r.request.id \in Nat
      BY <1>1 DEF Requested
    <3>2. q = [at |-> r.request.at + 100, cand |-> r.cand, id |-> r.request.id]
      BY <1>1, <1>3, <2>2 DEF Requested
    <3> QED BY <1>1, <1>2, <3>1, <3>2 DEF Requested
  <2> QED BY <2>1, <2>2
<1> QED BY <1>1, <1>2, <1>4, Unrecorded DEF VectorSuccess, q

(* A success is told with its record, or with one made of its value. *)
Recast(s, r) == WithPayload(s, [s.payload EXCEPT !.record = <<r>>], FALSE)

(* The three forms of a success that is told. *)
LEMMA MaterializedIs ==
  ASSUME NEW s, Sound(s)
  PROVE  Materialized(s) = IF Recorded(s) /\ CanMaterialize(s, Rec(s)) THEN WithPayload(s, s.payload, FALSE)
                           ELSE Recast(s, Projected(s))
<1>0. s \in Successful
  BY SoundShape
<1>a. s.payload \in Payloads
  BY <1>0 DEF Successful
<1>1. CASE Recorded(s) /\ CanMaterialize(s, Rec(s))
  <2>1. [s.payload EXCEPT !.record = @] = s.payload
    BY <1>a DEF Payloads
  <2> QED BY <1>1, <2>1 DEF Materialized, Recorded, Rec
<1>2. CASE ~(Recorded(s) /\ CanMaterialize(s, Rec(s)))
  BY <1>2 DEF Materialized, Recorded, Rec, Recast
<1> QED BY <1>1, <1>2

(* A record made of the value speaks of the source, or of the candidate itself. *)
LEMMA RecastIs ==
  ASSUME NEW s, Sound(s)
  PROVE  LET t == Recast(s, Projected(s))
         IN /\ Sound(t) /\ Keeps(s, t) /\ Recorded(t)
            /\ t.request = s.request /\ t.ref = s.ref /\ t.equality = s.equality /\ t.required = s.required
            /\ t.aligned = s.aligned /\ Rec(t).request.at # t.request.at
            /\ Rec(t) = Projected(s) /\ \A w : ~Copied(w, t)
<1> DEFINE p == Projected(s)
           t == Recast(s, p)
<1>0. s \in Successful /\ Coherent(s) /\ Len(s.ref) <= 1 /\ Len(s.payload.record) <= 1
  BY SoundShape
<1>1. s.request \in Requested /\ s.request.at \in Nat \ {0} /\ s.request.cand \in Objects /\ s.payload \in Payloads
  BY <1>0, Shape DEF Successful
<1>2. /\ p.request.at = s.request.at + 100 /\ p.request.id = s.request.id /\ p.cand = s.request.cand
      /\ p.request.cand = IF Refines(s) THEN Source(s) ELSE s.request.cand
  BY DEF Projected, Refines, Source
<1>3. p \in [request : Requested, cand : Objects]
  <2>1. Refines(s) => Source(s) \in Objects
    BY <1>0, Shape
  <2>2. (IF Refines(s) THEN Source(s) ELSE s.request.cand) \in Objects
    BY <1>1, <2>1
  <2>3. p = [request |-> [at |-> s.request.at + 100, id |-> s.request.id,
                          cand |-> IF Refines(s) THEN Source(s) ELSE s.request.cand],
             cand |-> s.request.cand]
    BY DEF Projected, Refines, Source
  <2>4. s.request.at + 100 \in Nat \ {0} /\ s.request.id \in Nat
    BY <1>1 DEF Requested
  <2> HIDE DEF p
  <2> QED BY <1>1, <2>2, <2>3, <2>4 DEF Requested
<1> HIDE DEF p
<1>4. <<p>> \in Seq([request : Requested, cand : Objects])
  BY <1>3
<1>5. t \in Successful
  <2>1. [s.payload EXCEPT !.record = <<p>>] \in Payloads
    BY <1>1, <1>4 DEF Payloads
  <2> QED BY <1>0, <2>1 DEF Recast, WithPayload, Successful
<1>6. /\ t.request = s.request /\ t.ref = s.ref /\ t.equality = s.equality /\ t.required = s.required
      /\ t.aligned = s.aligned /\ t.count = s.count /\ t.ok = s.ok
      /\ t.payload = [s.payload EXCEPT !.record = <<p>>]
  BY <1>0 DEF Recast, WithPayload, Successful
<1>7. t.payload.record = <<p>> /\ t.payload.score = s.payload.score /\ t.payload.kind = s.payload.kind
  BY <1>1, <1>6 DEF Payloads
<1> HIDE DEF t
<1>8. /\ Recorded(t) /\ Rec(t) = p /\ (Refines(t) <=> Refines(s)) /\ Source(t) = Source(s) /\ Refined(t) = Refined(s)
      /\ Len(t.ref) <= 1 /\ Len(t.payload.record) <= 1
  BY <1>0, <1>6, <1>7 DEF Recorded, Rec, Refines, Source, Refined
<1>9. p.request.at # t.request.at
  BY <1>1, <1>2, <1>6
<1>10. Coherent(t)
  <2>1. ObjectsOf(t) = {s.request.cand} \cup (IF Refines(s) THEN {Source(s), Refined(s)} ELSE {})
                          \cup {p.cand, p.request.cand}
    <3>1. ObjectsOf(t) = {t.request.cand} \cup (IF Refines(t) THEN {Source(t), Refined(t)} ELSE {})
                          \cup (IF Recorded(t) THEN {Rec(t).cand, Rec(t).request.cand} ELSE {})
      BY <1>5, <1>8, ObjectsAre
    <3> QED BY <1>6, <1>8, <3>1
  <2>2. {s.request.cand} \cup (IF Refines(s) THEN {Source(s), Refined(s)} ELSE {}) \subseteq ObjectsOf(s)
    BY <1>0, ObjectsAre
  <2>3. ObjectsOf(t) \subseteq ObjectsOf(s)
    BY <1>2, <2>1, <2>2
  <2> QED BY <1>0, <1>5, <1>8, <1>9, <2>3, FewerObjects
<1>11. Sound(t)
  BY <1>2, <1>5, <1>6, <1>8, <1>10 DEF Sound, Alike
<1>12. Keeps(s, t)
  BY <1>6, <1>7, <1>8 DEF Keeps, Alike
<1>13. \A w : ~Copied(w, t)
  BY <1>2, <1>6, <1>8 DEF Copied
<1> QED BY <1>6, <1>8, <1>9, <1>11, <1>12, <1>13 DEF t, p

(* A pickle: every candidate moves, or none does. *)
LEMMA MovedIs ==
  ASSUME NEW c \in Objects, NEW at \in Nat \ {0}, NEW shared \in BOOLEAN
  PROVE  /\ Moved(c, at, shared) \in Objects /\ Moved(c, at, shared).val = c.val
         /\ shared => Moved(c, at, shared) = c
         /\ ~shared => Moved(c, at, shared).at = at
  BY DEF Moved, Objects

(* A sequence that is moved element by element. *)
LEMMA MovedSequence ==
  ASSUME NEW S, NEW q \in Seq(S), NEW T, NEW f, DOMAIN f = DOMAIN q, f = [i \in DOMAIN q |-> f[i]],
         \A i \in DOMAIN q : f[i] \in T
  PROVE  f \in Seq(T) /\ Len(f) = Len(q) /\ (f = << >> <=> q = << >>)
<1>1. Len(q) \in Nat /\ DOMAIN q = 1..Len(q)
  BY LenProperties
<1>2. f \in [1..Len(q) -> T]
  BY <1>1
<1>3. f \in Seq(T) /\ Len(f) = Len(q)
  BY <1>1, <1>2, LenIs
<1> QED BY <1>3, EmptySeq

(* The fields of a success that was restored. *)
LEMMA RestoredFields ==
  ASSUME NEW s, Sound(s), NEW shared \in BOOLEAN
  PROVE  LET t == Restored(s, shared)
         IN /\ t \in Successful /\ Len(t.ref) <= 1 /\ Len(t.payload.record) <= 1
            /\ t.ok = s.ok /\ t.count = s.count /\ t.equality = FALSE /\ t.required = s.required
            /\ t.payload.score = s.payload.score /\ t.payload.kind = s.payload.kind
            /\ t.request.at = s.request.at /\ t.request.id = s.request.id
            /\ t.request.cand = Moved(s.request.cand, 11, shared)
            /\ Refines(t) <=> Refines(s)
            /\ Refines(s) => /\ Source(t) = Moved(Source(s), 12, shared)
                             /\ Refined(t) = Moved(Refined(s), 13, shared)
            /\ Recorded(t) <=> Recorded(s)
            /\ Recorded(s) => Rec(t) = MovedRecord(s, Rec(s), shared)
            /\ Refines(s) /\ AlignmentCompared(s) => t.aligned = <<t.request.cand.at, Refined(t).at>>
            /\ Refines(s) /\ Recorded(s) /\ SourceCompared(s, Rec(s)) =>
                 t.sourced = <<Rec(t).request.cand.at, Source(t).at>>
<1> DEFINE t == Restored(s, shared)
           request == [s.request EXCEPT !.cand = Moved(@, 11, shared)]
           ref == [i \in DOMAIN s.ref |-> [source |-> Moved(s.ref[i].source, 12, shared),
                                           refined |-> Moved(s.ref[i].refined, 13, shared)]]
           record == [i \in DOMAIN s.payload.record |-> MovedRecord(s, s.payload.record[i], shared)]
           aligned == IF Refines(s) /\ AlignmentCompared(s) THEN <<request.cand.at, ref[1].refined.at>> ELSE NotCompared
           sourced == IF Refines(s) /\ Recorded(s) /\ SourceCompared(s, Rec(s))
                      THEN <<record[1].request.cand.at, ref[1].source.at>> ELSE NotCompared
           P == [source : Objects, refined : Objects]
           R == [request : Requested, cand : Objects]
<1>0. s \in Successful /\ Coherent(s) /\ Len(s.ref) <= 1 /\ Len(s.payload.record) <= 1
  BY SoundShape
<1>1. /\ s.request \in Requested /\ s.request.cand \in Objects /\ s.payload \in Payloads
      /\ s.ref \in Seq(P) /\ s.payload.record \in Seq(R)
  BY <1>0, Shape DEF Successful, Payloads
<1>2. t = [s EXCEPT !.request = request, !.ref = ref, !.payload.record = record, !.equality = FALSE,
                    !.aligned = aligned, !.sourced = sourced]
  <2>1. /\ Pickled(s).alignment <=> Refines(s) /\ AlignmentCompared(s)
        /\ Pickled(s).source <=> Refines(s) /\ Recorded(s) /\ SourceCompared(s, Rec(s))
    BY DEF Pickled, Refines, Recorded, Rec
  <2> DEFINE A == IF Pickled(s).alignment THEN <<request.cand.at, ref[1].refined.at>> ELSE NotCompared
             B == IF Pickled(s).source THEN <<record[1].request.cand.at, ref[1].source.at>> ELSE NotCompared
  <2>2. t = [s EXCEPT !.request = request, !.ref = ref, !.payload.record = record, !.equality = FALSE,
                      !.aligned = A, !.sourced = B]
    BY DEF Restored
  <2>3. A = aligned /\ B = sourced
    <3> HIDE DEF request, ref, record
    <3> QED BY <2>1
  <2> HIDE DEF A, B, aligned, sourced, t, request, ref, record
  <2> QED BY <2>2, <2>3
<1>3. /\ request \in Requested /\ request.at = s.request.at /\ request.id = s.request.id
      /\ request.cand = Moved(s.request.cand, 11, shared) /\ request.cand \in Objects
  <2>1. Moved(s.request.cand, 11, shared) \in Objects
    BY <1>1, MovedIs
  <2> QED BY <1>1, <2>1 DEF Requested
<1>4. ref \in Seq(P) /\ Len(ref) = Len(s.ref) /\ (ref = << >> <=> s.ref = << >>)
  <2>1. \A i \in DOMAIN s.ref : s.ref[i] \in P
    BY <1>1, ElementOfSeq, LenProperties
  <2>2. \A i \in DOMAIN s.ref : ref[i] \in P
    <3> TAKE i \in DOMAIN s.ref
    <3>1. s.ref[i].source \in Objects /\ s.ref[i].refined \in Objects
      BY <2>1
    <3>2. Moved(s.ref[i].source, 12, shared) \in Objects /\ Moved(s.ref[i].refined, 13, shared) \in Objects
      BY <3>1, MovedIs
    <3> QED BY <3>2
  <2>3. DOMAIN ref = DOMAIN s.ref /\ ref = [i \in DOMAIN s.ref |-> ref[i]]
    OBVIOUS
  <2> HIDE DEF ref, P
  <2> QED BY <1>1, <2>2, <2>3, MovedSequence
<1>5. record \in Seq(R) /\ Len(record) = Len(s.payload.record) /\ (record = << >> <=> s.payload.record = << >>)
  <2> DEFINE q == s.payload.record
  <2>1. \A i \in DOMAIN q : q[i] \in R
    BY <1>1, ElementOfSeq, LenProperties
  <2>2. \A i \in DOMAIN q : record[i] \in R
    <3> TAKE i \in DOMAIN q
    <3>1. q[i].cand \in Objects /\ q[i].request \in Requested /\ q[i].request.cand \in Objects
      BY <2>1 DEF Requested
    <3>2. \A at \in {11, 14} : Moved(q[i].request.cand, at, shared) \in Objects
      BY <3>1, MovedIs
    <3>3. Moved(q[i].cand, 15, shared) \in Objects
      BY <3>1, MovedIs
    <3> QED BY <3>1, <3>2, <3>3 DEF MovedRecord, Requested
  <2>3. DOMAIN record = DOMAIN q /\ record = [i \in DOMAIN q |-> record[i]]
    OBVIOUS
  <2> HIDE DEF record, R
  <2> QED BY <1>1, <2>2, <2>3, MovedSequence
<1>6. Refines(s) => /\ ref[1].source = Moved(Source(s), 12, shared) /\ ref[1].source \in Objects
                    /\ ref[1].refined = Moved(Refined(s), 13, shared) /\ ref[1].refined \in Objects
  <2> SUFFICES ASSUME Refines(s) PROVE ref[1].source = Moved(Source(s), 12, shared) /\ ref[1].source \in Objects
                    /\ ref[1].refined = Moved(Refined(s), 13, shared) /\ ref[1].refined \in Objects
    OBVIOUS
  <2>1. 1 \in DOMAIN s.ref /\ Source(s) \in Objects /\ Refined(s) \in Objects
    BY <1>0, Shape
  <2>2. ref[1].source = Moved(Source(s), 12, shared) /\ ref[1].refined = Moved(Refined(s), 13, shared)
    BY <2>1 DEF Source, Refined
  <2> HIDE DEF ref
  <2> QED BY <2>1, <2>2, MovedIs
<1>7. Recorded(s) => /\ record[1] = MovedRecord(s, Rec(s), shared)
                     /\ record[1] \in R
  <2> SUFFICES ASSUME Recorded(s) PROVE record[1] = MovedRecord(s, Rec(s), shared) /\ record[1] \in R
    OBVIOUS
  <2>1. 1 \in DOMAIN s.payload.record
    BY <1>0, Shape
  <2>2. record[1] = MovedRecord(s, Rec(s), shared)
    BY <2>1 DEF Rec
  <2>3. record # << >> /\ Len(record) <= 1
    BY <1>0, <1>5 DEF Recorded
  <2> HIDE DEF record, R
  <2> QED BY <1>5, <2>2, <2>3, OneAtMost
<1>8. aligned \in Nat \X Nat /\ sourced \in Nat \X Nat
  <2>1. Refines(s) => <<request.cand.at, ref[1].refined.at>> \in Nat \X Nat
    <3> HIDE DEF request, ref
    <3> QED BY <1>3, <1>6 DEF Objects
  <2>2. Refines(s) /\ Recorded(s) => <<record[1].request.cand.at, ref[1].source.at>> \in Nat \X Nat
    <3> HIDE DEF record, ref
    <3> QED BY <1>6, <1>7 DEF Objects, Requested
  <2>3. NotCompared \in Nat \X Nat
    BY DEF NotCompared
  <2> HIDE DEF request, ref, record
  <2> QED BY <2>1, <2>2, <2>3
<1> HIDE DEF request, ref, record
<1>9. t \in Successful
  <2>1. [s.payload EXCEPT !.record = record] \in Payloads
    BY <1>1, <1>5 DEF Payloads
  <2> HIDE DEF aligned, sourced, t
  <2> QED BY <1>0, <1>2, <1>3, <1>4, <1>8, <2>1 DEF Successful
<1>10. /\ t.request = request /\ t.ref = ref /\ t.payload.record = record
       /\ t.payload.score = s.payload.score /\ t.payload.kind = s.payload.kind
       /\ t.ok = s.ok /\ t.count = s.count /\ t.equality = FALSE /\ t.required = s.required
       /\ t.aligned = aligned /\ t.sourced = sourced
  <2> HIDE DEF aligned, sourced, t
  <2> QED BY <1>0, <1>1, <1>2 DEF Successful, Payloads
<1> HIDE DEF t
<1>11. /\ (Refines(t) <=> Refines(s)) /\ (Recorded(t) <=> Recorded(s))
       /\ Source(t) = ref[1].source /\ Refined(t) = ref[1].refined /\ Rec(t) = record[1]
  BY <1>4, <1>5, <1>10 DEF Refines, Recorded, Source, Refined, Rec
<1>12. Len(t.ref) <= 1 /\ Len(t.payload.record) <= 1
  BY <1>0, <1>4, <1>5, <1>10
<1>13. Refines(s) /\ AlignmentCompared(s) => t.aligned = <<t.request.cand.at, Refined(t).at>>
  BY <1>10, <1>11
<1>14. Refines(s) /\ Recorded(s) /\ SourceCompared(s, Rec(s)) => t.sourced = <<Rec(t).request.cand.at, Source(t).at>>
  BY <1>10, <1>11
<1> QED BY <1>3, <1>6, <1>7, <1>9, <1>10, <1>11, <1>12, <1>13, <1>14 DEF t

(* A success that was pickled is the answer it was, and has forgotten the
   predicate. *)
LEMMA RestoredIs ==
  ASSUME NEW s, Sound(s), NEW shared \in BOOLEAN
  PROVE  LET t == Restored(s, shared)
         IN /\ Sound(t) /\ Keeps(s, t) /\ t.request.at = s.request.at /\ ~t.equality
            /\ Recorded(t) <=> Recorded(s)
            /\ Recorded(s) => /\ Rec(t).request.at = Rec(s).request.at
                              /\ Alike(Rec(t).request.cand, Rec(s).request.cand)
            /\ \A w : (shared \/ w = "scalar") /\ Copied(w, t) => Copied(w, s)
            /\ \A w, v : Kept(w, s) /\ ~Copied(v, t) => Kept(v, t)
<1> DEFINE t == Restored(s, shared)
<1>0. s \in Successful /\ Coherent(s) /\ Len(s.ref) <= 1 /\ Len(s.payload.record) <= 1
  BY SoundShape
<1>1. /\ t \in Successful /\ Len(t.ref) <= 1 /\ Len(t.payload.record) <= 1
      /\ t.ok = s.ok /\ t.count = s.count /\ t.equality = FALSE /\ t.required = s.required
      /\ t.payload.score = s.payload.score /\ t.payload.kind = s.payload.kind
      /\ t.request.at = s.request.at /\ t.request.id = s.request.id
      /\ t.request.cand = Moved(s.request.cand, 11, shared)
      /\ Refines(t) <=> Refines(s)
      /\ Refines(s) => /\ Source(t) = Moved(Source(s), 12, shared)
                       /\ Refined(t) = Moved(Refined(s), 13, shared)
      /\ Recorded(t) <=> Recorded(s)
      /\ Recorded(s) => Rec(t) = MovedRecord(s, Rec(s), shared)
      /\ Refines(s) /\ AlignmentCompared(s) => t.aligned = <<t.request.cand.at, Refined(t).at>>
      /\ Refines(s) /\ Recorded(s) /\ SourceCompared(s, Rec(s)) =>
           t.sourced = <<Rec(t).request.cand.at, Source(t).at>>
  BY RestoredFields
<1> HIDE DEF t
<1> DEFINE q == IF Rec(s).request.at = s.request.at THEN 11 ELSE 14
<1>2. Recorded(s) => /\ Rec(t).request.at = Rec(s).request.at /\ Rec(t).request.id = Rec(s).request.id
                     /\ Rec(t).request.cand = Moved(Rec(s).request.cand, q, shared)
                     /\ Rec(t).cand = Moved(Rec(s).cand, 15, shared)
  <2> SUFFICES ASSUME Recorded(s)
               PROVE  /\ Rec(t).request.at = Rec(s).request.at /\ Rec(t).request.id = Rec(s).request.id
                      /\ Rec(t).request.cand = Moved(Rec(s).request.cand, q, shared)
                      /\ Rec(t).cand = Moved(Rec(s).cand, 15, shared)
    OBVIOUS
  <2>1. Rec(s).request \in Requested
    BY <1>0, Shape
  <2> QED BY <1>1, <2>1 DEF MovedRecord, Requested
<1>3. /\ s.request.cand \in Objects
      /\ Refines(s) => Source(s) \in Objects /\ Refined(s) \in Objects
      /\ Recorded(s) => Rec(s).request.cand \in Objects /\ Rec(s).cand \in Objects
  BY <1>0, Shape
<1>4. q \in Nat \ {0}
  OBVIOUS
<1> HIDE DEF q
<1>a. /\ t.request.cand.val = s.request.cand.val
      /\ shared => t.request.cand = s.request.cand
      /\ ~shared => t.request.cand.at = 11
  BY <1>1, <1>3, MovedIs
<1>b. Refines(s) => /\ Source(t).val = Source(s).val
                    /\ shared => Source(t) = Source(s)
                    /\ ~shared => Source(t).at = 12
  <2> SUFFICES ASSUME Refines(s)
               PROVE  /\ Source(t).val = Source(s).val
                      /\ shared => Source(t) = Source(s)
                      /\ ~shared => Source(t).at = 12
    OBVIOUS
  <2>1. Source(t) = Moved(Source(s), 12, shared) /\ Source(s) \in Objects
    BY <1>1, <1>3
  <2> QED BY <2>1, MovedIs
<1>c. Refines(s) => /\ Refined(t).val = Refined(s).val
                    /\ shared => Refined(t) = Refined(s)
                    /\ ~shared => Refined(t).at = 13
  <2> SUFFICES ASSUME Refines(s)
               PROVE  /\ Refined(t).val = Refined(s).val
                      /\ shared => Refined(t) = Refined(s)
                      /\ ~shared => Refined(t).at = 13
    OBVIOUS
  <2>1. Refined(t) = Moved(Refined(s), 13, shared) /\ Refined(s) \in Objects
    BY <1>1, <1>3
  <2> QED BY <2>1, MovedIs
<1>d. Recorded(s) => /\ Rec(t).request.cand.val = Rec(s).request.cand.val
                     /\ shared => Rec(t).request.cand = Rec(s).request.cand
                     /\ ~shared => Rec(t).request.cand.at = q
  <2> SUFFICES ASSUME Recorded(s)
               PROVE  /\ Rec(t).request.cand.val = Rec(s).request.cand.val
                      /\ shared => Rec(t).request.cand = Rec(s).request.cand
                      /\ ~shared => Rec(t).request.cand.at = q
    OBVIOUS
  <2>1. Rec(t).request.cand = Moved(Rec(s).request.cand, q, shared) /\ Rec(s).request.cand \in Objects
    BY <1>2, <1>3
  <2> QED BY <2>1, <1>4, MovedIs
<1>e. Recorded(s) => /\ Rec(t).cand.val = Rec(s).cand.val
                     /\ shared => Rec(t).cand = Rec(s).cand
                     /\ ~shared => Rec(t).cand.at = 15
  <2> SUFFICES ASSUME Recorded(s)
               PROVE  /\ Rec(t).cand.val = Rec(s).cand.val
                      /\ shared => Rec(t).cand = Rec(s).cand
                      /\ ~shared => Rec(t).cand.at = 15
    OBVIOUS
  <2>1. Rec(t).cand = Moved(Rec(s).cand, 15, shared) /\ Rec(s).cand \in Objects
    BY <1>2, <1>3
  <2> QED BY <2>1, MovedIs
<1>5. /\ t.request.cand.val = s.request.cand.val
      /\ Refines(s) => Source(t).val = Source(s).val /\ Refined(t).val = Refined(s).val
      /\ Recorded(s) => Rec(t).request.cand.val = Rec(s).request.cand.val /\ Rec(t).cand.val = Rec(s).cand.val
  BY <1>a, <1>b, <1>c, <1>d, <1>e
<1>6. shared => /\ t.request.cand = s.request.cand
                /\ Refines(s) => Source(t) = Source(s) /\ Refined(t) = Refined(s)
                /\ Recorded(s) => Rec(t).request.cand = Rec(s).request.cand /\ Rec(t).cand = Rec(s).cand
  BY <1>a, <1>b, <1>c, <1>d, <1>e
<1>7. ~shared => /\ t.request.cand.at = 11
                 /\ Refines(s) => Source(t).at = 12 /\ Refined(t).at = 13
                 /\ Recorded(s) => Rec(t).request.cand.at = q /\ Rec(t).cand.at = 15
  BY <1>a, <1>b, <1>c, <1>d, <1>e
<1>8. Recorded(t) /\ Rec(t).request.at = t.request.at => Rec(t).request = t.request
  <2> SUFFICES ASSUME Recorded(t), Rec(t).request.at = t.request.at PROVE Rec(t).request = t.request
    OBVIOUS
  <2>1. Rec(s).request.at = s.request.at
    BY <1>1, <1>2
  <2>2. Rec(s).request = s.request
    BY <1>0, <1>1, <2>1, CoherentIs
  <2>3. Rec(t).request.cand = t.request.cand /\ Rec(t).request.id = t.request.id
    BY <1>1, <1>2, <2>1, <2>2 DEF q
  <2>4. Rec(t).request \in Requested /\ t.request \in Requested
    BY <1>1, Shape
  <2> QED BY <2>3, <2>4 DEF Requested
<1>9. Coherent(t)
  <2>1. CASE shared
    <3>1. ObjectsOf(t) \subseteq ObjectsOf(s)
      BY <1>0, <1>1, <1>6, <2>1, ObjectsAre
    <3> QED BY <1>0, <1>1, <1>8, <3>1, FewerObjects
  <2>2. CASE ~shared
    <3>1. \A a, b \in ObjectsOf(t) : Same(a, b) => a = b
      <4>1. ObjectsOf(t) = {t.request.cand} \cup (IF Refines(t) THEN {Source(t), Refined(t)} ELSE {})
                          \cup (IF Recorded(t) THEN {Rec(t).cand, Rec(t).request.cand} ELSE {})
        BY <1>1, ObjectsAre
      <4>2. Recorded(t) /\ Rec(t).request.cand.at = 11 => Rec(t).request.cand = t.request.cand
        BY <1>1, <1>2, <1>7, <1>8, <2>2 DEF q
      <4>3. Recorded(t) => Rec(t).request.cand.at \in {11, 14}
        BY <1>1, <1>7, <2>2 DEF q
      <4> QED BY <1>1, <1>7, <2>2, <4>1, <4>2, <4>3 DEF Same
    <3> QED BY <1>1, <1>8, <3>1, CoherentIs
  <2> QED BY <2>1, <2>2
<1>10. Sound(t)
  BY <1>1, <1>2, <1>5, <1>9 DEF Sound, Alike
<1>11. Keeps(s, t)
  BY <1>1, <1>5 DEF Keeps, Alike
<1>12. ASSUME NEW w, shared \/ w = "scalar", Copied(w, t)
       PROVE  Copied(w, s)
  <2>1. Recorded(s) /\ Rec(t).cand.at # t.request.cand.at /\ ~(w = "scalar" /\ Rec(s).cand.val = s.request.cand.val)
    BY <1>1, <1>5, <1>12 DEF Copied
  <2>2. CASE shared
    BY <1>6, <2>1, <2>2 DEF Copied
  <2>3. CASE w = "scalar"
    <3>1. Rec(s).cand # s.request.cand
      BY <2>1, <2>3
    <3>2. Rec(s).cand.at # s.request.cand.at
      BY <1>0, <2>1, <3>1, ObjectsAre DEF Coherent, Same
    <3> QED BY <2>1, <3>2 DEF Copied
  <2> QED BY <1>12, <2>2, <2>3
<1>13. ASSUME NEW w, NEW v, Kept(w, s), ~Copied(v, t)
       PROVE  Kept(v, t)
  <2>1. Refines(t) => t.aligned = <<t.request.cand.at, Refined(t).at>>
    BY <1>1, <1>13 DEF Kept, AlignmentCompared, Refined
  <2>2. Refines(t) /\ Recorded(t) /\ Rec(t).request.at # t.request.at =>
          t.sourced = <<Rec(t).request.cand.at, Source(t).at>>
    BY <1>1, <1>2, <1>13 DEF Kept, SourceCompared, Source
  <2> QED BY <1>13, <2>1, <2>2 DEF Kept
<1> QED BY <1>1, <1>2, <1>5, <1>10, <1>11, <1>12, <1>13 DEF t, Alike

(* A success and the request it answers, the records of its own and the record
   it is told with, without the `==` of its class. *)

(* The success answers the request with its own candidate or with a refinement
   of it. *)
Matches(s, q) ==
  /\ s.request.id = q.id
  /\ \/ Alike(s.request.cand, q.cand)
     \/ Refines(s) /\ Alike(Source(s), q.cand) /\ Alike(s.request.cand, Refined(s))

(* It has a record for a request of its own. *)
Owned(s) ==
  /\ Recorded(s) /\ s.payload.kind = "custom"
  /\ IF Refines(s) THEN Rec(s).request.at = s.request.at /\ ~Alike(s.request.cand, Source(s))
     ELSE Rec(s).request.at # s.request.at

(* It has a record that reports on its candidate. *)
RecordFits(s) == Recorded(s) /\ (~Refines(s) => Alike(Rec(s).request.cand, s.request.cand))

(* Matching under the predicate of the space is Matches. *)
LEMMA MatchesIs ==
  ASSUME NEW s, NEW q
  PROVE  SuccessMatches(s, q) <=> Matches(s, q)
  BY DEF SuccessMatches, RequestsMatch, Matches, Equal, Alike, Refines, Source, Refined

(* A success and what it is turned into match the same requests. *)
LEMMA KeepsMatches ==
  ASSUME NEW s, NEW t, Keeps(s, t), NEW q
  PROVE  Matches(s, q) <=> Matches(t, q)
  BY DEF Keeps, Matches, Alike

(* Two conversions that keep the answer keep it together. *)
LEMMA KeepsTransitive ==
  ASSUME NEW s, NEW t, Keeps(s, t), NEW u, Keeps(t, u)
  PROVE  Keeps(s, u)
  BY DEF Keeps, Alike

(* No conversion keeps the answer. *)
LEMMA KeepsReflexive ==
  ASSUME NEW s
  PROVE  Keeps(s, s)
  BY DEF Keeps, Alike

(* A record fits whatever predicate the success compares with. *)
LEMMA RedressedFits ==
  ASSUME NEW s, NEW t, Redressed(s, t)
  PROVE  RecordFits(t) <=> RecordFits(s)
  BY DEF Redressed, RecordFits, Recorded, Refines, Rec, Alike

(* What AcceptedIsReported exempts as a copy is Copied. *)
LEMMA OwnCopyIs ==
  ASSUME NEW s, Sound(s)
  PROVE  OwnCopy(s) <=> Copied(raw, s)
<1>0. s \in Successful /\ Len(s.ref) <= 1 /\ Len(s.payload.record) <= 1
  BY SoundShape
<1>1. CASE Recorded(s)
  <2>1. ToSet(s.payload.record) = {Rec(s)}
    BY <1>0, <1>1, Shape
  <2> QED BY <1>1, <2>1 DEF OwnCopy, Copied, Same, Equal
<1>2. CASE ~Recorded(s)
  <2>1. ToSet(s.payload.record) = {}
    BY <1>0, <1>2, Shape
  <2> QED BY <1>2, <2>1 DEF OwnCopy, Copied
<1> QED BY <1>1, <1>2

(* What it exempts as a request of its own is Owned. *)
LEMMA OwnRequestIs ==
  ASSUME NEW s, Sound(s)
  PROVE  OwnRequest(s) <=> Owned(s)
<1>0. s \in Successful /\ Len(s.ref) <= 1 /\ Len(s.payload.record) <= 1
  BY SoundShape
<1>1. CASE Recorded(s)
  <2>1. ToSet(s.payload.record) = {Rec(s)}
    BY <1>0, <1>1, Shape
  <2> QED BY <1>1, <2>1 DEF OwnRequest, Owned, Equal, Alike, Refines, Source
<1>2. CASE ~Recorded(s)
  <2>1. ToSet(s.payload.record) = {}
    BY <1>0, <1>2, Shape
  <2> QED BY <1>2, <2>1 DEF OwnRequest, Owned
<1> QED BY <1>1, <1>2

(* What is accepted remembers all it needs. *)
LEMMA AcceptedKept ==
  ASSUME NEW s, Sound(s), Accepted(s)
  PROVE  Kept(raw, Remembered(s))
<1>0. s \in Successful /\ Len(s.ref) <= 1 /\ Len(s.payload.record) <= 1
  BY SoundShape
<1>1. s.equality \/ ~Copied(raw, s)
  <2> SUFFICES ASSUME Recorded(s), ~s.equality PROVE ~Copied(raw, s)
    BY DEF Copied
  <2>1. RecordAccepted(s, Rec(s))
    BY <1>0, AcceptedIs
  <2> QED BY <2>1 DEF RecordAccepted, Copied, Same, Equal
<1> QED BY <1>1, RememberedIs

(* What an accepted success is told as. *)

(* Being told does not change what a success answers. *)
LEMMA MaterializedKeeps ==
  ASSUME NEW s \in Successful
  PROVE  Materialized(s).request = s.request /\ Materialized(s).count = s.count /\ Materialized(s).ok = s.ok
         /\ Materialized(s).ref = s.ref
  BY DEF Materialized, WithPayload, Successful

(* A sound success that can be told is sound and accepted as it is told. *)
LEMMA MaterializedSound ==
  ASSUME NEW s, Sound(s), Kept(raw, s), Refines(s) => s.equality
  PROVE  LET t == Materialized(s)
         IN /\ Sound(t) /\ Keeps(s, t) /\ RecordFits(t) /\ Accepted(t) /\ SlotKept(s, t)
<1> DEFINE t == Materialized(s)
<1>0. s \in Successful /\ Coherent(s) /\ Len(s.ref) <= 1 /\ Len(s.payload.record) <= 1
  BY SoundShape
<1>1. Sound(t) /\ Keeps(s, t) /\ RecordFits(t) /\ (t.equality \/ Kept(raw, t))
  <2>1. CASE Recorded(s) /\ CanMaterialize(s, Rec(s))
    <3> DEFINE u == WithPayload(s, s.payload, FALSE)
    <3>1. t = u
      BY <2>1, MaterializedIs
    <3>2. u \in Successful /\ u.equality = s.equality /\ u.aligned = s.aligned /\ u.sourced = s.sourced
      BY <1>0 DEF WithPayload, Successful
    <3>3. Redressed(s, u)
      BY <1>0, <3>2 DEF Redressed, WithPayload, Successful
    <3> HIDE DEF u
    <3>4. Sound(u) /\ Keeps(s, u) /\ \A w : Copied(w, u) <=> Copied(w, s)
      BY <3>3, RedressedSound
    <3>5. Kept(raw, u)
      BY <3>2, <3>3, <3>4 DEF Kept, Redressed, Refines, Recorded, Rec, Source, Refined
    <3>6. RecordFits(s)
      <4> SUFFICES ASSUME ~Refines(s) PROVE Alike(Rec(s).request.cand, s.request.cand)
        BY <2>1 DEF RecordFits
      <4>1. Same(Rec(s).request.cand, s.request.cand)
        BY <2>1 DEF CanMaterialize, Refines
      <4>2. Rec(s).request.cand = s.request.cand
        BY <1>0, <2>1, <4>1, ObjectsAre DEF Coherent
      <4> QED BY <4>2 DEF Alike
    <3> QED BY <3>1, <3>3, <3>4, <3>5, <3>6, RedressedFits
  <2>2. CASE ~(Recorded(s) /\ CanMaterialize(s, Rec(s)))
    <3> DEFINE u == Recast(s, Projected(s))
    <3>1. t = u
      BY <2>2, MaterializedIs
    <3>2. /\ Sound(u) /\ Keeps(s, u) /\ Recorded(u)
          /\ u.request = s.request /\ u.ref = s.ref /\ u.equality = s.equality
          /\ u.aligned = s.aligned /\ Rec(u) = Projected(s) /\ \A w : ~Copied(w, u)
      BY RecastIs
    <3> HIDE DEF u
    <3>3. Refines(u) <=> Refines(s)
      BY <3>2 DEF Refines
    <3>4. u.equality \/ Kept(raw, u)
      BY <3>2, <3>3 DEF Kept
    <3>5. ~Refines(s) => Rec(u).request.cand = s.request.cand
      BY <3>2 DEF Projected, Refines
    <3>6. RecordFits(u)
      BY <3>2, <3>3, <3>5 DEF RecordFits, Alike
    <3> QED BY <3>1, <3>2, <3>4, <3>6
  <2> QED BY <2>1, <2>2
<1>2. t.request = s.request /\ t.count = s.count /\ t.ok = s.ok /\ t.ref = s.ref
  BY <1>0, MaterializedKeeps
<1> HIDE DEF t
<1>3. Accepted(t)
  BY <1>1, SoundIsAccepted
<1>4. Accepted(MadeAgain(t, TRUE))
  BY <1>1, MadeAgainIs, SoundIsAccepted
<1>5. SlotKept(s, t)
  BY <1>1, <1>2, <1>4 DEF SlotKept, RecordFits, Recorded
<1> QED BY <1>1, <1>3, <1>5 DEF t

(* Nothing but a record of its own keeps an accepted success from being told. *)
LEMMA MaterializableIs ==
  ASSUME NEW s, Sound(s), Refines(s) => s.equality, ~Owned(s), ~Copied(raw, s)
  PROVE  Materializable(s)
<1>0. s \in Successful /\ Coherent(s) /\ Len(s.ref) <= 1 /\ Len(s.payload.record) <= 1
  BY SoundShape
<1>1. CASE Recorded(s)
  <2> DEFINE r == Rec(s)
  <2>1. ToSet(s.payload.record) = {r}
    BY <1>0, <1>1, Shape
  <2>2. \/ Same(r.cand, s.request.cand)
        \/ raw = "scalar" /\ r.cand.val = s.request.cand.val
    BY <1>1 DEF Copied, Same
  <2>3. Compares(s.equality, r.cand, s.request.cand)
    BY <2>2 DEF Compares
  <2>4. Refines(s) => Compares(s.equality, r.request.cand, Source(s))
    BY DEF Compares
  <2>5. ASSUME s.payload.kind = "custom"
        PROVE  CanMaterialize(s, r)
    <3>1. Same(r.cand, s.request.cand) \/ Equal(s.equality, r.cand, s.request.cand)
      BY <1>1, <2>2 DEF Equal, Sound, Alike
    <3>2. r.request.id = s.request.id
      BY <1>1 DEF Sound
    <3>3. r.request.at = s.request.at => r.request = s.request
      BY <1>0, <1>1, CoherentIs
    <3>4. CASE Refines(s)
      <4>1. Alike(r.request.cand, Source(s))
        BY <1>1, <2>5, <3>3, <3>4 DEF Sound, Owned
      <4> QED BY <3>1, <3>2, <3>4, <4>1 DEF CanMaterialize, Equal, Alike, Refines, Source
    <3>5. CASE ~Refines(s)
      <4>1. r.request = s.request
        BY <1>1, <2>5, <3>3, <3>5 DEF Owned
      <4> QED BY <3>1, <3>2, <3>5, <4>1 DEF CanMaterialize, Same, Refines
    <3> QED BY <3>4, <3>5
  <2> HIDE DEF r
  <2> QED BY <2>1, <2>3, <2>4, <2>5 DEF Materializable, Refines, Source
<1>2. CASE ~Recorded(s)
  <2>1. ToSet(s.payload.record) = {}
    BY <1>0, <1>2, Shape
  <2> QED BY <2>1 DEF Materializable
<1> QED BY <1>1, <1>2

(* Sequences of attempts. *)

(* A sequence as a function. *)
LEMMA SequenceIs ==
  ASSUME NEW S, NEW q \in Seq(S)
  PROVE  /\ Len(q) \in Nat /\ DOMAIN q = 1..Len(q) /\ q \in [1..Len(q) -> S]
         /\ ToSet(q) = {q[i] : i \in 1..Len(q)}
         /\ q = << >> <=> Len(q) = 0
<1>1. Len(q) \in Nat /\ DOMAIN q = 1..Len(q) /\ q \in [1..Len(q) -> S]
  BY LenProperties
<1>2. q = << >> <=> Len(q) = 0
  BY EmptySeq
<1> QED BY <1>1, <1>2 DEF ToSet

(* The same costs, the same sum. *)
LEMMA SameCounts ==
  ASSUME NEW f, NEW g, DOMAIN f = DOMAIN g, \A i \in DOMAIN f : f[i].count = g[i].count
  PROVE  SumOf(f) = SumOf(g)
<1>1. [i \in DOMAIN f |-> f[i].count] = [i \in DOMAIN g |-> g[i].count]
  OBVIOUS
<1> QED BY <1>1 DEF SumOf

(* The same scores, the same frontier and the same number of dimensions. *)
LEMMA SameScores ==
  ASSUME NEW f, NEW g, DOMAIN f = DOMAIN g, \A i \in DOMAIN f : Score(f[i]) = Score(g[i])
  PROVE  /\ OneDimension(f) <=> OneDimension(g)
         /\ Nondominated(f) = Nondominated(g)
<1>1. {Len(Score(s)) : s \in ToSet(f)} = {Len(Score(s)) : s \in ToSet(g)}
  BY DEF ToSet
<1>2. {i \in DOMAIN f : \A j \in DOMAIN f : ~Dominates(Score(f[j]), Score(f[i]))}
        = {i \in DOMAIN g : \A j \in DOMAIN g : ~Dominates(Score(g[j]), Score(g[i]))}
  OBVIOUS
<1>3. [i \in DOMAIN f |-> i] = [i \in DOMAIN g |-> i]
  OBVIOUS
<1> QED BY <1>1, <1>2, <1>3 DEF OneDimension, Nondominated

(* The first of the best. *)
Leads(b, f) ==
  /\ f = << >> => b = 0
  /\ f # << >> => /\ b \in DOMAIN f
                  /\ \A j \in DOMAIN f : Score(f[b])[1] <= Score(f[j])[1]
                  /\ \A j \in 1 .. (b - 1) : Score(f[b])[1] < Score(f[j])[1]

(* The first of the least of finitely many numbers exists. *)
LEMMA FirstLeast ==
  ASSUME NEW n \in Nat, n # 0, NEW v, \A i \in 1..n : v[i] \in Int
  PROVE  \E i \in 1..n : (\A j \in 1..n : v[i] <= v[j]) /\ (\A j \in 1..(i - 1) : v[i] < v[j])
<1> DEFINE P(m, i) == (\A j \in 1..m : v[i] <= v[j]) /\ (\A j \in 1..(i - 1) : v[i] < v[j])
           M == {m \in Nat : m = 0 \/ m > n \/ \E i \in 1..m : P(m, i)}
<1>1. 0 \in M
  OBVIOUS
<1>2. ASSUME NEW m \in Nat, m \in M
      PROVE  m + 1 \in M
  <2>1. CASE m + 1 > n
    BY <2>1
  <2>2. CASE m = 0
    <3>1. P(1, 1)
      BY <1>2, <2>2
    <3> QED BY <2>2, <3>1
  <2>3. CASE m # 0 /\ m + 1 <= n
    <3>1. PICK i \in 1..m : P(m, i)
      BY <2>3, <1>2
    <3>2. CASE v[m + 1] < v[i]
      <4>1. P(m + 1, m + 1)
        BY <2>3, <3>1, <3>2
      <4> QED BY <4>1
    <3>3. CASE ~(v[m + 1] < v[i])
      <4>1. P(m + 1, i)
        BY <2>3, <3>1, <3>3
      <4> QED BY <4>1
    <3> QED BY <3>2, <3>3
  <2> QED BY <2>1, <2>2, <2>3
<1> HIDE DEF M
<1>3. \A m \in Nat : m \in M
  BY <1>1, <1>2, AllNaturals
<1>4. n \in M
  BY <1>3
<1> QED BY <1>4 DEF M

(* FirstBest is the first of the best. *)
LEMMA FirstBestLeads ==
  ASSUME NEW S, NEW f \in Seq(S), \A i \in DOMAIN f : Score(f[i])[1] \in Int
  PROVE  Leads(FirstBest(f), f)
<1> DEFINE n == Len(f)
           v == [i \in 1..n |-> Score(f[i])[1]]
<1>0. n \in Nat /\ DOMAIN f = 1..n /\ (f = << >> <=> n = 0)
  BY SequenceIs
<1>1. CASE f = << >>
  BY <1>1 DEF FirstBest, Leads
<1>2. CASE f # << >>
  <2>1. \E i \in DOMAIN f : /\ \A j \in DOMAIN f : Score(f[i])[1] <= Score(f[j])[1]
                            /\ \A j \in 1 .. (i - 1) : Score(f[i])[1] < Score(f[j])[1]
    <3>1. \A i \in 1..n : v[i] \in Int
      BY <1>0
    <3> HIDE DEF v, n
    <3>2. PICK i \in 1..n : (\A j \in 1..n : v[i] <= v[j]) /\ (\A j \in 1..(i - 1) : v[i] < v[j])
      BY <1>0, <1>2, <3>1, FirstLeast
    <3>3. \A j \in 1..n : v[j] = Score(f[j])[1]
      BY DEF v
    <3>4. \A j \in 1..(i - 1) : j \in 1..n
      BY <1>0
    <3> QED BY <1>0, <3>2, <3>3, <3>4
  <2>2. FirstBest(f) = CHOOSE i \in DOMAIN f :
         /\ \A j \in DOMAIN f : Score(f[i])[1] <= Score(f[j])[1]
         /\ \A j \in 1 .. (i - 1) : Score(f[i])[1] < Score(f[j])[1]
    BY <1>2 DEF FirstBest
  <2> QED BY <1>2, <2>1, <2>2, Zenon DEF Leads
<1> QED BY <1>1, <1>2

(* The same answers, the same best. *)
LEMMA SameLeads ==
  ASSUME NEW n \in Nat, NEW f, NEW g, DOMAIN f = 1..n, DOMAIN g = 1..n, NEW b, Leads(b, f),
         f = << >> <=> n = 0, g = << >> <=> n = 0, \A i \in 1..n : Score(f[i]) = Score(g[i])
  PROVE  Leads(b, g)
<1>1. CASE n = 0
  BY <1>1 DEF Leads
<1>2. CASE n # 0
  <2>1. b \in 1..n /\ \A j \in 1..(b - 1) : j \in 1..n
    BY <1>2 DEF Leads
  <2> QED BY <1>2, <2>1 DEF Leads
<1> QED BY <1>1, <1>2

(* A best answer that leads passes the test of the report. *)
LEMMA LeadsHolds ==
  ASSUME NEW rep, NEW n \in Nat, DOMAIN rep.successes = 1..n, rep.successes = << >> <=> n = 0,
         Leads(rep.best, rep.successes), \A i \in 1..n : Score(rep.successes[i])[1] \in Int
  PROVE  BestHolds(rep)
<1>1. (rep.best = 0) = (rep.successes = << >>)
  BY DEF Leads
<1>2. ASSUME rep.best # 0, NEW s \in ToSet(rep.successes)
      PROVE  Score(s)[1] >= Score(rep.successes[rep.best])[1]
  <2>1. rep.successes # << >> /\ rep.best \in 1..n
    BY <1>2 DEF Leads
  <2>2. PICK j \in 1..n : s = rep.successes[j]
    BY DEF ToSet
  <2> QED BY <2>1, <2>2 DEF Leads
<1> QED BY <1>1, <1>2 DEF BestHolds

(* The inductive invariant.  The raw equality of the candidates is a parameter
   `w` of its parts. *)
Attempted == Failed \cup Successful

(* The attempt is the one the evaluation of the request made. *)
Answers(w, a, e) ==
  IF e.made.ok THEN Sound(a) /\ Kept(w, a) /\ Keeps(e.made, a) /\ a.request.at = e.made.request.at
  ELSE a = e.made

(* The batch answers its requests in their order, or in the reverse of it. *)
Ordered(w, ex, sl) ==
  Len(sl) = Len(ex) /\ \A i \in 1..Len(ex) : Answers(w, sl[i], ex[i])
Backwards(w, ex, sl) ==
  Len(sl) = Len(ex) /\ \A i \in 1..Len(ex) : Answers(w, sl[i], ex[Len(ex) - i + 1])

(* Every success matches the request of its place. *)
Fitting(ex, sl) == \A i \in SuccessPlaces(sl) : Matches(sl[i], ex[i].request)

(* Reports of every kind. *)
Reports == [kind : {"report", "result", "surface"}, successes : Seq(Successful), failures : Seq(Attempted),
            count : Int, best : Nat, frontier : Seq(Nat)]

(* A report carries the successes in the order of their requests, and the
   failures. *)
Carried(sl, rp) ==
  /\ rp \in Reports /\ Len(rp.successes) = Cardinality(SuccessPlaces(sl))
  /\ \A k \in 1..Cardinality(SuccessPlaces(sl)) :
       Sound(rp.successes[k]) /\ Keeps(sl[PlaceAt(SuccessPlaces(sl), k)], rp.successes[k])
  /\ rp.failures = Failures(sl) /\ rp.count >= SumOf(sl)

(* Its summary is the one of the successes it carries. *)
Summed(rp) ==
  /\ rp.kind = "result" => Leads(rp.best, rp.successes)
  /\ rp.kind = "surface" => OneDimension(rp.successes) /\ rp.frontier = Nondominated(rp.successes)

(* What is carried was accepted, and holds no copy the batch did not hold. *)
Reported(w, sl, rp) ==
  /\ Carried(sl, rp) /\ Summed(rp)
  /\ \A k \in 1..Cardinality(SuccessPlaces(sl)) :
       /\ Kept(w, rp.successes[k])
       /\ Copied(w, rp.successes[k]) => Copied(w, sl[PlaceAt(SuccessPlaces(sl), k)])
       /\ rp.kind = "report" => RecordFits(rp.successes[k])

(* What a batch that is not reported had made its own way. *)
Forgivable(w, sl) ==
  (\E i \in SuccessPlaces(sl) : Owned(sl[i]) \/ Copied(w, sl[i])) \/ ~OneDimension(Successes(sl))

(* The parts together, stage by stage. *)
Good(w, ex, sl, st, rp) ==
  /\ w \in {"scalar", "owned"} /\ ex \in Batches
  /\ sl \in Seq(Attempted) /\ \A i \in SuccessPlaces(sl) : Sound(sl[i])
  /\ rp # NoReport => rp \in Reports /\ \A k \in DOMAIN rp.successes : Sound(rp.successes[k])
  /\ st \in {"asked", "made", "delivered", "accepted", "told"} => rp = NoReport
  /\ st = "asked" => sl = << >>
  /\ st = "made" => Ordered(w, ex, sl)
  /\ st = "delivered" => Ordered(w, ex, sl) \/ Backwards(w, ex, sl)
  /\ st \in {"accepted", "told", "reported", "surfaced"} => Ordered(w, ex, sl) /\ Fitting(ex, sl)
  /\ st = "accepted" => \A i \in SuccessPlaces(sl) : Refines(sl[i]) => sl[i].equality
  /\ st \in {"told", "reported", "surfaced"} => \A i \in SuccessPlaces(sl) : RecordFits(sl[i])
  /\ st \in {"reported", "surfaced"} => Reported(w, sl, rp)
  /\ st = "reported" => rp.kind = "report"
  /\ st = "broken" => Forgivable(w, sl)
  /\ st = "lost" => \E i \in SuccessPlaces(sl) : Copied(w, sl[i])

ArtifactsGood == Good(raw, exchange, slots, stage, report)

(* Attempts one by one. *)
LEMMA AttemptIs ==
  ASSUME NEW a \in Attempted
  PROVE  /\ a.ok \in BOOLEAN /\ a.count \in Int /\ a.request \in Requested
         /\ a.ok => a \in Successful
         /\ ~a.ok => a \in Failed
<1>1. CASE a \in Failed
  <2>1. a.ok = FALSE
    BY <1>1, Zenon DEF Failed
  <2>2. a.count \in Nat /\ a.request \in Requested
    BY <1>1 DEF Failed
  <2>3. ~a.ok /\ a.ok \in BOOLEAN
    BY <2>1, Zenon
  <2>4. a.count \in Int
    BY <2>2
  <2> QED BY <1>1, <2>2, <2>3, <2>4
<1>2. CASE a \in Successful
  <2>1. a.ok = TRUE /\ a.count \in Int /\ a.request \in Requested
    BY <1>2 DEF Successful
  <2> QED BY <1>2, <2>1
<1> QED BY <1>1, <1>2 DEF Attempted

(* What an exchange of Batches consists of. *)
LEMMA BatchIs ==
  ASSUME NEW ex \in Batches
  PROVE  /\ Len(ex) \in Nat /\ DOMAIN ex = 1..Len(ex)
         /\ \A i \in 1..Len(ex) :
              /\ ex[i].request \in Requested /\ ex[i].made \in Attempted
              /\ ex[i].made.request.id = ex[i].request.id
              /\ ex[i].made.ok => ex[i].made \in Successful /\ Coherent(ex[i].made) /\ NotYetCompared(ex[i].made)
         /\ \A i, j \in 1..Len(ex) :
              /\ ex[i].request.id = ex[j].request.id => i = j
              /\ ex[i].made.request.at = ex[j].made.request.at => i = j
<1> DEFINE E == [request : Requested, made : Attempted]
<1>1. ex \in Seq(E)
  BY ArtifactsAssumption DEF BatchesAssumption, Attempted
<1>2. Len(ex) \in Nat /\ DOMAIN ex = 1..Len(ex) /\ \A i \in 1..Len(ex) : ex[i] \in E
  <2> HIDE DEF E
  <2> QED BY <1>1, SequenceIs
<1>3. \A i, j \in DOMAIN ex :
       /\ ex[i].made.request.id = ex[i].request.id
       /\ ex[i].made.ok => Coherent(ex[i].made) /\ NotYetCompared(ex[i].made)
       /\ ex[i].request.id = ex[j].request.id => i = j
       /\ ex[i].made.request.at = ex[j].made.request.at => ex[i].made.request = ex[j].made.request
  BY ArtifactsAssumption DEF BatchesAssumption
<1>4. \A i \in 1..Len(ex) : ex[i].made \in Attempted /\ ex[i].request \in Requested
  BY <1>2
<1>5. \A i \in 1..Len(ex) : ex[i].made.ok => ex[i].made \in Successful
  BY <1>4, AttemptIs
<1>6. \A i, j \in 1..Len(ex) : ex[i].made.request.at = ex[j].made.request.at => i = j
  <2> TAKE i, j \in 1..Len(ex)
  <2> HAVE ex[i].made.request.at = ex[j].made.request.at
  <2>1. ex[i].made.request = ex[j].made.request
    BY <1>2, <1>3
  <2>2. ex[i].request.id = ex[j].request.id
    BY <1>2, <1>3, <2>1
  <2> QED BY <1>2, <1>3, <2>2
<1> QED BY <1>2, <1>3, <1>4, <1>5, <1>6

(* What an answer is known to be. *)
LEMMA AnswersIs ==
  ASSUME NEW ex \in Batches, NEW j \in 1..Len(ex), NEW w, NEW a, Answers(w, a, ex[j])
  PROVE  /\ a.ok \in BOOLEAN /\ (a.ok <=> ex[j].made.ok)
         /\ a.ok => Sound(a) /\ Kept(w, a) /\ Keeps(ex[j].made, a)
         /\ a \in Attempted /\ a.count = ex[j].made.count
         /\ a.request.id = ex[j].request.id /\ a.request.at = ex[j].made.request.at
<1>1. ex[j].made \in Attempted /\ ex[j].made.request.id = ex[j].request.id /\ ex[j].made.ok \in BOOLEAN
  BY BatchIs, AttemptIs
<1>2. CASE ex[j].made.ok
  <2>1. Sound(a) /\ Kept(w, a) /\ Keeps(ex[j].made, a) /\ a.request.at = ex[j].made.request.at
    BY <1>2 DEF Answers
  <2>2. a \in Successful
    BY <2>1 DEF Sound
  <2> QED BY <1>1, <1>2, <2>1, <2>2 DEF Keeps, Attempted
<1>3. CASE ~ex[j].made.ok
  BY <1>1, <1>3 DEF Answers
<1> QED BY <1>1, <1>2, <1>3

(* The same answer, after a conversion that keeps it. *)
LEMMA AnswersKept ==
  ASSUME NEW ex \in Batches, NEW j \in 1..Len(ex), NEW w, NEW a, Answers(w, a, ex[j]), a.ok,
         NEW v, NEW b, Sound(b), Kept(v, b), Keeps(a, b), b.request.at = a.request.at
  PROVE  Answers(v, b, ex[j])
<1>1. ex[j].made.ok /\ Keeps(ex[j].made, a) /\ a.request.at = ex[j].made.request.at
  BY AnswersIs
<1>2. Keeps(ex[j].made, b)
  BY <1>1, KeepsTransitive
<1> QED BY <1>1, <1>2 DEF Answers

(* A fresh attempt answers its request, once it remembers its comparisons. *)
LEMMA MadeAnswers ==
  ASSUME NEW ex \in Batches, NEW j \in 1..Len(ex), ex[j].made.ok, Accepted(ex[j].made)
  PROVE  Answers(raw, Remembered(ex[j].made), ex[j])
<1> DEFINE m == ex[j].made
<1>1. m \in Successful /\ Coherent(m) /\ NotYetCompared(m)
  BY BatchIs
<1>2. Sound(m)
  BY <1>1, MadeSound
<1>3. Redressed(m, Remembered(m)) /\ Sound(Remembered(m)) /\ Keeps(m, Remembered(m))
  BY <1>2, RememberedIs
<1>4. Kept(raw, Remembered(m))
  BY <1>2, AcceptedKept
<1> QED BY <1>3, <1>4 DEF Answers, Redressed

(* An attempt that arrives. *)
Arrived(a, shared) == IF a.ok THEN Restored(a, shared) ELSE a

(* An answer that arrives from a worker is the same answer. *)
LEMMA ArrivedIs ==
  ASSUME NEW ex \in Batches, NEW j \in 1..Len(ex), NEW a, Answers(raw, a, ex[j]), NEW shared \in BOOLEAN
  PROVE  LET b == Arrived(a, shared)
         IN /\ b \in Attempted /\ b.ok = a.ok
            /\ b.ok => Sound(b) /\ (~Copied(raw, b) => Accepted(b))
            /\ b.ok /\ Accepted(b) => Answers(raw, Remembered(b), ex[j])
            /\ ~b.ok => Answers(raw, b, ex[j])
<1> DEFINE b == Arrived(a, shared)
<1>1. /\ a.ok \in BOOLEAN /\ a \in Attempted
      /\ a.ok => Sound(a) /\ Kept(raw, a)
  BY AnswersIs
<1>2. CASE ~a.ok
  BY <1>1, <1>2 DEF Arrived
<1>3. CASE a.ok
  <2>1. b = Restored(a, shared)
    BY <1>3 DEF Arrived
  <2> HIDE DEF b
  <2>2. /\ Sound(b) /\ Keeps(a, b) /\ b.request.at = a.request.at
        /\ ~Copied(raw, b) => Kept(raw, b)
    BY <1>1, <1>3, <2>1, RestoredIs
  <2>3. b \in Attempted /\ b.ok = a.ok
    BY <2>2, SoundShape DEF Attempted, Keeps
  <2>4. ~Copied(raw, b) => Accepted(b)
    BY <2>2, SoundIsAccepted
  <2>5. ASSUME Accepted(b)
        PROVE  Answers(raw, Remembered(b), ex[j])
    <3>1. Redressed(b, Remembered(b)) /\ Sound(Remembered(b)) /\ Keeps(b, Remembered(b))
      BY <2>2, RememberedIs
    <3>2. Kept(raw, Remembered(b))
      BY <2>2, <2>5, AcceptedKept
    <3>3. Keeps(a, Remembered(b))
      BY <2>2, <3>1, KeepsTransitive
    <3>4. Remembered(b).request.at = a.request.at
      BY <2>2, <3>1 DEF Redressed
    <3> QED BY <1>3, <3>1, <3>2, <3>3, <3>4, AnswersKept
  <2> QED BY <1>3, <2>2, <2>3, <2>4, <2>5 DEF b
<1> QED BY <1>1, <1>2, <1>3

(* An attempt that is bound to the predicate of the space, or is not. *)
BoundTo(a, bind) == IF a.ok /\ bind THEN Rebound(a) ELSE a

(* Bound to the predicate it is the same answer. *)
LEMMA BoundToIs ==
  ASSUME NEW ex \in Batches, NEW j \in 1..Len(ex), NEW a, Answers(raw, a, ex[j]), NEW bind \in BOOLEAN,
         a.ok => Matches(a, ex[j].request), a.ok /\ ~bind /\ Refines(a) => a.equality
  PROVE  LET b == BoundTo(a, bind)
         IN /\ b \in Attempted /\ b.ok = a.ok
            /\ b.ok => /\ Sound(b) /\ Accepted(b) /\ Answers(raw, Remembered(b), ex[j])
                       /\ Matches(Remembered(b), ex[j].request)
                       /\ Refines(Remembered(b)) => Remembered(b).equality
            /\ ~b.ok => Answers(raw, b, ex[j])
<1> DEFINE b == BoundTo(a, bind)
<1>1. /\ a.ok \in BOOLEAN /\ a \in Attempted
      /\ a.ok => Sound(a) /\ Kept(raw, a)
  BY AnswersIs
<1>2. CASE ~a.ok
  BY <1>1, <1>2 DEF BoundTo
<1>3. CASE a.ok
  <2>1. b = IF bind THEN Rebound(a) ELSE a
    BY <1>3 DEF BoundTo
  <2> HIDE DEF b
  <2>2. /\ Sound(b) /\ Keeps(a, b) /\ b.request = a.request
        /\ b.equality \/ Kept(raw, b)
        /\ Refines(b) => b.equality
    <3>1. CASE bind
      BY <1>1, <1>3, <2>1, <3>1, ReboundIs DEF Redressed
    <3>2. CASE ~bind
      BY <1>1, <1>3, <2>1, <3>2, KeepsReflexive
    <3> QED BY <3>1, <3>2
  <2>3. b \in Attempted /\ b.ok = a.ok
    BY <2>2, SoundShape DEF Attempted, Keeps
  <2>4. Accepted(b)
    BY <2>2, SoundIsAccepted
  <2>5. /\ Redressed(b, Remembered(b)) /\ Sound(Remembered(b)) /\ Keeps(b, Remembered(b))
        /\ Remembered(b).equality = b.equality
    BY <2>2, RememberedIs
  <2>6. Kept(raw, Remembered(b))
    BY <2>2, <2>4, AcceptedKept
  <2>7. Keeps(a, Remembered(b))
    BY <2>2, <2>5, KeepsTransitive
  <2>8. Answers(raw, Remembered(b), ex[j])
    BY <1>3, <2>2, <2>5, <2>6, <2>7, AnswersKept DEF Redressed
  <2>9. Matches(Remembered(b), ex[j].request)
    BY <1>3, <2>7, KeepsMatches
  <2>10. Refines(Remembered(b)) => Remembered(b).equality
    BY <2>2, <2>5 DEF Keeps
  <2> QED BY <1>3, <2>2, <2>3, <2>4, <2>8, <2>9, <2>10 DEF b
<1> QED BY <1>1, <1>2, <1>3

(* An attempt that is told. *)
Retold(a) == IF a.ok THEN Materialized(a) ELSE a

(* As it is told it is the same answer. *)
LEMMA RetoldIs ==
  ASSUME NEW ex \in Batches, NEW j \in 1..Len(ex), NEW a, Answers(raw, a, ex[j]),
         a.ok => Matches(a, ex[j].request) /\ (Refines(a) => a.equality)
  PROVE  LET b == Retold(a)
         IN /\ b \in Attempted /\ b.ok = a.ok /\ SlotKept(a, b)
            /\ b.ok => /\ Sound(b) /\ Accepted(b) /\ Answers(raw, Remembered(b), ex[j])
                       /\ Matches(Remembered(b), ex[j].request) /\ RecordFits(Remembered(b))
            /\ ~b.ok => Answers(raw, b, ex[j])
<1> DEFINE b == Retold(a)
<1>1. /\ a.ok \in BOOLEAN /\ a \in Attempted
      /\ a.ok => Sound(a) /\ Kept(raw, a)
  BY AnswersIs
<1>2. CASE ~a.ok
  BY <1>1, <1>2 DEF Retold, SlotKept
<1>3. CASE a.ok
  <2>1. b = Materialized(a)
    BY <1>3 DEF Retold
  <2> HIDE DEF b
  <2>2. Sound(b) /\ Keeps(a, b) /\ RecordFits(b) /\ Accepted(b) /\ SlotKept(a, b)
    BY <1>1, <1>3, <2>1, MaterializedSound
  <2>3. b \in Attempted /\ b.ok = a.ok /\ b.request.at = a.request.at
    BY <2>2, SoundShape DEF Attempted, Keeps, SlotKept
  <2>5. Redressed(b, Remembered(b)) /\ Sound(Remembered(b)) /\ Keeps(b, Remembered(b))
    BY <2>2, RememberedIs
  <2>6. Kept(raw, Remembered(b))
    BY <2>2, AcceptedKept
  <2>7. Keeps(a, Remembered(b))
    BY <2>2, <2>5, KeepsTransitive
  <2>8. Answers(raw, Remembered(b), ex[j])
    BY <1>3, <2>3, <2>5, <2>6, <2>7, AnswersKept DEF Redressed
  <2>9. Matches(Remembered(b), ex[j].request)
    BY <1>3, <2>7, KeepsMatches
  <2>10. RecordFits(Remembered(b))
    BY <2>2, <2>5, RedressedFits
  <2> QED BY <1>3, <2>2, <2>3, <2>8, <2>9, <2>10 DEF b
<1> QED BY <1>1, <1>2, <1>3

(* Attempts in sequence. *)

(* The successes of a batch, their places and their number. *)
LEMMA SuccessesAre ==
  ASSUME NEW sl \in Seq(Attempted)
  PROVE  /\ Len(sl) \in Nat /\ DOMAIN sl = 1..Len(sl)
         /\ SuccessPlaces(sl) \in SUBSET (1..Len(sl)) /\ Cardinality(SuccessPlaces(sl)) \in Nat
         /\ \A i \in 1..Len(sl) : sl[i] \in Attempted /\ (i \in SuccessPlaces(sl) <=> sl[i].ok)
         /\ Successes(sl) \in Seq(Successful) /\ Len(Successes(sl)) = Cardinality(SuccessPlaces(sl))
         /\ \A k \in 1..Cardinality(SuccessPlaces(sl)) :
              /\ PlaceAt(SuccessPlaces(sl), k) \in SuccessPlaces(sl)
              /\ Successes(sl)[k] = sl[PlaceAt(SuccessPlaces(sl), k)]
         /\ ToSet(Successes(sl)) = {sl[i] : i \in SuccessPlaces(sl)}
         /\ Failures(sl) \in Seq(Attempted)
<1> DEFINE P == SuccessPlaces(sl)
           d == Len(sl)
<1>1. d \in Nat /\ DOMAIN sl = 1..d /\ \A i \in 1..d : sl[i] \in Attempted
  BY SequenceIs
<1>2. P \in SUBSET (1..d) /\ \A i \in 1..d : i \in P <=> sl[i].ok
  BY <1>1 DEF SuccessPlaces
<1>3. \A i \in P : sl[i] \in Successful
  BY <1>1, <1>2, AttemptIs
<1> HIDE DEF P, d
<1>4. Cardinality(P) \in Nat /\ \A k \in 1..Cardinality(P) : PlaceAt(P, k) \in P
  BY <1>1, <1>2, Places
<1>a. PickedAt(P, sl) \in Seq(Successful) /\ Len(PickedAt(P, sl)) = Cardinality(P)
  BY <1>1, <1>2, <1>3, PickedAre
<1>b. \A k \in 1..Cardinality(P) : PickedAt(P, sl)[k] = sl[PlaceAt(P, k)]
  BY DEF PickedAt
<1>c. ToSet(PickedAt(P, sl)) = {sl[i] : i \in P}
  <2>1. \A i \in P : \E k \in 1..Cardinality(P) : PlaceAt(P, k) = i
    BY <1>1, <1>2, Places
  <2>2. DOMAIN PickedAt(P, sl) = 1..Cardinality(P)
    BY DEF PickedAt
  <2> QED BY <1>b, <1>4, <2>1, <2>2 DEF ToSet
<1>5. /\ PickedAt(P, sl) \in Seq(Successful) /\ Len(PickedAt(P, sl)) = Cardinality(P)
      /\ \A k \in 1..Cardinality(P) : PickedAt(P, sl)[k] = sl[PlaceAt(P, k)]
      /\ ToSet(PickedAt(P, sl)) = {sl[i] : i \in P}
  BY <1>a, <1>b, <1>c
<1>6. (1..d) \ P \in SUBSET (1..d) /\ \A i \in (1..d) \ P : sl[i] \in Attempted
  BY <1>1
<1>7. PickedAt((1..d) \ P, sl) \in Seq(Attempted)
  BY <1>1, <1>6, PickedAre
<1>8. Successes(sl) = PickedAt(P, sl) /\ Failures(sl) = PickedAt((1..d) \ P, sl)
  BY <1>1 DEF Successes, Failures, P
<1> QED BY <1>1, <1>2, <1>4, <1>5, <1>7, <1>8 DEF P, d

(* Every success of the batch is accepted. *)
LEMMA AllAcceptedIs ==
  ASSUME NEW q
  PROVE  AllAccepted(q) <=> \A i \in DOMAIN q : q[i].ok => Accepted(q[i])
  BY DEF AllAccepted, ToSet

(* What is remembered of attempts that answer, in whatever order they are. *)
LEMMA RememberedAttempts ==
  ASSUME NEW ex \in Batches, NEW n \in Nat, NEW order \in [1..n -> 1..Len(ex)],
         NEW q, DOMAIN q = 1..n,
         \A i \in 1..n : /\ q[i] \in Attempted
                         /\ q[i].ok => Answers(raw, Remembered(q[i]), ex[order[i]])
                         /\ ~q[i].ok => Answers(raw, q[i], ex[order[i]])
  PROVE  LET r == AllRemembered(q)
         IN /\ r \in Seq(Attempted) /\ Len(r) = n
            /\ \A i \in 1..n : /\ Answers(raw, r[i], ex[order[i]]) /\ (r[i].ok <=> q[i].ok)
                               /\ r[i] = IF q[i].ok THEN Remembered(q[i]) ELSE q[i]
            /\ \A i \in SuccessPlaces(r) : i \in 1..n /\ q[i].ok /\ Sound(r[i])
<1> DEFINE r == AllRemembered(q)
<1>1. r = [i \in 1..n |-> IF q[i].ok THEN Remembered(q[i]) ELSE q[i]]
  BY DEF AllRemembered
<1> HIDE DEF r
<1>2. ASSUME NEW i \in 1..n
      PROVE  Answers(raw, r[i], ex[order[i]]) /\ r[i] \in Attempted /\ (r[i].ok => Sound(r[i])) /\ (r[i].ok <=> q[i].ok)
  <2>1. Answers(raw, r[i], ex[order[i]])
    BY <1>1
  <2>2. order[i] \in 1..Len(ex)
    OBVIOUS
  <2>3. r[i] \in Attempted /\ (r[i].ok => Sound(r[i])) /\ r[i].ok \in BOOLEAN
    BY <2>1, <2>2, AnswersIs
  <2>4. CASE q[i].ok
    <3>0. q[i] \in Successful
      BY <2>4, AttemptIs
    <3>1. r[i].ok = q[i].ok
      BY <1>1, <2>4, <3>0, Zenon DEF Remembered, Successful
    <3> QED BY <2>1, <2>3, <2>4, <3>1
  <2>5. CASE ~q[i].ok
    BY <1>1, <2>1, <2>3, <2>5
  <2> QED BY <2>4, <2>5
<1>3. r \in [1..n -> Attempted]
  BY <1>1, <1>2
<1>4. r \in Seq(Attempted) /\ Len(r) = n /\ DOMAIN r = 1..n
  BY <1>3, LenIs
<1>5. \A i \in SuccessPlaces(r) : i \in 1..n /\ q[i].ok /\ Sound(r[i])
  BY <1>2, <1>4 DEF SuccessPlaces
<1> QED BY <1>1, <1>2, <1>4, <1>5 DEF r

(* Answers in the order of the requests, remembered one by one, are in that
   order. *)
LEMMA OrderedAttempts ==
  ASSUME NEW ex \in Batches, NEW q, DOMAIN q = 1..Len(ex),
         \A i \in 1..Len(ex) : /\ q[i] \in Attempted
                               /\ q[i].ok => Answers(raw, Remembered(q[i]), ex[i])
                               /\ ~q[i].ok => Answers(raw, q[i], ex[i])
  PROVE  LET r == AllRemembered(q)
         IN /\ r \in Seq(Attempted) /\ Len(r) = Len(ex) /\ Ordered(raw, ex, r)
            /\ \A i \in 1..Len(ex) : r[i] = IF q[i].ok THEN Remembered(q[i]) ELSE q[i]
            /\ \A i \in SuccessPlaces(r) : i \in 1..Len(ex) /\ q[i].ok /\ Sound(r[i])
<1> DEFINE n == Len(ex)
           order == [i \in 1..n |-> i]
<1>1. n \in Nat /\ order \in [1..n -> 1..n] /\ \A i \in 1..n : order[i] = i
  BY BatchIs
<1> HIDE DEF order
<1>2. \A i \in 1..n : /\ q[i] \in Attempted
                      /\ q[i].ok => Answers(raw, Remembered(q[i]), ex[order[i]])
                      /\ ~q[i].ok => Answers(raw, q[i], ex[order[i]])
  BY <1>1
<1> DEFINE r == AllRemembered(q)
<1>3. /\ r \in Seq(Attempted) /\ Len(r) = n
      /\ \A i \in 1..n : /\ Answers(raw, r[i], ex[order[i]]) /\ (r[i].ok <=> q[i].ok)
                         /\ r[i] = IF q[i].ok THEN Remembered(q[i]) ELSE q[i]
      /\ \A i \in SuccessPlaces(r) : i \in 1..n /\ q[i].ok /\ Sound(r[i])
  BY <1>1, <1>2, RememberedAttempts
<1> HIDE DEF r
<1>4. Ordered(raw, ex, r)
  BY <1>1, <1>3 DEF Ordered
<1> QED BY <1>3, <1>4 DEF r

(* Evaluate keeps the invariant: a worker makes the attempts of the batch. *)
LEMMA GoodEvaluate ==
  ASSUME ArtifactsGood, Evaluate
  PROVE  ArtifactsGood'
<1> DEFINE made == [i \in DOMAIN exchange |-> exchange[i].made]
           n == Len(exchange)
<1>1. /\ raw \in {"scalar", "owned"} /\ exchange \in Batches /\ slots = << >> /\ report = NoReport
      /\ stage = "asked" /\ raw' = raw /\ exchange' = exchange /\ report' = report
      /\ slots \in Seq(Attempted) /\ \A i \in SuccessPlaces(slots) : Sound(slots[i])
  BY DEF ArtifactsGood, Good, Evaluate
<1>2. CASE ~AllAccepted(made)
  <2>1. slots' = slots /\ stage' = "refused"
    BY <1>2 DEF Evaluate
  <2> QED BY <1>1, <2>1 DEF ArtifactsGood, Good
<1>3. CASE AllAccepted(made)
  <2> DEFINE r == AllRemembered(made)
  <2>1. slots' = r /\ stage' = "made"
    BY <1>3 DEF Evaluate
  <2>2. /\ DOMAIN exchange = 1..n /\ n \in Nat /\ DOMAIN made = 1..n
        /\ \A i \in 1..n : made[i] = exchange[i].made /\ made[i] \in Attempted
    BY <1>1, BatchIs
  <2> HIDE DEF made
  <2>3. ASSUME NEW i \in 1..n
        PROVE  /\ made[i].ok => Answers(raw, Remembered(made[i]), exchange[i])
               /\ ~made[i].ok => Answers(raw, made[i], exchange[i])
    <3>1. CASE made[i].ok
      <4>1. Accepted(made[i])
        BY <1>3, <2>2, <3>1, AllAcceptedIs
      <4> QED BY <1>1, <2>2, <3>1, <4>1, MadeAnswers
    <3>2. CASE ~made[i].ok
      BY <2>2, <3>2 DEF Answers
    <3> QED BY <3>1, <3>2
  <2>4. /\ r \in Seq(Attempted) /\ Ordered(raw, exchange, r)
        /\ \A i \in SuccessPlaces(r) : Sound(r[i])
    BY <1>1, <2>2, <2>3, OrderedAttempts
  <2> HIDE DEF r
  <2> QED BY <1>1, <2>1, <2>4 DEF ArtifactsGood, Good
<1> QED BY <1>2, <1>3

(* The sequence the other way round. *)
LEMMA ReversedIs ==
  ASSUME NEW n \in Nat, NEW q \in Seq(Attempted), Len(q) = n
  PROVE  /\ Reverse(q) \in [1..n -> Attempted]
         /\ \A i \in 1..n : n - i + 1 \in 1..n /\ Reverse(q)[i] = q[n - i + 1]
<1>1. \A i \in 1..n : q[i] \in Attempted
  BY SequenceIs
<1>2. \A i \in 1..n : n - i + 1 \in 1..n
  OBVIOUS
<1> QED BY <1>1, <1>2 DEF Reverse

(* Deliver keeps it: the attempts are pickled, and may arrive in another order. *)
LEMMA GoodDeliver ==
  ASSUME ArtifactsGood, Deliver
  PROVE  ArtifactsGood'
<1> DEFINE n == Len(exchange)
<1>1. /\ raw \in {"scalar", "owned"} /\ exchange \in Batches /\ report = NoReport
      /\ stage = "made" /\ raw' = raw /\ exchange' = exchange /\ report' = report
      /\ slots \in Seq(Attempted) /\ Ordered(raw, exchange, slots)
  BY DEF ArtifactsGood, Good, Deliver
<1>2. PICK shared \in SharedOptions, sent \in {slots, Reverse(slots)} :
        LET arrived == RestoredAll(sent, shared)
        IN IF AllAccepted(arrived) THEN slots' = AllRemembered(arrived) /\ stage' = "delivered"
           ELSE slots' = arrived /\ stage' = "lost"
  BY DEF Deliver
<1>3. shared \in BOOLEAN
  BY DEF SharedOptions
<1>4. n \in Nat /\ Len(slots) = n /\ DOMAIN slots = 1..n /\ \A i \in 1..n : slots[i] \in Attempted
  BY <1>1, BatchIs, SequenceIs DEF Ordered
<1>5. PICK order \in [1..n -> 1..n] :
        /\ DOMAIN sent = 1..n /\ \A i \in 1..n : sent[i] = slots[order[i]]
        /\ (\A i \in 1..n : order[i] = i) \/ (\A i \in 1..n : order[i] = n - i + 1)
  <2>1. CASE sent = slots
    <3> DEFINE order == [i \in 1..n |-> i]
    <3>1. order \in [1..n -> 1..n] /\ \A i \in 1..n : order[i] = i
      OBVIOUS
    <3> HIDE DEF order
    <3> QED BY <1>4, <2>1, <3>1
  <2>2. CASE sent = Reverse(slots)
    <3> DEFINE order == [i \in 1..n |-> n - i + 1]
    <3>0. \A i \in 1..n : n - i + 1 \in 1..n
      BY <1>4
    <3>1. order \in [1..n -> 1..n] /\ \A i \in 1..n : order[i] = n - i + 1
      BY <3>0
    <3>2. DOMAIN sent = 1..n /\ \A i \in 1..n : sent[i] = slots[n - i + 1]
      BY <1>1, <1>4, <2>2, ReversedIs
    <3> HIDE DEF order
    <3> QED BY <3>1, <3>2
  <2> QED BY <2>1, <2>2
<1>6. \A i \in 1..n : Answers(raw, sent[i], exchange[order[i]])
  BY <1>1, <1>5 DEF Ordered
<1> DEFINE arrived == RestoredAll(sent, shared)
           r == AllRemembered(arrived)
<1>7. DOMAIN arrived = 1..n /\ \A i \in 1..n : arrived[i] = Arrived(sent[i], shared)
  BY <1>5 DEF RestoredAll, Arrived
<1>8. IF AllAccepted(arrived) THEN slots' = r /\ stage' = "delivered" ELSE slots' = arrived /\ stage' = "lost"
  BY <1>2
<1> HIDE DEF arrived
<1>9. ASSUME NEW i \in 1..n
      PROVE  /\ arrived[i] \in Attempted
             /\ arrived[i].ok => Sound(arrived[i]) /\ (~Copied(raw, arrived[i]) => Accepted(arrived[i]))
             /\ arrived[i].ok /\ Accepted(arrived[i]) => Answers(raw, Remembered(arrived[i]), exchange[order[i]])
             /\ ~arrived[i].ok => Answers(raw, arrived[i], exchange[order[i]])
  <2>1. order[i] \in 1..n /\ Answers(raw, sent[i], exchange[order[i]])
    BY <1>6
  <2> QED BY <1>1, <1>3, <1>7, <2>1, ArrivedIs
<1>10. CASE AllAccepted(arrived)
  <2>1. \A i \in 1..n : arrived[i].ok => Accepted(arrived[i])
    BY <1>7, <1>10, AllAcceptedIs
  <2>2. \A i \in 1..n : /\ arrived[i] \in Attempted
                        /\ arrived[i].ok => Answers(raw, Remembered(arrived[i]), exchange[order[i]])
                        /\ ~arrived[i].ok => Answers(raw, arrived[i], exchange[order[i]])
    BY <1>9, <2>1
  <2>0. order \in [1..n -> 1..Len(exchange)]
    OBVIOUS
  <2>a. n \in Nat /\ exchange \in Batches /\ DOMAIN arrived = 1..n
    BY <1>1, <1>4, <1>7
  <2> HIDE DEF n
  <2>b. /\ r \in Seq(Attempted) /\ Len(r) = n
        /\ \A i \in 1..n : /\ Answers(raw, r[i], exchange[order[i]]) /\ (r[i].ok <=> arrived[i].ok)
                           /\ r[i] = IF arrived[i].ok THEN Remembered(arrived[i]) ELSE arrived[i]
        /\ \A i \in SuccessPlaces(r) : i \in 1..n /\ arrived[i].ok /\ Sound(r[i])
    BY <2>a, <2>0, <2>2, RememberedAttempts
  <2> HIDE DEF r
  <2>3. /\ r \in Seq(Attempted) /\ Len(r) = n
        /\ \A i \in 1..n : Answers(raw, r[i], exchange[order[i]])
        /\ \A i \in SuccessPlaces(r) : Sound(r[i])
    BY <2>b
  <2>4. Ordered(raw, exchange, r) \/ Backwards(raw, exchange, r)
    BY <1>5, <2>3 DEF Ordered, Backwards, n
  <2>5. slots' = r /\ stage' = "delivered"
    BY <1>8, <1>10
  <2> QED BY <1>1, <2>3, <2>4, <2>5 DEF ArtifactsGood, Good
<1>11. CASE ~AllAccepted(arrived)
  <2>1. arrived \in Seq(Attempted) /\ \A i \in SuccessPlaces(arrived) : i \in 1..n /\ arrived[i].ok /\ Sound(arrived[i])
    <3>1. arrived \in [1..n -> Attempted]
      <4>1. arrived = [i \in DOMAIN arrived |-> arrived[i]]
        BY DEF arrived, RestoredAll
      <4> QED BY <1>7, <1>9, <4>1
    <3> QED BY <1>4, <1>7, <1>9, <3>1, LenIs DEF SuccessPlaces
  <2>2. PICK i \in 1..n : arrived[i].ok /\ ~Accepted(arrived[i])
    BY <1>7, <1>11, AllAcceptedIs
  <2>3. i \in SuccessPlaces(arrived) /\ Copied(raw, arrived[i])
    BY <1>7, <1>9, <2>2 DEF SuccessPlaces
  <2> QED BY <1>1, <1>8, <1>11, <2>1, <2>3 DEF ArtifactsGood, Good
<1> QED BY <1>10, <1>11

(* DeliverInProcess keeps it: the attempts are passed on as they are. *)
LEMMA GoodDeliverInProcess ==
  ASSUME ArtifactsGood, DeliverInProcess
  PROVE  ArtifactsGood'
  BY DEF ArtifactsGood, Good, DeliverInProcess

(* An answer bears the number of its request. *)
LEMMA AnswersNumbers ==
  ASSUME NEW ex \in Batches, NEW j \in 1..Len(ex), NEW w, NEW a, Answers(w, a, ex[j])
  PROVE  a.request.id = ex[j].request.id /\ a.request.at = ex[j].made.request.at
<1>1. ex[j].made.request.id = ex[j].request.id
  BY BatchIs
<1>2. CASE ex[j].made.ok
  BY <1>1, <1>2 DEF Answers, Keeps
<1>3. CASE ~ex[j].made.ok
  BY <1>1, <1>3 DEF Answers
<1> QED BY <1>2, <1>3

(* Batches are aligned only in the order of their requests. *)
LEMMA AlignedIsOrdered ==
  ASSUME exchange \in Batches, NEW sl \in Seq(Attempted), AlignedWith(sl, RequestsSent),
         Ordered(raw, exchange, sl) \/ Backwards(raw, exchange, sl)
  PROVE  Ordered(raw, exchange, sl) /\ Fitting(exchange, sl)
<1> DEFINE n == Len(exchange)
<1>1. /\ n \in Nat /\ DOMAIN exchange = 1..n /\ Len(sl) = n
      /\ \A i, j \in 1..n : exchange[i].request.id = exchange[j].request.id => i = j
  BY BatchIs DEF Ordered, Backwards
<1>2. \A i \in 1..n : sl[i] \in Attempted /\ (i \in SuccessPlaces(sl) <=> sl[i].ok)
  BY <1>1, SuccessesAre
<1>3. \A i \in 1..n : IF sl[i].ok THEN SuccessMatches(sl[i], exchange[i].request)
                      ELSE RequestsMatch(sl[i], exchange[i].request)
  BY <1>1 DEF AlignedWith, RequestsSent
<1>4. \A i \in 1..n : sl[i].ok => Matches(sl[i], exchange[i].request)
  BY <1>3, MatchesIs
<1>5. \A i \in 1..n : sl[i].request.id = exchange[i].request.id
  BY <1>3, <1>4 DEF Matches, RequestsMatch
<1>6. Ordered(raw, exchange, sl)
  <2> SUFFICES ASSUME Backwards(raw, exchange, sl) PROVE Ordered(raw, exchange, sl)
    OBVIOUS
  <2>1. ASSUME NEW i \in 1..n
        PROVE  Answers(raw, sl[i], exchange[i])
    <3>1. PICK j \in 1..Len(exchange) : j = n - i + 1 /\ Answers(raw, sl[i], exchange[j])
      BY <1>1 DEF Backwards
    <3> DEFINE a == sl[i]
               e == exchange
    <3>a. e \in Batches /\ j \in 1..Len(e) /\ Answers(raw, a, e[j])
      BY <3>1
    <3> HIDE DEF a, e
    <3>b. a.request.id = e[j].request.id
      BY <3>a, AnswersNumbers
    <3>2. sl[i].request.id = exchange[j].request.id
      BY <3>b DEF a, e
    <3>3. i \in 1..n /\ j \in 1..n
      BY <1>1
    <3>4. exchange[i].request.id = exchange[j].request.id
      BY <1>5, <3>2, <3>3
    <3>5. i = j
      BY <1>1, <3>3, <3>4
    <3> QED BY <3>1, <3>5
  <2> QED BY <1>1, <2>1 DEF Ordered
<1>7. Fitting(exchange, sl)
  <2>1. SuccessPlaces(sl) \subseteq 1..n
    BY <1>1, SuccessesAre
  <2> QED BY <1>2, <1>4, <2>1 DEF Fitting
<1> QED BY <1>6, <1>7

(* Accept keeps it: the batch is bound to the predicate and aligned with its
   requests. *)
LEMMA GoodAccept ==
  ASSUME ArtifactsGood, Accept
  PROVE  ArtifactsGood'
<1> DEFINE n == Len(exchange)
           aligned == AlignedWith(slots, RequestsSent)
           ready == \A s \in ToSet(Successes(slots)) : s.ref # << >> => s.equality
           bound(bind) == [i \in DOMAIN slots |-> IF slots[i].ok /\ bind THEN Rebound(slots[i]) ELSE slots[i]]
<1>1. /\ raw \in {"scalar", "owned"} /\ exchange \in Batches /\ report = NoReport
      /\ stage = "delivered" /\ raw' = raw /\ exchange' = exchange /\ report' = report
      /\ slots \in Seq(Attempted)
      /\ Ordered(raw, exchange, slots) \/ Backwards(raw, exchange, slots)
      /\ \A i \in SuccessPlaces(slots) : Sound(slots[i])
  BY DEF ArtifactsGood, Good, Accept
<1>2. PICK bind \in IF ready THEN BOOLEAN ELSE {TRUE} :
        CASE ~aligned -> stage' = "refused" /\ UNCHANGED slots
          [] aligned /\ AllAccepted(bound(bind)) -> stage' = "accepted" /\ slots' = AllRemembered(bound(bind))
          [] OTHER -> stage' = "broken" /\ UNCHANGED slots
  BY DEF Accept
<1> DEFINE b == bound(bind)
<1>3. /\ ~aligned => stage' = "refused" /\ slots' = slots
      /\ aligned /\ AllAccepted(b) => stage' = "accepted" /\ slots' = AllRemembered(b)
  <2> HIDE DEF bound, aligned
  <2> QED BY <1>2
<1>4. bind \in BOOLEAN /\ (~bind => ready)
  BY <1>2
<1> HIDE DEF aligned
<1>5. CASE ~aligned
  <2>1. stage' = "refused" /\ slots' = slots
    BY <1>3, <1>5
  <2> QED BY <1>1, <2>1 DEF ArtifactsGood, Good
<1>6. CASE aligned
  <2>0. slots \in Seq(Attempted)
    BY <1>1
  <2>1. Ordered(raw, exchange, slots) /\ Fitting(exchange, slots)
    BY <1>1, <1>6, AlignedIsOrdered DEF aligned
  <2>2. /\ n \in Nat /\ Len(slots) = n /\ DOMAIN slots = 1..n
        /\ \A i \in 1..n : slots[i] \in Attempted /\ (i \in SuccessPlaces(slots) <=> slots[i].ok)
        /\ ToSet(Successes(slots)) = {slots[i] : i \in SuccessPlaces(slots)}
    BY <2>0, <2>1, SuccessesAre DEF Ordered
  <2>3. DOMAIN b = 1..n /\ \A i \in 1..n : b[i] = BoundTo(slots[i], bind)
    BY <2>2 DEF BoundTo
  <2>4. ~bind => \A i \in 1..n : slots[i].ok /\ Refines(slots[i]) => slots[i].equality
    BY <1>4, <2>2 DEF Refines
  <2> HIDE DEF bound, ready
  <2>5. ASSUME NEW i \in 1..n
        PROVE  /\ b[i] \in Attempted
               /\ b[i].ok => /\ Accepted(b[i]) /\ Answers(raw, Remembered(b[i]), exchange[i])
                             /\ Matches(Remembered(b[i]), exchange[i].request)
                             /\ Refines(Remembered(b[i])) => Remembered(b[i]).equality
               /\ ~b[i].ok => Answers(raw, b[i], exchange[i])
    <3>1. Answers(raw, slots[i], exchange[i])
      BY <2>1 DEF Ordered
    <3>2. slots[i].ok => Matches(slots[i], exchange[i].request)
      BY <2>1, <2>2 DEF Fitting
    <3>3. slots[i].ok /\ ~bind /\ Refines(slots[i]) => slots[i].equality
      BY <2>4
    <3> QED BY <1>1, <1>4, <2>3, <3>1, <3>2, <3>3, BoundToIs
  <2> DEFINE r == AllRemembered(b)
  <2>6. AllAccepted(b)
    BY <2>3, <2>5, AllAcceptedIs
  <2>7. stage' = "accepted" /\ slots' = r
    BY <1>3, <1>6, <2>6
  <2>8. /\ r \in Seq(Attempted) /\ Ordered(raw, exchange, r)
        /\ \A i \in 1..n : r[i] = IF b[i].ok THEN Remembered(b[i]) ELSE b[i]
        /\ \A i \in SuccessPlaces(r) : i \in 1..n /\ b[i].ok /\ Sound(r[i])
    BY <1>1, <2>3, <2>5, OrderedAttempts
  <2> HIDE DEF r, b
  <2>9. Fitting(exchange, r) /\ \A i \in SuccessPlaces(r) : Refines(r[i]) => r[i].equality
    BY <2>5, <2>8 DEF Fitting
  <2> QED BY <1>1, <2>7, <2>8, <2>9 DEF ArtifactsGood, Good
<1> QED BY <1>5, <1>6

(* Materialize keeps it: the run method is told records. *)
LEMMA GoodMaterialize ==
  ASSUME ArtifactsGood, Materialize
  PROVE  ArtifactsGood'
<1> DEFINE n == Len(exchange)
           told == [i \in DOMAIN slots |-> IF slots[i].ok THEN Materialized(slots[i]) ELSE slots[i]]
           possible == \A s \in ToSet(slots) : s.ok => Materializable(s)
           same == \A i \in DOMAIN slots : SlotKept(slots[i], told[i])
<1>1. /\ raw \in {"scalar", "owned"} /\ exchange \in Batches /\ report = NoReport
      /\ stage = "accepted" /\ raw' = raw /\ exchange' = exchange /\ report' = report
      /\ slots \in Seq(Attempted) /\ Ordered(raw, exchange, slots) /\ Fitting(exchange, slots)
      /\ \A i \in SuccessPlaces(slots) : Sound(slots[i]) /\ (Refines(slots[i]) => slots[i].equality)
  BY DEF ArtifactsGood, Good, Materialize
<1>2. IF possible /\ AllAccepted(told) /\ same THEN slots' = AllRemembered(told) /\ stage' = "told"
      ELSE stage' = "broken" /\ slots' = slots
  BY DEF Materialize
<1>3. /\ n \in Nat /\ Len(slots) = n /\ DOMAIN slots = 1..n
      /\ SuccessPlaces(slots) \subseteq 1..n
      /\ \A i \in 1..n : slots[i] \in Attempted /\ (i \in SuccessPlaces(slots) <=> slots[i].ok)
  BY <1>1, SuccessesAre DEF Ordered
<1>4. DOMAIN told = 1..n /\ \A i \in 1..n : told[i] = Retold(slots[i])
  BY <1>3 DEF Retold
<1>5. ASSUME NEW i \in 1..n
      PROVE  /\ told[i] \in Attempted /\ SlotKept(slots[i], told[i])
             /\ told[i].ok => /\ Accepted(told[i]) /\ Answers(raw, Remembered(told[i]), exchange[i])
                              /\ Matches(Remembered(told[i]), exchange[i].request)
                              /\ RecordFits(Remembered(told[i]))
             /\ ~told[i].ok => Answers(raw, told[i], exchange[i])
  <2> HIDE DEF told
  <2>1. Answers(raw, slots[i], exchange[i])
    BY <1>1 DEF Ordered
  <2>2. slots[i].ok => Matches(slots[i], exchange[i].request) /\ (Refines(slots[i]) => slots[i].equality)
    BY <1>1, <1>3 DEF Fitting
  <2> QED BY <1>1, <1>4, <2>1, <2>2, RetoldIs
<1> HIDE DEF told
<1>6. AllAccepted(told) /\ same
  BY <1>3, <1>4, <1>5, AllAcceptedIs
<1>7. CASE possible
  <2> DEFINE r == AllRemembered(told)
  <2>1. slots' = r /\ stage' = "told"
    BY <1>2, <1>6, <1>7
  <2>2. /\ r \in Seq(Attempted) /\ Ordered(raw, exchange, r)
        /\ \A i \in 1..n : r[i] = IF told[i].ok THEN Remembered(told[i]) ELSE told[i]
        /\ \A i \in SuccessPlaces(r) : i \in 1..n /\ told[i].ok /\ Sound(r[i])
    BY <1>1, <1>4, <1>5, OrderedAttempts
  <2> HIDE DEF r
  <2>3. Fitting(exchange, r) /\ \A i \in SuccessPlaces(r) : RecordFits(r[i])
    BY <1>5, <2>2 DEF Fitting
  <2> QED BY <1>1, <2>1, <2>2, <2>3 DEF ArtifactsGood, Good
<1>8. CASE ~possible
  <2>1. slots' = slots /\ stage' = "broken"
    BY <1>2, <1>8
  <2>2. PICK i \in 1..n : slots[i].ok /\ ~Materializable(slots[i])
    BY <1>3, <1>8 DEF ToSet
  <2>3. i \in SuccessPlaces(slots) /\ Sound(slots[i]) /\ (Refines(slots[i]) => slots[i].equality)
    BY <1>1, <1>3, <2>2
  <2>4. Owned(slots[i]) \/ Copied(raw, slots[i])
    BY <2>2, <2>3, MaterializableIs
  <2>5. Forgivable(raw, slots)
    BY <2>3, <2>4 DEF Forgivable
  <2> QED BY <1>1, <2>1, <2>5 DEF ArtifactsGood, Good
<1> QED BY <1>7, <1>8

(* An attempt that counts one evaluation more. *)
LEMMA CostlierIs ==
  ASSUME NEW a \in Attempted
  PROVE  LET b == [a EXCEPT !.count = @ + 1]
         IN b.count = a.count + 1 /\ (b.ok => b \in Successful)
<1> DEFINE b == [a EXCEPT !.count = @ + 1]
<1>1. CASE a \in Successful
  <2>1. a.count + 1 \in Int /\ b.count = a.count + 1
    BY <1>1 DEF Successful
  <2>2. b \in Successful
    BY <1>1, <2>1 DEF Successful
  <2> QED BY <2>1, <2>2
<1>2. CASE a \in Failed
  <2>1. b.count = a.count + 1 /\ b.ok = a.ok
    BY <1>2 DEF Failed
  <2>2. a.ok = FALSE
    BY <1>2, Zenon DEF Failed
  <2> HIDE DEF b
  <2> QED BY <2>1, <2>2
<1> QED BY <1>1, <1>2 DEF Attempted

(* MaterializeWrongly keeps it: attempts that are not those of the batch are
   refused. *)
LEMMA GoodMaterializeWrongly ==
  ASSUME ArtifactsGood, MaterializeWrongly
  PROVE  ArtifactsGood'
<1> DEFINE n == Len(exchange)
           costly == [i \in DOMAIN slots |-> [slots[i] EXCEPT !.count = @ + 1]]
           told(wrong) == [i \in DOMAIN wrong |-> IF wrong[i].ok THEN Materialized(wrong[i]) ELSE wrong[i]]
<1>1. /\ raw \in {"scalar", "owned"} /\ exchange \in Batches /\ report = NoReport
      /\ stage = "accepted" /\ raw' = raw /\ exchange' = exchange /\ report' = report
      /\ slots \in Seq(Attempted) /\ Ordered(raw, exchange, slots)
      /\ \A i \in SuccessPlaces(slots) : Sound(slots[i])
  BY DEF ArtifactsGood, Good, MaterializeWrongly
<1>2. PICK wrong \in {Reverse(slots), costly} :
        /\ wrong # slots
        /\ IF \A i \in DOMAIN slots : SlotKept(slots[i], told(wrong)[i])
           THEN slots' = AllRemembered(told(wrong)) /\ stage' = "told"
           ELSE stage' = "refused" /\ slots' = slots
  BY DEF MaterializeWrongly
<1> DEFINE t == told(wrong)
<1>3. /\ n \in Nat /\ Len(slots) = n /\ DOMAIN slots = 1..n /\ slots = [i \in 1..n |-> slots[i]]
      /\ \A i \in 1..n : slots[i] \in Attempted
  BY <1>1, SequenceIs DEF Ordered
<1>a. ASSUME NEW i \in 1..n
      PROVE  slots[i].request.at = exchange[i].made.request.at
  <2>1. Answers(raw, slots[i], exchange[i]) /\ exchange \in Batches
    BY <1>1 DEF Ordered
  <2> QED BY <2>1, AnswersNumbers
<1>4. \E i \in 1..n : ~SlotKept(slots[i], t[i])
  <2> SUFFICES ASSUME \A i \in 1..n : SlotKept(slots[i], t[i]) PROVE FALSE
    OBVIOUS
  <2>1. CASE wrong = Reverse(slots)
    <3>1. /\ wrong \in [1..n -> Attempted]
          /\ \A i \in 1..n : n - i + 1 \in 1..n /\ wrong[i] = slots[n - i + 1]
      BY <1>1, <1>3, <2>1, ReversedIs
    <3>2. ASSUME NEW i \in 1..n
          PROVE  n - i + 1 = i
      <4>1. PICK k \in 1..n : k = n - i + 1 /\ wrong[i] = slots[k] /\ wrong[i] \in Attempted
        BY <3>1
      <4>2. t[i].request = slots[k].request
        <5>1. t[i] = IF wrong[i].ok THEN Materialized(wrong[i]) ELSE wrong[i]
          BY <3>1
        <5> HIDE DEF t, told
        <5>2. CASE wrong[i].ok
          <6>1. wrong[i] \in Successful
            BY <4>1, <5>2, AttemptIs
          <6> QED BY <4>1, <5>1, <5>2, <6>1, MaterializedKeeps
        <5>3. CASE ~wrong[i].ok
          BY <4>1, <5>1, <5>3
        <5> QED BY <5>2, <5>3
      <4> HIDE DEF t, told
      <4>3. t[i].request.at = slots[i].request.at
        BY DEF SlotKept
      <4>4. slots[i].request.at = exchange[i].made.request.at /\ slots[k].request.at = exchange[k].made.request.at
        BY <1>a, <4>1
      <4>5. i = k
        BY <1>1, <4>1, <4>2, <4>3, <4>4, BatchIs
      <4> QED BY <4>1, <4>5
    <3>3. \A i \in 1..n : wrong[i] = slots[i]
      BY <3>1, <3>2
    <3>4. wrong = slots
      BY <1>3, <3>1, <3>3
    <3> QED BY <1>2, <3>4
  <2>2. CASE wrong = costly
    <3>0. DOMAIN wrong = 1..n /\ \A i \in 1..n : wrong[i] = [slots[i] EXCEPT !.count = @ + 1]
      BY <1>3, <2>2
    <3>1. ASSUME NEW i \in 1..n
          PROVE  FALSE
      <4>1. slots[i] \in Attempted /\ wrong[i] = [slots[i] EXCEPT !.count = @ + 1]
        BY <1>3, <3>0
      <4>2. t[i] = IF wrong[i].ok THEN Materialized(wrong[i]) ELSE wrong[i]
        BY <3>0
      <4> HIDE DEF t, told
      <4>3. slots[i].count \in Int /\ t[i].count = slots[i].count
        BY <1>3, AttemptIs DEF SlotKept
      <4>4. t[i].count = slots[i].count + 1
        <5>1. wrong[i].count = slots[i].count + 1 /\ (wrong[i].ok => wrong[i] \in Successful)
          BY <4>1, CostlierIs
        <5>2. CASE wrong[i].ok
          BY <4>2, <5>1, <5>2, MaterializedKeeps
        <5>3. CASE ~wrong[i].ok
          BY <4>2, <5>1, <5>3
        <5> QED BY <5>2, <5>3
      <4> QED BY <4>3, <4>4
    <3>2. n = 0
      BY <1>3, <3>1
    <3>3. wrong = slots
      BY <1>3, <2>2, <3>2
    <3> QED BY <1>2, <3>3
  <2> QED BY <2>1, <2>2
<1>5. slots' = slots /\ stage' = "refused"
  <2> HIDE DEF t, told
  <2> QED BY <1>2, <1>3, <1>4 DEF t
<1> QED BY <1>1, <1>5 DEF ArtifactsGood, Good

(* Reports. *)

(* A sound success has a score. *)
LEMMA ScoreIs ==
  ASSUME NEW s, Sound(s)
  PROVE  Score(s)[1] \in Int
<1>1. s.payload.score \in Seq(Int) /\ s.payload.score # << >>
  BY DEF Sound, Successful, Payloads
<1>2. Len(s.payload.score) \in Nat /\ Len(s.payload.score) # 0
  BY <1>1, SequenceIs
<1> QED BY <1>1, <1>2, ElementOfSeq DEF Score

(* A sound success is a success. *)
LEMMA SoundOk ==
  ASSUME NEW s, Sound(s)
  PROVE  s.ok = TRUE
  BY SoundShape, Shape

(* What is carried, place by place. *)
LEMMA CarriedIs ==
  ASSUME NEW sl \in Seq(Attempted), NEW rp, Carried(sl, rp)
  PROVE  LET n == Cardinality(SuccessPlaces(sl))
         IN /\ n \in Nat /\ rp \in Reports /\ rp.successes \in Seq(Successful)
            /\ DOMAIN rp.successes = 1..n /\ (rp.successes = << >> <=> n = 0)
            /\ \A k \in 1..n : /\ Sound(rp.successes[k]) /\ Score(rp.successes[k])[1] \in Int
                               /\ PlaceAt(SuccessPlaces(sl), k) \in SuccessPlaces(sl)
                               /\ Keeps(sl[PlaceAt(SuccessPlaces(sl), k)], rp.successes[k])
                               /\ rp.successes[k].count = Successes(sl)[k].count
                               /\ Score(rp.successes[k]) = Score(Successes(sl)[k])
            /\ DOMAIN Successes(sl) = 1..n
<1> DEFINE n == Cardinality(SuccessPlaces(sl))
<1>1. /\ n \in Nat /\ Successes(sl) \in Seq(Successful) /\ Len(Successes(sl)) = n
      /\ \A k \in 1..n : /\ PlaceAt(SuccessPlaces(sl), k) \in SuccessPlaces(sl)
                         /\ Successes(sl)[k] = sl[PlaceAt(SuccessPlaces(sl), k)]
  BY SuccessesAre
<1>2. rp \in Reports /\ rp.successes \in Seq(Successful) /\ Len(rp.successes) = n
  BY DEF Carried, Reports
<1>3. \A k \in 1..n : Sound(rp.successes[k]) /\ Keeps(sl[PlaceAt(SuccessPlaces(sl), k)], rp.successes[k])
  BY DEF Carried
<1>4. DOMAIN rp.successes = 1..n /\ (rp.successes = << >> <=> n = 0) /\ DOMAIN Successes(sl) = 1..n
  BY <1>1, <1>2, SequenceIs
<1>5. \A k \in 1..n : /\ rp.successes[k].count = Successes(sl)[k].count
                      /\ Score(rp.successes[k]) = Score(Successes(sl)[k])
  BY <1>1, <1>3 DEF Keeps, Score
<1>6. \A k \in 1..n : Score(rp.successes[k])[1] \in Int
  BY <1>3, ScoreIs
<1> QED BY <1>1, <1>2, <1>3, <1>4, <1>5, <1>6

(* What is carried counts at least what its attempts cost. *)
LEMMA CarriedEnough ==
  ASSUME NEW sl \in Seq(Attempted), NEW rp, Carried(sl, rp)
  PROVE  Enough(rp)
<1>1. /\ DOMAIN rp.successes = 1..Cardinality(SuccessPlaces(sl))
      /\ DOMAIN Successes(sl) = 1..Cardinality(SuccessPlaces(sl))
      /\ \A k \in 1..Cardinality(SuccessPlaces(sl)) : rp.successes[k].count = Successes(sl)[k].count
  BY CarriedIs
<1>2. SumOf(rp.successes) = SumOf(Successes(sl))
  BY <1>1, SameCounts
<1>3. Len(sl) \in Nat /\ DOMAIN sl = 1..Len(sl) /\ \A i \in 1..Len(sl) : sl[i].count \in Int
  BY SuccessesAre, AttemptIs
<1>4. SumOf(sl) = SumOf(Successes(sl)) + SumOf(Failures(sl))
  BY <1>3, SumOfParts
<1> QED BY <1>2, <1>4 DEF Enough, Carried

(* What is carried holds, when every success of it is accepted. *)
LEMMA CarriedHolds ==
  ASSUME NEW sl \in Seq(Attempted), NEW rp, Carried(sl, rp), Summed(rp), AllAccepted(rp.successes)
  PROVE  SurfaceHolds(rp)
<1> DEFINE n == Cardinality(SuccessPlaces(sl))
<1>1. /\ n \in Nat /\ DOMAIN rp.successes = 1..n /\ (rp.successes = << >> <=> n = 0)
      /\ \A k \in 1..n : Score(rp.successes[k])[1] \in Int
  BY CarriedIs
<1> HIDE DEF n
<1>2. rp.kind = "result" => BestHolds(rp)
  BY <1>1, LeadsHolds DEF Summed
<1> QED BY <1>2, CarriedEnough DEF SurfaceHolds, Summed

(* The same answers in other objects. *)
LEMMA CarriedAgain ==
  ASSUME NEW sl \in Seq(Attempted), NEW rp, Carried(sl, rp),
         NEW rep \in Reports, rep.failures = rp.failures, rep.count = rp.count,
         DOMAIN rep.successes = DOMAIN rp.successes,
         \A k \in DOMAIN rp.successes : Sound(rep.successes[k]) /\ Keeps(rp.successes[k], rep.successes[k])
  PROVE  /\ Carried(sl, rep)
         /\ Summed(rp) /\ rep.kind = rp.kind /\ rep.best = rp.best /\ rep.frontier = rp.frontier => Summed(rep)
<1> DEFINE n == Cardinality(SuccessPlaces(sl))
           b(k) == sl[PlaceAt(SuccessPlaces(sl), k)]
<1>1. /\ n \in Nat /\ DOMAIN rp.successes = 1..n /\ (rp.successes = << >> <=> n = 0)
      /\ \A k \in 1..n : Keeps(b(k), rp.successes[k])
  BY CarriedIs
<1>2. rep.successes \in Seq(Successful)
  BY DEF Reports
<1>3. Len(rep.successes) = n /\ (rep.successes = << >> <=> n = 0)
  <2> HIDE DEF n
  <2>1. DOMAIN rep.successes = 1..n /\ DOMAIN rep.successes = 1..Len(rep.successes) /\ Len(rep.successes) \in Nat
    BY <1>1, <1>2, SequenceIs
  <2>2. Len(rep.successes) = n
    BY <1>1, <2>1
  <2> QED BY <1>2, <2>2, SequenceIs
<1>4. \A k \in 1..n : Sound(rep.successes[k]) /\ Keeps(b(k), rep.successes[k])
  <2> TAKE k \in 1..n
  <2> HIDE DEF n, b
  <2>1. Keeps(b(k), rp.successes[k]) /\ Keeps(rp.successes[k], rep.successes[k]) /\ Sound(rep.successes[k])
    BY <1>1
  <2> QED BY <2>1, KeepsTransitive
<1>5. Carried(sl, rep)
  BY <1>3, <1>4 DEF Carried
<1>6. ASSUME Summed(rp), rep.kind = rp.kind, rep.best = rp.best, rep.frontier = rp.frontier
      PROVE  Summed(rep)
  <2>1. \A k \in 1..n : Score(rp.successes[k]) = Score(rep.successes[k])
    BY <1>1 DEF Keeps, Score
  <2>2. DOMAIN rp.successes = 1..n /\ DOMAIN rep.successes = 1..n
    BY <1>1
  <2> HIDE DEF n
  <2>3. /\ OneDimension(rp.successes) <=> OneDimension(rep.successes)
        /\ Nondominated(rp.successes) = Nondominated(rep.successes)
    BY <2>1, <2>2, SameScores
  <2>4. Leads(rp.best, rp.successes) => Leads(rp.best, rep.successes)
    BY <1>1, <1>3, <2>1, <2>2, SameLeads
  <2> QED BY <1>6, <2>3, <2>4 DEF Summed
<1> QED BY <1>5, <1>6

(* A report whose successes were accepted remembers what they compared. *)
LEMMA RememberedReport ==
  ASSUME NEW sl \in Seq(Attempted), NEW rp, Carried(sl, rp), Summed(rp), AllAccepted(rp.successes)
  PROVE  LET r == [rp EXCEPT !.successes = AllRemembered(@)]
         IN /\ Carried(sl, r) /\ Summed(r) /\ r.kind = rp.kind
            /\ \A k \in 1..Cardinality(SuccessPlaces(sl)) :
                 /\ Kept(raw, r.successes[k])
                 /\ Copied(raw, r.successes[k]) => Copied(raw, rp.successes[k])
                 /\ RecordFits(rp.successes[k]) => RecordFits(r.successes[k])
<1> DEFINE n == Cardinality(SuccessPlaces(sl))
           q == AllRemembered(rp.successes)
           r == [rp EXCEPT !.successes = q]
<1>1. /\ n \in Nat /\ rp \in Reports /\ rp.successes \in Seq(Successful) /\ DOMAIN rp.successes = 1..n
      /\ \A k \in 1..n : Sound(rp.successes[k])
  BY CarriedIs
<1> HIDE DEF n
<1>2. \A k \in 1..n : rp.successes[k].ok = TRUE /\ Accepted(rp.successes[k])
  <2> TAKE k \in 1..n
  <2>1. rp.successes[k].ok = TRUE
    BY <1>1, SoundOk
  <2> QED BY <1>1, <2>1, AllAcceptedIs
<1>3. q = [k \in 1..n |-> Remembered(rp.successes[k])]
  BY <1>1, <1>2 DEF AllRemembered
<1> HIDE DEF q
<1>4. \A k \in 1..n : /\ Redressed(rp.successes[k], q[k]) /\ Sound(q[k]) /\ Keeps(rp.successes[k], q[k])
                      /\ Copied(raw, q[k]) <=> Copied(raw, rp.successes[k])
                      /\ Kept(raw, q[k])
  <2> TAKE k \in 1..n
  <2>1. q[k] = Remembered(rp.successes[k]) /\ Sound(rp.successes[k]) /\ Accepted(rp.successes[k])
    BY <1>1, <1>2, <1>3
  <2> QED BY <2>1, RememberedIs, AcceptedKept
<1>5. q \in [1..n -> Successful]
  <2>1. \A k \in 1..n : q[k] \in Successful
    BY <1>4 DEF Redressed
  <2> QED BY <1>3, <2>1
<1>6. q \in Seq(Successful) /\ DOMAIN q = 1..n
  BY <1>1, <1>5, LenIs
<1>7. /\ r \in Reports /\ r.successes = q /\ r.failures = rp.failures /\ r.count = rp.count
      /\ r.kind = rp.kind /\ r.best = rp.best /\ r.frontier = rp.frontier
  BY <1>1, <1>6 DEF Reports
<1> HIDE DEF r
<1>8. Carried(sl, r) /\ Summed(r)
  <2>1. \A k \in DOMAIN rp.successes : Sound(r.successes[k]) /\ Keeps(rp.successes[k], r.successes[k])
    BY <1>1, <1>4, <1>7
  <2>2. DOMAIN r.successes = DOMAIN rp.successes
    BY <1>1, <1>6, <1>7
  <2> QED BY <1>7, <2>1, <2>2, CarriedAgain
<1>9. \A k \in 1..n : RecordFits(rp.successes[k]) => RecordFits(r.successes[k])
  BY <1>4, <1>7, RedressedFits
<1> QED BY <1>4, <1>7, <1>8, <1>9 DEF r, q, n

(* Report keeps it: the answers of a study become its report. *)
LEMMA GoodReport ==
  ASSUME ArtifactsGood, Report
  PROVE  ArtifactsGood'
<1> DEFINE P == SuccessPlaces(slots)
           n == Cardinality(P)
           again == [i \in DOMAIN Successes(slots) |-> MadeAgain(Successes(slots)[i], TRUE)]
           rep(extra) == [NoReport EXCEPT !.kind = "report", !.successes = AllRemembered(again),
                                          !.failures = Failures(slots), !.count = SumOf(slots) + extra]
<1>1. /\ raw \in {"scalar", "owned"} /\ exchange \in Batches /\ report = NoReport
      /\ stage = "told" /\ raw' = raw /\ exchange' = exchange /\ slots' = slots
      /\ slots \in Seq(Attempted) /\ Ordered(raw, exchange, slots) /\ Fitting(exchange, slots)
      /\ \A i \in P : Sound(slots[i]) /\ RecordFits(slots[i])
  BY DEF ArtifactsGood, Good, Report
<1>2. PICK extra \in Extras :
        IF AllAccepted(again) /\ Enough(rep(extra)) THEN report' = rep(extra) /\ stage' = "reported"
        ELSE UNCHANGED report /\ stage' = "broken"
  BY DEF Report
<1>3. /\ n \in Nat /\ DOMAIN Successes(slots) = 1..n
      /\ \A k \in 1..n : PlaceAt(P, k) \in P /\ Successes(slots)[k] = slots[PlaceAt(P, k)]
      /\ Failures(slots) \in Seq(Attempted)
      /\ Len(slots) \in Nat /\ DOMAIN slots = 1..Len(slots) /\ \A i \in 1..Len(slots) : slots[i] \in Attempted
  <2>1. slots \in Seq(Attempted)
    BY <1>1
  <2>2. /\ n \in Nat /\ Successes(slots) \in Seq(Successful) /\ Len(Successes(slots)) = n
        /\ \A k \in 1..n : PlaceAt(P, k) \in P /\ Successes(slots)[k] = slots[PlaceAt(P, k)]
        /\ Failures(slots) \in Seq(Attempted)
        /\ Len(slots) \in Nat /\ DOMAIN slots = 1..Len(slots) /\ \A i \in 1..Len(slots) : slots[i] \in Attempted
    BY <2>1, SuccessesAre
  <2>3. DOMAIN Successes(slots) = 1..n
    BY <2>2, SequenceIs
  <2> QED BY <2>2, <2>3
<1>4. \A k \in 1..n : Sound(slots[PlaceAt(P, k)]) /\ RecordFits(slots[PlaceAt(P, k)])
  BY <1>1, <1>3
<1>5. DOMAIN again = 1..n /\ \A k \in 1..n : again[k] = MadeAgain(slots[PlaceAt(P, k)], TRUE)
  BY <1>3
<1> HIDE DEF again, n
<1>6. \A k \in 1..n : /\ Redressed(slots[PlaceAt(P, k)], again[k]) /\ again[k].equality /\ again[k].ok = TRUE
                      /\ Sound(again[k]) /\ Keeps(slots[PlaceAt(P, k)], again[k])
                      /\ Copied(raw, again[k]) <=> Copied(raw, slots[PlaceAt(P, k)])
                      /\ Accepted(again[k])
  <2> TAKE k \in 1..n
  <2> DEFINE b == slots[PlaceAt(P, k)]
  <2>1. Sound(b) /\ again[k] = MadeAgain(b, TRUE)
    BY <1>4, <1>5
  <2> HIDE DEF b
  <2>2. /\ Redressed(b, again[k]) /\ again[k].equality /\ Sound(again[k]) /\ Keeps(b, again[k])
        /\ Copied(raw, again[k]) <=> Copied(raw, b)
    BY <2>1, MadeAgainIs
  <2>3. Accepted(again[k])
    BY <2>2, SoundIsAccepted
  <2>4. again[k].ok = TRUE
    BY <2>2, SoundOk
  <2> QED BY <2>2, <2>3, <2>4 DEF b
<1>7. AllAccepted(again)
  BY <1>5, <1>6, AllAcceptedIs
<1> DEFINE q == AllRemembered(again)
           r == rep(extra)
<1>8. q = [k \in 1..n |-> Remembered(again[k])]
  BY <1>5, <1>6 DEF AllRemembered
<1> HIDE DEF q
<1>9. \A k \in 1..n : /\ Sound(q[k]) /\ Keeps(slots[PlaceAt(P, k)], q[k])
                      /\ Kept(raw, q[k]) /\ (Copied(raw, q[k]) => Copied(raw, slots[PlaceAt(P, k)]))
                      /\ RecordFits(q[k])
  <2> TAKE k \in 1..n
  <2>1. q[k] = Remembered(again[k]) /\ Sound(again[k]) /\ Accepted(again[k])
    BY <1>6, <1>8
  <2>2. /\ Redressed(again[k], q[k]) /\ Sound(q[k]) /\ Keeps(again[k], q[k])
        /\ Copied(raw, q[k]) <=> Copied(raw, again[k])
    BY <2>1, RememberedIs
  <2>3. Kept(raw, q[k])
    BY <2>1, AcceptedKept
  <2>4. Keeps(slots[PlaceAt(P, k)], q[k])
    <3>1. Keeps(slots[PlaceAt(P, k)], again[k])
      BY <1>6
    <3> QED BY <2>2, <3>1, KeepsTransitive
  <2>5. RecordFits(again[k])
    <3>1. Redressed(slots[PlaceAt(P, k)], again[k]) /\ RecordFits(slots[PlaceAt(P, k)])
      BY <1>4, <1>6
    <3> QED BY <3>1, RedressedFits
  <2>6. RecordFits(q[k])
    BY <2>2, <2>5, RedressedFits
  <2> QED BY <1>6, <2>2, <2>3, <2>4, <2>6
<1>10. q \in Seq(Successful) /\ Len(q) = n
  <2>1. q \in [1..n -> Successful]
    BY <1>8, <1>9, SoundShape
  <2> QED BY <1>3, <2>1, LenIs
<1>11. SumOf(slots) \in Int /\ extra \in Nat
  <2>1. \A i \in 1..Len(slots) : slots[i].count \in Int
    BY <1>3, AttemptIs
  <2> QED BY <1>3, <2>1, SumOfAll, ArtifactsAssumption
<1>12. r \in Reports /\ r.kind = "report" /\ r.successes = q /\ r.failures = Failures(slots) /\ r.count >= SumOf(slots)
  <2>1. r = [kind |-> "report", successes |-> q, failures |-> Failures(slots), count |-> SumOf(slots) + extra,
             best |-> 0, frontier |-> << >>]
    <3>1. r = [NoReport EXCEPT !.kind = "report", !.successes = q, !.failures = Failures(slots),
                               !.count = SumOf(slots) + extra]
      BY DEF q
    <3> HIDE DEF r, rep
    <3> QED BY <3>1 DEF NoReport
  <2>2. << >> \in Seq(Nat)
    BY EmptySeq
  <2> HIDE DEF r, rep
  <2> QED BY <1>3, <1>10, <1>11, <2>1, <2>2 DEF Reports
<1> HIDE DEF r, rep
<1>13. Carried(slots, r)
  BY <1>9, <1>10, <1>12 DEF Carried, n
<1>14. Enough(r)
  BY <1>1, <1>13, CarriedEnough
<1>15. report' = r /\ stage' = "reported"
  BY <1>2, <1>7, <1>14 DEF r
<1>16. Reported(raw, slots, r)
  BY <1>9, <1>12, <1>13 DEF Reported, Summed, n
<1>17. \A k \in DOMAIN r.successes : Sound(r.successes[k])
  BY <1>9, <1>10, <1>12, SequenceIs
<1> QED BY <1>1, <1>12, <1>15, <1>16, <1>17 DEF ArtifactsGood, Good

(* The surfaces of a report. *)

(* The successes of a surface carry no records. *)
LEMMA GoodSurfaced ==
  ASSUME ArtifactsGood, stage = "reported", UNCHANGED <<raw, exchange, slots>>,
         NEW rep, Carried(slots, rep), Summed(rep), rep.kind \in {"result", "surface"},
         NEW equality \in BOOLEAN,
         \A k \in DOMAIN rep.successes : ~Recorded(rep.successes[k]) /\ rep.successes[k].equality = equality,
         Surfaced(rep, equality)
  PROVE  ArtifactsGood'
<1> DEFINE n == Cardinality(SuccessPlaces(slots))
           r == [rep EXCEPT !.successes = AllRemembered(@)]
<1>1. /\ raw \in {"scalar", "owned"} /\ exchange \in Batches /\ slots \in Seq(Attempted)
      /\ Ordered(raw, exchange, slots) /\ Fitting(exchange, slots)
      /\ \A i \in SuccessPlaces(slots) : Sound(slots[i]) /\ RecordFits(slots[i])
      /\ raw' = raw /\ exchange' = exchange /\ slots' = slots
      /\ report # NoReport => report \in Reports /\ \A k \in DOMAIN report.successes : Sound(report.successes[k])
  BY DEF ArtifactsGood, Good
<1>2. n \in Nat /\ DOMAIN rep.successes = 1..n /\ \A k \in 1..n : Sound(rep.successes[k])
  BY <1>1, CarriedIs
<1>3. IF SurfaceHolds(rep) THEN report' = r /\ stage' = "surfaced"
      ELSE report' = report /\ stage' = IF equality THEN "broken" ELSE "refused"
  BY DEF Surfaced
<1>4. CASE SurfaceHolds(rep)
  <2>1. AllAccepted(rep.successes)
    BY <1>4 DEF SurfaceHolds
  <2>2. /\ Carried(slots, r) /\ Summed(r) /\ r.kind = rep.kind
        /\ \A k \in 1..n : /\ Kept(raw, r.successes[k])
                           /\ Copied(raw, r.successes[k]) => Copied(raw, rep.successes[k])
    BY <1>1, <2>1, RememberedReport
  <2> HIDE DEF r
  <2>3. \A k \in 1..n : ~Copied(raw, rep.successes[k])
    BY <1>2 DEF Copied
  <2>4. Reported(raw, slots, r)
    BY <2>2, <2>3 DEF Reported
  <2>5. /\ r \in Reports /\ \A k \in DOMAIN r.successes : Sound(r.successes[k])
    BY <1>1, <2>2, CarriedIs
  <2>6. report' = r /\ stage' = "surfaced"
    BY <1>3, <1>4
  <2> HIDE DEF n
  <2> QED BY <1>1, <2>4, <2>5, <2>6 DEF ArtifactsGood, Good
<1>5. CASE ~SurfaceHolds(rep)
  <2>1. ~equality
    <3> SUFFICES ASSUME equality PROVE FALSE
      OBVIOUS
    <3>1. \A k \in 1..n : Accepted(rep.successes[k])
      BY <1>2, SoundIsAccepted
    <3>2. AllAccepted(rep.successes)
      BY <1>2, <3>1, AllAcceptedIs
    <3> QED BY <1>1, <1>5, <3>2, CarriedHolds
  <2>2. report' = report /\ stage' = "refused"
    BY <1>3, <1>5, <2>1
  <2> HIDE DEF n, r
  <2> QED BY <1>1, <2>2 DEF ArtifactsGood, Good
<1> QED BY <1>4, <1>5

(* What the invariant says of a report. *)
LEMMA ReportedIs ==
  ASSUME ArtifactsGood, stage \in {"reported", "surfaced"}
  PROVE  /\ slots \in Seq(Attempted) /\ Carried(slots, report) /\ Summed(report) /\ report \in Reports
         /\ Cardinality(SuccessPlaces(slots)) \in Nat
         /\ DOMAIN report.successes = 1..Cardinality(SuccessPlaces(slots))
         /\ \A k \in 1..Cardinality(SuccessPlaces(slots)) :
              /\ Sound(report.successes[k]) /\ Kept(raw, report.successes[k])
              /\ Copied(raw, report.successes[k]) => Copied(raw, slots[PlaceAt(SuccessPlaces(slots), k)])
              /\ report.kind = "report" => RecordFits(report.successes[k])
              /\ PlaceAt(SuccessPlaces(slots), k) \in SuccessPlaces(slots)
         /\ stage = "reported" => report.kind = "report"
<1>1. /\ slots \in Seq(Attempted) /\ Reported(raw, slots, report)
      /\ stage = "reported" => report.kind = "report"
  BY DEF ArtifactsGood, Good
<1>2. Carried(slots, report)
  BY <1>1 DEF Reported
<1> QED BY <1>1, <1>2, CarriedIs DEF Reported

(* ProjectResult keeps it: the first of the best is chosen. *)
LEMMA GoodProjectResult ==
  ASSUME ArtifactsGood, ProjectResult
  PROVE  ArtifactsGood'
<1> DEFINE n == Cardinality(SuccessPlaces(slots))
           ss(equality) == [i \in DOMAIN report.successes |-> ScalarSuccess(report.successes[i], equality)]
<1>1. PICK equality \in BOOLEAN :
        Surfaced([report EXCEPT !.kind = "result", !.successes = ss(equality), !.best = FirstBest(ss(equality))], equality)
  BY DEF ProjectResult
<1>2. stage = "reported" /\ UNCHANGED <<raw, exchange, slots>>
  BY DEF ProjectResult
<1>3. /\ slots \in Seq(Attempted) /\ Carried(slots, report) /\ report \in Reports
      /\ n \in Nat /\ DOMAIN report.successes = 1..n /\ \A k \in 1..n : Sound(report.successes[k])
  BY <1>2, ReportedIs
<1> DEFINE s == ss(equality)
           rep == [report EXCEPT !.kind = "result", !.successes = s, !.best = FirstBest(s)]
<1>4. Surfaced(rep, equality)
  BY <1>1
<1>5. DOMAIN s = 1..n /\ s = [k \in DOMAIN s |-> s[k]] /\ \A k \in 1..n : s[k] = ScalarSuccess(report.successes[k], equality)
  BY <1>3
<1> HIDE DEF s, ss, n
<1>6. \A k \in 1..n : Sound(s[k]) /\ Keeps(report.successes[k], s[k]) /\ ~Recorded(s[k]) /\ s[k].equality = equality
  BY <1>3, <1>5, ScalarIs
<1>7. s \in Seq(Successful)
  <2>1. s \in [1..n -> Successful]
    BY <1>5, <1>6, SoundShape
  <2> QED BY <1>3, <2>1, LenIs
<1>8. Leads(FirstBest(s), s)
  <2>1. \A i \in DOMAIN s : Score(s[i])[1] \in Int
    BY <1>5, <1>6, ScoreIs
  <2> QED BY <1>7, <2>1, FirstBestLeads
<1>9. FirstBest(s) \in Nat
  BY <1>3, <1>5, <1>8 DEF Leads
<1>10. /\ rep \in Reports /\ rep.kind = "result" /\ rep.successes = s /\ rep.best = FirstBest(s)
       /\ rep.failures = report.failures /\ rep.count = report.count
  BY <1>3, <1>7, <1>9 DEF Reports
<1>11. Carried(slots, rep)
  <2>1. DOMAIN rep.successes = DOMAIN report.successes
    BY <1>3, <1>5, <1>10
  <2>2. \A k \in DOMAIN report.successes : Sound(rep.successes[k]) /\ Keeps(report.successes[k], rep.successes[k])
    BY <1>3, <1>6, <1>10
  <2> HIDE DEF rep
  <2> QED BY <1>3, <1>10, <2>1, <2>2, CarriedAgain
<1> HIDE DEF rep
<1>12. Summed(rep)
  BY <1>8, <1>10 DEF Summed
<1>13. \A k \in DOMAIN rep.successes : ~Recorded(rep.successes[k]) /\ rep.successes[k].equality = equality
  BY <1>5, <1>6, <1>10
<1> QED BY <1>2, <1>4, <1>10, <1>11, <1>12, <1>13, GoodSurfaced

(* Nondominated lists every place that no other dominates. *)
LEMMA NondominatedIs ==
  ASSUME NEW n \in Nat, NEW f, DOMAIN f = 1..n
  PROVE  LET best == {i \in 1..n : \A j \in 1..n : ~Dominates(Score(f[j]), Score(f[i]))}
         IN Nondominated(f) \in Seq(Nat) /\ ToSet(Nondominated(f)) = best
<1> DEFINE best == {i \in 1..n : \A j \in 1..n : ~Dominates(Score(f[j]), Score(f[i]))}
           same == [i \in 1..n |-> i]
<1>1. Nondominated(f) = PickedAt(best, same)
  BY DEF Nondominated
<1>2. best \in SUBSET (1..n) /\ \A i \in best : same[i] = i
  OBVIOUS
<1> HIDE DEF best, same
<1>3. \A i \in best : same[i] \in Nat
  BY <1>2
<1>4. PickedAt(best, same) \in Seq(Nat)
  BY <1>2, <1>3, PickedAre
<1>5. ToSet(PickedAt(best, same)) = {same[i] : i \in best}
  <2>1. /\ \A k \in 1..Cardinality(best) : PlaceAt(best, k) \in best
        /\ \A i \in best : \E k \in 1..Cardinality(best) : PlaceAt(best, k) = i
    BY <1>2, Places
  <2>2. /\ DOMAIN PickedAt(best, same) = 1..Cardinality(best)
        /\ \A k \in 1..Cardinality(best) : PickedAt(best, same)[k] = same[PlaceAt(best, k)]
    BY DEF PickedAt
  <2> QED BY <2>1, <2>2 DEF ToSet
<1>6. {same[i] : i \in best} = best
  BY <1>2
<1> QED BY <1>1, <1>4, <1>5, <1>6 DEF best

(* ProjectSurface keeps it: the frontier is what is not dominated. *)
LEMMA GoodProjectSurface ==
  ASSUME ArtifactsGood, ProjectSurface
  PROVE  ArtifactsGood'
<1> DEFINE n == Cardinality(SuccessPlaces(slots))
           ss(equality) == [i \in DOMAIN report.successes |-> VectorSuccess(report.successes[i], equality)]
           known(equality) == \A s \in ToSet(report.successes) : RecordRequestKnown(s, equality)
<1>1. PICK equality \in BOOLEAN :
        IF known(equality) /\ OneDimension(ss(equality))
        THEN Surfaced([report EXCEPT !.kind = "surface", !.successes = ss(equality),
                                     !.frontier = Nondominated(ss(equality))], equality)
        ELSE UNCHANGED report /\ stage' = IF equality THEN "broken" ELSE "refused"
  BY DEF ProjectSurface
<1>2. stage = "reported" /\ UNCHANGED <<raw, exchange, slots>>
  BY DEF ProjectSurface
<1>3. /\ slots \in Seq(Attempted) /\ Carried(slots, report) /\ report \in Reports
      /\ n \in Nat /\ DOMAIN report.successes = 1..n
      /\ \A k \in 1..n : Sound(report.successes[k]) /\ RecordFits(report.successes[k])
  BY <1>2, ReportedIs
<1> DEFINE s == ss(equality)
           rep == [report EXCEPT !.kind = "surface", !.successes = s, !.frontier = Nondominated(s)]
<1>4. IF known(equality) /\ OneDimension(s) THEN Surfaced(rep, equality)
      ELSE report' = report /\ stage' = IF equality THEN "broken" ELSE "refused"
  BY <1>1
<1>5. DOMAIN s = 1..n /\ s = [k \in DOMAIN s |-> s[k]] /\ \A k \in 1..n : s[k] = VectorSuccess(report.successes[k], equality)
  BY <1>3
<1>k. equality => known(equality)
  <2> SUFFICES ASSUME equality PROVE known(TRUE)
    OBVIOUS
  <2>1. ASSUME NEW k \in 1..n
        PROVE  RecordRequestKnown(report.successes[k], TRUE)
    <3> DEFINE a == report.successes[k]
    <3>1. Sound(a) /\ RecordFits(a)
      BY <1>3
    <3> HIDE DEF a
    <3>2. Refines(a) \/ Alike(Rec(a).request.cand, Rec(a).cand)
      BY <3>1 DEF RecordFits, Sound, Alike
    <3>3. RecordRequestKnown(a, TRUE)
      BY <3>2 DEF RecordRequestKnown, Refines, Alike, Rec, Compares, Equal
    <3> QED BY <3>3 DEF a
  <2> QED BY <1>3, <2>1 DEF ToSet
<1> HIDE DEF s, ss, n, known
<1>6. \A k \in 1..n : Sound(s[k]) /\ Keeps(report.successes[k], s[k]) /\ ~Recorded(s[k]) /\ s[k].equality = equality
  <2> TAKE k \in 1..n
  <2>1. Sound(report.successes[k]) /\ Recorded(report.successes[k])
    BY <1>3 DEF RecordFits
  <2> QED BY <1>5, <2>1, VectorIs
<1>7. CASE known(equality) /\ OneDimension(s)
  <2>1. Nondominated(s) \in Seq(Nat)
    BY <1>3, <1>5, NondominatedIs
  <2>a. s \in Seq(Successful)
    <3>1. s \in [1..n -> Successful]
      BY <1>5, <1>6, SoundShape
    <3> QED BY <1>3, <3>1, LenIs
  <2>2. /\ rep \in Reports /\ rep.kind = "surface" /\ rep.successes = s /\ rep.frontier = Nondominated(s)
        /\ rep.failures = report.failures /\ rep.count = report.count
    BY <1>3, <2>1, <2>a DEF Reports
  <2>3. Carried(slots, rep)
    <3>1. DOMAIN rep.successes = DOMAIN report.successes
      BY <1>3, <1>5, <2>2
    <3>2. \A k \in DOMAIN report.successes : Sound(rep.successes[k]) /\ Keeps(report.successes[k], rep.successes[k])
      BY <1>3, <1>6, <2>2
    <3> HIDE DEF rep
    <3> QED BY <1>3, <2>2, <3>1, <3>2, CarriedAgain
  <2>4. Surfaced(rep, equality)
    BY <1>4, <1>7
  <2> HIDE DEF rep
  <2>5. Summed(rep)
    BY <1>7, <2>2 DEF Summed
  <2>6. \A k \in DOMAIN rep.successes : ~Recorded(rep.successes[k]) /\ rep.successes[k].equality = equality
    BY <1>5, <1>6, <2>2
  <2> QED BY <1>2, <2>2, <2>3, <2>4, <2>5, <2>6, GoodSurfaced
<1>8. CASE ~(known(equality) /\ OneDimension(s))
  <2>1. report' = report /\ stage' = IF equality THEN "broken" ELSE "refused"
    BY <1>4, <1>8
  <2>2. equality => Forgivable(raw, slots)
    <3> SUFFICES ASSUME equality PROVE Forgivable(raw, slots)
      OBVIOUS
    <3>1. ~OneDimension(s)
      BY <1>8, <1>k
    <3>2. DOMAIN Successes(slots) = 1..n /\ \A k \in 1..n : Score(report.successes[k]) = Score(Successes(slots)[k])
      BY <1>3, CarriedIs DEF n
    <3>3. \A k \in 1..n : Score(report.successes[k]) = Score(s[k])
      BY <1>6 DEF Keeps, Score
    <3>4. OneDimension(Successes(slots)) <=> OneDimension(s)
      <4>1. DOMAIN Successes(slots) = DOMAIN s /\ \A k \in DOMAIN Successes(slots) : Score(Successes(slots)[k]) = Score(s[k])
        BY <1>5, <3>2, <3>3
      <4> QED BY <4>1, SameScores
    <3> QED BY <3>1, <3>4 DEF Forgivable
  <2>3. /\ raw \in {"scalar", "owned"} /\ exchange \in Batches /\ slots \in Seq(Attempted)
        /\ \A i \in SuccessPlaces(slots) : Sound(slots[i])
        /\ raw' = raw /\ exchange' = exchange /\ slots' = slots
        /\ report # NoReport => report \in Reports /\ \A k \in DOMAIN report.successes : Sound(report.successes[k])
    BY <1>2 DEF ArtifactsGood, Good
  <2>4. stage' \in {"broken", "refused"} /\ (stage' = "broken" => Forgivable(raw, slots))
    BY <2>1, <2>2
  <2> QED BY <2>1, <2>3, <2>4 DEF ArtifactsGood, Good
<1> QED BY <1>7, <1>8

(* SaveAndLoad keeps it: every success is restored, bound again and accepted
   again. *)
LEMMA GoodSaveAndLoad ==
  ASSUME ArtifactsGood, SaveAndLoad
  PROVE  ArtifactsGood'
<1> DEFINE n == Cardinality(SuccessPlaces(slots))
           arrived(shared) == RestoredAll(report.successes, shared)
           load(shared) == [report EXCEPT !.successes = RestoredAll(@, shared)]
<1>0. stage \in {"reported", "surfaced"} /\ UNCHANGED <<raw, exchange, slots>>
  BY DEF SaveAndLoad
<1>1. PICK shared \in SharedOptions :
        IF SurfaceHolds(load(shared))
        THEN report' = [load(shared) EXCEPT !.successes = AllRemembered(@)] /\ UNCHANGED stage
        ELSE UNCHANGED report /\ stage' = "broken"
  BY DEF SaveAndLoad
<1>2. /\ slots \in Seq(Attempted) /\ Carried(slots, report) /\ Summed(report) /\ report \in Reports
      /\ n \in Nat /\ DOMAIN report.successes = 1..n
      /\ \A k \in 1..n : /\ Sound(report.successes[k]) /\ Kept(raw, report.successes[k])
                         /\ Copied(raw, report.successes[k]) => Copied(raw, slots[PlaceAt(SuccessPlaces(slots), k)])
                         /\ report.kind = "report" => RecordFits(report.successes[k])
                         /\ PlaceAt(SuccessPlaces(slots), k) \in SuccessPlaces(slots)
      /\ stage = "reported" => report.kind = "report"
  BY <1>0, ReportedIs
<1>3. /\ raw \in {"scalar", "owned"} /\ exchange \in Batches
      /\ Ordered(raw, exchange, slots) /\ Fitting(exchange, slots)
      /\ \A i \in SuccessPlaces(slots) : Sound(slots[i]) /\ RecordFits(slots[i])
      /\ raw' = raw /\ exchange' = exchange /\ slots' = slots
  BY <1>0 DEF ArtifactsGood, Good
<1>4. shared \in BOOLEAN /\ (shared \/ raw = "scalar")
  BY <1>3 DEF SharedOptions
<1> DEFINE q == arrived(shared)
           loaded == [report EXCEPT !.successes = q]
           r == [loaded EXCEPT !.successes = AllRemembered(@)]
<1>5. IF SurfaceHolds(loaded) THEN report' = r /\ stage' = stage ELSE report' = report /\ stage' = "broken"
  BY <1>1
<1>6. q = [k \in 1..n |-> Restored(report.successes[k], shared)]
  <2>1. \A k \in 1..n : report.successes[k].ok = TRUE
    BY <1>2, SoundOk
  <2> QED BY <1>2, <2>1 DEF RestoredAll
<1> HIDE DEF q, arrived, load, n
<1>7. \A k \in 1..n : /\ Sound(q[k]) /\ Keeps(report.successes[k], q[k])
                      /\ Copied(raw, q[k]) => Copied(raw, report.successes[k])
                      /\ ~Copied(raw, q[k]) => Accepted(q[k])
                      /\ RecordFits(report.successes[k]) => RecordFits(q[k])
  <2> TAKE k \in 1..n
  <2> DEFINE s == report.successes[k]
             t == q[k]
  <2>1. Sound(s) /\ Kept(raw, s) /\ t = Restored(s, shared)
    BY <1>2, <1>6
  <2> HIDE DEF s, t
  <2>2. /\ Sound(t) /\ Keeps(s, t)
        /\ Recorded(t) <=> Recorded(s)
        /\ Recorded(s) => Alike(Rec(t).request.cand, Rec(s).request.cand)
        /\ Copied(raw, t) => Copied(raw, s)
        /\ ~Copied(raw, t) => Kept(raw, t)
    BY <1>4, <2>1, RestoredIs
  <2>3. ~Copied(raw, t) => Accepted(t)
    BY <2>2, SoundIsAccepted
  <2>4. RecordFits(s) => RecordFits(t)
    BY <2>2 DEF RecordFits, Keeps, Alike
  <2> QED BY <2>2, <2>3, <2>4 DEF s, t
<1>8. q \in Seq(Successful) /\ DOMAIN q = 1..n
  <2>1. q \in [1..n -> Successful]
    BY <1>6, <1>7, SoundShape
  <2> QED BY <1>2, <2>1, LenIs
<1>9. /\ loaded \in Reports /\ loaded.successes = q /\ loaded.kind = report.kind
      /\ loaded.failures = report.failures /\ loaded.count = report.count
      /\ loaded.best = report.best /\ loaded.frontier = report.frontier
  BY <1>2, <1>8 DEF Reports
<1> HIDE DEF loaded
<1>10. Carried(slots, loaded) /\ Summed(loaded)
  <2>1. DOMAIN loaded.successes = DOMAIN report.successes
    BY <1>2, <1>8, <1>9
  <2>2. \A k \in DOMAIN report.successes : Sound(loaded.successes[k]) /\ Keeps(report.successes[k], loaded.successes[k])
    BY <1>2, <1>7, <1>9
  <2> QED BY <1>2, <1>9, <2>1, <2>2, CarriedAgain
<1>11. CASE SurfaceHolds(loaded)
  <2>1. AllAccepted(loaded.successes)
    BY <1>11 DEF SurfaceHolds
  <2>2. /\ Carried(slots, r) /\ Summed(r) /\ r.kind = loaded.kind
        /\ \A k \in 1..n : /\ Kept(raw, r.successes[k])
                           /\ Copied(raw, r.successes[k]) => Copied(raw, loaded.successes[k])
                           /\ RecordFits(loaded.successes[k]) => RecordFits(r.successes[k])
    BY <1>2, <1>10, <2>1, RememberedReport DEF n
  <2>3. report' = r /\ stage' = stage
    BY <1>5, <1>11
  <2> HIDE DEF r
  <2>4. Reported(raw, slots, r)
    BY <1>2, <1>7, <1>9, <2>2 DEF Reported, n
  <2>5. r \in Reports /\ \A k \in DOMAIN r.successes : Sound(r.successes[k])
    BY <1>2, <2>2, CarriedIs
  <2>6. r # NoReport
    BY <2>5 DEF Reports, NoReport
  <2>7. stage = "reported" => r.kind = "report"
    BY <1>2, <1>9, <2>2
  <2>8. slots \in Seq(Attempted)
    BY <1>2
  <2> QED BY <1>0, <1>3, <2>3, <2>4, <2>5, <2>7, <2>8 DEF ArtifactsGood, Good
<1>12. CASE ~SurfaceHolds(loaded)
  <2>1. report' = report /\ stage' = "broken"
    BY <1>5, <1>12
  <2>2. ~AllAccepted(loaded.successes)
    BY <1>2, <1>10, <1>12, CarriedHolds
  <2>3. PICK k \in 1..n : ~Accepted(q[k])
    BY <1>8, <1>9, <2>2, AllAcceptedIs
  <2>4. Copied(raw, slots[PlaceAt(SuccessPlaces(slots), k)]) /\ PlaceAt(SuccessPlaces(slots), k) \in SuccessPlaces(slots)
    BY <1>2, <1>7, <2>3
  <2>5. Forgivable(raw, slots)
    BY <2>4 DEF Forgivable
  <2>6. \A k1 \in DOMAIN report.successes : Sound(report.successes[k1])
    BY <1>2
  <2>7. slots \in Seq(Attempted) /\ report \in Reports
    BY <1>2
  <2> QED BY <1>3, <2>1, <2>5, <2>6, <2>7 DEF ArtifactsGood, Good
<1> QED BY <1>11, <1>12

(* The invariant holds at first. *)
LEMMA GoodInit == ArtifactInit => ArtifactsGood
<1> SUFFICES ASSUME ArtifactInit PROVE ArtifactsGood
  OBVIOUS
<1>1. slots = << >> /\ slots \in Seq(Attempted) /\ SuccessPlaces(slots) = {}
  BY EmptySeq DEF ArtifactInit, SuccessPlaces
<1> QED BY <1>1 DEF ArtifactInit, ArtifactsGood, Good

(* Every step keeps it. *)
LEMMA GoodNext == ArtifactsGood /\ [ArtifactNext]_artifactVars => ArtifactsGood'
<1> SUFFICES ASSUME ArtifactsGood, [ArtifactNext]_artifactVars PROVE ArtifactsGood'
  OBVIOUS
<1>1. CASE Evaluate
  BY <1>1, GoodEvaluate
<1>2. CASE Deliver
  BY <1>2, GoodDeliver
<1>3. CASE DeliverInProcess
  BY <1>3, GoodDeliverInProcess
<1>4. CASE Accept
  BY <1>4, GoodAccept
<1>5. CASE Materialize
  BY <1>5, GoodMaterialize
<1>6. CASE MaterializeWrongly
  BY <1>6, GoodMaterializeWrongly
<1>7. CASE Report
  BY <1>7, GoodReport
<1>8. CASE ProjectResult
  BY <1>8, GoodProjectResult
<1>9. CASE ProjectSurface
  BY <1>9, GoodProjectSurface
<1>10. CASE SaveAndLoad
  BY <1>10, GoodSaveAndLoad
<1>11. CASE UNCHANGED artifactVars
  BY <1>11 DEF artifactVars, ArtifactsGood
<1> QED BY <1>1, <1>2, <1>3, <1>4, <1>5, <1>6, <1>7, <1>8, <1>9, <1>10, <1>11 DEF ArtifactNext

(* So it holds always. *)
LEMMA GoodAlways == ArtifactSpec => []ArtifactsGood
  BY GoodInit, GoodNext, PTL DEF ArtifactSpec

(* A good batch that is broken or lost was made its own way. *)
LEMMA GoodIsReported == ArtifactsGood => AcceptedIsReported
<1> SUFFICES ASSUME ArtifactsGood PROVE AcceptedIsReported
  OBVIOUS
<1>1. /\ slots \in Seq(Attempted) /\ \A i \in SuccessPlaces(slots) : Sound(slots[i])
      /\ stage = "broken" => Forgivable(raw, slots)
      /\ stage = "lost" => \E i \in SuccessPlaces(slots) : Copied(raw, slots[i])
  BY DEF ArtifactsGood, Good
<1>2. \A i \in SuccessPlaces(slots) : /\ slots[i] \in ToSet(Successes(slots))
                                      /\ Owned(slots[i]) => OwnRequest(slots[i])
                                      /\ Copied(raw, slots[i]) => OwnCopy(slots[i])
  <2>1. ToSet(Successes(slots)) = {slots[i] : i \in SuccessPlaces(slots)}
    BY <1>1, SuccessesAre
  <2> QED BY <1>1, <2>1, OwnRequestIs, OwnCopyIs
<1>3. stage = "broken" => \/ \E s \in ToSet(Successes(slots)) : OwnRequest(s) \/ OwnCopy(s)
                          \/ ~OneDimension(Successes(slots))
  BY <1>1, <1>2 DEF Forgivable
<1>4. stage = "lost" => \E s \in ToSet(Successes(slots)) : OwnCopy(s)
  BY <1>1, <1>2
<1> QED BY <1>3, <1>4 DEF AcceptedIsReported

(* Soundness is what Provenance says. *)
LEMMA SoundProvenance ==
  ASSUME NEW s, Sound(s)
  PROVE  /\ s.ref # << >> => Equal(TRUE, s.ref[1].refined, s.request.cand)
         /\ \A r \in ToSet(s.payload.record) :
              /\ Equal(TRUE, r.cand, s.request.cand)
              /\ s.ref # << >> /\ r.request.at # s.request.at => Equal(TRUE, r.request.cand, s.ref[1].source)
<1>0. s \in Successful /\ Len(s.ref) <= 1 /\ Len(s.payload.record) <= 1
  BY SoundShape
<1>1. s.ref # << >> => Equal(TRUE, s.ref[1].refined, s.request.cand)
  BY DEF Sound, Refines, Refined, Alike, Equal
<1>2. ASSUME NEW r \in ToSet(s.payload.record)
      PROVE  /\ Equal(TRUE, r.cand, s.request.cand)
             /\ s.ref # << >> /\ r.request.at # s.request.at => Equal(TRUE, r.request.cand, s.ref[1].source)
  <2>1. Recorded(s) /\ r = Rec(s)
    BY <1>0, Shape
  <2> QED BY <2>1 DEF Sound, Refines, Source, Alike, Equal
<1> QED BY <1>1, <1>2

(* Every success of a good state is sound. *)
LEMMA GoodProvenance == ArtifactsGood => Provenance
<1> SUFFICES ASSUME ArtifactsGood PROVE \A s \in ToSet(Held) : Sound(s)
  BY SoundProvenance DEF Provenance
<1>1. /\ slots \in Seq(Attempted) /\ \A i \in SuccessPlaces(slots) : Sound(slots[i])
      /\ report # NoReport => report \in Reports /\ \A k \in DOMAIN report.successes : Sound(report.successes[k])
  BY DEF ArtifactsGood, Good
<1>2. CASE report.kind = "none"
  <2>1. ToSet(Successes(slots)) = {slots[i] : i \in SuccessPlaces(slots)}
    BY <1>1, SuccessesAre
  <2> QED BY <1>1, <1>2, <2>1 DEF Held
<1>3. CASE report.kind # "none"
  BY <1>1, <1>3 DEF Held, NoReport, ToSet
<1> QED BY <1>2, <1>3

(* The answers of a good state are those of its requests, in their order. *)
LEMMA GoodHistory == ArtifactsGood => HistoryKept
<1> DEFINE P == SuccessPlaces(slots)
           n == Cardinality(P)
           Q == {i \in DOMAIN exchange : exchange[i].made.ok}
           made == PickedAt(Q, exchange)
           all == [i \in DOMAIN exchange |-> exchange[i].made]
<1> SUFFICES ASSUME ArtifactsGood, stage \in {"accepted", "told", "reported", "surfaced"}
             PROVE  /\ Len(Held) = Len(made)
                    /\ \A i \in DOMAIN made :
                         /\ Held[i].payload.score = made[i].made.payload.score
                         /\ Held[i].count = made[i].made.count
                         /\ SuccessMatches(Held[i], made[i].request)
                    /\ report.kind # "none" => report.count >= SumOf(all)
                    /\ report.kind = "result" /\ made # << >> =>
                         \A i \in DOMAIN made :
                           \/ Score(made[i].made)[1] > Score(made[report.best].made)[1]
                           \/ Score(made[i].made)[1] = Score(made[report.best].made)[1] /\ i >= report.best
                    /\ report.kind = "surface" =>
                         {i \in DOMAIN made : \A j \in DOMAIN made : ~Dominates(Score(made[j].made), Score(made[i].made))}
                           = ToSet(report.frontier)
  BY DEF HistoryKept
<1>1. /\ exchange \in Batches /\ slots \in Seq(Attempted)
      /\ Ordered(raw, exchange, slots) /\ Fitting(exchange, slots)
      /\ \A i \in P : Sound(slots[i])
      /\ stage \in {"accepted", "told"} => report = NoReport
  BY DEF ArtifactsGood, Good
<1>2. /\ Len(exchange) \in Nat /\ DOMAIN exchange = 1..Len(exchange) /\ Len(slots) = Len(exchange)
      /\ DOMAIN slots = 1..Len(exchange) /\ P \in SUBSET (1..Len(exchange))
      /\ \A i \in 1..Len(exchange) : i \in P <=> slots[i].ok
  BY <1>1, BatchIs, SuccessesAre DEF Ordered
<1>3. \A i \in 1..Len(exchange) : /\ slots[i].ok <=> exchange[i].made.ok
                                  /\ slots[i].count = exchange[i].made.count
                                  /\ slots[i].ok => Keeps(exchange[i].made, slots[i])
  <2> TAKE i \in 1..Len(exchange)
  <2>1. Answers(raw, slots[i], exchange[i])
    BY <1>1 DEF Ordered
  <2> QED BY <1>1, <2>1, AnswersIs
<1>4. Q = P
  BY <1>2, <1>3
<1>5. /\ n \in Nat /\ \A k \in 1..n : PlaceAt(P, k) \in P
      /\ Successes(slots) \in Seq(Successful) /\ Len(Successes(slots)) = n
      /\ \A k \in 1..n : Successes(slots)[k] = slots[PlaceAt(P, k)]
  BY <1>1, SuccessesAre
<1>6. made = [k \in 1..n |-> exchange[PlaceAt(P, k)]]
  BY <1>4 DEF PickedAt
<1> HIDE DEF made, Q, P, n
<1>7. DOMAIN made = 1..n /\ Len(made) = n /\ (made = << >> <=> n = 0)
  <2> DEFINE E == {exchange[i] : i \in P}
  <2>1. made \in [1..n -> E]
    BY <1>5, <1>6
  <2> HIDE DEF E
  <2>2. made \in Seq(E) /\ Len(made) = n /\ DOMAIN made = 1..n
    BY <1>5, <2>1, LenIs
  <2> QED BY <2>2, SequenceIs
<1>8. \A k \in 1..n : /\ Sound(slots[PlaceAt(P, k)]) /\ Keeps(made[k].made, slots[PlaceAt(P, k)])
                      /\ Matches(slots[PlaceAt(P, k)], made[k].request)
  <2> TAKE k \in 1..n
  <2> DEFINE i == PlaceAt(P, k)
  <2>1. i \in P /\ i \in 1..Len(exchange) /\ made[k] = exchange[i]
    BY <1>2, <1>5, <1>6
  <2> HIDE DEF i
  <2>2. Sound(slots[i]) /\ Keeps(exchange[i].made, slots[i]) /\ Matches(slots[i], exchange[i].request)
    BY <1>1, <1>2, <1>3, <2>1 DEF Fitting, P
  <2> QED BY <2>1, <2>2 DEF i
<1>9. SumOf(all) = SumOf(slots)
  <2>1. DOMAIN all = DOMAIN slots /\ \A i \in DOMAIN all : all[i].count = slots[i].count
    BY <1>2, <1>3
  <2> HIDE DEF all
  <2> QED BY <2>1, SameCounts
<1> HIDE DEF all
<1>10. CASE stage \in {"accepted", "told"}
  <2>1. report.kind = "none" /\ Held = Successes(slots)
    BY <1>1, <1>10 DEF Held, NoReport
  <2>2. \A k \in 1..n : /\ Held[k].payload.score = made[k].made.payload.score
                        /\ Held[k].count = made[k].made.count
                        /\ SuccessMatches(Held[k], made[k].request)
    BY <1>5, <1>8, <2>1, MatchesIs DEF Keeps
  <2> QED BY <1>5, <1>7, <2>1, <2>2
<1>11. CASE stage \in {"reported", "surfaced"}
  <2> DEFINE h == report.successes
  <2>1. Carried(slots, report) /\ Summed(report) /\ report \in Reports
    BY <1>11, ReportedIs
  <2>2. /\ h \in Seq(Successful) /\ DOMAIN h = 1..n /\ (h = << >> <=> n = 0)
        /\ \A k \in 1..n : Score(h[k])[1] \in Int /\ Keeps(slots[PlaceAt(P, k)], h[k])
    BY <1>1, <2>1, CarriedIs DEF P, n
  <2>3. Len(h) = n
    BY <2>1 DEF Carried, n, P
  <2>4. report.kind # "none" /\ Held = h
    BY <2>1 DEF Held, Reports
  <2>5. \A k \in 1..n : Keeps(made[k].made, h[k]) /\ Matches(h[k], made[k].request)
    <3> TAKE k \in 1..n
    <3> DEFINE b == slots[PlaceAt(P, k)]
    <3>1. Keeps(made[k].made, b) /\ Keeps(b, h[k]) /\ Matches(b, made[k].request)
      BY <1>8, <2>2
    <3> HIDE DEF b, h
    <3> QED BY <3>1, KeepsTransitive, KeepsMatches
  <2>6. \A k \in 1..n : Score(h[k]) = Score(made[k].made)
    BY <2>5 DEF Keeps, Score
  <2>7. \A k \in 1..n : /\ Held[k].payload.score = made[k].made.payload.score
                        /\ Held[k].count = made[k].made.count
                        /\ SuccessMatches(Held[k], made[k].request)
    BY <2>4, <2>5, MatchesIs DEF Keeps
  <2>8. report.count >= SumOf(all)
    BY <1>9, <2>1 DEF Carried
  <2>9. ASSUME report.kind = "result", made # << >>, NEW i \in 1..n
        PROVE  \/ Score(made[i].made)[1] > Score(made[report.best].made)[1]
               \/ Score(made[i].made)[1] = Score(made[report.best].made)[1] /\ i >= report.best
    <3>1. Leads(report.best, h) /\ h # << >>
      BY <1>7, <2>1, <2>2, <2>9 DEF Summed
    <3> DEFINE b == report.best
    <3>2. /\ b \in 1..n /\ \A j \in 1..n : Score(h[b])[1] <= Score(h[j])[1]
          /\ \A j \in 1..(b - 1) : Score(h[b])[1] < Score(h[j])[1]
      BY <2>2, <3>1 DEF Leads
    <3> HIDE DEF b, h
    <3>3. Score(h[i])[1] > Score(h[b])[1] \/ (Score(h[i])[1] = Score(h[b])[1] /\ i >= b)
      BY <1>5, <2>2, <3>2
    <3>4. Score(h[i])[1] = Score(made[i].made)[1] /\ Score(h[b])[1] = Score(made[b].made)[1]
      BY <2>6, <3>2
    <3> QED BY <3>3, <3>4 DEF b
  <2>10. ASSUME report.kind = "surface"
         PROVE  {i \in DOMAIN made : \A j \in DOMAIN made : ~Dominates(Score(made[j].made), Score(made[i].made))}
                  = ToSet(report.frontier)
    <3>1. report.frontier = Nondominated(h)
      BY <2>1, <2>10 DEF Summed
    <3> HIDE DEF h
    <3>2. ToSet(Nondominated(h)) = {i \in 1..n : \A j \in 1..n : ~Dominates(Score(h[j]), Score(h[i]))}
      BY <1>5, <2>2, NondominatedIs
    <3> QED BY <1>7, <2>6, <3>1, <3>2, SMTT(30)
  <2> HIDE DEF h
  <2> QED BY <1>7, <2>3, <2>4, <2>7, <2>8, <2>9, <2>10
<1> QED BY <1>10, <1>11

(* Whatever the batch, the workers and the way the attempts took: the successes
   of a study say where their candidates come from, and its records, its report
   and its surfaces are those of its requests, in their order, with their scores
   and their costs (artifacts/attempts.py: EvaluationSuccess._validate;
   artifacts/alignment.py; artifacts/terminal.py). *)
THEOREM ArtifactsAreAligned == ArtifactSpec => []ProvenanceKept
<1>1. ArtifactsGood => ProvenanceKept
  BY GoodProvenance, GoodHistory DEF ProvenanceKept
<1> QED BY <1>1, GoodAlways, PTL

(* An accepted batch is told, reported, projected and loaded, and no success is
   lost on its way from a worker, unless a protocol made records of its own or
   scores of several dimensions (study/execution.py:
   _rebind_attempt_candidate_equality). *)
THEOREM ArtifactsAreReported == ArtifactSpec => []AcceptedIsReported
  BY GoodAlways, GoodIsReported, PTL
=============================================================================
