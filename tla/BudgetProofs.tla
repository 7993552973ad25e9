---------------------------- MODULE BudgetProofs ----------------------------
(***************************************************************************)
(* The two ways a run charges its budget for what its attempts evaluate.   *)
(*                                                                         *)
(* The stale-async run, for every budget, batch size and number of         *)
(* overlapping sessions: the checkpoints it hands out pair a state with    *)
(* the groups it was told, a rollback goes to the latest boundary, with    *)
(* evaluation costs counted a completed run can always build its report,   *)
(* and nothing that was submitted is lost or left running.                 *)
(*                                                                         *)
(* A batch of episodes, for every number of requests and every budget: the *)
(* limits granted are those of handing the evaluations out one by one, no  *)
(* episode calls the objective more often than its limit, complete batches *)
(* are settled, and the budget is charged as the contract of a reservation *)
(* says.                                                                   *)
(***************************************************************************)
EXTENDS StaleAsyncRun, EpisodeBatch, SumTheorems, FiniteSetTheorems, SequenceTheorems, TLAPS

(***************************************************************************)
(* The stale-async run                                                     *)
(***************************************************************************)
USE StaleRunAssumption

Typed ==
  /\ state \in States
  /\ history \in Histories
  /\ snapshot \in Cuts
  /\ group \in [slots : Nat, cost : Nat]
  /\ unsafeSince \in BOOLEAN

\* Between two groups the run method has been told what the history lists;
\* while a group is being told it is one group behind.
Told ==
  /\ pc \in {"top", "sweep", "group", "refill"} =>
       state.told = history.slots /\ state.groups = history.groups
  /\ pc = "tell" =>
       /\ state.told + group.slots = history.slots
       /\ state.groups + 1 = history.groups

\* With costs counted, the history counts exactly what its attempts cost.
Exact ==
  CountCost => /\ history.evaluations = history.cost
               /\ snapshot.history.evaluations = snapshot.history.cost

IInv ==
  /\ Typed /\ Told /\ Exact
  /\ CheckpointAligned /\ RollbackIsLatest
  /\ CountCost => CompletedRunsReport

\* Everything the invariant looks at but sessions and budget.
mostVars == <<pc, state, group, history, snapshot, unsafeSince, outcome>>

LEMMA InitInv == Init => IInv
<1> SUFFICES ASSUME Init PROVE IInv
  OBVIOUS
<1> PICK safe \in BOOLEAN, exhausted \in BOOLEAN :
      LET s == [FreshState EXCEPT !.safe = safe, !.exhausted = exhausted] IN
      /\ pc = "top"
      /\ state = s
      /\ group = NoGroup
      /\ history = EmptyHistory
      /\ snapshot = IF StopAtCheckpoint /\ safe THEN Cut(EmptyHistory, s) ELSE NoCut
      /\ unsafeSince = FALSE
      /\ outcome = Outcome("none", EmptyHistory, FreshState, NoCut)
  BY Zenon DEF Init
<1> USE DEF FreshState, EmptyHistory, NoGroup, NoCut, Cut
<1>1. Typed
  BY DEF Typed, States, Histories, Cuts
<1>2. Told /\ Exact
  BY DEF Told, Exact
<1>3. CheckpointAligned /\ RollbackIsLatest
  BY DEF CheckpointAligned, Aligned, RollbackIsLatest, Outcome
<1>4. CompletedRunsReport
  BY DEF CompletedRunsReport, Outcome
<1> QED BY <1>1, <1>2, <1>3, <1>4 DEF IInv

\* Steps that leave mostVars alone.
LEMMA QuietKeeps ==
  ASSUME IInv, UNCHANGED mostVars
  PROVE  IInv'
BY DEF mostVars, IInv, Typed, Told, Exact, CheckpointAligned, Aligned,
  RollbackIsLatest, CompletedRunsReport

\* A failure ends the call; the cut it carries is the one the loop holds.
LEMMA FailKeeps ==
  ASSUME IInv, NEW kept, FailExecution(kept, history)
  PROVE  IInv'
<1>1. /\ pc' = "done" /\ history' = history
      /\ UNCHANGED <<state, group, snapshot, unsafeSince>>
      /\ outcome'.kind \in {"failed", "bare_cause"}
  BY DEF FailExecution, End, Outcome
<1>2. Typed' /\ Told' /\ Exact'
  BY <1>1 DEF IInv, Typed, Told, Exact
<1>3. CheckpointAligned' /\ RollbackIsLatest' /\ CompletedRunsReport'
  BY <1>1 DEF IInv, CheckpointAligned, Aligned, RollbackIsLatest, CompletedRunsReport
<1> QED BY <1>2, <1>3 DEF IInv

\* A call that ends with the cut, or without a report.
LEMMA EndKeeps ==
  ASSUME IInv, NEW stop, NEW kind \in {"budget_exhausted", "never_safe", "interrupted"},
         \/ snapshot.taken /\ End(CheckpointReport(snapshot), stop)
         \/ End(Outcome(kind, EmptyHistory, FreshState, NoCut), stop),
         UNCHANGED <<state, group, history, snapshot, unsafeSince>>
  PROVE  IInv'
<1>1. pc' = "done"
  BY DEF End
<1>2. Typed' /\ Told' /\ Exact' /\ RollbackIsLatest'
  BY <1>1 DEF IInv, Typed, Told, Exact, RollbackIsLatest
<1>3. CheckpointAligned' /\ (CountCost => CompletedRunsReport')
  <2>1. snapshot \in Cuts
    BY DEF IInv, Typed
  <2>2. CASE snapshot.taken /\ End(CheckpointReport(snapshot), stop)
    <3>1. CASE ValidReport(snapshot.history)
      BY <1>1, <2>2, <3>1 DEF IInv, End, CheckpointReport, Outcome, CheckpointAligned,
        Aligned, CompletedRunsReport
    <3>2. CASE ~ValidReport(snapshot.history)
      <4>1. ~CountCost
        BY <2>1, <3>2 DEF IInv, Exact, ValidReport, Cuts, Histories
      <4> QED BY <1>1, <2>2, <3>2, <4>1 DEF IInv, End, CheckpointReport, Outcome,
            CheckpointAligned, Aligned
    <3> QED BY <3>1, <3>2
  <2>3. CASE End(Outcome(kind, EmptyHistory, FreshState, NoCut), stop)
    BY <2>3 DEF IInv, End, Outcome, CheckpointAligned, Aligned, CompletedRunsReport
  <2> QED BY <2>2, <2>3
<1> QED BY <1>2, <1>3 DEF IInv

\* Asking for a batch changes what the run method knows, not what it was told.
LEMMA OpenKeeps ==
  ASSUME IInv, NEW limit, Open(limit), pc \in {"top", "refill"},
         pc' \in {"sweep", "group"}, UNCHANGED <<group, history, snapshot, outcome>>
  PROVE  IInv'
<1> PICK n \in 1..limit, safe \in BOOLEAN, exhausted \in BOOLEAN :
      /\ state' = AfterAsk(n, safe, exhausted)
      /\ unsafeSince' = (unsafeSince \/ (StopAtCheckpoint /\ ~safe))
  BY DEF Open
<1>0. state \in States /\ n \in Nat
  BY DEF IInv, Typed
<1>1. /\ state' \in States
      /\ state'.told = state.told /\ state'.groups = state.groups
  BY <1>0 DEF States, AfterAsk
<1>2. unsafeSince' \in BOOLEAN
  BY Zenon DEF IInv, Typed
<1>3. Typed' /\ Told' /\ Exact'
  BY <1>1, <1>2 DEF IInv, Typed, Told, Exact
<1>4. CheckpointAligned'
  BY DEF IInv, CheckpointAligned, Aligned
<1>5. RollbackIsLatest'
  <2>1. unsafeSince => unsafeSince'
    OBVIOUS
  <2> QED BY <2>1 DEF IInv, RollbackIsLatest
<1>6. CountCost => CompletedRunsReport'
  BY DEF IInv, CompletedRunsReport
<1> QED BY <1>3, <1>4, <1>5, <1>6 DEF IInv

\* A settled group is in the history and not yet told.
LEMMA SettleKeeps ==
  ASSUME IInv, NEW n \in 1..sweep.polled, NEW cost \in 0..(n * MaxAttemptCost),
         Settle(n, cost)
  PROVE  IInv'
<1>0. n \in Nat /\ cost \in Nat
  OBVIOUS
<1>1. CASE CountCost /\ Unmetered(n, cost) > remaining
  <2>1. FailBudget
    BY <1>1 DEF Settle
  <2> QED BY <2>1, EndKeeps DEF FailBudget
<1>2. CASE ~(CountCost /\ Unmetered(n, cost) > remaining)
  <2>1. /\ pc = "group" /\ pc' = "tell"
        /\ group' = [slots |-> n, cost |-> cost]
        /\ history' = [groups |-> history.groups + 1,
                       slots |-> history.slots + n,
                       cost |-> history.cost + cost,
                       evaluations |-> history.evaluations + Counted(n, cost)]
        /\ UNCHANGED <<state, snapshot, unsafeSince, outcome>>
    BY <1>2 DEF Settle
  <2>2. Counted(n, cost) \in Nat /\ (CountCost => Counted(n, cost) = cost)
    BY <1>0 DEF Counted
  <2>3. /\ history' \in Histories
        /\ history'.slots = history.slots + n /\ history'.groups = history.groups + 1
        /\ CountCost => history'.evaluations = history'.cost
    BY <1>0, <2>1, <2>2 DEF IInv, Typed, Exact, Histories
  <2>4. Typed' /\ Told' /\ Exact'
    BY <1>0, <2>1, <2>3 DEF IInv, Typed, Told, Exact
  <2>5. CheckpointAligned' /\ RollbackIsLatest'
    BY <2>1 DEF IInv, CheckpointAligned, Aligned, RollbackIsLatest
  <2>6. CountCost => CompletedRunsReport'
    BY <2>1 DEF IInv, CompletedRunsReport
  <2> QED BY <2>4, <2>5, <2>6 DEF IInv
<1> QED BY <1>1, <1>2

\* Telling the group brings state and history level; a cut taken then is
\* aligned, and a run that stops there reports it.
LEMMA TellKeeps ==
  ASSUME IInv, NEW safe \in BOOLEAN, NEW exhausted \in BOOLEAN, Tell(safe, exhausted)
  PROVE  IInv'
<1> DEFINE s == AfterTell(safe, exhausted)
<1>0. state \in States /\ group.slots \in Nat /\ history \in Histories /\ snapshot \in Cuts
  BY DEF IInv, Typed
<1>1. /\ pc = "tell" /\ state' = s /\ snapshot' = Checkpointed(s)
      /\ pc' \in {"refill", "done"}
      /\ UNCHANGED <<history, group>>
  BY DEF Tell, End
<1>2. /\ s \in States /\ s.safe = safe
      /\ s.told = state.told + group.slots /\ s.groups = state.groups + 1
  BY <1>0 DEF States, AfterTell
<1>3. s.told = history.slots /\ s.groups = history.groups
  BY <1>1, <1>2 DEF IInv, Told
<1> HIDE DEF s
<1>4. snapshot' = IF StopAtCheckpoint /\ safe THEN Cut(history, s) ELSE snapshot
  BY <1>1, <1>2 DEF Checkpointed
<1>5. snapshot' \in Cuts
  BY <1>0, <1>2, <1>4 DEF Cut, Cuts
<1>6. CountCost => snapshot'.history.evaluations = snapshot'.history.cost
  BY <1>4 DEF IInv, Exact, Cut
<1>7. snapshot'.taken => Aligned(snapshot'.history, snapshot'.state)
  BY <1>2, <1>3, <1>4 DEF IInv, CheckpointAligned, Aligned, Cut
<1>8. Told' /\ Exact'
  BY <1>1, <1>3, <1>6 DEF IInv, Told, Exact
<1>9. CASE StopAtCheckpoint /\ safe /\ unsafeSince
  <2>1. /\ pc' = "done" /\ outcome' = CheckpointReport(snapshot')
        /\ UNCHANGED unsafeSince
    BY <1>9 DEF Tell, End
  <2>2. snapshot'.taken
    BY <1>4, <1>9 DEF Cut
  <2>3. Typed' /\ RollbackIsLatest'
    BY <1>1, <1>2, <1>5, <2>1 DEF IInv, Typed, RollbackIsLatest
  <2>4. CheckpointAligned'
    BY <1>7, <2>1, <2>2 DEF CheckpointAligned, Aligned, CheckpointReport, Outcome
  <2>5. CountCost => CompletedRunsReport'
    BY <1>5, <1>6, <2>1 DEF CompletedRunsReport, CheckpointReport, Outcome, ValidReport,
      Cuts, Histories
  <2> QED BY <1>8, <2>3, <2>4, <2>5 DEF IInv
<1>10. CASE ~(StopAtCheckpoint /\ safe /\ unsafeSince)
  <2>1. /\ pc' = "refill" /\ unsafeSince' = (StopAtCheckpoint /\ ~safe)
        /\ UNCHANGED outcome
    BY <1>10 DEF Tell
  <2>2. unsafeSince' \in BOOLEAN
    BY <2>1, StaleRunAssumption, Zenon
  <2>3. Typed'
    BY <1>1, <1>2, <1>5, <2>2 DEF IInv, Typed
  <2>4. RollbackIsLatest'
    <3> SUFFICES ASSUME StopAtCheckpoint, ~unsafeSince'
                 PROVE  snapshot'.taken /\ snapshot'.history = history'
      BY DEF RollbackIsLatest
    <3>1. safe
      BY <2>1, Zenon
    <3> QED BY <1>1, <1>4, <3>1 DEF Cut
  <2>5. CheckpointAligned' /\ (CountCost => CompletedRunsReport')
    BY <1>7, <2>1 DEF IInv, CheckpointAligned, Aligned, CompletedRunsReport
  <2> QED BY <1>8, <2>3, <2>4, <2>5 DEF IInv
<1> QED BY <1>9, <1>10

\* The loop is left between groups.
LEMMA FinishKeeps ==
  ASSUME IInv, Finish
  PROVE  IInv'
<1>0. /\ pc = "top" /\ UNCHANGED <<state, group, history, snapshot, unsafeSince>>
  BY DEF Finish
<1>1. CASE StopAtCheckpoint /\ ~state.safe
  <2>1. \/ snapshot.taken /\ End(CheckpointReport(snapshot), FALSE)
        \/ End(Outcome("never_safe", EmptyHistory, FreshState, NoCut), FALSE)
    BY <1>1 DEF Finish
  <2> QED BY <1>0, <2>1, EndKeeps
<1>2. CASE ~(StopAtCheckpoint /\ ~state.safe)
  <2>1. /\ pc' = "done"
        /\ outcome' = IF ValidReport(history)
                      THEN Outcome("report", history, state, NoCut)
                      ELSE Outcome("no_report", EmptyHistory, FreshState, NoCut)
    BY <1>2 DEF Finish, End
  <2>2. Typed' /\ Told' /\ Exact' /\ RollbackIsLatest'
    BY <1>0, <2>1 DEF IInv, Typed, Told, Exact, RollbackIsLatest
  <2>3. CheckpointAligned'
    BY <1>0, <1>2, <2>1 DEF IInv, Told, CheckpointAligned, Aligned, Outcome
  <2>4. CountCost => CompletedRunsReport'
    BY <2>1 DEF IInv, Typed, Exact, Histories, CompletedRunsReport, Outcome, ValidReport
  <2> QED BY <2>2, <2>3, <2>4 DEF IInv
<1> QED BY <1>1, <1>2

\* Every step keeps the invariant.
LEMMA StepKeeps == IInv /\ [Next]_vars => IInv'
<1> SUFFICES ASSUME IInv, [Next]_vars PROVE IInv'
  OBVIOUS
<1>1. CASE OpenFirst
  <2>1. ASSUME NEW n, FailExecution(Charged(n), history) PROVE IInv'
    BY <2>1, FailKeeps
  <2> QED BY <1>1, <2>1, OpenKeeps DEF OpenFirst, OpenFails
<1>2. CASE StartSweep
  <2>1. /\ pc = "top" /\ pc' = "sweep"
        /\ UNCHANGED <<state, group, history, snapshot, unsafeSince, outcome>>
    BY <1>2 DEF StartSweep
  <2> QED BY <2>1 DEF IInv, Typed, Told, Exact, CheckpointAligned, Aligned,
        RollbackIsLatest, CompletedRunsReport
<1>3. CASE Poll
  <2>1. /\ pc = "sweep" /\ pc' \in {"sweep", "group"}
        /\ UNCHANGED <<state, group, history, snapshot, unsafeSince, outcome>>
    BY <1>3 DEF Poll
  <2> QED BY <2>1 DEF IInv, Typed, Told, Exact, CheckpointAligned, Aligned,
        RollbackIsLatest, CompletedRunsReport
<1>4. CASE PollFails \/ MaterializeFails \/ TellFails
  BY <1>4, FailKeeps DEF PollFails, MaterializeFails, TellFails
<1>5. ASSUME NEW n \in 1..sweep.polled, NEW cost \in 0..(n * MaxAttemptCost),
             Settle(n, cost)
      PROVE IInv'
  BY <1>5, SettleKeeps
<1>6. ASSUME NEW safe \in BOOLEAN, NEW exhausted \in BOOLEAN, Tell(safe, exhausted)
      PROVE IInv'
  BY <1>6, TellKeeps
<1>7. CASE Refill
  <2>0. pc = "refill"
    BY <1>7 DEF Refill
  <2>1. CASE HasWork /\ Open(RefillSize) /\ NextGroup
             /\ UNCHANGED <<group, history, snapshot, cancelled, outcome>>
    <3>1. pc' \in {"sweep", "group"}
      BY <2>1 DEF NextGroup
    <3> QED BY <2>0, <2>1, <3>1, OpenKeeps
  <2>2. CASE OpenFails(RefillSize)
    BY <2>2, FailKeeps DEF OpenFails
  <2>3. CASE ~HasWork
    <3>1. /\ pc' \in {"sweep", "group"}
          /\ UNCHANGED <<state, group, history, snapshot, unsafeSince, outcome>>
      BY <1>7, <2>3 DEF Refill, NextGroup
    <3> QED BY <2>0, <3>1 DEF IInv, Typed, Told, Exact, CheckpointAligned, Aligned,
          RollbackIsLatest, CompletedRunsReport
  <2> QED BY <1>7, <2>1, <2>2, <2>3 DEF Refill
<1>8. CASE EndSweep
  <2>1. /\ pc = "sweep" /\ pc' = "top"
        /\ UNCHANGED <<state, group, history, snapshot, unsafeSince, outcome>>
    BY <1>8 DEF EndSweep
  <2> QED BY <2>1 DEF IInv, Typed, Told, Exact, CheckpointAligned, Aligned,
        RollbackIsLatest, CompletedRunsReport
<1>9. CASE Finish
  BY <1>9, FinishKeeps
<1>10. CASE Interrupt
  BY <1>10, EndKeeps DEF Interrupt
<1>11. ASSUME NEW i \in DOMAIN sessions, Complete(i) PROVE IInv'
  BY <1>11, QuietKeeps DEF Complete, mostVars
<1>12. CASE UNCHANGED vars
  BY <1>12, QuietKeeps DEF vars, mostVars
<1> QED BY <1>1, <1>2, <1>3, <1>4, <1>5, <1>6, <1>7, <1>8, <1>9, <1>10, <1>11, <1>12
      DEF Next, Loop

\* The inductive invariant of run_stale_async.
THEOREM Invariance == Spec => []IInv
BY InitInv, StepKeeps, PTL DEF Spec

\* However many sessions overlap, a checkpoint or report handed out pairs a
\* safe run-method state with exactly the groups it was told.
THEOREM Alignment == Spec => []CheckpointAligned
BY Invariance, PTL DEF IInv

\* The cut a stale-async run rolls back to is its latest safe boundary.
THEOREM Rollback == Spec => []RollbackIsLatest
BY Invariance, PTL DEF IInv

\* With evaluation costs counted, a run that nothing interrupts returns a
\* report.
THEOREM Reporting == ASSUME CountCost PROVE Spec => []CompletedRunsReport
<1>1. IInv => CompletedRunsReport
  BY DEF IInv
<1> QED BY <1>1, Invariance, PTL

-----------------------------------------------------------------------------
(* What was submitted: the requests of the open sessions add up with those  *)
(* polled and told.                                                         *)

\* What each session has outstanding, and all of them.
Weights(ss) == [i \in DOMAIN ss |-> Outstanding(ss[i])]
InFlight(ss) == SumFunction(Weights(ss))

LEMMA SessionFields ==
  ASSUME NEW ss \in Seq(Sessions), NEW i \in DOMAIN ss
  PROVE  /\ ss[i] \in Sessions /\ ss[i].running \in Nat /\ ss[i].ready \in Nat
         /\ Weights(ss)[i] = ss[i].running + ss[i].ready /\ Weights(ss)[i] \in Nat
<1>1. ss[i] \in Sessions
  OBVIOUS
<1> QED BY <1>1 DEF Weights, Outstanding, Sessions

LEMMA InFlightIs ==
  ASSUME NEW ss \in Seq(Sessions)
  PROVE  /\ DOMAIN ss = 1..Len(ss) /\ IsFiniteSet(DOMAIN ss)
         /\ InFlight(ss) = SumFunctionOnSet(Weights(ss), DOMAIN ss) /\ InFlight(ss) \in Nat
<1>1. DOMAIN ss = 1..Len(ss) /\ Len(ss) \in Nat
  OBVIOUS
<1>2. IsFiniteSet(DOMAIN ss)
  BY <1>1, FS_Interval
<1>3. InFlight(ss) = SumFunctionOnSet(Weights(ss), DOMAIN ss)
  BY DEF InFlight, SumFunction, Weights
<1>4. \A i \in DOMAIN ss : Weights(ss)[i] \in Nat
  BY SessionFields
<1>5. SumFunctionOnSet(Weights(ss), DOMAIN ss) \in Nat
  BY <1>2, <1>4, SumNat
<1> QED BY <1>1, <1>2, <1>3, <1>5

\* A session that is opened adds its requests.
LEMMA OpeningAdds ==
  ASSUME NEW ss \in Seq(Sessions), NEW n \in Nat
  PROVE  /\ Append(ss, [running |-> n, ready |-> 0]) \in Seq(Sessions)
         /\ InFlight(Append(ss, [running |-> n, ready |-> 0])) = InFlight(ss) + n
<1> DEFINE opened == [running |-> n, ready |-> 0]
           tt == Append(ss, opened)
           last == Len(ss) + 1
<1>1. opened \in Sessions
  BY DEF Sessions
<1>2. /\ tt \in Seq(Sessions) /\ DOMAIN tt = 1..last /\ DOMAIN ss = 1..Len(ss) /\ Len(ss) \in Nat
      /\ tt[last] = opened /\ \A i \in DOMAIN ss : tt[i] = ss[i]
  <2> HIDE DEF opened
  <2> QED BY <1>1
<1>3. tt[last].running = n /\ tt[last].ready = 0
  BY <1>2
<1> HIDE DEF opened, tt
<1>4. last \in DOMAIN tt /\ (DOMAIN tt) \ {last} = DOMAIN ss
  BY <1>2
<1>5. Weights(tt)[last] = n /\ \A i \in DOMAIN ss : Weights(tt)[i] = Weights(ss)[i]
  BY <1>2, <1>3, <1>4 DEF Weights, Outstanding
<1>6. InFlight(tt) = n + SumFunctionOnSet(Weights(tt), DOMAIN ss)
  <2>1. \A i \in DOMAIN tt : Weights(tt)[i] \in Int
    BY <1>2, SessionFields
  <2>2. SumFunctionOnSet(Weights(tt), DOMAIN tt)
          = Weights(tt)[last] + SumFunctionOnSet(Weights(tt), (DOMAIN tt) \ {last})
    BY <1>2, <1>4, <2>1, InFlightIs, SumRemove
  <2> QED BY <1>2, <1>4, <1>5, <2>2, InFlightIs
<1>7. SumFunctionOnSet(Weights(tt), DOMAIN ss) = SumFunctionOnSet(Weights(ss), DOMAIN ss)
  BY <1>5, InFlightIs, SumCongruence
<1>8. InFlight(ss) = SumFunctionOnSet(Weights(ss), DOMAIN ss) /\ InFlight(ss) \in Nat
  BY InFlightIs
<1> QED BY <1>2, <1>6, <1>7, <1>8 DEF tt, opened

\* A session that changes changes what is in flight by as much.
LEMMA ChangeCounts ==
  ASSUME NEW ss \in Seq(Sessions), NEW i \in DOMAIN ss, NEW s \in Sessions
  PROVE  /\ [ss EXCEPT ![i] = s] \in Seq(Sessions)
         /\ InFlight([ss EXCEPT ![i] = s]) = InFlight(ss) - Outstanding(ss[i]) + Outstanding(s)
<1> DEFINE tt == [ss EXCEPT ![i] = s]
<1>1. tt \in Seq(Sessions) /\ DOMAIN tt = DOMAIN ss /\ tt[i] = s
      /\ \A j \in DOMAIN ss \ {i} : tt[j] = ss[j]
  OBVIOUS
<1> HIDE DEF tt
<1>2. /\ \A j \in DOMAIN ss : Weights(ss)[j] \in Int /\ Weights(tt)[j] \in Int
      /\ \A j \in DOMAIN ss \ {i} : Weights(tt)[j] = Weights(ss)[j]
  <2>1. \A j \in DOMAIN ss : Weights(ss)[j] \in Int /\ Weights(tt)[j] \in Int
    BY <1>1, SessionFields
  <2>2. \A j \in DOMAIN ss \ {i} : Weights(tt)[j] = Weights(ss)[j]
    BY <1>1 DEF Weights
  <2> QED BY <2>1, <2>2
<1>3. SumFunctionOnSet(Weights(tt), DOMAIN ss)
        = SumFunctionOnSet(Weights(ss), DOMAIN ss) - Weights(ss)[i] + Weights(tt)[i]
  BY <1>2, InFlightIs, SumAt
<1>4. Weights(ss)[i] = Outstanding(ss[i]) /\ Weights(tt)[i] = Outstanding(s)
  BY <1>1 DEF Weights
<1>5. InFlight(ss) = SumFunctionOnSet(Weights(ss), DOMAIN ss)
      /\ InFlight(tt) = SumFunctionOnSet(Weights(tt), DOMAIN ss)
  BY <1>1, InFlightIs
<1> QED BY <1>1, <1>3, <1>4, <1>5 DEF tt

\* The sessions dropped at the end of a sweep have nothing outstanding.
LEMMA DroppingLosesNothing ==
  ASSUME sessions \in Seq(Sessions)
  PROVE  StillActive \in Seq(Sessions) /\ InFlight(StillActive) = InFlight(sessions)
<1> DEFINE n == Cardinality(Active)
           index == [k \in 1..n |-> CHOOSE i \in Active : Position(i) = k]
<1>0. PICK ss \in Seq(Sessions) : ss = sessions
  OBVIOUS
<1>1. /\ DOMAIN ss = 1..Len(ss) /\ IsFiniteSet(DOMAIN ss)
      /\ InFlight(ss) = SumFunctionOnSet(Weights(ss), DOMAIN ss)
  BY InFlightIs
<1>2. Active \in SUBSET (DOMAIN ss) /\ Active \in SUBSET Int
  BY <1>0, <1>1 DEF Active
<1>3. IsFiniteSet(Active) /\ n \in Nat
  BY <1>1, <1>2, FS_Subset, FS_CardinalityType
<1>4. \A i \in Active : Position(i) = Cardinality(Before(Active, i)) + 1
  BY DEF Position, Before
<1>5. PICK A \in SUBSET Int : A = Active
  BY <1>2
<1>6. /\ \A i \in Active : Position(i) \in 1..n
      /\ \A i, j \in Active : i < j => Position(i) < Position(j)
      /\ \A k \in 1..n : \E i \in Active : Position(i) = k
  <2>1. /\ \A i \in A : Cardinality(Before(A, i)) \in 0..(Cardinality(A) - 1)
        /\ \A i, j \in A : i < j => Cardinality(Before(A, i)) < Cardinality(Before(A, j))
        /\ \A k \in 0..(Cardinality(A) - 1) : \E i \in A : Cardinality(Before(A, i)) = k
    BY <1>3, <1>5, Ranking
  <2>2. ASSUME NEW k \in 1..n PROVE \E i \in Active : Position(i) = k
    <3>1. k - 1 \in 0..(Cardinality(A) - 1)
      BY <1>3, <1>5
    <3>2. PICK i \in A : Cardinality(Before(A, i)) = k - 1
      BY <2>1, <3>1
    <3> QED BY <1>4, <1>5, <3>2
  <2>3. \A i \in Active : Position(i) \in 1..n
    BY <1>3, <1>4, <1>5, <2>1
  <2>4. ASSUME NEW i \in Active, NEW j \in Active, i < j PROVE Position(i) < Position(j)
    <3>1. Cardinality(Before(A, i)) < Cardinality(Before(A, j))
          /\ Cardinality(Before(A, i)) \in Int /\ Cardinality(Before(A, j)) \in Int
      BY <1>5, <2>1, <2>4
    <3> QED BY <1>4, <1>5, <3>1
  <2> QED BY <2>2, <2>3, <2>4
<1>7. \A k \in 1..n : index[k] \in Active /\ Position(index[k]) = k
  BY <1>6
<1>8. \A i, j \in Active : Position(i) = Position(j) => i = j
  <2> SUFFICES ASSUME NEW i \in Active, NEW j \in Active, Position(i) = Position(j), i # j
               PROVE  FALSE
    OBVIOUS
  <2>1. i < j \/ j < i
    BY <1>2
  <2>2. Position(i) \in Int /\ Position(j) \in Int
    BY <1>6
  <2> QED BY <1>6, <2>1, <2>2
<1>9. index = [k \in 1..n |-> index[k]]
  OBVIOUS
<1> HIDE DEF index
<1>10. index \in Bijection(1..n, Active)
  <2>1. index \in [1..n -> Active]
    BY <1>7, <1>9
  <2>2. \A k, l \in 1..n : index[k] = index[l] => k = l
    BY <1>7
  <2>3. \A i \in Active : \E k \in 1..n : index[k] = i
    BY <1>6, <1>7, <1>8
  <2> QED BY <2>1, <2>2, <2>3 DEF Bijection, Injection, Surjection, IsInjective
<1>11. StillActive = [k \in 1..n |-> ss[index[k]]]
  BY <1>0 DEF StillActive, index
<1>12. StillActive \in Seq(Sessions) /\ DOMAIN StillActive = 1..n
  <2>1. \A k \in 1..n : ss[index[k]] \in Sessions
    BY <1>2, <1>7, SessionFields
  <2> HIDE DEF n
  <2> QED BY <1>3, <1>11, <2>1
<1>13. \A k \in 1..n : Weights(StillActive)[k] \in Int
                       /\ Weights(StillActive)[k] = Weights(ss)[index[k]]
  <2> SUFFICES ASSUME NEW k \in 1..n
               PROVE  Weights(StillActive)[k] = Weights(ss)[index[k]] /\ Weights(ss)[index[k]] \in Int
    OBVIOUS
  <2>1. index[k] \in DOMAIN ss
    BY <1>2, <1>7
  <2>2. Weights(ss)[index[k]] \in Int
    BY <2>1, SessionFields
  <2>3. Weights(StillActive)[k] = Outstanding(ss[index[k]])
    BY <1>11, <1>12 DEF Weights
  <2> QED BY <2>1, <2>2, <2>3 DEF Weights
<1>14. SumFunctionOnSet(Weights(StillActive), 1..n) = SumFunctionOnSet(Weights(ss), Active)
  <2>1. IsFiniteSet(1..n)
    BY <1>3, FS_Interval
  <2> HIDE DEF n
  <2> QED BY <1>3, <1>10, <1>13, <2>1, SumReindex
<1>15. SumFunctionOnSet(Weights(ss), DOMAIN ss) = SumFunctionOnSet(Weights(ss), Active)
  <2>1. \A i \in DOMAIN ss : Weights(ss)[i] \in Int
    BY SessionFields
  <2>2. ASSUME NEW i \in DOMAIN ss \ Active PROVE Weights(ss)[i] = 0
    <3>1. Weights(ss)[i] = Outstanding(ss[i]) /\ Weights(ss)[i] \in Nat
      BY SessionFields DEF Weights
    <3>2. ~(Outstanding(ss[i]) > 0)
      BY <1>0, <2>2 DEF Active, IsActive
    <3> QED BY <3>1, <3>2
  <2> QED BY <1>1, <1>2, <2>1, <2>2, SumOnSubset
<1>16. InFlight(StillActive) = SumFunctionOnSet(Weights(StillActive), 1..n)
  BY <1>12, InFlightIs
<1> QED BY <1>0, <1>1, <1>12, <1>14, <1>15, <1>16

\* The loop between its calls: the sweep stays within the open sessions, and
\* outside the groups nothing is polled that is not told.
Sweeping ==
  /\ sessions \in Seq(Sessions) /\ remaining \in Int
  /\ sweep \in [at : Nat \ {0}, last : Nat, polled : Nat] /\ sweep.last <= Len(sessions)
  /\ pc \in {"top", "sweep"} => sweep.polled = 0

Accounts == Sweeping /\ SubmissionsAccounted

\* What the two invariants say of numbers.
LEMMA Figures ==
  ASSUME IInv, Sweeping
  PROVE  /\ state.asked \in Nat /\ history.slots \in Nat /\ history.evaluations \in Nat
         /\ sweep.polled \in Nat /\ remaining \in Int
         /\ InEvaluator = InFlight(sessions) /\ InEvaluator \in Nat
<1>1. InEvaluator = InFlight(sessions)
  BY DEF InEvaluator, InFlight, Weights
<1>2. InFlight(sessions) \in Nat
  BY InFlightIs DEF Sweeping
<1> QED BY <1>1, <1>2 DEF IInv, Typed, Sweeping, States, Histories

\* A call that ends by force cancels what is open.
LEMMA EndAccounts ==
  ASSUME Sweeping, NEW kept \in Int, remaining' = kept, UNCHANGED <<sessions, sweep>>,
         pc' = "done", cancelled' = TRUE
  PROVE  Accounts'
BY DEF Accounts, Sweeping, SubmissionsAccounted, WithinBudget, NothingDropped

LEMMA FailAccounts ==
  ASSUME Sweeping, NEW kept, kept \in Int, NEW h, FailExecution(kept, h)
  PROVE  Accounts'
<1>1. remaining' = kept /\ UNCHANGED <<sessions, sweep>> /\ pc' = "done" /\ cancelled' = TRUE
  BY DEF FailExecution, End, CancelSessions
<1> QED BY <1>1 DEF Accounts, Sweeping, SubmissionsAccounted, WithinBudget, NothingDropped

\* A session that is opened moves its requests from the budget to the
\* evaluator.
LEMMA OpenAccounts ==
  ASSUME IInv, Accounts, pc # "done", NEW limit \in Int, limit <= remaining, Open(limit),
         history' = history, sweep'.polled = sweep.polled, pc' # "done"
  PROVE  /\ sessions' \in Seq(Sessions) /\ Len(sessions') = Len(sessions) + 1
         /\ remaining' \in Int /\ SubmissionsAccounted'
<1>1. PICK n \in 1..limit : /\ remaining' = Charged(n)
                            /\ sessions' = Append(sessions, [running |-> n, ready |-> 0])
                            /\ state'.asked = state.asked + n
  <2>1. PICK n \in 1..limit, safe \in BOOLEAN, exhausted \in BOOLEAN :
          /\ remaining' = Charged(n)
          /\ sessions' = Append(sessions, [running |-> n, ready |-> 0])
          /\ state' = AfterAsk(n, safe, exhausted)
    BY DEF Open
  <2>2. state'.asked = state.asked + n
    BY <2>1 DEF AfterAsk
  <2> QED BY <2>1, <2>2
<1>2. n \in Nat /\ n <= remaining
  BY DEF Accounts, Sweeping
<1>3. PICK ss \in Seq(Sessions) : ss = sessions
  BY DEF Accounts, Sweeping
<1>4. sessions' \in Seq(Sessions) /\ InFlight(sessions') = InFlight(sessions) + n
  BY <1>1, <1>2, <1>3, OpeningAdds
<1>5. Len(sessions') = Len(sessions) + 1
  <2> DEFINE opened == [running |-> n, ready |-> 0]
  <2>1. opened \in Sessions
    BY <1>2 DEF Sessions
  <2> HIDE DEF opened
  <2>2. Len(Append(ss, opened)) = Len(ss) + 1
    BY <2>1
  <2> QED BY <1>1, <1>3, <2>2 DEF opened
<1>6. InEvaluator' = InEvaluator + n /\ InEvaluator \in Nat
  <2>1. InEvaluator' = InFlight(sessions')
    BY DEF InEvaluator, InFlight, Weights
  <2> QED BY <1>4, <2>1, Figures DEF Accounts
<1>7. remaining' = IF CountCost THEN remaining - n ELSE remaining
  BY <1>1 DEF Charged
<1>8. /\ state.asked \in Nat /\ history.slots \in Nat /\ history.evaluations \in Nat
      /\ sweep.polled \in Nat /\ remaining \in Int
  BY Figures DEF Accounts
<1>9. NothingDropped'
  BY <1>1, <1>2, <1>6, <1>8 DEF Accounts, SubmissionsAccounted, NothingDropped
<1>10. WithinBudget'
  BY <1>2, <1>6, <1>7, <1>8 DEF Accounts, SubmissionsAccounted, WithinBudget
<1> QED BY <1>2, <1>4, <1>5, <1>7, <1>8, <1>9, <1>10 DEF SubmissionsAccounted

\* A session of which a request is completed, or m requests polled.
LEMMA CompletedSession ==
  ASSUME NEW s \in Sessions, s.running > 0
  PROVE  \E r \in Sessions : /\ r = [running |-> s.running - 1, ready |-> s.ready + 1]
                             /\ Outstanding(r) = Outstanding(s)
<1>1. s.running \in Nat /\ s.ready \in Nat
  BY DEF Sessions
<1>2. s.running - 1 \in Nat /\ s.ready + 1 \in Nat
      /\ (s.running - 1) + (s.ready + 1) = s.running + s.ready
  BY <1>1
<1> DEFINE r == [running |-> s.running - 1, ready |-> s.ready + 1]
<1>3. r \in Sessions /\ r.running = s.running - 1 /\ r.ready = s.ready + 1
  BY <1>2 DEF Sessions
<1> HIDE DEF r
<1>4. Outstanding(r) = Outstanding(s)
  BY <1>2, <1>3 DEF Outstanding
<1> QED BY <1>3, <1>4 DEF r

LEMMA PolledSession ==
  ASSUME NEW s \in Sessions, NEW m \in 1..(s.ready)
  PROVE  \E r \in Sessions : r = [s EXCEPT !.ready = @ - m] /\ Outstanding(r) = Outstanding(s) - m
<1>1. s.running \in Nat /\ s.ready \in Nat /\ m \in Nat /\ m <= s.ready
  BY DEF Sessions
<1>2. s.ready - m \in Nat /\ s.running + (s.ready - m) = (s.running + s.ready) - m
  BY <1>1
<1> DEFINE r == [s EXCEPT !.ready = @ - m]
<1>3. r \in Sessions /\ r.running = s.running /\ r.ready = s.ready - m
  BY <1>2 DEF Sessions
<1> HIDE DEF r
<1>4. Outstanding(r) = Outstanding(s) - m
  BY <1>2, <1>3 DEF Outstanding
<1> QED BY <1>3, <1>4 DEF r

\* The evaluator completes a request; the loop polls what is complete.
LEMMA CompletionAccounts ==
  ASSUME IInv, Accounts, NEW i \in DOMAIN sessions, Complete(i)
  PROVE  Accounts'
<1>1. PICK ss \in Seq(Sessions) : ss = sessions
  BY DEF Accounts, Sweeping
<1>2. PICK s \in Sessions : /\ s = [running |-> ss[i].running - 1, ready |-> ss[i].ready + 1]
                            /\ Outstanding(s) = Outstanding(ss[i])
  <2>1. ss[i] \in Sessions /\ ss[i].running > 0
    BY <1>1, SessionFields DEF Complete
  <2> QED BY <2>1, CompletedSession
<1>3. sessions' = [ss EXCEPT ![i] = s]
  BY <1>1, <1>2 DEF Complete
<1>4. Outstanding(ss[i]) \in Nat
  BY <1>1, SessionFields DEF Weights
<1>5. sessions' \in Seq(Sessions) /\ InFlight(sessions') = InFlight(sessions) /\ Len(sessions') = Len(sessions)
  <2>1. InFlight(sessions') = InFlight(ss) - Outstanding(ss[i]) + Outstanding(s) /\ sessions' \in Seq(Sessions)
    BY <1>1, <1>3, ChangeCounts
  <2>2. InFlight(ss) \in Nat
    BY InFlightIs
  <2>3. Len(sessions') = Len(ss)
    BY <1>3
  <2> QED BY <1>1, <1>2, <1>4, <2>1, <2>2, <2>3
<1>6. InEvaluator' = InEvaluator
  BY <1>5 DEF InEvaluator, InFlight, Weights
<1> QED BY <1>5, <1>6 DEF Complete, Accounts, Sweeping, SubmissionsAccounted, WithinBudget, NothingDropped

LEMMA PollAccounts ==
  ASSUME IInv, Accounts, Poll
  PROVE  Accounts'
<1>1. PICK ss \in Seq(Sessions) : ss = sessions
  BY DEF Accounts, Sweeping
<1>2. sweep \in [at : Nat \ {0}, last : Nat, polled : Nat] /\ sweep.polled = 0 /\ sweep.at \in DOMAIN ss
  <2>1. sweep.at \in Nat \ {0} /\ sweep.last \in Nat /\ sweep.at <= sweep.last /\ sweep.last <= Len(ss)
        /\ sweep.polled = 0
    BY <1>1 DEF Poll, Accounts, Sweeping
  <2> QED BY <2>1 DEF Accounts, Sweeping
<1>3. CASE sweep' = [sweep EXCEPT !.at = @ + 1] /\ UNCHANGED <<pc, sessions>>
  <2>1. sweep' \in [at : Nat \ {0}, last : Nat, polled : Nat] /\ sweep'.last = sweep.last
        /\ sweep'.polled = sweep.polled
    BY <1>2, <1>3
  <2>2. InEvaluator' = InEvaluator
    BY <1>3 DEF InEvaluator
  <2> QED BY <1>3, <2>1, <2>2 DEF Poll, Accounts, Sweeping, SubmissionsAccounted, WithinBudget, NothingDropped
<1>4. ASSUME NEW m \in 1..(ss[sweep.at].ready), sweep' = [sweep EXCEPT !.polled = m],
             sessions' = [sessions EXCEPT ![sweep.at].ready = @ - m], pc' = "group"
      PROVE  Accounts'
  <2>1. PICK i \in DOMAIN ss : i = sweep.at
    BY <1>2
  <2>2. ss[i].running \in Nat /\ ss[i].ready \in Nat /\ m \in Nat /\ m <= ss[i].ready
        /\ ss[i] \in Sessions
    BY <1>4, <2>1, SessionFields
  <2>3. PICK s \in Sessions : /\ s = [ss[i] EXCEPT !.ready = @ - m]
                              /\ Outstanding(s) = Outstanding(ss[i]) - m
    BY <1>4, <2>1, <2>2, PolledSession
  <2>4. sessions' = [ss EXCEPT ![i] = s]
    BY <1>1, <1>4, <2>1, <2>3
  <2>5. sessions' \in Seq(Sessions) /\ InFlight(sessions') = InFlight(sessions) - m
        /\ Len(sessions') = Len(sessions)
    <3>1. InFlight(sessions') = InFlight(ss) - Outstanding(ss[i]) + Outstanding(s) /\ sessions' \in Seq(Sessions)
      BY <2>4, ChangeCounts
    <3>2. InFlight(ss) \in Nat /\ Outstanding(ss[i]) \in Nat
      BY <2>2, InFlightIs DEF Outstanding
    <3>3. Len(sessions') = Len(ss)
      BY <2>4
    <3> QED BY <1>1, <2>2, <2>3, <3>1, <3>2, <3>3
  <2>6. InEvaluator' = InEvaluator - m /\ InEvaluator \in Nat
    <3>1. InEvaluator' = InFlight(sessions')
      BY DEF InEvaluator, InFlight, Weights
    <3> QED BY <2>5, <3>1, Figures DEF Accounts
  <2>7. sweep' \in [at : Nat \ {0}, last : Nat, polled : Nat] /\ sweep'.last = sweep.last
        /\ sweep'.polled = m
    BY <1>2, <1>4, <2>2
  <2>8. Sweeping'
    BY <1>4, <2>5, <2>7 DEF Poll, Accounts, Sweeping
  <2>9. SubmissionsAccounted'
    <3>1. /\ state.asked \in Nat /\ history.slots \in Nat /\ history.evaluations \in Nat
          /\ remaining \in Int /\ m \in Nat
      BY <2>2, Figures DEF Accounts
    <3>2. pc = "sweep" /\ UNCHANGED <<remaining, state, history>>
      BY DEF Poll
    <3>3. WithinBudget'
      BY <1>2, <1>4, <2>6, <2>7, <3>1, <3>2 DEF Accounts, SubmissionsAccounted, WithinBudget
    <3>4. NothingDropped'
      BY <1>2, <1>4, <2>6, <2>7, <3>1, <3>2 DEF Accounts, SubmissionsAccounted, NothingDropped
    <3> QED BY <3>3, <3>4 DEF SubmissionsAccounted
  <2> QED BY <2>8, <2>9 DEF Accounts
<1> QED BY <1>1, <1>3, <1>4 DEF Poll

\* A group that is settled is paid for by what was charged for its requests
\* and what it leaves of the budget.
LEMMA SettleAccounts ==
  ASSUME IInv, Accounts, NEW n \in 1..sweep.polled, NEW cost \in 0..(n * MaxAttemptCost), Settle(n, cost)
  PROVE  Accounts'
<1>1. n \in Nat /\ n <= sweep.polled /\ sweep.polled \in Nat /\ cost \in Nat
  BY Figures DEF Accounts
<1>2. CASE CountCost /\ Unmetered(n, cost) > remaining
  <2>1. remaining' = remaining /\ UNCHANGED <<sessions, sweep>> /\ pc' = "done" /\ cancelled' = TRUE
    BY <1>2 DEF Settle, FailBudget, End, CancelSessions
  <2> QED BY <2>1, EndAccounts DEF Accounts, Sweeping
<1>3. CASE ~(CountCost /\ Unmetered(n, cost) > remaining)
  <2>1. /\ remaining' = Left(n, cost) /\ sweep' = [sweep EXCEPT !.polled = @ - n]
        /\ history'.slots = history.slots + n
        /\ history'.evaluations = history.evaluations + Counted(n, cost)
        /\ pc = "group" /\ pc' = "tell" /\ UNCHANGED <<state, sessions>>
    BY <1>3 DEF Settle
  <2>2. /\ sweep' \in [at : Nat \ {0}, last : Nat, polled : Nat]
        /\ sweep'.last = sweep.last /\ sweep'.polled = sweep.polled - n
    BY <1>1, <2>1, SMTT(20) DEF Accounts, Sweeping
  <2>3. /\ state.asked \in Nat /\ history.slots \in Nat /\ history.evaluations \in Nat
        /\ remaining \in Int /\ InEvaluator \in Nat /\ InEvaluator' = InEvaluator
    BY <2>1, Figures DEF Accounts, InEvaluator
  <2>4. Unmetered(n, cost) \in Nat /\ Unmetered(n, cost) >= cost - n
    BY <1>1 DEF Unmetered, Bigger
  <2>5. remaining' \in Int
    BY <1>1, <2>1, <2>3, <2>4 DEF Left
  <2>6. NothingDropped'
    BY <1>1, <2>1, <2>2, <2>3 DEF Accounts, SubmissionsAccounted, NothingDropped
  <2>7. WithinBudget'
    <3> SUFFICES ASSUME CountCost
                 PROVE  /\ remaining' >= 0
                        /\ history'.evaluations + InEvaluator' + sweep'.polled + remaining' <= MaxEvaluations
      BY DEF WithinBudget
    <3>1. remaining' = remaining - Unmetered(n, cost) /\ history'.evaluations = history.evaluations + cost
      BY <2>1 DEF Left, Counted
    <3>2. history.evaluations + InEvaluator + sweep.polled + remaining <= MaxEvaluations
      BY <2>1 DEF Accounts, SubmissionsAccounted, WithinBudget
    <3> QED BY <1>1, <1>3, <2>2, <2>3, <2>4, <3>1, <3>2
  <2>8. Sweeping'
    BY <2>1, <2>2, <2>5 DEF Accounts, Sweeping
  <2> QED BY <2>6, <2>7, <2>8 DEF Accounts, SubmissionsAccounted
<1> QED BY <1>2, <1>3

\* The next group, or the next session, is taken with nothing lost.
LEMMA NextGroupSweeps ==
  ASSUME Sweeping, NextGroup, pc = "refill"
  PROVE  /\ sweep' \in [at : Nat \ {0}, last : Nat, polled : Nat]
         /\ sweep'.last = sweep.last /\ sweep'.polled = sweep.polled
         /\ pc' \in {"sweep", "group"} /\ (pc' = "sweep" => sweep'.polled = 0)
<1>1. sweep \in [at : Nat \ {0}, last : Nat, polled : Nat]
  BY DEF Sweeping
<1>2. CASE sweep.polled > 0
  BY <1>1, <1>2 DEF NextGroup
<1>3. CASE ~(sweep.polled > 0)
  BY <1>1, <1>3 DEF NextGroup
<1> QED BY <1>2, <1>3

LEMMA RefillAccounts ==
  ASSUME IInv, Accounts, Refill
  PROVE  Accounts'
<1>0. pc = "refill" /\ remaining \in Int /\ RefillSize \in Int /\ RefillSize <= remaining
  BY DEF Refill, RefillSize, Smaller, Accounts, Sweeping, IInv, Typed
<1>1. CASE Open(RefillSize) /\ NextGroup /\ UNCHANGED <<group, history, snapshot, cancelled, outcome>>
  <2>1. /\ sweep' \in [at : Nat \ {0}, last : Nat, polled : Nat]
        /\ sweep'.last = sweep.last /\ sweep'.polled = sweep.polled
        /\ pc' \in {"sweep", "group"} /\ (pc' = "sweep" => sweep'.polled = 0)
    BY <1>0, <1>1, NextGroupSweeps DEF Accounts
  <2>2. /\ sessions' \in Seq(Sessions) /\ Len(sessions') = Len(sessions) + 1
        /\ remaining' \in Int /\ SubmissionsAccounted'
    BY <1>0, <1>1, <2>1, OpenAccounts
  <2>3. sweep.last \in Nat /\ sweep.last <= Len(sessions) /\ Len(sessions) \in Nat
    BY DEF Accounts, Sweeping
  <2> QED BY <2>1, <2>2, <2>3 DEF Accounts, Sweeping
<1>2. CASE OpenFails(RefillSize)
  <2>1. PICK n \in 0..RefillSize : FailExecution(Charged(n), history)
    BY <1>2 DEF OpenFails
  <2>2. Charged(n) \in Int
    BY <1>0 DEF Charged
  <2> QED BY <2>1, <2>2, FailAccounts DEF Accounts
<1>3. CASE NextGroup /\ UNCHANGED <<remaining, state, sessions, group, history, snapshot,
                                    unsafeSince, cancelled, outcome>>
  <2>1. /\ sweep' \in [at : Nat \ {0}, last : Nat, polled : Nat]
        /\ sweep'.last = sweep.last /\ sweep'.polled = sweep.polled
        /\ pc' \in {"sweep", "group"} /\ (pc' = "sweep" => sweep'.polled = 0)
    BY <1>0, <1>3, NextGroupSweeps DEF Accounts
  <2>2. InEvaluator' = InEvaluator
    BY <1>3 DEF InEvaluator
  <2> QED BY <1>0, <1>3, <2>1, <2>2
    DEF Accounts, Sweeping, SubmissionsAccounted, WithinBudget, NothingDropped
<1> QED BY <1>1, <1>2, <1>3 DEF Refill

LEMMA OpenFirstAccounts ==
  ASSUME IInv, Accounts, OpenFirst
  PROVE  Accounts'
<1> DEFINE limit == Smaller(BatchSize, remaining)
<1>0. pc = "top" /\ sessions = <<>> /\ remaining \in Int /\ limit \in Int /\ limit <= remaining
  BY DEF OpenFirst, Smaller, Accounts, Sweeping
<1>1. CASE OpenFails(limit)
  <2>1. PICK n \in 0..limit : FailExecution(Charged(n), history)
    BY <1>1 DEF OpenFails
  <2>2. Charged(n) \in Int
    BY <1>0 DEF Charged
  <2> QED BY <2>1, <2>2, FailAccounts DEF Accounts
<1>2. CASE /\ Open(limit) /\ sweep' = [at |-> 1, last |-> 1, polled |-> 0] /\ pc' = "sweep"
           /\ UNCHANGED <<group, history, snapshot, cancelled, outcome>>
  <2>1. sweep'.polled = sweep.polled
    BY <1>0, <1>2 DEF Accounts, Sweeping
  <2>2. /\ sessions' \in Seq(Sessions) /\ Len(sessions') = Len(sessions) + 1
        /\ remaining' \in Int /\ SubmissionsAccounted'
    BY <1>0, <1>2, <2>1, OpenAccounts
  <2> QED BY <1>0, <1>2, <2>2 DEF Accounts, Sweeping
<1> QED BY <1>1, <1>2 DEF OpenFirst

LEMMA EndSweepAccounts ==
  ASSUME IInv, Accounts, EndSweep
  PROVE  Accounts'
<1>1. sessions' \in Seq(Sessions) /\ InFlight(sessions') = InFlight(sessions)
  BY DroppingLosesNothing DEF EndSweep, Accounts, Sweeping
<1>2. InEvaluator' = InEvaluator
  BY <1>1 DEF InEvaluator, InFlight, Weights
<1>3. sweep'.last = 0 /\ sweep'.polled = 0 /\ sweep.polled = 0 /\ Len(sessions') \in Nat
      /\ sweep' \in [at : Nat \ {0}, last : Nat, polled : Nat]
  BY <1>1 DEF EndSweep, Accounts, Sweeping
<1> QED BY <1>1, <1>2, <1>3
  DEF EndSweep, Accounts, Sweeping, SubmissionsAccounted, WithinBudget, NothingDropped

\* A loop that is left by itself has nothing open.
LEMMA FinishAccounts ==
  ASSUME IInv, Accounts, Finish
  PROVE  Accounts'
<1>1. sessions = <<>> /\ UNCHANGED <<remaining, sessions, sweep>> /\ pc' = "done"
  BY DEF Finish, End
<1>2. InFlight(sessions) = 0
  <2>1. InFlight(<<>>) = SumFunctionOnSet(Weights(<<>>), DOMAIN <<>>)
    BY DEF InFlight, SumFunction, Weights
  <2>2. DOMAIN <<>> = {}
    OBVIOUS
  <2>3. SumFunctionOnSet(Weights(<<>>), {}) = 0
    BY SumEmpty
  <2> QED BY <1>1, <2>1, <2>2, <2>3
<1>3. InEvaluator' = 0
  BY <1>1, <1>2 DEF InEvaluator, InFlight, Weights
<1> QED BY <1>1, <1>3 DEF Accounts, Sweeping, SubmissionsAccounted, WithinBudget, NothingDropped

LEMMA InitAccounts == Init => Accounts
<1> SUFFICES ASSUME Init PROVE Accounts
  OBVIOUS
<1>1. Sweeping /\ sessions = <<>>
  BY DEF Init, Sweeping
<1>2. InEvaluator = 0
  <2>1. InEvaluator = SumFunctionOnSet(Weights(<<>>), DOMAIN <<>>)
    BY <1>1 DEF InEvaluator, SumFunction, Weights
  <2>2. DOMAIN <<>> = {}
    OBVIOUS
  <2>3. SumFunctionOnSet(Weights(<<>>), {}) = 0
    BY SumEmpty
  <2> QED BY <2>1, <2>2, <2>3
<1>3. /\ pc = "top" /\ remaining = MaxEvaluations /\ sweep.polled = 0
      /\ state.asked = 0 /\ history.slots = 0 /\ history.evaluations = 0
  BY DEF Init, FreshState, EmptyHistory
<1> QED BY <1>1, <1>2, <1>3 DEF Accounts, SubmissionsAccounted, WithinBudget, NothingDropped

LEMMA StepAccounts == IInv /\ Accounts /\ [Next]_vars => Accounts'
<1> SUFFICES ASSUME IInv, Accounts, [Next]_vars PROVE Accounts'
  OBVIOUS
<1>1. ASSUME pc # "done", pc' \in {"sweep", "refill"},
             UNCHANGED <<remaining, sessions, history>>, state'.asked = state.asked,
             sweep' \in [at : Nat \ {0}, last : Nat, polled : Nat], sweep'.last <= Len(sessions),
             sweep'.polled = sweep.polled, pc' = "sweep" => sweep.polled = 0
      PROVE  Accounts'
  <2>1. InEvaluator' = InEvaluator
    BY <1>1 DEF InEvaluator
  <2> QED BY <1>1, <2>1 DEF Accounts, Sweeping, SubmissionsAccounted, WithinBudget, NothingDropped
<1>2. CASE StartSweep
  <2>1. sweep.polled = 0 /\ Len(sessions) \in Nat
    BY <1>2 DEF StartSweep, Accounts, Sweeping
  <2> QED BY <1>1, <1>2, <2>1 DEF StartSweep
<1>3. CASE PollFails \/ MaterializeFails \/ TellFails
  BY <1>3, FailAccounts DEF PollFails, MaterializeFails, TellFails, Accounts, Sweeping
<1>4. ASSUME NEW safe \in BOOLEAN, NEW exhausted \in BOOLEAN, Tell(safe, exhausted)
      PROVE  Accounts'
  <2>1. UNCHANGED <<remaining, sessions, sweep, history>> /\ state' = AfterTell(safe, exhausted) /\ pc = "tell"
    BY <1>4 DEF Tell
  <2>2. CASE pc' = "done" /\ cancelled' = TRUE
    BY <2>1, <2>2, EndAccounts DEF Accounts, Sweeping
  <2>3. CASE pc' = "refill"
    BY <1>1, <2>1, <2>3 DEF AfterTell, Accounts, Sweeping
  <2> QED BY <1>4, <2>2, <2>3 DEF Tell, End, CancelSessions
<1>5. CASE Interrupt
  BY <1>5, EndAccounts DEF Interrupt, End, CancelSessions, Accounts, Sweeping
<1>6. CASE UNCHANGED vars
  BY <1>6 DEF vars, Accounts, Sweeping, SubmissionsAccounted, WithinBudget, NothingDropped, InEvaluator
<1> QED BY <1>2, <1>3, <1>4, <1>5, <1>6, OpenFirstAccounts, PollAccounts, SettleAccounts, RefillAccounts,
      EndSweepAccounts, FinishAccounts, CompletionAccounts
  DEF Next, Loop

\* The loop loses sight of nothing it submitted, whatever completes, fails or
\* is interrupted: what is in flight is paid for, what was asked for is in the
\* evaluator, polled or told, and a call that ends leaves no session running
\* (run_stale_async).
THEOREM Accounting == Spec => []SubmissionsAccounted
<1>1. Init => Accounts
  BY InitAccounts
<1>2. IInv /\ Accounts /\ [Next]_vars => Accounts'
  BY StepAccounts
<1>3. Accounts => SubmissionsAccounted
  BY DEF Accounts
<1> QED BY <1>1, <1>2, <1>3, Invariance, PTL DEF Spec

(***************************************************************************)
(* The batch of episodes                                                   *)
(***************************************************************************)
USE RequestsAssumption, BoundsAssumption

\* While limits are being raised, a request that is not active has all it
\* prefers and is under water; an active one prefers more than the level.
Retired(i) == i \notin active /\ limits[i] = preferred[i] /\ preferred[i] <= level
Submerged == \A i \in Slots : Retired(i) \/ (i \in active /\ preferred[i] > level)

AllocInv ==
  /\ AllocTypeOK
  /\ phase = "called" => active = {} /\ level = 1
  /\ phase = "raising" => Submerged
  /\ WithinPreferred
  /\ NobodyStarves

\* A set of requests is finite, and its size is a natural number.
LEMMA SomeRequests ==
  ASSUME NEW S \in SUBSET Slots
  PROVE  IsFiniteSet(S) /\ Cardinality(S) \in Nat
<1>1. IsFiniteSet(Slots)
  BY FS_Interval DEF Slots
<1> QED BY <1>1, FS_Subset, FS_CardinalityType

\* A non-empty set of requests has a positive size.
LEMMA SomeRequest ==
  ASSUME NEW S \in SUBSET Slots, NEW i \in S
  PROVE  Cardinality(S) \in Nat \ {0}
<1>1. IsFiniteSet(S) /\ Cardinality(S) \in Nat
  BY SomeRequests
<1>2. S # {}
  OBVIOUS
<1>3. Cardinality(S) # 0
  BY <1>1, <1>2, FS_EmptySet
<1> QED BY <1>1, <1>3

\* Fewer than k rounds fit when k rounds do not.
LEMMA CompleteRounds ==
  ASSUME NEW n \in Nat, NEW c \in Nat \ {0}, NEW k \in Int, n < k * c
  PROVE  n \div c \in Nat /\ n \div c < k
<1>1. n = c * (n \div c) + (n % c) /\ n % c \in 0..(c - 1)
  OBVIOUS
<1>2. n \div c \in Int
  OBVIOUS
<1> DEFINE q == n \div c
<1>3. q \in Nat
  BY <1>1, <1>2
<1>4. c * q <= n
  BY <1>1, <1>2
<1>5. ASSUME q >= k PROVE FALSE
  <2>1. c * q >= c * k
    BY <1>5, <1>2
  <2> QED BY <2>1, <1>4, <1>2
<1> QED BY <1>2, <1>3, <1>5

\* What the call starts from.
LEMMA InitEstablishes == AllocInit => AllocInv
BY DEF AllocInit, AllocInv, AllocTypeOK, Nothing, Slots, WithinPreferred, NobodyStarves

\* The three ways the call answers without the loop, or enters it.
LEMMA SeedPreserves ==
  ASSUME AllocInv, Refuse \/ GrantPreferred \/ GrantOneEach
  PROVE  AllocInv'
<1> USE DEF AllocTypeOK
<1>1. CASE Refuse
  BY <1>1 DEF Refuse, AllocInv, WithinPreferred, NobodyStarves
<1>2. CASE GrantPreferred
  BY <1>2 DEF GrantPreferred, AllocInv, WithinPreferred, NobodyStarves
<1>3. CASE GrantOneEach
  <2>1. level = 1 /\ Requests \in Nat /\ available \in Nat
    BY <1>3 DEF GrantOneEach, AllocInv
  <2>2. AllocTypeOK'
    BY <1>3, <2>1 DEF GrantOneEach, AllocInv
  <2>3. Submerged'
    BY <1>3, <2>1 DEF GrantOneEach, AllocInv, Submerged, Retired
  <2>4. WithinPreferred' /\ NobodyStarves'
    BY <1>3 DEF GrantOneEach, AllocInv, WithinPreferred, NobodyStarves
  <2> QED BY <1>3, <2>2, <2>3, <2>4 DEF GrantOneEach, AllocInv
<1> QED BY <1>1, <1>2, <1>3

\* Raising the active requests to the smallest preferred limit among them.
LEMMA RaisePreserves ==
  ASSUME AllocInv, NEW next \in 1..MaxPreferred, RaiseTogether(next)
  PROVE  AllocInv'
<1>0. AllocTypeOK /\ Submerged /\ phase = "raising"
  BY DEF RaiseTogether, AllocInv
<1>1. PICK first \in active : preferred[first] = next
  BY DEF RaiseTogether, IsNextLimit
<1>2. next > level /\ next \in Nat
  BY <1>0, <1>1 DEF Submerged, Retired, AllocTypeOK
<1>3. Cardinality(active) \in Nat
  BY <1>0, SomeRequests DEF AllocTypeOK
<1>4. Cost(next) \in Nat
  BY <1>0, <1>2, <1>3 DEF Cost, AllocTypeOK
<1>5. left' \in Nat
  BY <1>0, <1>4 DEF RaiseTogether, AllocTypeOK
<1>6. AllocTypeOK'
  <2>1. active' \in SUBSET Slots
    BY <1>0 DEF RaiseTogether, Unfilled, AllocTypeOK
  <2>2. limits' \in [Slots -> Nat]
    BY <1>0, <1>2 DEF RaiseTogether, AllocTypeOK
  <2> QED BY <1>0, <1>2, <1>5, <2>1, <2>2 DEF RaiseTogether, AllocTypeOK
<1>7. Submerged'
  BY <1>0, <1>2 DEF RaiseTogether, IsNextLimit, Unfilled, Writes, Submerged, Retired, AllocTypeOK
<1>8. ASSUME left' = 0
      PROVE \A i \in Slots : \/ i \in active /\ limits'[i] = next /\ preferred[i] >= next
                             \/ limits'[i] = preferred[i] /\ preferred[i] < next
  <2>1. left = Cost(next)
    BY <1>0, <1>4, <1>8 DEF RaiseTogether, AllocTypeOK
  <2> QED BY <1>0, <1>2, <2>1 DEF RaiseTogether, IsNextLimit, Writes, Submerged, Retired, AllocTypeOK
<1>9. WithinPreferred' /\ NobodyStarves'
  <2>1. CASE left' = 0
    BY <1>0, <1>2, <1>8, <2>1 DEF RaiseTogether, WithinPreferred, NobodyStarves, AllocTypeOK
  <2>2. CASE left' # 0
    BY <2>2 DEF RaiseTogether, WithinPreferred, NobodyStarves
  <2> QED BY <2>1, <2>2
<1> QED BY <1>6, <1>7, <1>9 DEF AllocInv, RaiseTogether

\* The first of two active requests has no more requests ahead of it.
LEMMA AheadGrows ==
  ASSUME AllocTypeOK, NEW i \in Slots, NEW j \in Slots, i <= j
  PROVE  Cardinality(Ahead(i)) <= Cardinality(Ahead(j))
<1>1. ASSUME NEW k \in Ahead(i) PROVE k \in Ahead(j)
  <2>1. k \in active /\ k < i
    BY <1>1 DEF Ahead
  <2>2. i \in Int /\ j \in Int /\ k \in Int
    BY <2>1 DEF AllocTypeOK, Slots
  <2>3. k < j
    BY <2>1, <2>2
  <2> QED BY <2>1, <2>3 DEF Ahead
<1>2. Ahead(j) \in SUBSET Slots
  BY DEF Ahead, AllocTypeOK
<1> QED BY <1>1, <1>2, SomeRequests, FS_Subset

\* The last, incomplete raise.
LEMMA SpreadPreserves ==
  ASSUME AllocInv, NEW next \in 1..MaxPreferred, Spread(next)
  PROVE  AllocInv'
<1>0. AllocTypeOK /\ Submerged /\ phase = "raising"
  BY DEF Spread, AllocInv
<1>1. PICK first \in active : preferred[first] = next
  BY DEF Spread, IsNextLimit
<1>2. next > level /\ next \in Nat
  BY <1>0, <1>1 DEF Submerged, Retired, AllocTypeOK
<1>3. Cardinality(active) \in Nat \ {0}
  BY <1>0, <1>1, SomeRequest DEF AllocTypeOK
<1>4. Rounds \in Nat /\ Rounds < next - level
  <2>1. left \in Nat /\ next - level \in Int
    BY <1>0, <1>2 DEF AllocTypeOK
  <2>2. left < (next - level) * Cardinality(active)
    BY DEF Spread, Cost
  <2> QED BY <1>3, <2>1, <2>2, CompleteRounds DEF Rounds
<1> DEFINE Bonus(i) == IF GetsRemainder(i) THEN 1 ELSE 0
<1>5. \A i \in Slots : limits'[i] = IF i \in active THEN level + Rounds + Bonus(i)
                                     ELSE limits[i]
  BY DEF Spread
<1>6. AllocTypeOK'
  <2>1. limits' \in [Slots -> Nat]
    BY <1>0, <1>4 DEF Spread, AllocTypeOK
  <2> QED BY <1>0, <2>1 DEF Spread, AllocTypeOK
<1>7. WithinPreferred'
  <2>1. \A i \in active : preferred[i] >= next
    BY DEF Spread, IsNextLimit
  <2>2. \A i \in active : limits'[i] \in 1..preferred[i]
    BY <1>0, <1>2, <1>4, <1>5, <2>1 DEF AllocTypeOK
  <2>3. \A i \in Slots \ active : limits'[i] \in 1..preferred[i]
    BY <1>0, <1>5 DEF Submerged, Retired, AllocTypeOK
  <2> QED BY <2>2, <2>3 DEF Spread, WithinPreferred
<1>8. NobodyStarves'
  <2> SUFFICES ASSUME NEW i \in Slots, NEW j \in Slots,
                      limits'[i] < preferred[i], limits'[i] < limits'[j]
               PROVE  limits'[j] = limits'[i] + 1 /\ j < i
    BY DEF Spread, NobodyStarves
  <2>1. i \in active
    BY <1>0, <1>5 DEF Submerged, Retired, AllocTypeOK
  <2>2. j \in active
    BY <1>0, <1>4, <1>5, <2>1 DEF Submerged, Retired, AllocTypeOK
  <2>3. GetsRemainder(j) /\ ~GetsRemainder(i)
    BY <1>0, <1>4, <1>5, <2>1, <2>2 DEF AllocTypeOK
  <2>4. limits'[j] = limits'[i] + 1
    BY <1>0, <1>4, <1>5, <2>1, <2>2, <2>3 DEF AllocTypeOK
  <2>5. Cardinality(Ahead(i)) \in Nat /\ Cardinality(Ahead(j)) \in Nat
    BY <1>0, SomeRequests DEF Ahead, AllocTypeOK
  <2>6. Remainder \in Int
    BY <1>0, <1>3 DEF Remainder, AllocTypeOK
  <2>7. ~(i <= j)
    BY <1>0, <2>3, <2>5, <2>6, AheadGrows DEF GetsRemainder
  <2> QED BY <2>4, <2>7 DEF Slots
<1> QED BY <1>6, <1>7, <1>8 DEF AllocInv, Spread

-----------------------------------------------------------------------------
\* What the coordinator and the workers know of each other: nothing is
\* dispatched before the limits are granted, nobody works before that, and
\* from then on an episode has a limit it keeps.
EpisodesOK ==
  episode \in [Slots -> [state : {"queued", "running", "returned", "raised"},
                         consumed : Nat, cost : Nat]]
Waiting == fate \in {"none", "kernel_path"} =>
  \A i \in Slots : episode[i].state = "queued" /\ episode[i].consumed = 0
Started == fate \notin {"none", "kernel_path"} => phase = "granted"

BatchInv == AllocInv /\ EpisodesOK /\ Waiting /\ Started /\ EpisodesBounded

\* The batch before anything is allocated.
LEMMA BatchInitEstablishes == BatchInit => BatchInv
<1> SUFFICES ASSUME BatchInit PROVE BatchInv
  OBVIOUS
<1>1. AllocInv
  BY InitEstablishes DEF BatchInit
<1>2. EpisodesOK /\ Waiting /\ Started
  BY DEF BatchInit, EpisodesOK, Waiting, Started
<1>3. EpisodesBounded
  BY DEF BatchInit, EpisodesBounded
<1> QED BY <1>1, <1>2, <1>3 DEF BatchInv

\* The allocation takes its steps before anything is dispatched.
LEMMA ChoosePreserves ==
  ASSUME BatchInv, ChooseLimits
  PROVE  BatchInv'
<1>1. AllocInv'
  BY SeedPreserves, RaisePreserves, SpreadPreserves DEF BatchInv, ChooseLimits, Allocate
<1>2. phase # "granted"
  BY DEF ChooseLimits, Allocate, Refuse, GrantPreferred, GrantOneEach, RaiseTogether, Spread
<1>3. fate \in {"none", "kernel_path"}
  BY <1>2 DEF BatchInv, Started
<1>4. UNCHANGED <<episode, fate>>
  BY DEF ChooseLimits, batchVars
<1>5. EpisodesOK' /\ Waiting' /\ Started'
  BY <1>3, <1>4 DEF BatchInv, EpisodesOK, Waiting, Started
<1>6. EpisodesBounded'
  BY <1>3, <1>4 DEF BatchInv, Waiting, EpisodesBounded
<1> QED BY <1>1, <1>5, <1>6 DEF BatchInv

\* The coordinator's other steps leave limits and episodes alone.
LEMMA CoordinatorPreserves ==
  ASSUME BatchInv, TakeKernelPath \/ Dispatch \/ SettleBatch \/ Forfeit \/ LoseEvaluator
  PROVE  BatchInv'
<1>1. UNCHANGED allocVars /\ UNCHANGED episode
  BY DEF TakeKernelPath, Dispatch, SettleBatch, Forfeit, LoseEvaluator
<1>2. AllocInv' /\ EpisodesOK'
  BY <1>1 DEF BatchInv, allocVars, AllocInv, AllocTypeOK, Submerged, Retired,
    WithinPreferred, NobodyStarves, EpisodesOK
<1>3. Started' /\ Waiting'
  BY <1>1 DEF BatchInv, Started, Waiting, allocVars, TakeKernelPath, Dispatch, SettleBatch,
    Forfeit, LoseEvaluator
<1>4. EpisodesBounded'
  <2>1. \A i \in Slots : limits[i] \in Nat
    BY DEF BatchInv, AllocInv, AllocTypeOK
  <2>2. \A i \in Slots : episode[i].consumed <= limits[i]
    BY <2>1 DEF BatchInv, Waiting, EpisodesBounded
  <2> QED BY <1>1, <2>2 DEF BatchInv, EpisodesBounded, allocVars
<1> QED BY <1>2, <1>3, <1>4 DEF BatchInv

\* A worker touches its own episode, within the episode's limit.
LEMMA WorkPreserves ==
  ASSUME BatchInv, NEW i \in Slots, Work(i)
  PROVE  BatchInv'
<1>0. UNCHANGED allocVars /\ UNCHANGED fate
  BY DEF Work, Start, CallObjective, Raise, Return
<1>1. AllocInv' /\ Started'
  BY <1>0 DEF BatchInv, allocVars, AllocInv, AllocTypeOK, Submerged, Retired,
    WithinPreferred, NobodyStarves, Started
<1>2. fate \notin {"none", "kernel_path"}
  <2>1. fate = "dispatched" \/ episode[i].state = "running"
    BY DEF Work, Start, CallObjective, Raise, Return
  <2> QED BY <2>1 DEF BatchInv, Waiting
<1>3. Waiting'
  BY <1>0, <1>2 DEF Waiting
<1>4. limits \in [Slots -> Nat] /\ limits' = limits
  BY <1>0 DEF BatchInv, AllocInv, AllocTypeOK, allocVars
<1>5. \A j \in Slots \ {i} : episode'[j] = episode[j]
  BY DEF Work, Start, CallObjective, Raise, Return, BatchInv, EpisodesOK
<1>6. EpisodesOK'
  <2> USE DEF BatchInv, EpisodesOK
  <2>1. CASE Start(i) \/ Raise(i)
    BY <2>1 DEF Start, Raise
  <2>2. CASE CallObjective(i)
    BY <2>2 DEF CallObjective
  <2>3. ASSUME NEW cost \in 0..MaxPreferred, Return(i, cost) PROVE EpisodesOK'
    <3>1. CASE CostAccepted(i, cost)
      <4> DEFINE e == [state |-> "returned", consumed |-> episode[i].consumed,
                       cost |-> cost]
      <4>1. episode[i].consumed \in Nat /\ cost \in Nat
        OBVIOUS
      <4>2. e \in [state : {"queued", "running", "returned", "raised"},
                   consumed : Nat, cost : Nat]
        BY <4>1
      <4>3. episode' = [episode EXCEPT ![i] = e]
        BY <2>3, <3>1 DEF Return
      <4> HIDE DEF e
      <4> QED BY <4>2, <4>3
    <3>2. CASE ~CostAccepted(i, cost)
      BY <2>3, <3>2 DEF Return
    <3> QED BY <3>1, <3>2
  <2> QED BY <2>1, <2>2, <2>3 DEF Work
<1>7. /\ episode'[i].consumed <= limits[i]
      /\ episode'[i].state = "returned" =>
           episode'[i].cost \in 1..limits[i] /\ episode'[i].cost = episode'[i].consumed
  <2> USE <1>2, <1>4 DEF BatchInv, EpisodesOK, EpisodesBounded
  <2>1. CASE Start(i) \/ Raise(i)
    BY <2>1 DEF Start, Raise
  <2>2. CASE CallObjective(i)
    BY <2>2 DEF CallObjective, HasCallsLeft
  <2>3. ASSUME NEW cost \in 0..MaxPreferred, Return(i, cost)
        PROVE /\ episode'[i].consumed <= limits[i]
              /\ episode'[i].state = "returned" =>
                   /\ episode'[i].cost \in 1..limits[i]
                   /\ episode'[i].cost = episode'[i].consumed
    <3>1. CASE CostAccepted(i, cost)
      BY <2>3, <3>1 DEF Return, CostAccepted
    <3>2. CASE ~CostAccepted(i, cost)
      BY <2>3, <3>2 DEF Return
    <3> QED BY <3>1, <3>2
  <2> QED BY <2>1, <2>2, <2>3 DEF Work
<1>8. EpisodesBounded'
  BY <1>0, <1>2, <1>4, <1>5, <1>7 DEF BatchInv, EpisodesBounded
<1> QED BY <1>1, <1>3, <1>6, <1>8 DEF BatchInv

\* The batch keeps its invariant.
THEOREM BatchInvariance == BatchSpec => []BatchInv
<1>1. ASSUME BatchInv, [BatchNext]_episodesVars PROVE BatchInv'
  <2>1. CASE BatchNext
    BY <1>1, <2>1, ChoosePreserves, CoordinatorPreserves, WorkPreserves
      DEF BatchNext, Coordinate
  <2>2. CASE UNCHANGED episodesVars
    BY <1>1, <2>2 DEF episodesVars, BatchInv, AllocInv, AllocTypeOK, Submerged, Retired,
      WithinPreferred, NobodyStarves, EpisodesOK, Waiting, Started, EpisodesBounded
  <2> QED BY <1>1, <2>1, <2>2
<1> QED BY <1>1, BatchInitEstablishes, PTL DEF BatchSpec

\* No episode of a batch calls the objective more often than the limit that
\* was reserved for it, and a result reports the calls its episode made
\* (BoundedRequestLocalEvaluationRunner, execute_request_local_episode).
THEOREM Bounded == BatchSpec => []EpisodesBounded
BY BatchInvariance, PTL DEF BatchInv

\* Every request that is granted a limit gets at least one evaluation and at
\* most what it prefers (_max_min_evaluation_limits).
THEOREM Granting == BatchSpec => []WithinPreferred
BY BatchInvariance, PTL DEF BatchInv, AllocInv

\* No request is kept below its preferred limit while another one is more than
\* an evaluation ahead, or ahead of one that precedes it.
THEOREM Fairness == BatchSpec => []NobodyStarves
BY BatchInvariance, PTL DEF BatchInv, AllocInv

-----------------------------------------------------------------------------
\* What has been reported: every result is that of an episode that returned,
\* with the cost of that episode, and no episode has two.
Reports ==
  /\ results \in Seq([index : Slots, cost : Nat])
  /\ \A k \in 1..Len(results) :
       /\ episode[results[k].index].state = "returned"
       /\ results[k].cost = episode[results[k].index].cost
  /\ \A k, l \in 1..Len(results) : results[k].index = results[l].index => k = l

ReportInv == BatchInv /\ Reports /\ NoNeedlessForfeit

\* A result is one of a request.
LEMMA ResultFields ==
  ASSUME Reports, NEW k \in 1..Len(results)
  PROVE  results[k].index \in Slots /\ results[k].cost \in Nat
<1> DEFINE Fields == [index : Slots, cost : Nat]
<1>1. results \in Seq(Fields)
  BY DEF Reports
<1>2. results[k] \in Fields
  <2> HIDE DEF Fields
  <2> QED BY <1>1
<1> QED BY <1>2

\* With as many results as requests, every request has one.
LEMMA EveryRequestReported ==
  ASSUME Reports, Len(results) = Requests, NEW i \in Slots
  PROVE  \E k \in Slots : results[k].index = i
<1> DEFINE index == [k \in Slots |-> results[k].index]
<1>0. Slots = 1..Len(results)
  BY DEF Slots
<1>1. index \in Injection(Slots, Slots)
  <2>1. index \in [Slots -> Slots]
    BY <1>0, ResultFields
  <2>2. \A k, l \in Slots : index[k] = index[l] => k = l
    BY <1>0 DEF Reports
  <2> QED BY <2>1, <2>2 DEF Injection, IsInjective
<1>2. IsFiniteSet(Slots)
  BY FS_Interval DEF Slots
<1>3. index \in Surjection(Slots, Slots)
  BY <1>1, <1>2, FS_Injection
<1> QED BY <1>3 DEF Surjection

\* The results of a batch whose episodes all returned pass what the settlement
\* checks, in whatever order they came.
LEMMA CompleteBatchSettles ==
  ASSUME BatchInv, Reports, Len(results) = Requests, fate = "dispatched"
  PROVE  InOrder /\ WithinLimits
<1> SUFFICES ASSUME NEW i \in Slots
             PROVE  Ordered[i].index = i /\ Ordered[i].cost <= limits[i]
  BY DEF InOrder, WithinLimits
<1>1. PICK k \in Slots : k = (CHOOSE l \in Slots : results[l].index = i) /\ results[k].index = i
  BY EveryRequestReported
<1>2. Ordered[i] = results[k]
  BY <1>1 DEF Ordered
<1>3. k \in 1..Len(results)
  BY DEF Slots
<1>4. episode[i].state = "returned" /\ results[k].cost = episode[i].cost
  BY <1>1, <1>3 DEF Reports
<1>5. episode[i].cost \in 1..limits[i]
  BY <1>4 DEF BatchInv, EpisodesBounded
<1>6. limits[i] \in Nat
  BY DEF BatchInv, AllocInv, AllocTypeOK
<1> QED BY <1>1, <1>2, <1>4, <1>5, <1>6

\* A worker adds at most the result of its own episode, which had none.
LEMMA WorkReports ==
  ASSUME ReportInv, NEW i \in Slots, Work(i)
  PROVE  Reports' /\ NoNeedlessForfeit'
<1> USE DEF ReportInv, BatchInv, EpisodesOK
<1>0. fate' = fate
  BY DEF Work, Start, CallObjective, Raise, Return
<1>1. /\ \A j \in Slots \ {i} : episode'[j] = episode[j]
      /\ episode[i].state \in {"queued", "running"}
  BY DEF Work, Start, CallObjective, Raise, Return
<1>2. NoNeedlessForfeit'
  BY <1>0, <1>1 DEF NoNeedlessForfeit
<1>3. \A k \in 1..Len(results) : results[k].index \in Slots \ {i}
  BY <1>1, ResultFields DEF Reports
<1>4. ASSUME results' = results PROVE Reports'
  <2>1. \A k \in 1..Len(results) : episode'[results[k].index] = episode[results[k].index]
    BY <1>1, <1>3
  <2> QED BY <1>4, <2>1 DEF Reports
<1>5. ASSUME NEW cost \in 0..MaxPreferred, Return(i, cost), CostAccepted(i, cost)
      PROVE  Reports'
  <2> DEFINE r == [index |-> i, cost |-> cost]
  <2>1. r \in [index : Slots, cost : Nat] /\ r.index = i /\ r.cost = cost
    OBVIOUS
  <2>2. results' = Append(results, r)
    BY <1>5 DEF Return
  <2>3. episode'[i].state = "returned" /\ episode'[i].cost = cost
    BY <1>5 DEF Return
  <2> HIDE DEF r
  <2>4. results \in Seq([index : Slots, cost : Nat])
    BY DEF Reports
  <2>5. /\ results' \in Seq([index : Slots, cost : Nat])
        /\ Len(results') = Len(results) + 1
        /\ results'[Len(results) + 1] = r
        /\ \A k \in 1..Len(results) : results'[k] = results[k]
    BY <2>1, <2>2, <2>4
  <2>6. \A k \in 1..Len(results') : k \in 1..Len(results) \/ k = Len(results) + 1
    BY <2>4, <2>5
  <2>7. ASSUME NEW k \in 1..Len(results')
        PROVE  /\ episode'[results'[k].index].state = "returned"
               /\ results'[k].cost = episode'[results'[k].index].cost
    <3>1. CASE k = Len(results) + 1
      BY <3>1, <2>1, <2>3, <2>5
    <3>2. CASE k \in 1..Len(results)
      <4>1. results'[k] = results[k] /\ episode'[results[k].index] = episode[results[k].index]
        BY <3>2, <1>1, <1>3, <2>5
      <4> QED BY <3>2, <4>1 DEF Reports
    <3> QED BY <2>6, <3>1, <3>2
  <2>8. \A k, l \in 1..Len(results') : results'[k].index = results'[l].index => k = l
    BY <1>3, <2>1, <2>5, <2>6 DEF Reports
  <2> QED BY <2>5, <2>7, <2>8 DEF Reports
<1>6. Reports'
  BY <1>4, <1>5 DEF Work, Start, CallObjective, Raise, Return
<1> QED BY <1>2, <1>6

\* The coordinator leaves the results alone, and fails the batch only for an
\* episode that raised: a complete batch passes its checks.
LEMMA CoordinatorReports ==
  ASSUME ReportInv, Coordinate \/ LoseEvaluator
  PROVE  Reports' /\ NoNeedlessForfeit'
<1>1. UNCHANGED <<episode, results>>
  BY DEF Coordinate, ChooseLimits, batchVars, TakeKernelPath, Dispatch, SettleBatch, Forfeit, LoseEvaluator
<1>2. Reports'
  BY <1>1 DEF ReportInv, Reports
<1>3. CASE SettleBatch
  <2>1. InOrder /\ WithinLimits
    BY <1>3, CompleteBatchSettles DEF ReportInv, SettleBatch
  <2>2. fate' = "settled"
    BY <1>3, <2>1 DEF SettleBatch
  <2> QED BY <1>2, <2>2 DEF NoNeedlessForfeit
<1>4. CASE ChooseLimits \/ TakeKernelPath \/ Dispatch \/ Forfeit \/ LoseEvaluator
  BY <1>1, <1>2, <1>4 DEF ReportInv, NoNeedlessForfeit, ChooseLimits, batchVars, TakeKernelPath, Dispatch,
    Forfeit, LoseEvaluator
<1> QED BY <1>2, <1>3, <1>4 DEF Coordinate

\* The batch keeps its books on what was reported.
THEOREM ReportsKept == BatchSpec => []ReportInv
<1>1. BatchInit => Reports /\ NoNeedlessForfeit
  BY DEF BatchInit, Reports, NoNeedlessForfeit
<1>2. ASSUME ReportInv, [BatchNext]_episodesVars PROVE Reports' /\ NoNeedlessForfeit'
  <2>1. CASE BatchNext
    BY <1>2, <2>1, WorkReports, CoordinatorReports DEF BatchNext
  <2>2. CASE UNCHANGED episodesVars
    BY <1>2, <2>2 DEF episodesVars, ReportInv, Reports, NoNeedlessForfeit
  <2> QED BY <1>2, <2>1, <2>2
<1> QED BY <1>1, <1>2, BatchInvariance, PTL DEF BatchSpec, ReportInv

\* A batch is forfeited by its own checks only when an episode raised: results
\* that arrive in any order settle it
\* (ordered_request_local_episode_attempts, validate_aligned_attempts,
\* EvaluationReservationBatch.settle).
THEOREM Settles == BatchSpec => []NoNeedlessForfeit
BY ReportsKept, PTL DEF ReportInv

-----------------------------------------------------------------------------
\* How much has been handed out.  While limits are raised, an active request
\* stands at the water level whatever is written of it.
Granted(i) == IF i \in active THEN level ELSE limits[i]

Handout ==
  /\ phase = "raising" => ~Enough /\ SumFunction([i \in Slots |-> Granted(i)]) + left = available
  /\ phase = "granted" => IF Enough THEN limits = preferred ELSE SumFunction(limits) = available

LEMMA SlotsFinite == IsFiniteSet(Slots) /\ Cardinality(Slots) = Requests
BY FS_Interval DEF Slots

LEMMA SumOverSlots == \A f : DOMAIN f = Slots => SumFunction(f) = SumFunctionOnSet(f, Slots)
BY DEF SumFunction

\* One evaluation for each request.
LEMMA SeedHandsOut ==
  ASSUME AllocInv, Handout, Refuse \/ GrantPreferred \/ GrantOneEach
  PROVE  Handout'
<1>0. UNCHANGED <<preferred, available>> /\ Enough' = Enough
  BY DEF Refuse, GrantPreferred, GrantOneEach, Enough
<1>1. CASE Refuse
  BY <1>1 DEF Refuse, Handout
<1>2. CASE GrantPreferred
  BY <1>0, <1>2 DEF GrantPreferred, Handout
<1>3. CASE GrantOneEach
  <2> DEFINE standing == [i \in Slots |-> Granted(i)']
  <2>1. level = 1 /\ level' = 1 /\ limits' = [i \in Slots |-> 1] /\ left' = available - Requests
    BY <1>3 DEF GrantOneEach, AllocInv
  <2>2. \A i \in Slots : standing[i] = 1 /\ limits'[i] = 1
    BY <2>1 DEF Granted
  <2> HIDE DEF standing
  <2>3. SumFunctionOnSet(standing, Slots) = Requests /\ SumFunctionOnSet(limits', Slots) = Requests
    BY <2>2, SlotsFinite, SumOfOnes
  <2>4. SumFunction(standing) = Requests
    BY <2>3, SumOverSlots DEF standing
  <2>5. SumFunction(limits') = Requests
    BY <2>1, <2>3, SumOverSlots
  <2>6. available \in Nat /\ ~Enough
    BY <1>3 DEF GrantOneEach, AllocInv, AllocTypeOK
  <2>7. phase' = IF left' = 0 THEN "granted" ELSE "raising"
    BY <1>3 DEF GrantOneEach
  <2>8. Requests + left' = available
    BY <2>1, <2>6
  <2>9. SumFunction([i \in Slots |-> Granted(i)])' = SumFunction(standing)
    BY DEF standing
  <2>10. left' = 0 => SumFunction(limits') = available
    BY <2>5, <2>8
  <2> QED BY <1>0, <2>4, <2>6, <2>7, <2>8, <2>9, <2>10 DEF Handout
<1> QED BY <1>1, <1>2, <1>3

\* Raising the active requests costs what is taken from the remainder.
LEMMA RaiseHandsOut ==
  ASSUME AllocInv, Handout, NEW next \in 1..MaxPreferred, RaiseTogether(next)
  PROVE  Handout'
<1> DEFINE old == [i \in Slots |-> Granted(i)]
           new == [i \in Slots |-> Granted(i)']
<1>0. AllocTypeOK /\ phase = "raising" /\ next \in Nat
  BY DEF RaiseTogether, AllocInv
<1>1. UNCHANGED <<preferred, available>> /\ Enough' = Enough /\ ~Enough
  BY <1>0 DEF RaiseTogether, Enough, Handout
<1>2. \A i \in Slots : limits[i] \in Nat /\ level \in Nat
  BY <1>0 DEF AllocTypeOK
<1>3. \A i \in Slots : old[i] \in Int
  BY <1>2 DEF Granted
<1>4. \A i \in Slots : new[i] = IF i \in active THEN old[i] + (next - level) ELSE old[i]
  <2> SUFFICES ASSUME NEW i \in Slots
               PROVE  Granted(i)' = IF i \in active THEN Granted(i) + (next - level) ELSE Granted(i)
    OBVIOUS
  <2>1. active' = Unfilled(next) /\ level' = next
        /\ limits'[i] = IF Writes(next, i) THEN next ELSE limits[i]
    BY DEF RaiseTogether
  <2>2. CASE i \in active
    BY <2>1, <2>2, <1>0, <1>2 DEF Granted, Writes, Unfilled
  <2>3. CASE i \notin active
    BY <2>1, <2>3 DEF Granted, Writes, Unfilled
  <2> QED BY <2>2, <2>3
<1>5. active \in SUBSET Slots /\ next - level \in Int
  BY <1>0 DEF AllocTypeOK
<1>6. SumFunction(old) + left = available
  BY <1>0 DEF Handout
<1>7. DOMAIN old = Slots /\ DOMAIN new = Slots
  OBVIOUS
<1>8. SumFunction([i \in Slots |-> Granted(i)])' = SumFunction(new)
  OBVIOUS
<1> HIDE DEF old, new
<1>9. SumFunctionOnSet(new, Slots) = SumFunctionOnSet(old, Slots) + (next - level) * Cardinality(active)
  BY <1>3, <1>4, <1>5, SlotsFinite, SumRaise
<1>10. SumFunctionOnSet(old, Slots) \in Int
  BY <1>3, SlotsFinite, SumType
<1>11. left' = left - Cost(next) /\ Cost(next) \in Int /\ left \in Nat /\ available \in Nat
  BY <1>0, <1>5, SomeRequests DEF RaiseTogether, Cost, AllocTypeOK
<1>12. SumFunction(new) + left' = available
  BY <1>6, <1>7, <1>9, <1>10, <1>11, SumOverSlots DEF Cost
<1>13. phase' = IF left' = 0 THEN "granted" ELSE "raising"
  BY DEF RaiseTogether
<1>14. ASSUME left' = 0 PROVE SumFunction(limits') = available
  <2>1. left = Cost(next)
    BY <1>11, <1>14
  <2>2. \A i \in Slots : limits'[i] = new[i]
    BY <2>1 DEF RaiseTogether, Writes, Granted, Unfilled, new
  <2>3. DOMAIN limits' = Slots
    BY DEF RaiseTogether
  <2>4. SumFunctionOnSet(limits', Slots) = SumFunctionOnSet(new, Slots)
    BY <2>2, SlotsFinite, SumCongruence
  <2>5. SumFunction(new) \in Int
    BY <1>9, <1>7, <1>10, <1>11, SumOverSlots DEF Cost
  <2> QED BY <1>7, <1>12, <1>14, <2>3, <2>4, <2>5, SumOverSlots
<1> QED BY <1>1, <1>8, <1>12, <1>13, <1>14 DEF Handout

\* The rounds and the first requests take all that is left.
LEMMA SpreadHandsOut ==
  ASSUME AllocInv, Handout, NEW next \in 1..MaxPreferred, Spread(next)
  PROVE  Handout'
<1> DEFINE old   == [i \in Slots |-> Granted(i)]
           whole == [i \in Slots |-> IF i \in active THEN old[i] + Rounds ELSE old[i]]
           Favoured == {i \in active : GetsRemainder(i)}
<1>0. AllocTypeOK /\ phase = "raising" /\ available \in Nat
  BY DEF Spread, AllocInv, AllocTypeOK
<1>1. UNCHANGED <<preferred, available>> /\ Enough' = Enough /\ ~Enough /\ phase' = "granted"
  BY <1>0 DEF Spread, Enough, Handout
<1>2. active \in SUBSET Slots /\ IsFiniteSet(active) /\ Cardinality(active) \in Nat \ {0}
  <2>1. \E i \in active : TRUE
    BY DEF Spread, IsNextLimit
  <2> QED BY <1>0, <2>1, SomeRequests, SomeRequest DEF AllocTypeOK
<1>3. Rounds \in Int /\ Remainder \in 0..(Cardinality(active) - 1)
      /\ left = Rounds * Cardinality(active) + Remainder
  <2>1. left \in Nat
    BY <1>0 DEF AllocTypeOK
  <2> DEFINE c == Cardinality(active)
  <2>2. left = c * (left \div c) + (left % c) /\ left % c \in 0..(c - 1) /\ left \div c \in Int
    BY <1>2, <2>1
  <2>3. c * (left \div c) = (left \div c) * c
    BY <1>2, <2>2
  <2> QED BY <2>2, <2>3 DEF Rounds, Remainder
<1>4. \A i \in Slots : old[i] \in Int /\ whole[i] \in Int
  BY <1>0, <1>3 DEF Granted, AllocTypeOK
<1>5. Cardinality(Favoured) = Remainder
  <2>1. active \in SUBSET Int
    BY <1>2 DEF Slots
  <2>2. \A i \in active : Ahead(i) = Before(active, i)
    BY DEF Ahead, Before
  <2>3. Favoured = {i \in active : Cardinality(Before(active, i)) < Remainder}
    BY <2>2 DEF GetsRemainder
  <2>4. Remainder \in 0..Cardinality(active)
    BY <1>2, <1>3
  <2> HIDE DEF Favoured
  <2> QED BY <1>2, <2>1, <2>3, <2>4, FirstRanks
<1>6. \A i \in Slots : limits'[i] = IF i \in Favoured THEN whole[i] + 1 ELSE whole[i]
  <2> SUFFICES ASSUME NEW i \in Slots
               PROVE  limits'[i] = IF i \in Favoured THEN whole[i] + 1 ELSE whole[i]
    OBVIOUS
  <2>1. limits'[i] = IF i \in active THEN level + Rounds + (IF GetsRemainder(i) THEN 1 ELSE 0)
                     ELSE limits[i]
    BY DEF Spread
  <2>2. level \in Int
    BY <1>0 DEF AllocTypeOK
  <2>3. CASE i \in active
    BY <1>3, <2>1, <2>2, <2>3 DEF Granted
  <2>4. CASE i \notin active
    BY <2>1, <2>4 DEF Granted
  <2> QED BY <2>3, <2>4
<1>7. Favoured \in SUBSET Slots /\ DOMAIN old = Slots /\ DOMAIN limits' = Slots
  BY <1>2 DEF Spread
<1>8. \A i \in Slots : whole[i] = IF i \in active THEN old[i] + Rounds ELSE old[i]
  OBVIOUS
<1>9. SumFunction(old) + left = available
  BY <1>0 DEF Handout
<1> HIDE DEF old, whole, Favoured
<1>10. SumFunctionOnSet(whole, Slots) = SumFunctionOnSet(old, Slots) + Rounds * Cardinality(active)
  BY <1>2, <1>3, <1>4, <1>8, SlotsFinite, SumRaise
<1>11. SumFunctionOnSet(limits', Slots) = SumFunctionOnSet(whole, Slots) + 1 * Cardinality(Favoured)
  BY <1>4, <1>6, <1>7, SlotsFinite, SumRaise
<1>12. SumFunctionOnSet(old, Slots) \in Int
  BY <1>4, SlotsFinite, SumType
<1>13. SumFunction(limits') = SumFunction(old) + left
  <2>1. Rounds * Cardinality(active) \in Int /\ Remainder \in Int
    BY <1>2, <1>3
  <2> QED BY <1>3, <1>5, <1>7, <1>10, <1>11, <1>12, <2>1, SumOverSlots
<1> QED BY <1>1, <1>9, <1>13 DEF Handout

-----------------------------------------------------------------------------
\* The reference definition, one evaluation at a time.
Fair(f) == \A i, j \in Slots : f[i] < preferred[i] /\ f[i] < f[j] => f[j] = f[i] + 1 /\ j < i

HandOne(f) ==
  IF \E i \in Slots : f[i] < preferred[i]
  THEN [f EXCEPT ![CHOOSE i \in Slots : NeedsLeast(f, i)] = @ + 1]
  ELSE f

\* While a request is below its preferred limit, one has the least.
LEMMA SomeoneNeedsLeast ==
  ASSUME preferred \in [Slots -> Nat], NEW f \in [Slots -> Nat],
         NEW k \in Slots, f[k] < preferred[k]
  PROVE  \E i \in Slots : NeedsLeast(f, i)
<1> DEFINE Hungry == {i \in Slots : f[i] < preferred[i]}
           Amounts == {f[i] : i \in Hungry}
<1>1. Amounts \in SUBSET Nat /\ Amounts # {}
  OBVIOUS
<1>2. PICK least \in Amounts : \A m \in Amounts : least <= m
  <2> HIDE DEF Amounts
  <2> QED BY <1>1, LeastNatural
<1> DEFINE Poorest == {i \in Hungry : f[i] = least}
<1>3. Poorest \in SUBSET Nat /\ Poorest # {}
  <2>1. PICK h \in Hungry : f[h] = least
    BY <1>2
  <2>2. \A j \in Slots : j \in Nat
    BY DEF Slots
  <2> QED BY <2>1, <2>2
<1>4. PICK i \in Poorest : \A j \in Poorest : i <= j
  <2> HIDE DEF Poorest
  <2> QED BY <1>3, LeastNatural
<1>5. ASSUME NEW j \in Slots, f[j] < preferred[j]
      PROVE  f[i] < f[j] \/ (f[i] = f[j] /\ i <= j)
  <2>1. f[j] \in Amounts
    BY <1>5
  <2>2. least <= f[j] /\ least = f[i] /\ f[j] \in Nat /\ f[i] \in Nat
    BY <1>2, <1>4, <2>1
  <2>3. f[j] = least => i <= j
    BY <1>4, <1>5
  <2> QED BY <2>2, <2>3
<1>6. NeedsLeast(f, i)
  BY <1>4, <1>5 DEF NeedsLeast
<1> QED BY <1>4, <1>6

LEMMA HandOneType ==
  ASSUME preferred \in [Slots -> Nat], NEW f \in [Slots -> Nat]
  PROVE  HandOne(f) \in [Slots -> Nat]
<1> DEFINE c == CHOOSE i \in Slots : NeedsLeast(f, i)
<1>1. HandOne(f) = IF \E i \in Slots : f[i] < preferred[i] THEN [f EXCEPT ![c] = @ + 1] ELSE f
  BY DEF HandOne
<1>2. (\E i \in Slots : f[i] < preferred[i]) => c \in Slots
  BY SomeoneNeedsLeast
<1> HIDE DEF c
<1> QED BY <1>1, <1>2

\* The recursive definition has a solution, and is it.
LEMMA HandedUnfolds ==
  ASSUME preferred \in [Slots -> Nat]
  PROVE  /\ Handed[0] = Nothing
         /\ \A n \in Nat : Handed[n] \in [Slots -> Nat] /\ Handed[n + 1] = HandOne(Handed[n])
<1> DEFINE X == [Slots -> Nat]
           next == [f \in X |-> HandOne(f)]
           Rule(h) == [n \in Nat |-> IF n = 0 THEN Nothing ELSE HandOne(h[n - 1])]
<1>1. Handed = CHOOSE h : h = Rule(h)
  BY DEF Handed, HandOne
<1>2. Nothing \in X
  BY DEF Nothing
<1>3. next \in [X -> X] /\ \A f \in X : next[f] = HandOne(f)
  BY HandOneType
<1> HIDE DEF X, next
<1>4. PICK h : h \in [Nat -> X] /\ h[0] = Nothing /\ \A n \in Nat : h[n + 1] = next[h[n]]
  <2>1. \E h : IsIteration(h, X, Nothing, next)
    BY <1>2, <1>3, Iterates
  <2> QED BY <2>1 DEF IsIteration
<1>5. h = Rule(h)
  <2>1. ASSUME NEW n \in Nat
        PROVE  h[n] = IF n = 0 THEN Nothing ELSE HandOne(h[n - 1])
    <3>1. CASE n = 0
      BY <1>4, <3>1
    <3>2. CASE n # 0
      <4>1. n - 1 \in Nat /\ (n - 1) + 1 = n
        BY <3>2
      <4>2. h[(n - 1) + 1] = next[h[n - 1]] /\ h[n - 1] \in X
        BY <1>4, <4>1
      <4> QED BY <1>3, <3>2, <4>1, <4>2
    <3> QED BY <3>1, <3>2
  <2> QED BY <1>4, <2>1
<1>6. Handed = Rule(Handed)
  <2> HIDE DEF Rule
  <2> QED BY <1>1, <1>5
<1>7. Handed[0] = Nothing
  BY <1>6
<1>8. ASSUME NEW n \in Nat
      PROVE  Handed[n + 1] = HandOne(Handed[n])
  <2>1. n + 1 \in Nat /\ n + 1 # 0 /\ (n + 1) - 1 = n
    OBVIOUS
  <2> QED BY <1>6, <2>1
<1> DEFINE N == {n \in Nat : Handed[n] \in X}
<1>9. \A n \in Nat : n \in N
  <2>1. 0 \in N
    BY <1>2, <1>7
  <2>2. ASSUME NEW n \in Nat, n \in N
        PROVE  n + 1 \in N
    BY <1>8, <2>2, HandOneType DEF X
  <2> HIDE DEF N
  <2> QED BY <2>1, <2>2, AllNaturals
<1> QED BY <1>7, <1>8, <1>9 DEF X

\* One more evaluation keeps the sharing fair.
LEMMA HandOneFair ==
  ASSUME preferred \in [Slots -> Nat], NEW f \in [Slots -> Nat], Fair(f),
         \A i \in Slots : f[i] <= preferred[i], NEW k \in Slots, NeedsLeast(f, k)
  PROVE  /\ Fair([f EXCEPT ![k] = @ + 1])
         /\ \A i \in Slots : [f EXCEPT ![k] = @ + 1][i] <= preferred[i]
<1> DEFINE e == [f EXCEPT ![k] = @ + 1]
<1>1. /\ f[k] \in Nat /\ e[k] = f[k] + 1 /\ f[k] < preferred[k]
      /\ \A i \in Slots : i # k => e[i] = f[i]
      /\ \A i \in Slots : f[i] \in Nat /\ preferred[i] \in Nat /\ i \in Nat
  BY DEF NeedsLeast, Slots
<1>2. \A i \in Slots : f[i] < preferred[i] => f[k] < f[i] \/ (f[k] = f[i] /\ k <= i)
  BY DEF NeedsLeast
<1> HIDE DEF e
<1>3. \A i \in Slots : e[i] <= preferred[i]
  BY <1>1
<1>4. ASSUME NEW i \in Slots, NEW j \in Slots, e[i] < preferred[i], e[i] < e[j]
      PROVE  e[j] = e[i] + 1 /\ j < i
  <2>1. CASE i # k /\ j # k
    BY <1>1, <1>4, <2>1 DEF Fair
  <2>2. CASE j = k
    BY <1>1, <1>2, <1>4, <2>2
  <2>3. CASE i = k /\ j # k
    <3>1. f[k] + 1 < f[j] /\ f[k] < f[j]
      BY <1>1, <1>4, <2>3
    <3>2. f[j] = f[k] + 1
      BY <1>1, <3>1 DEF Fair
    <3> QED BY <1>1, <3>1, <3>2
  <2> QED BY <2>1, <2>2, <2>3
<1> QED BY <1>3, <1>4 DEF Fair, e

\* After n of them, everybody has a fair share, and n have been handed out
\* unless nobody prefers more.
LEMMA HandedShares ==
  ASSUME preferred \in [Slots -> Nat], NEW n \in Nat
  PROVE  /\ Fair(Handed[n]) /\ \A i \in Slots : Handed[n][i] <= preferred[i]
         /\ IF n <= SumFunction(preferred) THEN SumFunction(Handed[n]) = n ELSE Handed[n] = preferred
<1> DEFINE Good(m) ==
             /\ Fair(Handed[m]) /\ \A i \in Slots : Handed[m][i] <= preferred[i]
             /\ m <= SumFunction(preferred) => SumFunction(Handed[m]) = m
             /\ ~(m <= SumFunction(preferred)) => Handed[m] = preferred
           N == {m \in Nat : Good(m)}
<1>0. SumFunction(preferred) = SumFunctionOnSet(preferred, Slots) /\ SumFunction(preferred) \in Nat
  BY SlotsFinite, SumNat, SumOverSlots
<1>1. 0 \in N
  <2>1. Handed[0] = Nothing /\ \A i \in Slots : Handed[0][i] = 0
    BY HandedUnfolds DEF Nothing
  <2>2. SumFunction(Handed[0]) = 0
    <3>1. SumFunctionOnSet(Handed[0], Slots) = 0
      BY <2>1, SlotsFinite, SumOnSubset, SumEmpty
    <3> QED BY <2>1, <3>1, SumOverSlots DEF Nothing
  <2>3. Fair(Handed[0]) /\ \A i \in Slots : Handed[0][i] <= preferred[i]
    BY <2>1 DEF Fair
  <2> QED BY <1>0, <2>2, <2>3
<1>2. ASSUME NEW m \in Nat, m \in N
      PROVE  m + 1 \in N
  <2>0. Good(m)
    BY <1>2
  <2>1. PICK f \in [Slots -> Nat] : f = Handed[m] /\ Handed[m + 1] = HandOne(f)
    BY HandedUnfolds
  <2>2. Fair(f) /\ \A i \in Slots : f[i] <= preferred[i]
    BY <2>0, <2>1
  <2>3. SumFunction(f) = SumFunctionOnSet(f, Slots)
    BY SumOverSlots
  <2>4. CASE \E i \in Slots : f[i] < preferred[i]
    <3>1. PICK k \in Slots : k = (CHOOSE i \in Slots : NeedsLeast(f, i)) /\ NeedsLeast(f, k)
      BY <2>4, SomeoneNeedsLeast
    <3> DEFINE e == [f EXCEPT ![k] = @ + 1]
    <3>2. Handed[m + 1] = e
      BY <2>1, <2>4, <3>1 DEF HandOne
    <3>3. Fair(e) /\ \A i \in Slots : e[i] <= preferred[i]
      BY <2>2, <3>1, HandOneFair
    <3>4. m < SumFunction(preferred)
      <4>1. ASSUME SumFunctionOnSet(preferred, Slots) <= SumFunctionOnSet(f, Slots) PROVE FALSE
        <5>1. \A i \in Slots : f[i] = preferred[i]
          BY <2>2, <4>1, SlotsFinite, SumStrict
        <5> QED BY <2>4, <5>1
      <4>2. f # preferred
        BY <2>4
      <4> QED BY <1>0, <2>0, <2>1, <2>3, <4>1, <4>2
    <3>5. e[k] = f[k] + 1 /\ f[k] \in Int /\ DOMAIN e = Slots
          /\ (\A i \in Slots : f[i] \in Int /\ e[i] \in Int) /\ \A i \in Slots \ {k} : e[i] = f[i]
      OBVIOUS
    <3> HIDE DEF e
    <3>6. SumFunctionOnSet(e, Slots) = SumFunctionOnSet(f, Slots) - f[k] + e[k]
      BY <3>5, SlotsFinite, SumAt
    <3>7. SumFunction(f) = m
      BY <1>0, <2>0, <2>1, <3>4
    <3>8. SumFunction(e) = m + 1
      BY <2>3, <3>5, <3>6, <3>7, SumOverSlots
    <3> QED BY <1>0, <3>2, <3>3, <3>4, <3>8
  <2>5. CASE ~\E i \in Slots : f[i] < preferred[i]
    <3>1. Handed[m + 1] = f
      BY <2>1, <2>5 DEF HandOne
    <3>2. \A i \in Slots : f[i] = preferred[i]
      BY <2>2, <2>5
    <3>3. f = preferred
      BY <3>2
    <3>4. m + 1 <= SumFunction(preferred) => SumFunction(f) = m + 1
      BY <1>0, <2>0, <2>1, <3>3
    <3> QED BY <2>2, <3>1, <3>3, <3>4
  <2> QED BY <2>4, <2>5
<1>3. n \in N
  <2> HIDE DEF N
  <2> QED BY <1>1, <1>2, AllNaturals
<1> QED BY <1>3

\* Only one way of sharing is fair.
LEMMA FairIsUnique ==
  ASSUME preferred \in [Slots -> Nat], NEW f \in [Slots -> Nat], NEW e \in [Slots -> Nat],
         Fair(f), \A i \in Slots : f[i] <= preferred[i],
         Fair(e), \A i \in Slots : e[i] <= preferred[i],
         SumFunction(f) = SumFunction(e)
  PROVE  f = e
<1>1. SumFunctionOnSet(f, Slots) = SumFunctionOnSet(e, Slots) /\ SumFunctionOnSet(f, Slots) \in Nat
  BY SlotsFinite, SumNat, SumOverSlots
<1> SUFFICES ASSUME f # e PROVE FALSE
  OBVIOUS
<1>2. PICK i \in Slots : f[i] < e[i]
  <2>1. ASSUME \A i \in Slots : e[i] <= f[i] PROVE FALSE
    <3>1. \A i \in Slots : e[i] = f[i]
      BY <1>1, <2>1, SlotsFinite, SumStrict
    <3> QED BY <3>1
  <2> QED BY <2>1
<1>3. PICK j \in Slots : e[j] < f[j]
  <2>1. ASSUME \A k \in Slots : f[k] <= e[k] PROVE FALSE
    <3>1. \A k \in Slots : f[k] = e[k]
      BY <1>1, <2>1, SlotsFinite, SumStrict
    <3> QED BY <3>1
  <2> QED BY <2>1
<1>4. f[i] < preferred[i] /\ e[j] < preferred[j]
  BY <1>2, <1>3
<1>5. f[i] < f[j] => f[j] = f[i] + 1 /\ j < i
  BY <1>4 DEF Fair
<1>6. e[j] < e[i] => e[i] = e[j] + 1 /\ i < j
  BY <1>4 DEF Fair
<1>7. i \in Nat /\ j \in Nat
  BY DEF Slots
<1> QED BY <1>2, <1>3, <1>5, <1>6, <1>7

\* What is handed out is what is available, whatever the steps.
LEMMA AllocationHandsOut ==
  ASSUME BatchInv, Handout, [BatchNext]_episodesVars
  PROVE  Handout'
<1>1. CASE ChooseLimits
  <2>1. AllocInv
    BY DEF BatchInv
  <2> QED BY <1>1, <2>1, SeedHandsOut, RaiseHandsOut, SpreadHandsOut DEF ChooseLimits, Allocate
<1>2. ASSUME UNCHANGED allocVars PROVE Handout'
  BY <1>2 DEF allocVars, Handout, Granted, Enough
<1>3. ASSUME NEW i \in Slots, Work(i) PROVE UNCHANGED allocVars
  BY <1>3 DEF Work, Start, CallObjective, Raise, Return
<1>4. CASE TakeKernelPath \/ Dispatch \/ SettleBatch \/ Forfeit \/ LoseEvaluator
  BY <1>2, <1>4 DEF TakeKernelPath, Dispatch, SettleBatch, Forfeit, LoseEvaluator
<1>5. CASE UNCHANGED episodesVars
  BY <1>2, <1>5 DEF episodesVars, allocVars
<1> QED BY <1>1, <1>2, <1>3, <1>4, <1>5 DEF BatchNext, Coordinate

\* A fair allocation of what is available is the one of the reference process.
LEMMA GrantedAsHanded ==
  ASSUME AllocInv, Handout
  PROVE  AsIfOneByOne
<1> SUFFICES ASSUME phase = "granted" PROVE limits = Handed[available]
  BY DEF AsIfOneByOne
<1> DEFINE f == Handed[available]
<1>1. /\ preferred \in [Slots -> Nat] /\ limits \in [Slots -> Nat] /\ available \in Nat
      /\ Fair(limits) /\ \A i \in Slots : limits[i] <= preferred[i]
  BY DEF AllocInv, AllocTypeOK, WithinPreferred, NobodyStarves, Fair
<1>2. f \in [Slots -> Nat] /\ Fair(f) /\ \A i \in Slots : f[i] <= preferred[i]
  BY <1>1, HandedUnfolds, HandedShares
<1>3. IF available <= SumFunction(preferred) THEN SumFunction(f) = available ELSE f = preferred
  BY <1>1, HandedShares
<1>4. SumFunction(preferred) \in Nat
  BY <1>1, SlotsFinite, SumNat, SumOverSlots
<1> HIDE DEF f
<1>5. CASE Enough
  <2>1. limits = preferred
    BY <1>5 DEF Handout
  <2>2. CASE available = SumFunction(preferred)
    <3>1. SumFunction(f) = SumFunction(limits)
      BY <1>3, <1>4, <2>1, <2>2
    <3> QED BY <1>1, <1>2, <3>1, FairIsUnique DEF f
  <2>3. CASE available # SumFunction(preferred)
    BY <1>1, <1>3, <1>4, <1>5, <2>1, <2>3 DEF Enough, f
  <2> QED BY <2>2, <2>3
<1>6. CASE ~Enough
  <2>1. SumFunction(limits) = available
    BY <1>6 DEF Handout
  <2>2. SumFunction(f) = available
    BY <1>1, <1>3, <1>4, <1>6 DEF Enough
  <2>3. f = limits
    BY <1>1, <1>2, <2>1, <2>2, FairIsUnique
  <2> QED BY <2>3 DEF f
<1> QED BY <1>5, <1>6

\* The limits that sorting, levels and rounds arrive at are those of handing
\* the available evaluations out one by one to the request that has the least
\* (_max_min_evaluation_limits).
THEOREM Sharing == BatchSpec => []AsIfOneByOne
<1>1. BatchInit => Handout
  BY DEF BatchInit, AllocInit, Handout
<1>2. BatchInv /\ Handout /\ [BatchNext]_episodesVars => Handout'
  BY AllocationHandsOut
<1>3. BatchInv /\ Handout => AsIfOneByOne
  BY GrantedAsHanded DEF BatchInv
<1> QED BY <1>1, <1>2, <1>3, BatchInvariance, PTL DEF BatchSpec

-----------------------------------------------------------------------------
\* The state of the contract: calls made, capacity taken, standing.
Consumed == [i \in Slots |-> episode[i].consumed]
Calls == SumFunction(Consumed)
Taken == IF fate \in {"none", "kernel_path"} THEN 0 ELSE Reserved
Status ==
  CASE fate = "none" -> "idle"
    [] fate = "kernel_path" -> "declined"
    [] fate = "dispatched" -> "reserved"
    [] fate = "settled" -> "settled"
    [] OTHER -> "forfeited"

\* Before the dispatch nothing is taken from the budget; after a settlement no
\* episode is left that could call the objective.
Closing ==
  /\ fate = "none" => budget = available
  /\ fate = "settled" => \A i \in Slots : episode[i].state = "returned"

\* Every limit is at least one, and an episode is within its own.
LEMMA LimitsHold ==
  ASSUME BatchInv, phase = "granted"
  PROVE  /\ limits \in [Slots -> Nat] /\ Consumed \in [Slots -> Nat]
         /\ \A i \in Slots : limits[i] >= 1 /\ Consumed[i] <= limits[i]
<1>1. \A i \in Slots : limits[i] \in Nat /\ limits[i] >= 1
  BY DEF BatchInv, AllocInv, AllocTypeOK, WithinPreferred
<1>2. \A i \in Slots : episode[i].consumed \in Nat /\ episode[i].consumed <= limits[i]
  BY <1>1 DEF BatchInv, EpisodesOK, Waiting, EpisodesBounded
<1> QED BY <1>1, <1>2 DEF Consumed, BatchInv, AllocInv, AllocTypeOK

\* A reservation is never empty.
LEMMA SomethingReserved ==
  ASSUME BatchInv, phase = "granted"
  PROVE  Reserved \in Nat /\ Reserved >= 1
<1>1. limits \in [Slots -> Nat] /\ limits[1] >= 1 /\ 1 \in Slots
  BY LimitsHold DEF Slots
<1>2. SumFunctionOnSet(limits, Slots) \in Nat /\ limits[1] <= SumFunctionOnSet(limits, Slots)
  BY <1>1, SlotsFinite, SumNat
<1>3. Reserved = SumFunctionOnSet(limits, Slots)
  BY <1>1, SumOverSlots DEF Reserved
<1> QED BY <1>1, <1>2, <1>3

\* One more objective call, while the episode has calls left.
LEMMA CallCounts ==
  ASSUME BatchInv, phase = "granted", NEW i \in Slots, CallObjective(i)
  PROVE  Calls < Reserved /\ Calls' = Calls + 1
<1>1. /\ limits \in [Slots -> Nat] /\ Consumed \in [Slots -> Nat]
      /\ \A j \in Slots : Consumed[j] <= limits[j]
  BY LimitsHold
<1>2. Consumed[i] < limits[i] /\ episode' = [episode EXCEPT ![i].consumed = @ + 1]
  BY DEF CallObjective, HasCallsLeft, Consumed
<1>3. /\ Consumed' \in [Slots -> Nat] /\ Consumed'[i] = Consumed[i] + 1
      /\ \A j \in Slots \ {i} : Consumed'[j] = Consumed[j]
  BY <1>1, <1>2 DEF Consumed, BatchInv, EpisodesOK
<1> DEFINE c == SumFunctionOnSet(Consumed, Slots)
           d == SumFunctionOnSet(Consumed', Slots)
           r == SumFunctionOnSet(limits, Slots)
<1>4. Calls = c /\ Calls' = d /\ Reserved = r
  BY <1>1, <1>3, SumOverSlots DEF Calls, Reserved
<1>5. c \in Nat /\ r \in Nat /\ d \in Nat
  BY <1>1, <1>3, SlotsFinite, SumNat
<1>6. d = c - Consumed[i] + Consumed'[i]
  BY <1>1, <1>3, SlotsFinite, SumAt
<1>7. ASSUME r <= c PROVE FALSE
  <2>1. \A j \in Slots : Consumed[j] = limits[j]
    BY <1>1, <1>7, SlotsFinite, SumStrict
  <2> QED BY <1>1, <1>2, <2>1
<1> HIDE DEF c, d, r
<1> QED BY <1>1, <1>3, <1>4, <1>5, <1>6, <1>7

\* The result of every request carries the calls its episode made, so that the
\* costs of a complete batch add up to the calls, and there are some.
LEMMA CostsAreCalls ==
  ASSUME ReportInv, Len(results) = Requests, fate = "dispatched"
  PROVE  /\ SumFunction([i \in Slots |-> Ordered[i].cost]) = Calls /\ Calls > 0
         /\ \A i \in Slots : episode[i].state = "returned"
<1> DEFINE costs == [i \in Slots |-> Ordered[i].cost]
<1>1. ASSUME NEW i \in Slots
      PROVE  costs[i] = Consumed[i] /\ Consumed[i] \in Nat /\ Consumed[i] > 0 /\ episode[i].state = "returned"
  <2>1. PICK k \in Slots : k = (CHOOSE l \in Slots : results[l].index = i) /\ results[k].index = i
    BY EveryRequestReported DEF ReportInv
  <2>2. Ordered[i] = results[k] /\ k \in 1..Len(results)
    BY <2>1 DEF Ordered, Slots
  <2>3. episode[i].state = "returned" /\ results[k].cost = episode[i].cost
    BY <2>1, <2>2 DEF ReportInv, Reports
  <2>4. episode[i].cost \in 1..limits[i] /\ episode[i].cost = episode[i].consumed
    BY <2>3 DEF ReportInv, BatchInv, EpisodesBounded
  <2>5. limits[i] \in Nat
    BY DEF ReportInv, BatchInv, AllocInv, AllocTypeOK
  <2> QED BY <2>2, <2>3, <2>4, <2>5 DEF Consumed
<1>2. costs = Consumed
  BY <1>1 DEF Consumed
<1>3. Consumed[1] \in Nat /\ Consumed[1] > 0 /\ 1 \in Slots /\ DOMAIN Consumed = Slots
  BY <1>1 DEF Slots, Consumed
<1>4. SumFunctionOnSet(Consumed, Slots) \in Nat /\ Consumed[1] <= SumFunctionOnSet(Consumed, Slots)
  BY <1>1, <1>3, SlotsFinite, SumNat
<1>5. Calls = SumFunctionOnSet(Consumed, Slots)
  BY <1>3, SumOverSlots DEF Calls
<1> QED BY <1>1, <1>2, <1>3, <1>4, <1>5 DEF Calls

\* A batch that is settled has had all its results.
LEMMA ClosingStays ==
  ASSUME ReportInv, Closing, [BatchNext]_episodesVars
  PROVE  Closing'
<1>1. CASE SettleBatch
  BY <1>1, CostsAreCalls DEF SettleBatch, Closing
<1>2. CASE ChooseLimits
  <2>1. available' = available
    BY <1>2 DEF ChooseLimits, Allocate, Refuse, GrantPreferred, GrantOneEach, RaiseTogether, Spread
  <2> QED BY <1>2, <2>1 DEF Closing, ChooseLimits, batchVars
<1>3. CASE TakeKernelPath \/ Dispatch \/ Forfeit \/ LoseEvaluator \/ UNCHANGED episodesVars
  BY <1>3 DEF Closing, TakeKernelPath, Dispatch, Forfeit, LoseEvaluator, episodesVars
<1>4. ASSUME NEW i \in Slots, Work(i) PROVE Closing'
  BY <1>4 DEF Closing, Work, Start, CallObjective, Raise, Return, allocVars
<1> QED BY <1>1, <1>2, <1>3, <1>4 DEF BatchNext, Coordinate

\* The contract in terms of the batch.
ContractStep ==
  \/ Status = "idle" /\ Status' = "declined" /\ UNCHANGED <<budget, Taken, Calls>>
  \/ /\ Status = "idle" /\ Taken' \in 1..budget /\ budget' = budget - Taken'
     /\ Status' = "reserved" /\ UNCHANGED Calls
  \/ /\ Status \in {"reserved", "forfeited"} /\ Calls < Taken /\ Calls' = Calls + 1
     /\ UNCHANGED <<budget, Taken, Status>>
  \/ /\ Status = "reserved" /\ Calls > 0 /\ budget' = budget + Taken - Calls
     /\ Status' = "settled" /\ UNCHANGED <<Taken, Calls>>
  \/ Status = "reserved" /\ Status' = "forfeited" /\ UNCHANGED <<budget, Taken, Calls>>
  \/ UNCHANGED <<budget, Taken, Calls, Status>>

LEMMA ContractInTerms ==
  /\ Contract!Init <=> budget \in 0..MaxAvailable /\ Taken = 0 /\ Calls = 0 /\ Status = "idle"
  /\ [Contract!Next]_(Contract!vars) <=> ContractStep
BY DEF ContractStep, Contract!Init, Contract!Next, Contract!vars, Contract!Decline, Contract!Reserve,
  Contract!Evaluate, Contract!Settle, Contract!Forfeit, Taken, Calls, Consumed, Status

LEMMA ContractInit == BatchInit => Contract!Init
<1> SUFFICES ASSUME BatchInit PROVE Contract!Init
  OBVIOUS
<1>1. \A i \in Slots : Consumed[i] = 0
  BY DEF BatchInit, Consumed
<1>2. SumFunctionOnSet(Consumed, Slots) = 0
  BY <1>1, SlotsFinite, SumOnSubset, SumEmpty
<1>3. Calls = 0
  BY <1>2, SumOverSlots DEF Calls, Consumed
<1>4. budget \in 0..MaxAvailable /\ Taken = 0 /\ Status = "idle"
  BY DEF BatchInit, AllocInit, Taken, Status
<1> QED BY <1>3, <1>4, ContractInTerms

\* Each step of the batch is one of the contract, or none.
LEMMA ContractNext ==
  ASSUME ReportInv, Closing, [BatchNext]_episodesVars
  PROVE  ContractStep
<1> USE DEF ReportInv
<1>1. ASSUME episode' = episode PROVE Calls' = Calls
  BY <1>1 DEF Calls, Consumed
<1>2. ASSUME limits' = limits PROVE Reserved' = Reserved
  BY <1>2 DEF Reserved
<1>3. CASE ChooseLimits
  <2>1. fate \in {"none", "kernel_path"}
    BY <1>3 DEF ChooseLimits, Allocate, Refuse, GrantPreferred, GrantOneEach, RaiseTogether, Spread,
      BatchInv, Started
  <2>2. UNCHANGED <<budget, fate, episode>>
    BY <1>3 DEF ChooseLimits, batchVars
  <2> QED BY <1>1, <2>1, <2>2 DEF ContractStep, Taken, Status
<1>4. CASE TakeKernelPath
  BY <1>1, <1>4 DEF TakeKernelPath, ContractStep, Taken, Status
<1>5. CASE Dispatch
  <2>1. Reserved \in Nat /\ Reserved >= 1
    BY <1>5, SomethingReserved DEF Dispatch
  <2>2. Reserved' = Reserved /\ Calls' = Calls
    BY <1>1, <1>2, <1>5 DEF Dispatch, allocVars
  <2>3. Reserved <= budget /\ budget' = budget - Reserved /\ fate = "none" /\ fate' = "dispatched"
    BY <1>5 DEF Dispatch
  <2>4. budget \in Int
    BY <2>3 DEF Closing, BatchInv, AllocInv, AllocTypeOK
  <2> QED BY <2>1, <2>2, <2>3, <2>4 DEF ContractStep, Taken, Status
<1>6. ASSUME NEW i \in Slots, CallObjective(i) PROVE ContractStep
  <2>1. fate \notin {"none", "kernel_path", "settled"}
    BY <1>6 DEF CallObjective, BatchInv, Waiting, Closing
  <2>2. Calls < Reserved /\ Calls' = Calls + 1
    BY <1>6, <2>1, CallCounts DEF BatchInv, Started
  <2>3. UNCHANGED <<budget, fate>> /\ Reserved' = Reserved
    BY <1>2, <1>6 DEF CallObjective, allocVars
  <2>4. Status \in {"reserved", "forfeited"} /\ Status' = Status /\ Taken = Reserved /\ Taken' = Taken
    BY <2>1, <2>3 DEF Status, Taken
  <2> QED BY <2>2, <2>3, <2>4 DEF ContractStep
<1>7. ASSUME NEW i \in Slots, Work(i), ~CallObjective(i) PROVE ContractStep
  <2>1. \A j \in Slots : episode'[j].consumed = episode[j].consumed
    <3>1. episode \in [Slots -> [state : {"queued", "running", "returned", "raised"},
                                consumed : Nat, cost : Nat]]
      BY DEF BatchInv, EpisodesOK
    <3>2. CASE Start(i) \/ Raise(i)
      BY <3>1, <3>2 DEF Start, Raise
    <3>3. ASSUME NEW cost \in 0..MaxPreferred, Return(i, cost)
          PROVE  \A j \in Slots : episode'[j].consumed = episode[j].consumed
      <4>1. CASE CostAccepted(i, cost)
        BY <3>1, <3>3, <4>1, SMTT(20) DEF Return
      <4>2. CASE ~CostAccepted(i, cost)
        BY <3>1, <3>3, <4>2 DEF Return
      <4> QED BY <4>1, <4>2
    <3> QED BY <1>7, <3>2, <3>3 DEF Work
  <2>2. Calls' = Calls
    <3>1. Consumed' = Consumed
      BY <2>1 DEF Consumed
    <3> QED BY <3>1 DEF Calls
  <2>3. UNCHANGED <<budget, fate>> /\ Reserved' = Reserved
    BY <1>2, <1>7 DEF Work, Start, Raise, Return, allocVars
  <2> QED BY <2>2, <2>3 DEF ContractStep, Taken, Status
<1>8. CASE SettleBatch
  <2>1. InOrder /\ WithinLimits
    BY <1>8, CompleteBatchSettles DEF SettleBatch
  <2>2. SumFunction([i \in Slots |-> Ordered[i].cost]) = Calls /\ Calls > 0
    BY <1>8, CostsAreCalls DEF SettleBatch
  <2>3. fate = "dispatched" /\ fate' = "settled" /\ budget' = budget + Reserved - Calls
    BY <1>8, <2>1, <2>2 DEF SettleBatch, Refunded
  <2>4. Reserved' = Reserved /\ Calls' = Calls
    BY <1>1, <1>2, <1>8 DEF SettleBatch, allocVars
  <2> QED BY <2>2, <2>3, <2>4 DEF ContractStep, Taken, Status
<1>9. CASE Forfeit \/ LoseEvaluator
  <2>1. UNCHANGED budget /\ fate = "dispatched" /\ fate' \in {"failed", "lost"}
    BY <1>9 DEF Forfeit, LoseEvaluator, BudgetAfterFailure
  <2>2. Reserved' = Reserved /\ Calls' = Calls
    BY <1>1, <1>2, <1>9 DEF Forfeit, LoseEvaluator, allocVars
  <2> QED BY <2>1, <2>2 DEF ContractStep, Taken, Status
<1>10. CASE UNCHANGED episodesVars
  <2>1. Reserved' = Reserved /\ Calls' = Calls
    BY <1>1, <1>2, <1>10 DEF episodesVars
  <2> QED BY <1>10, <2>1 DEF episodesVars, ContractStep, Taken, Status
<1> QED BY <1>3, <1>4, <1>5, <1>6, <1>7, <1>8, <1>9, <1>10 DEF BatchNext, Coordinate

\* Whatever the episodes and the evaluator do, the budget is charged as the
\* contract of a reservation says: nothing beyond the reservation is called, a
\* settled batch pays for its calls, and a batch that fails pays for all it
\* reserved (EvaluationReservationBatch, settle and forfeit).
THEOREM Charging == BatchSpec => ChargesAsPromised
<1>1. BatchInit => Closing
  BY DEF BatchInit, Closing
<1>2. ReportInv /\ Closing /\ [BatchNext]_episodesVars => Closing'
  BY ClosingStays
<1>3. ReportInv /\ Closing /\ [BatchNext]_episodesVars => [Contract!Next]_(Contract!vars)
  BY ContractNext, ContractInTerms
<1> QED BY <1>1, <1>2, <1>3, ContractInit, ReportsKept, PTL DEF BatchSpec, ChargesAsPromised, Contract!Spec
=============================================================================
