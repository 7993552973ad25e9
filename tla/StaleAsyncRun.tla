--------------------------- MODULE StaleAsyncRun ---------------------------
(***************************************************************************)
(* run_stale_async (study/stale_async.py): the study loop that keeps       *)
(* several evaluator sessions open at once, tells the run method each      *)
(* group of attempts as it completes, and refills the evaluator with as    *)
(* many requests as the group returned.                                    *)
(*                                                                         *)
(* The evaluator completes requests whenever it likes; the loop sweeps its *)
(* sessions in the order they were opened and takes what has completed.    *)
(* As in StudyRun, proposals and attempts are counted, and every point at  *)
(* which user code may raise is a step of its own.                         *)
(***************************************************************************)
EXTENDS Integers, Sequences, FiniteSets, Functions

CONSTANTS
  MaxEvaluations,    \* run(max_evaluations)
  BatchSize,         \* run(batch_size)
  CountCost,         \* run(count_evaluation_cost)
  StopAtCheckpoint,  \* run(stop_at_checkpoint_boundary)
  MaxAttemptCost     \* bound: evaluations one attempt reports

ASSUME StaleRunAssumption ==
  /\ MaxEvaluations \in Nat
  /\ BatchSize \in Nat \ {0}
  /\ CountCost \in BOOLEAN
  /\ StopAtCheckpoint \in BOOLEAN
  /\ MaxAttemptCost \in Nat

VARIABLES
  pc,          \* "top", "sweep", "group", "tell", "refill" or "done"
  remaining,   \* EvaluationBudget.remaining, or record_budget_remaining
  state,       \* the run-method state the loop holds
  sessions,    \* active_sessions: requests running, and completed unpolled
  sweep,       \* the sweep: session polled, sessions at its start, requests
               \* polled and not yet told
  group,       \* attempts and cost of the group being assimilated
  history,     \* StudyRunHistory, as the lengths of its lists
  snapshot,    \* safe_snapshot
  unsafeSince, \* unsafe_since_safe_snapshot
  cancelled,   \* the sessions left open were cancelled
  outcome      \* what the call returned or raised

vars == <<pc, remaining, state, sessions, sweep, group, history, snapshot,
          unsafeSince, cancelled, outcome>>

Smaller(a, b) == IF a <= b THEN a ELSE b
Bigger(a, b) == IF a <= b THEN b ELSE a

States == [asked : Nat, told : Nat, groups : Nat, safe : BOOLEAN, exhausted : BOOLEAN]
Histories == [groups : Nat, slots : Nat, cost : Nat, evaluations : Nat]
Sessions == [running : Nat, ready : Nat]

FreshState == [asked |-> 0, told |-> 0, groups |-> 0, safe |-> FALSE,
               exhausted |-> FALSE]
EmptyHistory == [groups |-> 0, slots |-> 0, cost |-> 0, evaluations |-> 0]
Cut(h, s) == [taken |-> TRUE, history |-> h, state |-> s]
NoCut == [taken |-> FALSE, history |-> EmptyHistory, state |-> FreshState]
Cuts == [taken : BOOLEAN, history : Histories, state : States]
NoGroup == [slots |-> 0, cost |-> 0]

Kinds == {"none", "report", "checkpoint_report", "no_report", "failed",
          "bare_cause", "budget_exhausted", "never_safe", "interrupted"}
Outcome(kind, report, s, cut) ==
  [kind |-> kind, report |-> report, state |-> s, checkpoint |-> cut]

Outstanding(s) == s.running + s.ready
InEvaluator == SumFunction([i \in DOMAIN sessions |-> Outstanding(sessions[i])])

TypeOK ==
  /\ pc \in {"top", "sweep", "group", "tell", "refill", "done"}
  /\ remaining \in Int
  /\ state \in States
  /\ sessions \in Seq(Sessions)
  /\ sweep \in [at : Nat, last : 0..Len(sessions), polled : Nat]
  /\ group \in [slots : Nat, cost : Nat]
  /\ history \in Histories
  /\ snapshot \in Cuts
  /\ unsafeSince \in BOOLEAN
  /\ cancelled \in BOOLEAN
  /\ outcome \in [kind : Kinds, report : Histories, state : States, checkpoint : Cuts]
-----------------------------------------------------------------------------
Init ==
  \E safe, exhausted \in BOOLEAN :
    LET s == [FreshState EXCEPT !.safe = safe, !.exhausted = exhausted] IN
    /\ pc = "top"
    /\ remaining = MaxEvaluations
    /\ state = s
    /\ sessions = <<>>
    /\ sweep = [at |-> 1, last |-> 0, polled |-> 0]
    /\ group = NoGroup
    /\ history = EmptyHistory
    /\ snapshot = IF StopAtCheckpoint /\ safe THEN Cut(EmptyHistory, s) ELSE NoCut
    /\ unsafeSince = FALSE
    /\ cancelled = FALSE
    /\ outcome = Outcome("none", EmptyHistory, FreshState, NoCut)

HasWork == remaining > 0 /\ ~state.exhausted

\* RunReport rejects a count below the cost of the attempts it lists.
ValidReport(h) == h.evaluations >= h.cost


\* _cancel_active_stale_async_sessions, whatever single cancellations raise.
CancelSessions == TRUE

End(result, stop) ==
  /\ pc' = "done"
  /\ outcome' = result
  /\ cancelled' = stop

\* except Exception: the sessions are cancelled, and RunExecutionFailed carries
\* the partial report, unless the report cannot be built.
FailExecution(left, h) ==
  LET partial == [h EXCEPT !.evaluations = MaxEvaluations - left] IN
  /\ remaining' = left
  /\ history' = h
  /\ End(IF ValidReport(partial) /\ (snapshot.taken => ValidReport(snapshot.history))
         THEN Outcome("failed", partial, state, snapshot)
         ELSE Outcome("bare_cause", EmptyHistory, FreshState, NoCut),
         CancelSessions)
  /\ UNCHANGED <<state, sessions, sweep, group, snapshot, unsafeSince>>

\* A report of the latest safe cut, with the state that belongs to it.
CheckpointReport(cut) ==
  IF ValidReport(cut.history)
  THEN Outcome("checkpoint_report", cut.history, cut.state, cut)
  ELSE Outcome("no_report", EmptyHistory, FreshState, NoCut)
-----------------------------------------------------------------------------
\* evaluation_budget.consume(len(requests))
Charged(n) == IF CountCost THEN remaining - n ELSE remaining

\* The run-method state after ask, and after the group has been told.
AfterAsk(n, safe, exhausted) ==
  [asked |-> state.asked + n, told |-> state.told, groups |-> state.groups,
   safe |-> safe, exhausted |-> exhausted]
AfterTell(safe, exhausted) ==
  [asked |-> state.asked, told |-> state.told + group.slots,
   groups |-> state.groups + 1, safe |-> safe, exhausted |-> exhausted]

\* ask, and a session over what it proposed.  The loop's state is post-ask.
Open(limit) ==
  \E n \in 1..limit, safe, exhausted \in BOOLEAN :
    /\ remaining' = Charged(n)
    /\ sessions' = Append(sessions, [running |-> n, ready |-> 0])
    /\ state' = AfterAsk(n, safe, exhausted)
    /\ unsafeSince' = (unsafeSince \/ (StopAtCheckpoint /\ ~safe))

\* ask raises, or the session cannot be opened after its requests were charged.
OpenFails(limit) ==
  \E n \in 0..limit : FailExecution(Charged(n), history)

OpenFirst ==
  /\ pc = "top"
  /\ sessions = <<>>
  /\ HasWork
  /\ \/ /\ Open(Smaller(BatchSize, remaining))
        /\ sweep' = [at |-> 1, last |-> 1, polled |-> 0]
        /\ pc' = "sweep"
        /\ UNCHANGED <<group, history, snapshot, cancelled, outcome>>
     \/ OpenFails(Smaller(BatchSize, remaining))

\* Sessions opened during a sweep are polled in the next one.
StartSweep ==
  /\ pc = "top"
  /\ sessions # <<>>
  /\ sweep' = [at |-> 1, last |-> Len(sessions), polled |-> 0]
  /\ pc' = "sweep"
  /\ UNCHANGED <<remaining, state, sessions, group, history, snapshot, unsafeSince,
                 cancelled, outcome>>

\* The evaluator completes a request of a session.
Complete(i) ==
  /\ pc # "done"
  /\ sessions[i].running > 0
  /\ sessions' = [sessions EXCEPT ![i] =
                    [running |-> @.running - 1, ready |-> @.ready + 1]]
  /\ UNCHANGED <<pc, remaining, state, sweep, group, history, snapshot, unsafeSince,
                 cancelled, outcome>>

\* poll_completed_groups
Poll ==
  /\ pc = "sweep"
  /\ sweep.at <= sweep.last
  /\ LET ready == sessions[sweep.at].ready IN
     \/ /\ ready = 0
        /\ sweep' = [sweep EXCEPT !.at = @ + 1]
        /\ UNCHANGED <<pc, sessions>>
     \/ \E m \in 1..ready :
          /\ sweep' = [sweep EXCEPT !.polled = m]
          /\ sessions' = [sessions EXCEPT ![sweep.at].ready = @ - m]
          /\ pc' = "group"
  /\ UNCHANGED <<remaining, state, group, history, snapshot, unsafeSince, cancelled,
                 outcome>>

\* The session raises, or what it returns overlaps or is misaligned.
PollFails ==
  /\ pc = "sweep"
  /\ sweep.at <= sweep.last
  /\ FailExecution(remaining, history)

\* What a group costs beyond the evaluations charged when it was submitted.
Unmetered(n, cost) == Bigger(cost - n, 0)

\* Mutant: what a group costs beyond its charge is counted without being charged.
Mutant_LeftUncharged(n, cost) == IF CountCost THEN remaining ELSE remaining - n

\* What the group leaves of the budget.
Left(n, cost) == IF CountCost THEN remaining - Unmetered(n, cost) ELSE remaining - n

\* except EvaluationBudgetExhausted
FailBudget ==
  /\ End(IF StopAtCheckpoint /\ snapshot.taken THEN CheckpointReport(snapshot)
         ELSE Outcome("budget_exhausted", EmptyHistory, FreshState, NoCut),
         CancelSessions)
  /\ UNCHANGED <<remaining, state, sessions, sweep, group, history, snapshot, unsafeSince>>

\* Mutant: what a group costs beyond its charge is charged without being counted.
Mutant_CountSlots(n, cost) == n

\* step_evaluation_count
Counted(n, cost) == IF CountCost THEN cost ELSE n

\* One completed group of n attempts is settled and appended to the history.
Settle(n, cost) ==
  /\ pc = "group"
  /\ n <= sweep.polled
  /\ IF CountCost /\ Unmetered(n, cost) > remaining
     THEN FailBudget
     ELSE /\ remaining' = Left(n, cost)
          /\ sweep' = [sweep EXCEPT !.polled = @ - n]
          /\ group' = [slots |-> n, cost |-> cost]
          /\ history' = [groups |-> history.groups + 1,
                         slots |-> history.slots + n,
                         cost |-> history.cost + cost,
                         evaluations |-> history.evaluations + Counted(n, cost)]
          /\ pc' = "tell"
          /\ UNCHANGED <<state, sessions, snapshot, unsafeSince, cancelled, outcome>>

\* The materializer raises.
MaterializeFails == pc = "group" /\ FailExecution(remaining, history)

\* Mutants: the cut keeps the state from before the group, or is not renewed.
Mutant_CutBeforeTell(s) == IF StopAtCheckpoint /\ s.safe THEN Cut(history, state) ELSE snapshot
Mutant_CutOnce(s) ==
  IF StopAtCheckpoint /\ s.safe /\ ~snapshot.taken THEN Cut(history, s) ELSE snapshot

\* checkpoint_snapshot, when the state told is safe.
Checkpointed(s) == IF StopAtCheckpoint /\ s.safe THEN Cut(history, s) ELSE snapshot

\* tell_attempts returns.  A run told to stop at a boundary stops at the first
\* one after an unsafe stretch, whatever is still running.
Tell(safe, exhausted) ==
  LET s == AfterTell(safe, exhausted) IN
  /\ pc = "tell"
  /\ state' = s
  /\ snapshot' = Checkpointed(s)
  /\ IF StopAtCheckpoint /\ safe /\ unsafeSince
     THEN /\ End(CheckpointReport(snapshot'), CancelSessions)
          /\ UNCHANGED unsafeSince
     ELSE /\ pc' = "refill"
          /\ unsafeSince' = (StopAtCheckpoint /\ ~safe)
          /\ UNCHANGED <<cancelled, outcome>>
  /\ UNCHANGED <<remaining, sessions, sweep, group, history>>

\* tell_attempts raises: the history has the group, the state has not.
TellFails == pc = "tell" /\ FailExecution(remaining, history)

\* The rest of what was polled, or the next session.
NextGroup ==
  IF sweep.polled > 0
  THEN pc' = "group" /\ UNCHANGED sweep
  ELSE pc' = "sweep" /\ sweep' = [sweep EXCEPT !.at = @ + 1]

RefillSize == Smaller(group.slots, remaining)

Refill ==
  /\ pc = "refill"
  /\ IF HasWork
     THEN \/ /\ Open(RefillSize)
             /\ NextGroup
             /\ UNCHANGED <<group, history, snapshot, cancelled, outcome>>
          \/ OpenFails(RefillSize)
     ELSE /\ NextGroup
          /\ UNCHANGED <<remaining, state, sessions, group, history, snapshot,
                         unsafeSince, cancelled, outcome>>

\* Mutant: no session is ever dropped.
Mutant_KeepAll(s) == TRUE

\* not is_completed
IsActive(s) == Outstanding(s) > 0
Active == {i \in DOMAIN sessions : IsActive(sessions[i])}

\* The active sessions in the order they were opened: the k-th of them has
\* k - 1 active ones before it.
Position(i) == Cardinality({j \in Active : j < i}) + 1
StillActive ==
  [k \in 1..Cardinality(Active) |-> sessions[CHOOSE i \in Active : Position(i) = k]]

EndSweep ==
  /\ pc = "sweep"
  /\ sweep.at > sweep.last
  /\ sessions' = StillActive
  /\ sweep' = [at |-> 1, last |-> 0, polled |-> 0]
  /\ pc' = "top"
  /\ UNCHANGED <<remaining, state, group, history, snapshot, unsafeSince, cancelled,
                 outcome>>

\* The loop is left with nothing running.
Finish ==
  /\ pc = "top"
  /\ sessions = <<>>
  /\ ~HasWork
  /\ End(CASE StopAtCheckpoint /\ ~state.safe /\ snapshot.taken -> CheckpointReport(snapshot)
           [] StopAtCheckpoint /\ ~state.safe /\ ~snapshot.taken ->
                Outcome("never_safe", EmptyHistory, FreshState, NoCut)
           [] OTHER -> IF ValidReport(history)
                       THEN Outcome("report", history, state, NoCut)
                       ELSE Outcome("no_report", EmptyHistory, FreshState, NoCut),
         FALSE)
  /\ UNCHANGED <<remaining, state, sessions, sweep, group, history, snapshot, unsafeSince>>

\* except BaseException: the call is interrupted anywhere in the loop.
Interrupt ==
  /\ pc # "done"
  /\ End(Outcome("interrupted", EmptyHistory, FreshState, NoCut), CancelSessions)
  /\ UNCHANGED <<remaining, state, sessions, sweep, group, history, snapshot, unsafeSince>>

Loop ==
  \/ OpenFirst \/ StartSweep \/ Poll \/ PollFails
  \/ \E n \in 1..sweep.polled : \E cost \in 0..(n * MaxAttemptCost) : Settle(n, cost)
  \/ MaterializeFails
  \/ \E safe, exhausted \in BOOLEAN : Tell(safe, exhausted)
  \/ TellFails \/ Refill \/ EndSweep \/ Finish

Next == Loop \/ Interrupt \/ \E i \in DOMAIN sessions : Complete(i)

Spec == Init /\ [][Next]_vars

\* The loop runs on, and the evaluator completes what it was given.
FairSpec ==
  /\ Spec
  /\ WF_vars(Loop)
  /\ WF_vars(\E i \in DOMAIN sessions : Complete(i))
-----------------------------------------------------------------------------
\* What is in the evaluator, polled, reported and left never exceeds the hard
\* budget: refills are paid from what completed attempts left over.
WithinBudget ==
  CountCost /\ pc # "done" =>
    /\ remaining >= 0
    /\ history.evaluations + InEvaluator + sweep.polled + remaining <= MaxEvaluations

\* "With count_evaluation_cost=False, it is charged against returned attempt
\* slots instead" (study/core.py:535): the attempts a run returns fit the budget.
SlotBudget == history.slots <= MaxEvaluations

\* Whatever was submitted is in the evaluator, polled or told: no session is
\* dropped with requests that nobody will poll.  And however the call ends, no
\* session it opened is left running.
NothingDropped ==
  IF pc = "done" THEN cancelled \/ InEvaluator = 0
  ELSE state.asked = InEvaluator + sweep.polled + history.slots

\* The loop loses sight of nothing it submitted: everything in flight is paid
\* for, and everything asked for is in the evaluator, polled or told.
SubmissionsAccounted == WithinBudget /\ NothingDropped

\* A checkpoint pairs a safe state with exactly the groups it was told.
Aligned(h, s) == s.safe /\ s.told = h.slots /\ s.groups = h.groups
CheckpointAligned ==
  /\ snapshot.taken => Aligned(snapshot.history, snapshot.state)
  /\ outcome.kind = "checkpoint_report" => Aligned(outcome.report, outcome.state)
  /\ StopAtCheckpoint /\ outcome.kind = "report" => Aligned(outcome.report, outcome.state)

\* A rollback loses no boundary: the cut is the latest one, unless the run
\* method has been unsafe since.
RollbackIsLatest ==
  StopAtCheckpoint /\ ~unsafeSince /\ pc \in {"top", "sweep", "group", "refill"} =>
    \/ snapshot.taken /\ snapshot.history = history
    \/ ~snapshot.taken /\ history = EmptyHistory

\* "Terminal run report followed by the final run-method state"
\* (study/core.py:553): a call that nothing interrupts returns a report.
CompletedRunsReport == outcome.kind # "no_report"

\* The loop ends once the budget is spent and the evaluator has answered.
Termination == <>(pc = "done")
=============================================================================
