--------------------------- MODULE ExactAsyncStep ---------------------------
(***************************************************************************)
(* One exact-async step of a study                                         *)
(* (src/variopt/study/exact_async/session.py, orchestration.py,            *)
(* artifacts.py): requests are asked once, evaluated as one logical batch  *)
(* of an AsyncEvaluator and told once, whatever the owner of the step does *)
(* in between: poll, wait, finish, suspend, resume, cancel.                *)
(*                                                                         *)
(* Three lifecycles describe the same batch: the evaluator's               *)
(* (BatchContract, which AsyncJoblib implements), the one that the session *)
(* object of evaluators/joblib/batches.py keeps in front of it, and the    *)
(* one of the study session in front of that.  None of the two sessions    *)
(* takes a lock.  The owner makes one call at a time; a second thread may  *)
(* cancel any session the owner has held, between any two steps of it.     *)
(*                                                                         *)
(* The same owner may instead run evaluate_batch_exact_async, the loop of  *)
(* Study.step and Study.run, which opens a session of its own and never    *)
(* suspends it.                                                            *)
(***************************************************************************)
EXTENDS Integers, FiniteSets, Sequences

CONSTANTS
  Requests,     \* the requests of the step
  Owner,        \* the thread that owns the step
  Interrupter,  \* the thread that cancels
  MaxSessions,  \* bound: sessions opened and resumed for the step
  MaxTells      \* bound: times tell_attempts is called

ASSUME StepAssumption ==
  /\ IsFiniteSet(Requests) /\ Requests # {}
  /\ Owner # Interrupter
  /\ MaxSessions \in Nat \ {0} /\ MaxTells \in Nat \ {0}

VARIABLES
  program,    \* what the owner runs: "step" or "batch"
  phase,      \* the batch in the evaluator, see BatchContract
  delivered,  \* completion groups the evaluator returned, per request
  resuming,   \* the batch is in the hands of a resume_attempt_session call
  sessions,   \* the session objects made so far, study and joblib together
  handles,    \* StudyExactAsyncStepResumeHandles given to the owner
  call,       \* the call each thread is in
  missed,     \* history: a cancel found the batch in the hands of a resume
  tells       \* history: what tell_attempts was called with, and how it ended

stepVars == <<program, phase, delivered, resuming, sessions, handles, call,
              missed, tells>>

Batch == INSTANCE BatchContract

-----------------------------------------------------------------------------
StepThreads == {Owner, Interrupter}
Delivered == {i \in Requests : delivered[i] = 1}
Opened == Len(sessions)

(* ResumablePendingAwareAsyncJoblibBatchSession (joblib, count) and the
   StudyExactAsyncStepSession over it (study, stored, finished). *)
Session(stored, count) ==
  [joblib |-> "active", count |-> count,
   study |-> "active", stored |-> stored, finished |-> FALSE]

NoCall == [pc |-> "idle", name |-> "none", on |-> 0, got |-> {}, kind |-> "none",
           handle |-> {}]

At(t, pc)       == call[t].pc = pc
Goes(t, pc)     == call' = [call EXCEPT ![t].pc = pc]
Returns(t)      == call' = [call EXCEPT ![t] = NoCall]
On(t)           == sessions[call[t].on]
Sets(t, f, v)   == sessions' = [sessions EXCEPT ![call[t].on][f] = v]

StepInit ==
  /\ program \in {"step", "batch"}
  /\ Batch!Init
  /\ resuming = FALSE /\ missed = FALSE
  /\ sessions = <<>> /\ handles = {} /\ tells = <<>>
  /\ call = [t \in StepThreads |-> NoCall]

-----------------------------------------------------------------------------
(* open_exact_async_step_session, and the head of evaluate_batch_exact_async.
   Validation, ask and the checks of its proposals may raise before there is
   a batch: that leaves the state as it is. *)
Open ==
  /\ Opened = 0
  /\ At(Owner, "idle")
  /\ Batch!Submit
  /\ sessions' = <<Session({}, 0)>>
  /\ call' = IF program = "step" THEN call
             ELSE [call EXCEPT ![Owner] = [NoCall EXCEPT !.pc = "collect",
                                             !.name = "batch", !.on = 1]]
  /\ UNCHANGED <<program, resuming, handles, tells, missed>>

(* A call of poll, wait or finish on an active study session.  On another one
   poll and wait raise RuntimeError; finish goes on to Assimilate, below. *)
Collect(s, name) ==
  /\ program = "step"
  /\ At(Owner, "idle")
  /\ sessions[s].study = "active"
  /\ call' = [call EXCEPT ![Owner] = [NoCall EXCEPT !.pc = "collect",
                                        !.name = name, !.on = s]]
  /\ UNCHANGED <<program, phase, delivered, resuming, sessions, handles, tells, missed>>

(* The joblib session: `if self._lifecycle != "active": raise`. *)
EnterJoblib ==
  /\ At(Owner, "collect")
  /\ IF On(Owner).joblib = "active" THEN Goes(Owner, "evaluator")
     ELSE IF call[Owner].name = "batch" THEN Goes(Owner, "cancel_reads")
     ELSE Returns(Owner)
  /\ UNCHANGED <<program, phase, delivered, resuming, sessions, handles, tells, missed>>

(* The evaluator returns one completion group. *)
EvaluatorDelivers(i) ==
  /\ At(Owner, "evaluator")
  /\ Batch!Deliver(i)
  /\ call' = [call EXCEPT ![Owner].pc = "joblib_record", ![Owner].got = {i}]
  /\ UNCHANGED <<program, resuming, sessions, handles, tells, missed>>

(* ... none: a poll, or a wait with a timeout. *)
EvaluatorReturnsNone ==
  /\ At(Owner, "evaluator")
  /\ call[Owner].name = "poll"
  /\ Returns(Owner)
  /\ UNCHANGED <<program, phase, delivered, resuming, sessions, handles, tells, missed>>

(* ... raises BatchExecutionFailed: the batch fails or is interrupted, or
   another thread took it away while this call was inside. *)
EvaluatorRaises ==
  /\ At(Owner, "evaluator")
  /\ \E kind \in {"failed", "cancelled"} :
       /\ \/ Batch!Fail /\ kind = "failed"
          \/ phase = "running" /\ Batch!Cancel /\ kind = "cancelled"
          \/ phase = "cancelled" /\ kind = "cancelled" /\ UNCHANGED <<phase, delivered>>
       /\ Sets(Owner, "joblib", kind)
       /\ call' = [call EXCEPT ![Owner].kind = kind, ![Owner].pc =
                     IF call[Owner].name = "batch" THEN "cancel_reads" ELSE "raises"]
  /\ UNCHANGED <<program, resuming, handles, tells, missed>>

(* ... or ValueError, when the batch was no longer active at the lookup: no
   session notices. *)
Mutant_RefusedMeansNone ==
  /\ At(Owner, "evaluator")
  /\ phase # "running"
  /\ Goes(Owner, IF call[Owner].name = "batch" THEN "cancel_reads" ELSE "collect")
  /\ UNCHANGED <<program, phase, delivered, resuming, sessions, handles, tells,
                 missed>>

EvaluatorRefuses ==
  /\ At(Owner, "evaluator")
  /\ phase # "running"
  /\ IF call[Owner].name = "batch" THEN Goes(Owner, "cancel_reads")
                                   ELSE Returns(Owner)
  /\ UNCHANGED <<program, phase, delivered, resuming, sessions, handles, tells, missed>>

(* except BatchExecutionFailed, in StudyExactAsyncStepSession.poll and wait *)
StudyRaises ==
  /\ At(Owner, "raises")
  /\ Sets(Owner, "study", call[Owner].kind)
  /\ Returns(Owner)
  /\ UNCHANGED <<program, phase, delivered, resuming, handles, tells, missed>>

(* ResumablePendingAwareAsyncJoblibBatchSession._record_completion_groups *)
JoblibRecord ==
  LET count == On(Owner).count + Cardinality(call[Owner].got) IN
  /\ At(Owner, "joblib_record")
  /\ sessions' = [sessions EXCEPT
       ![call[Owner].on].count = count,
       ![call[Owner].on].joblib = IF count >= Cardinality(Requests)
                                  THEN "completed" ELSE @]
  /\ Goes(Owner, "study_record")
  /\ UNCHANGED <<program, phase, delivered, resuming, handles, tells, missed>>

(* store_completion_group refuses a slot that is filled already. *)
Overlaps == call[Owner].got \cap On(Owner).stored # {}

(* StudyExactAsyncStepSession._record_completion_groups, which fails the
   session and cancels the batch on an overlap; finish then waits again or
   assimilates. *)
StudyRecord ==
  LET stored == On(Owner).stored \cup call[Owner].got
      s == call[Owner].on
  IN
  /\ At(Owner, "study_record") /\ call[Owner].name # "batch"
  /\ IF Overlaps
     THEN Sets(Owner, "study", "failed") /\ Goes(Owner, "cancel_reads")
     ELSE /\ sessions' = [sessions EXCEPT
               ![s].stored = stored,
               ![s].study = IF stored = Requests THEN "completed" ELSE @]
          /\ IF call[Owner].name # "finish" THEN Returns(Owner)
             ELSE Goes(Owner, IF sessions'[s].study = "active" THEN "collect"
                                                               ELSE "assimilate")
  /\ UNCHANGED <<program, phase, delivered, resuming, handles, tells, missed>>

(* The loop of evaluate_batch_exact_async: store, and go round until every
   request is stored. *)
BatchRecord ==
  LET stored == On(Owner).stored \cup call[Owner].got IN
  /\ At(Owner, "study_record") /\ call[Owner].name = "batch"
  /\ IF Overlaps
     THEN UNCHANGED sessions /\ Goes(Owner, "cancel_reads")
     ELSE /\ Sets(Owner, "stored", stored)
          /\ Goes(Owner, IF stored = Requests THEN "returned" ELSE "collect")
  /\ UNCHANGED <<program, phase, delivered, resuming, handles, tells, missed>>

(* except BaseException, in evaluate_batch_exact_async: a KeyboardInterrupt
   lands anywhere in the loop. *)
BatchInterrupted ==
  /\ call[Owner].name = "batch"
  /\ call[Owner].pc \in {"collect", "evaluator", "joblib_record", "study_record"}
  /\ Goes(Owner, "cancel_reads")
  /\ UNCHANGED <<program, phase, delivered, resuming, sessions, handles, tells, missed>>

-----------------------------------------------------------------------------
(* finish: a session that is completed goes straight to the assimilation, one
   that has finished returns what it returned before. *)
FinishCompleted(s) ==
  /\ program = "step"
  /\ At(Owner, "idle")
  /\ sessions[s].study = "completed" /\ ~sessions[s].finished
  /\ Len(tells) < MaxTells
  /\ call' = [call EXCEPT ![Owner] = [NoCall EXCEPT !.pc = "assimilate",
                                        !.name = "finish", !.on = s]]
  /\ UNCHANGED <<program, phase, delivered, resuming, sessions, handles, tells, missed>>

(* The rest of finish: finalize, validate, materialize, tell, remember.  Any
   of it may raise and leaves the session as it is. *)
Mutant_AssimilateWhatIsThere ==
  /\ At(Owner, "assimilate")
  /\ tells' = Append(tells, [on |-> call[Owner].on, attempts |-> On(Owner).stored,
                             ok |-> TRUE])
  /\ Sets(Owner, "finished", TRUE)
  /\ Returns(Owner)
  /\ UNCHANGED <<program, phase, delivered, resuming, handles, missed>>

Assimilate ==
  /\ At(Owner, "assimilate")
  /\ \/ UNCHANGED <<sessions, tells>>
     \/ /\ On(Owner).stored = Requests
        /\ \E ok \in BOOLEAN :
             /\ tells' = Append(tells, [on |-> call[Owner].on,
                                        attempts |-> On(Owner).stored, ok |-> ok])
             /\ IF ok THEN Sets(Owner, "finished", TRUE) ELSE UNCHANGED sessions
  /\ Returns(Owner)
  /\ UNCHANGED <<program, phase, delivered, resuming, handles, missed>>

-----------------------------------------------------------------------------
(* suspend: the evaluator parks the batch, if it is active ... *)
SuspendBegin(s) ==
  /\ program = "step"
  /\ At(Owner, "idle")
  /\ sessions[s].study = "active" /\ sessions[s].joblib = "active"
  /\ Batch!Park
  /\ call' = [call EXCEPT ![Owner] = [NoCall EXCEPT !.pc = "parked",
                                        !.name = "suspend", !.on = s]]
  /\ UNCHANGED <<program, resuming, sessions, handles, tells, missed>>

(* ... and returns its resume handle, or finds the batch cancelled meanwhile,
   which the joblib session records and the study session does not ... *)
SuspendReturns ==
  /\ At(Owner, "parked")
  /\ IF phase = "parked"
     THEN UNCHANGED sessions /\ Goes(Owner, "joblib_suspend")
     ELSE Sets(Owner, "joblib", "cancelled") /\ Returns(Owner)
  /\ UNCHANGED <<program, phase, delivered, resuming, handles, tells, missed>>

SuspendJoblib ==
  /\ At(Owner, "joblib_suspend")
  /\ sessions' = [sessions EXCEPT ![call[Owner].on].count = Cardinality(Delivered),
                                  ![call[Owner].on].joblib = "suspended"]
  /\ Goes(Owner, "study_suspend")
  /\ UNCHANGED <<program, phase, delivered, resuming, handles, tells, missed>>

(* StudyExactAsyncStepResumeHandle.__post_init__ *)
HandleOf(s) == [stored |-> sessions[s].stored, count |-> sessions[s].count]
ValidHandle(h) == Cardinality(h.stored) = h.count

SuspendStudy ==
  LET handle == HandleOf(call[Owner].on) IN
  /\ At(Owner, "study_suspend")
  /\ Sets(Owner, "study", "suspended")
  /\ handles' = handles \cup {h \in {handle} : ValidHandle(h)}
  /\ Returns(Owner)
  /\ UNCHANGED <<program, phase, delivered, resuming, tells, missed>>

(* resume_exact_async_step_session: the evaluator takes the suspended batch,
   if the handle counts its completions ... *)
Mutant_AnyHandleFits(h) == TRUE
Fits(h) == h.count = Cardinality(Delivered)

ResumeBegin(h) ==
  /\ program = "step"
  /\ At(Owner, "idle")
  /\ Opened < MaxSessions
  /\ phase = "parked" /\ ~resuming
  /\ Fits(h)
  /\ resuming' = TRUE
  /\ call' = [call EXCEPT ![Owner] = [NoCall EXCEPT !.pc = "resume",
                                        !.name = "resume", !.handle = h]]
  /\ UNCHANGED <<program, phase, delivered, sessions, handles, tells, missed>>

(* ... and installs it, unless it was discarded or does not start. *)
ResumeEnd ==
  /\ At(Owner, "resume")
  /\ resuming' = FALSE
  /\ \/ UNCHANGED <<phase, delivered, sessions>>
     \/ /\ Batch!Unpark
        /\ sessions' = Append(sessions, Session(call[Owner].handle.stored,
                                                call[Owner].handle.count))
  /\ Returns(Owner)
  /\ UNCHANGED <<program, handles, tells, missed>>

-----------------------------------------------------------------------------
(* StudyExactAsyncStepSession.cancel: terminal sessions return at once. *)
CancelBegin(t, s) ==
  /\ program = "step"
  /\ At(t, "idle")
  /\ sessions[s].study \in {"active", "suspended"}
  /\ call' = [call EXCEPT ![t] = [NoCall EXCEPT !.pc = "cancel_reads",
                                    !.name = "cancel", !.on = s]]
  /\ UNCHANGED <<program, phase, delivered, resuming, sessions, handles, tells, missed>>

(* ResumablePendingAwareAsyncJoblibBatchSession.cancel: the lifecycle decides,
   and may change before the evaluator is called ... *)
CancelReads(t) ==
  /\ At(t, "cancel_reads")
  /\ Goes(t, CASE On(t).joblib = "suspended" -> "discard_batch"
               [] On(t).joblib = "active"    -> "cancel_batch"
               [] OTHER                      -> "study_cancelled")
  /\ UNCHANGED <<program, phase, delivered, resuming, sessions, handles, tells, missed>>

(* ... discard_suspended_attempt_batch, which a resume under way finds out ... *)
DiscardBatch(t) ==
  /\ At(t, "discard_batch")
  /\ IF phase = "parked" THEN Batch!Cancel ELSE UNCHANGED <<phase, delivered>>
  /\ Goes(t, "joblib_cancelled")
  /\ UNCHANGED <<program, resuming, sessions, handles, tells, missed>>

(* ... or cancel_attempt_batch, which does not see a batch being resumed. *)
CancelBatch(t) ==
  /\ At(t, "cancel_batch")
  /\ IF phase \in {"running", "parked"} /\ ~resuming
     THEN Batch!Cancel ELSE UNCHANGED <<phase, delivered>>
  /\ missed' = (missed \/ resuming)
  /\ Goes(t, "joblib_cancelled")
  /\ UNCHANGED <<program, resuming, sessions, handles, tells>>

JoblibCancelled(t) ==
  /\ At(t, "joblib_cancelled")
  /\ Sets(t, "joblib", "cancelled")
  /\ Goes(t, "study_cancelled")
  /\ UNCHANGED <<program, phase, delivered, resuming, handles, tells, missed>>

(* The end of cancel; a batch call and a failed session re-raise here. *)
StudyCancelled(t) ==
  /\ At(t, "study_cancelled")
  /\ CASE call[t].name = "batch"  -> UNCHANGED sessions /\ Goes(t, "returned")
       [] call[t].name = "cancel" -> Sets(t, "study", "cancelled") /\ Returns(t)
       [] OTHER                   -> UNCHANGED sessions /\ Returns(t)
  /\ UNCHANGED <<program, phase, delivered, resuming, handles, tells, missed>>

-----------------------------------------------------------------------------
OwnerStep ==
  \/ EnterJoblib \/ EvaluatorRefuses \/ StudyRaises \/ JoblibRecord
  \/ StudyRecord \/ BatchRecord \/ Assimilate
  \/ SuspendReturns \/ SuspendJoblib \/ SuspendStudy \/ ResumeEnd

CancelStep(t) ==
  \/ CancelReads(t) \/ DiscardBatch(t) \/ CancelBatch(t)
  \/ JoblibCancelled(t) \/ StudyCancelled(t)

(* The evaluator ends every call: results arrive until the batch is over. *)
EvaluatorStep ==
  \/ \E i \in Requests : EvaluatorDelivers(i)
  \/ EvaluatorRaises

StepNext ==
  \/ Open
  \/ \E s \in 1..Opened :
       \/ \E name \in {"poll", "wait", "finish"} : Collect(s, name)
       \/ FinishCompleted(s) \/ SuspendBegin(s)
       \/ \E t \in StepThreads : CancelBegin(t, s)
  \/ \E h \in handles : ResumeBegin(h)
  \/ OwnerStep \/ EvaluatorStep
  \/ EvaluatorReturnsNone \/ BatchInterrupted
  \/ \E t \in StepThreads : CancelStep(t)

StepSpec == StepInit /\ [][StepNext]_stepVars

(* Threads inside a call are scheduled, and objective calls return. *)
StepFairness ==
  /\ WF_stepVars(OwnerStep) /\ WF_stepVars(EvaluatorStep)
  /\ \A t \in StepThreads : WF_stepVars(CancelStep(t))

-----------------------------------------------------------------------------
(* Properties                                                              *)

(* While the batch is alive, the newest session of the step holds exactly the
   attempts that the evaluator has reported, in its slots or in the hands of
   the call that is about to store them: what travelled in the study's handle
   and what travelled in the evaluator's add up, however often the step was
   suspended and with whichever handle it was resumed. *)
AttemptsAddUp ==
  Opened > 0 /\ phase \in {"running", "parked"} =>
    sessions[Opened].stored \cup
      (IF call[Owner].on = Opened THEN call[Owner].got ELSE {}) = Delivered

(* A step whose newest session is cancelled, and a batch call that has raised
   or returned, leave nothing in the evaluator: nothing runs and nothing stays
   parked for a resume that will not come, even when the cancellation comes
   from another thread in the middle of a suspend or a resume.  (missed: the
   cancel had read "active", and reached the evaluator when the batch had been
   suspended and was being resumed; evaluators do not cancel such a batch.) *)
NothingLeftBehind ==
  Opened > 0 /\ (sessions[Opened].study = "cancelled" \/ At(Owner, "returned"))
    => phase \in {"completed", "failed", "cancelled"} \/ missed

(* Nothing that was evaluated is lost while the step lives, and nothing of the
   step lives on when its owner has given it up. *)
StepAccounted == AttemptsAddUp /\ NothingLeftBehind

(* tell_attempts succeeds at most once per step, is only called on the newest
   session, and always sees an attempt for every request: a finish that raised
   is retried with the same batch, an older session never tells. *)
ToldOnce ==
  /\ \A n \in 1..Len(tells) : tells[n].attempts = Requests /\ tells[n].on = Opened
  /\ \A n \in 1..Len(tells) : tells[n].ok => n = Len(tells)

(* Every call of either thread returns or raises: finish does not wait for a
   batch that was suspended, cancelled, failed or reported to someone else. *)
StepCallsReturn ==
  \A t \in StepThreads : []<>(call[t].pc \in {"idle", "returned"})
=============================================================================
