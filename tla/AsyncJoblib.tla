----------------------------- MODULE AsyncJoblib -----------------------------
(***************************************************************************)
(* The life of one logical batch inside AsyncJoblibEvaluator               *)
(* (src/variopt/evaluators/joblib/asynchronous.py): the client threads     *)
(* that poll, wait, cancel, suspend, resume and discard it, the drain      *)
(* workers that move joblib's results into bounded queues, and the         *)
(* infrastructure retry that replaces one running attempt by another.      *)
(*                                                                         *)
(* Every evaluator operation touches only the entries of its own           *)
(* batch_id, so one batch is the whole state that its properties need:     *)
(* `active` and `suspended` are its entries in _active_batches and         *)
(* _suspended_batches, `resuming` and `discarded` its membership of        *)
(* _resuming_batches and _discarded_resuming_batches.  A critical section  *)
(* of _lifecycle_lock is one step; everything the code does outside the    *)
(* lock is a step of its own.  The evaluator keeps two such families of    *)
(* batches, outcome batches and native attempt batches, with the same      *)
(* control and two ways of naming a failure: Family selects one.           *)
(***************************************************************************)
EXTENDS Integers, Sequences, FiniteSets

CONSTANTS
  Waiters,        \* client threads that call poll and wait
  Modes,          \* how they wait: among "poll", "timed" and "forever"
  Controllers,    \* client threads that cancel, suspend, resume and discard
  Requests,       \* the request indices of the batch
  NoIndex,        \* the index of an event that carries no request
  Family,         \* "outcomes" or "attempts"
  RetryLimit,     \* infrastructure_retry_limit
  Workers,        \* effective joblib worker count
  BackendFaults,  \* what the joblib backend may do wrong
  MaxObjects      \* bound: ActiveAsyncJoblibBatch objects made for the batch

Faults == {"pool", "user", "interrupt", "early_end", "duplicate", "start"}
Exceptions == {"pool", "user", "interrupt"}

ASSUME RequestsAssumption ==
  /\ IsFiniteSet(Requests) /\ Requests # {} /\ NoIndex \notin Requests
ASSUME ParametersAssumption ==
  /\ Modes \subseteq {"poll", "timed", "forever"}
  /\ Family \in {"outcomes", "attempts"}
  /\ RetryLimit \in Nat
  /\ Workers \in Nat \ {0}
  /\ BackendFaults \subseteq Faults
  /\ MaxObjects \in Nat \ {0}

VARIABLES
  active,     \* object that is the batch's entry in _active_batches, 0: none
  suspended,  \* its entry in _suspended_batches, obj = 0: none
  resuming,   \* batch_id in _resuming_batches
  discarded,  \* batch_id in _discarded_resuming_batches
  created,    \* how many ActiveAsyncJoblibBatch objects exist
  obj,        \* the fields of each object
  att,        \* the attempts: each object and attempt_generation has one
  th,         \* the client threads and their local variables
  handles,    \* completed_count of the resume handles given out
  groups,     \* history: CompletionGroups returned to a caller, per request
  ended       \* history: how the batch left the evaluator for good

vars == <<active, suspended, resuming, discarded, created, obj, att, th,
          handles, groups, ended>>

-----------------------------------------------------------------------------
Threads     == Waiters \cup Controllers
Objects     == 1..MaxObjects
Generations == 0..RetryLimit
Attempts    == Objects \X Generations

Completed(i, g) == [kind |-> "completed", index |-> i, gen |-> g]
Terminal(k, g)  == [kind |-> k, index |-> NoIndex, gen |-> g]
NoEvent         == Terminal("none", 0)

NoSuspended == [obj |-> 0, done |-> {}, retries |-> 0]

(* Local variables of a client thread inside no evaluator call. *)
Idle == [pc |-> "idle", mode |-> "poll", my |-> 0, rd |-> 0, ev |-> NoEvent,
         held |-> NoSuspended]

(* A slot for an attempt that has not been started. *)
Unstarted == [inputs |-> {}, todo |-> {}, aborted |-> FALSE, queue |-> <<>>,
              worker |-> "off", hold |-> NoEvent]

Started(inputs) ==
  [Unstarted EXCEPT !.inputs = inputs, !.todo = inputs, !.worker = "pull"]

(* Capacity of the bounded hand-off queue of an attempt over n requests. *)
QueueCapacity(n) ==
  LET requestLimited == n + 1
      workerLimited  == Workers * 2 + 1
  IN  IF requestLimited < workerLimited THEN requestLimited ELSE workerLimited

(* _remaining_async_joblib_request_inputs *)
Remaining(done) == Requests \ done

(* _classify_joblib_failure *)
OutcomeFailureKind(exception) ==
  CASE exception = "interrupt" -> "cancelled"
    [] exception = "pool"      -> "infrastructure"
    [] OTHER                   -> "user_code"

(* _classify_joblib_attempt_failure *)
AttemptFailureKind(exception) ==
  IF exception = "interrupt" THEN "cancelled" ELSE "infrastructure"

FailureKind(exception) ==
  IF Family = "outcomes" THEN OutcomeFailureKind(exception)
                         ELSE AttemptFailureKind(exception)

(* What the waiter tries to retry: a stream that ended early, and the
   recognised process-pool failures. *)
Retryable(event) == event.kind \in {"exhausted", "pool"}

(* The kind with which a terminal event fails the batch. *)
EndKind(event) ==
  IF event.kind = "exhausted" THEN "infrastructure" ELSE FailureKind(event.kind)

Current(o) == <<o, obj[o].gen>>

Return(t)   == th' = [th EXCEPT ![t] = Idle]
Goto(t, pc) == th' = [th EXCEPT ![t].pc = pc]

(* SuspendedAsyncJoblibBatch(...) of an object: its completions and its
   consumed retries travel with the batch. *)
Mutant_ForgetCompletions(o) == [obj |-> o, done |-> {}, retries |-> obj[o].retries]
Mutant_ForgetRetries(o) == [obj |-> o, done |-> obj[o].done, retries |-> 0]
Snapshot(o) == [obj |-> o, done |-> obj[o].done, retries |-> obj[o].retries]

(* _abort_active_batch_attempt: the attempts after the running one of o has
   been told to stop. *)
Mutant_NoAbort(o) == att
Aborted(o) == [att EXCEPT ![Current(o)].aborted = TRUE]

(* `self._active_batches.get(handle.batch_id) is not active_batch` *)
Mutant_NeverLost(t) == FALSE
LostOwnership(t) == active # th[t].my

(* `proposal_index in active_batch.completed_indices` *)
Mutant_NeverReported(t) == FALSE
AlreadyReported(t) == th[t].ev.index \in obj[th[t].my].done

(* `result_event.attempt_generation != active_batch.attempt_generation` *)
IsStale(t) == th[t].ev.gen # obj[th[t].my].gen

-----------------------------------------------------------------------------
Init ==
  /\ active = 0 /\ suspended = NoSuspended
  /\ resuming = FALSE /\ discarded = FALSE
  /\ created = 0
  /\ obj = [o \in Objects |-> [done |-> {}, retries |-> 0, gen |-> 0]]
  /\ att = [a \in Attempts |-> Unstarted]
  /\ th = [t \in Threads |-> Idle]
  /\ handles = {}
  /\ groups = [i \in Requests |-> 0]
  /\ ended = "no"

(* submit_batch, submit_attempt_batch: the handle is known to nobody before
   the call returns, so the start and the registration are one step. *)
Submit ==
  /\ created = 0
  /\ created' = 1
  /\ active' = 1
  /\ att' = [att EXCEPT ![<<1, 0>>] = Started(Requests)]
  /\ UNCHANGED <<suspended, resuming, discarded, obj, th, handles, groups, ended>>

-----------------------------------------------------------------------------
(* poll and wait: _collect_next_completion_group                           *)

(* The first critical section: find the active batch of the handle.  A handle
   that is not active raises ValueError and changes nothing. *)
Lookup(t, mode) ==
  /\ th[t].pc = "idle"
  /\ active # 0
  /\ th' = [th EXCEPT ![t] = [Idle EXCEPT !.pc = "read", !.mode = mode,
                                          !.my = active]]
  /\ UNCHANGED <<active, suspended, resuming, discarded, created, obj, att,
                 handles, groups, ended>>

(* `active_batch.result_queue`: the attribute is read before get blocks on
   the queue it names, without the lock. *)
ReadQueue(t) ==
  /\ th[t].pc = "read"
  /\ th' = [th EXCEPT ![t].pc = "get", ![t].rd = obj[th[t].my].gen]
  /\ UNCHANGED <<active, suspended, resuming, discarded, created, obj, att,
                 handles, groups, ended>>

TakeEvent(t) ==
  LET a == <<th[t].my, th[t].rd>> IN
  /\ th[t].pc = "get"
  /\ att[a].queue # <<>>
  /\ th' = [th EXCEPT ![t].pc = "check", ![t].ev = Head(att[a].queue)]
  /\ att' = [att EXCEPT ![a].queue = Tail(@)]
  /\ UNCHANGED <<active, suspended, resuming, discarded, created, obj,
                 handles, groups, ended>>

(* queue.Empty: a poll returns no group; a wait re-checks ownership, and goes
   round again until its deadline (if it has one) has passed. *)
QueueEmpty(t) ==
  /\ th[t].pc = "get"
  /\ att[<<th[t].my, th[t].rd>>].queue = <<>>
  /\ \/ /\ th[t].mode = "poll" \/ LostOwnership(t) \/ th[t].mode = "timed"
        /\ Return(t)
     \/ /\ th[t].mode # "poll" /\ ~LostOwnership(t)
        /\ Goto(t, "read")
  /\ UNCHANGED <<active, suspended, resuming, discarded, created, obj, att,
                 handles, groups, ended>>

(* The critical section after get: ownership, then staleness. *)
CheckEvent(t) ==
  /\ th[t].pc = "check"
  /\ IF LostOwnership(t) THEN Return(t)
     ELSE IF IsStale(t)
       THEN IF th[t].mode = "poll" THEN Return(t)
            ELSE th' = [th EXCEPT ![t].pc = "read", ![t].ev = NoEvent]
     ELSE Goto(t, "settle")
  /\ UNCHANGED <<active, suspended, resuming, discarded, created, obj, att,
                 handles, groups, ended>>

(* _completion_group_for_result_event, first report of a request: commit the
   index, drop the batch when it was the last one, return the group. *)
Deliver(t) ==
  LET i == th[t].ev.index
      o == th[t].my
      done == obj[o].done \cup {i}
  IN
  /\ th[t].pc = "settle" /\ th[t].ev.kind = "completed"
  /\ ~LostOwnership(t)
  /\ ~AlreadyReported(t)
  /\ obj' = [obj EXCEPT ![o].done = done]
  /\ groups' = [groups EXCEPT ![i] = @ + 1]
  /\ IF done = Requests THEN active' = 0 /\ ended' = "completed"
                        ELSE UNCHANGED <<active, ended>>
  /\ Return(t)
  /\ UNCHANGED <<suspended, resuming, discarded, created, att, handles>>

(* ... and a second report of it: the batch is dropped, its attempt aborted
   outside the lock, and an infrastructure failure raised. *)
RejectDuplicate(t) ==
  /\ th[t].pc = "settle" /\ th[t].ev.kind = "completed"
  /\ ~LostOwnership(t)
  /\ AlreadyReported(t)
  /\ active' = 0 /\ ended' = "infrastructure"
  /\ Goto(t, "abort")
  /\ UNCHANGED <<suspended, resuming, discarded, created, obj, att, handles,
                 groups>>

(* Ownership lost between two critical sections of the same call. *)
RaiseInactive(t) ==
  /\ th[t].pc \in {"settle", "fail"}
  /\ LostOwnership(t)
  /\ Return(t)
  /\ UNCHANGED <<active, suspended, resuming, discarded, created, obj, att,
                 handles, groups, ended>>

CanRetry(t) ==
  LET o == th[t].my IN
  /\ obj[o].retries < RetryLimit
  /\ Remaining(obj[o].done) # {}

(* _retry_infrastructure_failure with _replace_active_batch_attempt: abort the
   running attempt, start another over the unfinished requests with a queue
   and a generation of its own. *)
Retry(t) ==
  LET o == th[t].my
      replacement == <<o, obj[o].gen + 1>>
  IN
  /\ th[t].pc = "settle" /\ Retryable(th[t].ev)
  /\ ~LostOwnership(t)
  /\ CanRetry(t)
  /\ obj' = [obj EXCEPT ![o].retries = @ + 1, ![o].gen = @ + 1]
  /\ att' = [Aborted(o) EXCEPT ![replacement] = Started(Remaining(obj[o].done))]
  /\ IF th[t].mode = "poll" THEN Return(t)
     ELSE th' = [th EXCEPT ![t].pc = "read", ![t].ev = NoEvent]
  /\ UNCHANGED <<active, suspended, resuming, discarded, created, handles,
                 groups, ended>>

(* The replacement attempt fails to start: the old one is already aborted. *)
RetryStartFails(t) ==
  LET o == th[t].my IN
  /\ "start" \in BackendFaults
  /\ th[t].pc = "settle" /\ Retryable(th[t].ev)
  /\ ~LostOwnership(t)
  /\ CanRetry(t)
  /\ obj' = [obj EXCEPT ![o].retries = @ + 1]
  /\ att' = Aborted(o)
  /\ active' = 0
  /\ \E exception \in Exceptions : ended' = FailureKind(exception)
  /\ Return(t)
  /\ UNCHANGED <<suspended, resuming, discarded, created, handles, groups>>

(* _retry_infrastructure_failure returns False. *)
RefuseRetry(t) ==
  /\ th[t].pc = "settle" /\ Retryable(th[t].ev)
  /\ ~LostOwnership(t)
  /\ ~CanRetry(t)
  /\ Goto(t, "fail")
  /\ UNCHANGED <<active, suspended, resuming, discarded, created, obj, att,
                 handles, groups, ended>>

(* The critical section that drops the batch and raises BatchExecutionFailed;
   the attempt is not aborted, its worker has reported its last event. *)
FailBatch(t) ==
  /\ \/ th[t].pc = "fail"
     \/ /\ th[t].pc = "settle"
        /\ th[t].ev.kind # "completed" /\ ~Retryable(th[t].ev)
  /\ ~LostOwnership(t)
  /\ active' = 0
  /\ ended' = EndKind(th[t].ev)
  /\ Return(t)
  /\ UNCHANGED <<suspended, resuming, discarded, created, obj, att, handles,
                 groups>>

(* _abort_active_batch_attempt, outside the lock. *)
Abort(t) ==
  /\ th[t].pc = "abort"
  /\ att' = Aborted(th[t].my)
  /\ Return(t)
  /\ UNCHANGED <<active, suspended, resuming, discarded, created, obj, handles,
                 groups, ended>>

-----------------------------------------------------------------------------
(* cancel: drops the active or the suspended batch, whichever there is.  A
   handle that is neither (unknown, ended, being resumed) is a no-op. *)
Cancel(t) ==
  /\ th[t].pc = "idle"
  /\ active # 0 \/ suspended.obj # 0
  /\ active' = 0 /\ suspended' = NoSuspended
  /\ ended' = "cancelled"
  /\ th' = IF active = 0 THEN th
           ELSE [th EXCEPT ![t] = [Idle EXCEPT !.pc = "abort", !.my = active]]
  /\ UNCHANGED <<resuming, discarded, created, obj, att, handles, groups>>

(* suspend_batch, first critical section. *)
SuspendBegin(t) ==
  /\ th[t].pc = "idle"
  /\ active # 0
  /\ suspended' = Snapshot(active)
  /\ active' = 0
  /\ th' = [th EXCEPT ![t] = [Idle EXCEPT !.pc = "suspend_abort", !.my = active]]
  /\ UNCHANGED <<resuming, discarded, created, obj, att, handles, groups, ended>>

SuspendAbort(t) ==
  /\ th[t].pc = "suspend_abort"
  /\ att' = Aborted(th[t].my)
  /\ Goto(t, "suspend_end")
  /\ UNCHANGED <<active, suspended, resuming, discarded, created, obj, handles,
                 groups, ended>>

(* ... second critical section: raise if the suspended batch is no longer the
   one this call stored, else hand out the resume handle. *)
SuspendEnd(t) ==
  /\ th[t].pc = "suspend_end"
  /\ handles' = IF suspended.obj # th[t].my THEN handles
                ELSE handles \cup {Cardinality(obj[th[t].my].done)}
  /\ Return(t)
  /\ UNCHANGED <<active, suspended, resuming, discarded, created, obj, att,
                 groups, ended>>

(* resume_session, first critical section.  A handle whose completed_count
   does not match, or whose batch is not suspended, raises ValueError. *)
ResumeBegin(t, completedCount) ==
  /\ th[t].pc = "idle"
  /\ created < MaxObjects
  /\ suspended.obj # 0
  /\ completedCount = Cardinality(suspended.done)
  /\ th' = [th EXCEPT ![t] = [Idle EXCEPT !.pc = "resume_start",
                                          !.held = suspended]]
  /\ suspended' = NoSuspended
  /\ resuming' = TRUE
  /\ UNCHANGED <<active, discarded, created, obj, att, handles, groups, ended>>

(* _start_active_batch over the unfinished requests, outside the lock. *)
ResumeStart(t) ==
  LET o == created + 1
      held == th[t].held
  IN
  /\ th[t].pc = "resume_start"
  /\ created' = o
  /\ obj' = [obj EXCEPT ![o] = [done |-> held.done, retries |-> held.retries,
                                gen |-> 0]]
  /\ att' = [att EXCEPT ![<<o, 0>>] = Started(Remaining(held.done))]
  /\ th' = [th EXCEPT ![t].pc = "resume_install", ![t].my = o]
  /\ UNCHANGED <<active, suspended, resuming, discarded, handles, groups, ended>>

(* The backend does not start: the batch is suspended again, unless it was
   discarded meanwhile. *)
ResumeStartFails(t) ==
  /\ "start" \in BackendFaults
  /\ th[t].pc = "resume_start"
  /\ resuming' = FALSE
  /\ discarded' = FALSE
  /\ suspended' = IF discarded THEN suspended ELSE th[t].held
  /\ Return(t)
  /\ UNCHANGED <<active, created, obj, att, handles, groups, ended>>

Mutant_IgnoreDiscard(t) ==
  /\ th[t].pc = "resume_install"
  /\ resuming' = FALSE /\ discarded' = FALSE
  /\ active' = th[t].my
  /\ Return(t)
  /\ UNCHANGED <<suspended, created, obj, att, handles, groups, ended>>

(* ... last critical section: register the batch, or abort it if a discard
   arrived while it was being resumed. *)
ResumeInstall(t) ==
  /\ th[t].pc = "resume_install"
  /\ resuming' = FALSE
  /\ discarded' = FALSE
  /\ IF discarded
     THEN UNCHANGED active /\ Goto(t, "abort")
     ELSE active' = th[t].my /\ Return(t)
  /\ UNCHANGED <<suspended, created, obj, att, handles, groups, ended>>

(* discard_suspended_batch *)
Discard(t) ==
  /\ th[t].pc = "idle"
  /\ suspended.obj # 0 \/ resuming
  /\ IF suspended.obj # 0
     THEN suspended' = NoSuspended /\ UNCHANGED discarded
     ELSE discarded' = TRUE /\ UNCHANGED suspended
  /\ ended' = "cancelled"
  /\ UNCHANGED <<active, resuming, created, obj, att, th, handles, groups>>

-----------------------------------------------------------------------------
(* The drain worker of an attempt and the joblib generator it drains.      *)

Hold(a, event) ==
  /\ att[a].worker = "pull"
  /\ att' = [att EXCEPT ![a].hold = event, ![a].worker = "check"]
  /\ UNCHANGED <<active, suspended, resuming, discarded, created, obj, th,
                 handles, groups, ended>>

(* joblib yields the result of one unfinished task of the attempt.  Whatever
   an aborted stream still produces is dropped by CheckAbort, so its end
   stands for all of it. *)
Yield(a, i) ==
  /\ att[a].worker = "pull"
  /\ ~att[a].aborted
  /\ i \in att[a].todo
  /\ att' = [att EXCEPT ![a].hold = Completed(i, a[2]), ![a].worker = "check",
                        ![a].todo = @ \ {i}]
  /\ UNCHANGED <<active, suspended, resuming, discarded, created, obj, th,
                 handles, groups, ended>>

(* joblib repeats a result.  Bound: not while the earlier one is queued. *)
YieldAgain(a, i) ==
  /\ "duplicate" \in BackendFaults /\ ~att[a].aborted
  /\ i \in att[a].inputs \ att[a].todo
  /\ \A n \in DOMAIN att[a].queue : att[a].queue[n].index # i
  /\ Hold(a, Completed(i, a[2]))

(* The stream ends: all tasks reported, closed after an abort, or too early. *)
EndStream(a) ==
  /\ att[a].todo = {} \/ att[a].aborted \/ "early_end" \in BackendFaults
  /\ Hold(a, Terminal("exhausted", a[2]))

(* The stream raises. *)
BreakStream(a, exception) ==
  /\ exception \in BackendFaults /\ ~att[a].aborted
  /\ Hold(a, Terminal(exception, a[2]))

(* `while not abort_event.is_set()`, the head of put_result_event. *)
CheckAbort(a) ==
  /\ att[a].worker = "check"
  /\ att' = IF att[a].aborted
            THEN [att EXCEPT ![a].worker = "done", ![a].hold = NoEvent]
            ELSE [att EXCEPT ![a].worker = "put"]
  /\ UNCHANGED <<active, suspended, resuming, discarded, created, obj, th,
                 handles, groups, ended>>

Full(a) == Len(att[a].queue) >= QueueCapacity(Cardinality(att[a].inputs))

(* put with a timeout; the abort event may have been set since CheckAbort. *)
PutEvent(a) ==
  /\ att[a].worker = "put"
  /\ ~Full(a)
  /\ att' = [att EXCEPT
               ![a].queue = Append(@, att[a].hold),
               ![a].hold = NoEvent,
               ![a].worker = IF att[a].hold.kind = "completed" THEN "pull"
                                                               ELSE "done"]
  /\ UNCHANGED <<active, suspended, resuming, discarded, created, obj, th,
                 handles, groups, ended>>

(* queue.Full: look at the abort event again. *)
PutTimeout(a) ==
  /\ att[a].worker = "put"
  /\ Full(a)
  /\ att' = [att EXCEPT ![a].worker = "check"]
  /\ UNCHANGED <<active, suspended, resuming, discarded, created, obj, th,
                 handles, groups, ended>>

-----------------------------------------------------------------------------
WaiterStep(t) ==
  \/ ReadQueue(t) \/ TakeEvent(t) \/ QueueEmpty(t) \/ CheckEvent(t)
  \/ Deliver(t) \/ RejectDuplicate(t) \/ RaiseInactive(t)
  \/ Retry(t) \/ RetryStartFails(t) \/ RefuseRetry(t) \/ FailBatch(t)

ControllerStep(t) ==
  \/ SuspendAbort(t) \/ SuspendEnd(t)
  \/ ResumeStart(t) \/ ResumeStartFails(t) \/ ResumeInstall(t)

ClientStep(t) == WaiterStep(t) \/ ControllerStep(t) \/ Abort(t)

ControlCall(t) ==
  \/ Cancel(t) \/ SuspendBegin(t) \/ Discard(t)
  \/ \E completedCount \in handles : ResumeBegin(t, completedCount)

Backend(a) ==
  \/ \E i \in Requests : Yield(a, i) \/ YieldAgain(a, i)
  \/ EndStream(a)
  \/ \E exception \in Exceptions : BreakStream(a, exception)

DrainWorker(a) == CheckAbort(a) \/ PutEvent(a) \/ PutTimeout(a)

Next ==
  \/ Submit
  \/ \E t \in Waiters, mode \in Modes : Lookup(t, mode)
  \/ \E t \in Threads : ClientStep(t)
  \/ \E t \in Controllers : ControlCall(t)
  \/ \E a \in Attempts : Backend(a) \/ DrainWorker(a)

Spec == Init /\ [][Next]_vars

(* A thread inside a call keeps running; nobody has to make a call. *)
ThreadFairness == \A t \in Threads : WF_vars(ClientStep(t))

(* Objective calls return, so every stream yields or ends, and the daemon
   drain threads are scheduled. *)
BackendFairness ==
  \A a \in Attempts : WF_vars(Backend(a)) /\ WF_vars(DrainWorker(a))

(* Client threads are scheduled, objective calls may hang for ever. *)
HangingSpec == Spec /\ ThreadFairness
-----------------------------------------------------------------------------
(* Properties                                                              *)

Events == [kind : {"completed"}, index : Requests, gen : Generations]
  \cup [kind : {"none", "exhausted"} \cup Exceptions, index : {NoIndex},
        gen : Generations]
Suspensions == [obj : 0..MaxObjects, done : SUBSET Requests,
                retries : Generations]
ThreadStates ==
  [pc : {"idle", "read", "get", "check", "settle", "fail", "abort",
         "suspend_abort", "suspend_end", "resume_start", "resume_install"},
   mode : {"poll", "timed", "forever"}, my : 0..MaxObjects, rd : Generations, ev : Events,
   held : Suspensions]
AttemptStates ==
  [inputs : SUBSET Requests, todo : SUBSET Requests, aborted : BOOLEAN,
   queue : Seq(Events), worker : {"off", "pull", "check", "put", "done"},
   hold : Events]

(* Every variable has its type, and no hand-off queue exceeds its capacity. *)
TypeOK ==
  /\ active \in 0..MaxObjects
  /\ suspended \in Suspensions
  /\ resuming \in BOOLEAN /\ discarded \in BOOLEAN
  /\ created \in 0..MaxObjects
  /\ obj \in [Objects -> [done : SUBSET Requests, retries : Generations,
                          gen : Generations]]
  /\ att \in [Attempts -> AttemptStates]
  /\ \A a \in Attempts :
       Len(att[a].queue) <= QueueCapacity(Cardinality(att[a].inputs))
  /\ th \in [Threads -> ThreadStates]
  /\ handles \subseteq 0..Cardinality(Requests)
  /\ groups \in [Requests -> Nat]
  /\ ended \in {"no", "completed", "user_code", "infrastructure", "cancelled"}

Resuming(t) == th[t].pc \in {"resume_start", "resume_install"}

Reported == {i \in Requests : groups[i] > 0}

(* No request of a batch is ever reported twice, whatever is suspended,
   resumed, retried, duplicated by the backend or waited for concurrently. *)
ExactlyOnce == \A i \in Requests : groups[i] <= 1

(* The completed_indices that travel with the batch (active, suspended or in
   the hands of a resuming thread) are exactly the requests reported to a
   caller, and a completed batch has reported all of them. *)
CompletionsAccounted ==
  /\ active # 0 => obj[active].done = Reported
  /\ suspended.obj # 0 => suspended.done = Reported
  /\ \A t \in Threads : Resuming(t) => th[t].held.done = Reported
  /\ ended = "completed" <=> Reported = Requests

(* A submitted batch that has not ended is in exactly one place: active,
   suspended, or in the hands of the one thread that resumes it; one that
   ended is in none of the evaluator's dictionaries. *)
OneHome ==
  /\ active # 0 => suspended.obj = 0 /\ ~resuming
  /\ suspended.obj # 0 => ~resuming
  /\ resuming <=> \E t \in Threads : Resuming(t)
  /\ \A t, u \in Threads : Resuming(t) /\ Resuming(u) => t = u
  /\ discarded => resuming
  /\ (created # 0 /\ ended = "no")
       <=> (active # 0 \/ suspended.obj # 0 \/ (resuming /\ ~discarded))

(* The infrastructure retry budget belongs to the logical batch: suspending
   and resuming it buys no further retries. *)
RetryBudget ==
  \A o \in 1..created :
    obj[o].retries <= RetryLimit /\ obj[o].retries >= obj[o].gen
    /\ \A p \in 1..(o - 1) : obj[o].retries >= obj[p].gen + obj[o].gen

-----------------------------------------------------------------------------
(* The attempts that nobody will read again are stopped: aborted, over, or
   about to be aborted by the thread that took the batch away. *)
NoOrphanAttempt ==
  \A o \in 1..created : \A g \in 0..obj[o].gen :
    LET a == <<o, g>> IN
    \/ o = active /\ g = obj[o].gen
    \/ att[a].aborted \/ att[a].worker = "done"
    \/ att[a].todo = {} /\ ended = "completed"
    \/ \E t \in Threads : th[t].my = o /\ th[t].pc \in
         {"abort", "suspend_abort", "resume_install"}

(* With a single waiter and a backend that neither repeats a result nor ends a
   stream early, every request of the running attempt is accounted for once:
   reported, still with joblib, in the worker's hand, queued, or held by the
   waiter.  Suspensions and retries drop and repeat nothing. *)
NothingLost ==
  LET a == Current(active)
      inQueue == {n \in DOMAIN att[a].queue : att[a].queue[n].kind = "completed"}
      holders == {t \in Waiters : th[t].my = active /\ th[t].ev.kind = "completed"
                                 /\ th[t].ev.gen = obj[active].gen}
      parts == << obj[active].done, att[a].todo,
                  IF att[a].hold.kind = "completed" THEN {att[a].hold.index} ELSE {},
                  {att[a].queue[n].index : n \in inQueue},
                  {th[t].ev.index : t \in holders} >>
  IN  active # 0 /\ BackendFaults \cap {"duplicate", "early_end"} = {} =>
        /\ \A i \in Requests : \E n \in 1..5 :
             i \in parts[n] /\ \A m \in 1..5 \ {n} : i \notin parts[m]
        /\ \A n, m \in inQueue : n # m => att[a].queue[n].index # att[a].queue[m].index

(* No work is lost and none goes on for nobody: each result of the running
   attempt is in one place, and every other attempt is being stopped. *)
WorkAccounted == NothingLost /\ NoOrphanAttempt

-----------------------------------------------------------------------------
(* The batch seen through its contract: AsyncJoblib implements it.         *)

Phase ==
  CASE ended \in {"completed", "cancelled"}        -> ended
    [] ended \in {"user_code", "infrastructure"}   -> "failed"
    [] ended = "no" /\ created = 0                 -> "new"
    [] ended = "no" /\ created # 0 /\ active # 0   -> "running"
    [] ended = "no" /\ created # 0 /\ active = 0   -> "parked"

Contract == INSTANCE BatchContract WITH phase <- Phase, delivered <- groups

(* Every behaviour of the evaluator is one the batch contract allows. *)
ImplementsContract == Contract!Spec

-----------------------------------------------------------------------------
(* A thread inside an evaluator call returns from it, even from a wait without
   a timeout, whatever the others cancel, suspend or resume, provided that
   objective calls return; a waiter whose batch was taken away returns
   although they hang and no further event will ever be queued; and the drain
   worker of an attempt that nobody reads any more ends, also when its queue is
   full. *)
CallsReturn ==
  /\ BackendFairness => \A t \in Threads : th[t].pc # "idle" ~> th[t].pc = "idle"
  /\ \A t \in Threads :
       th[t].pc # "idle" /\ th[t].my # 0 /\ active # th[t].my ~> th[t].pc = "idle"
  /\ BackendFairness =>
       \A a \in Attempts :
         att[a].worker # "off" /\ (active = 0 \/ a # Current(active))
           ~> att[a].worker = "done" \/ (active # 0 /\ a = Current(active))
=============================================================================
