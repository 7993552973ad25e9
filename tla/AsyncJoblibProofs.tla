-------------------------- MODULE AsyncJoblibProofs --------------------------
(* Theorems about AsyncJoblib for every number of threads, requests, retries
   and ActiveAsyncJoblibBatch objects, and every set of backend faults. *)
EXTENDS AsyncJoblib, FiniteSetTheorems, TLAPS

(* A thread inside a call has looked up or made an object, and a resuming
   thread carries a suspended batch and room for a new object. *)
ThreadInv ==
  \A t \in Threads :
    /\ th[t].pc \notin {"idle", "resume_start"} => th[t].my \in Objects
    /\ th[t].pc = "resume_install" => obj[th[t].my].done = Reported
    /\ th[t].pc = "resume_start" => created < MaxObjects
    /\ Resuming(t) => th[t].held.obj # 0

(* Nothing exists before the batch is submitted. *)
CreationInv ==
  created = 0 =>
    /\ active = 0 /\ suspended.obj = 0 /\ ~resuming /\ ended = "no"
    /\ \A t \in Threads : th[t].pc = "idle"
    /\ Reported = {} /\ \A o \in Objects : obj[o].done = {}

(* Every retry starts one generation and takes one unit of the budget. *)
GenerationInv == \A o \in Objects : obj[o].gen <= obj[o].retries

(* A batch discarded while it is being resumed has ended. *)
DiscardInv == discarded => ended = "cancelled"

(* The inductive invariant. *)
IInv ==
  /\ TypeOK /\ GenerationInv /\ CreationInv /\ ThreadInv /\ DiscardInv
  /\ OneHome /\ CompletionsAccounted /\ ExactlyOnce

-----------------------------------------------------------------------------
LEMMA CardinalityRequests ==
  ASSUME NEW S \in SUBSET Requests
  PROVE  Cardinality(S) \in 0..Cardinality(Requests)
BY RequestsAssumption, FS_Subset, FS_CardinalityType

LEMMA CapacityNat == ASSUME NEW n \in Nat PROVE QueueCapacity(n) \in Nat \ {0}
BY ParametersAssumption DEF QueueCapacity

LEMMA TypeFailureKind ==
  ASSUME NEW x
  PROVE  FailureKind(x) \in {"user_code", "infrastructure", "cancelled"}
BY DEF FailureKind, OutcomeFailureKind, AttemptFailureKind

LEMMA StartedType ==
  ASSUME NEW S \in SUBSET Requests
  PROVE  /\ Started(S) \in AttemptStates
         /\ Started(S).inputs = S /\ Started(S).queue = <<>>
<1>1. NoEvent \in Events
  BY ParametersAssumption DEF NoEvent, Terminal, Events, Generations
<1>2. Unstarted \in AttemptStates
  BY <1>1 DEF Unstarted, AttemptStates
<1> QED BY <1>2 DEF Started, Unstarted, AttemptStates

LEMMA InitType == Init => TypeOK
<1> SUFFICES ASSUME Init PROVE TypeOK
  OBVIOUS
<1>1. NoEvent \in Events /\ 0 \in Generations
  BY ParametersAssumption DEF NoEvent, Terminal, Events, Generations
<1>2. NoSuspended \in Suspensions
  BY <1>1, ParametersAssumption DEF NoSuspended, Suspensions
<1>3. Idle \in ThreadStates
  BY <1>1, <1>2, ParametersAssumption DEF Idle, ThreadStates
<1>4. Unstarted \in AttemptStates
  BY <1>1 DEF Unstarted, AttemptStates
<1>5. \A a \in Attempts : Len(att[a].queue) <= QueueCapacity(Cardinality(att[a].inputs))
  BY CardinalityRequests, CapacityNat DEF Init, Unstarted
<1>6. att \in [Attempts -> AttemptStates] /\ th \in [Threads -> ThreadStates]
  BY <1>3, <1>4 DEF Init
<1>7. obj \in [Objects -> [done : SUBSET Requests, retries : Generations,
                         gen : Generations]]
  BY <1>1 DEF Init
<1>8. groups \in [Requests -> Nat] /\ active \in 0..MaxObjects
      /\ created \in 0..MaxObjects
  BY ParametersAssumption DEF Init
<1> QED
  BY <1>2, <1>5, <1>6, <1>7, <1>8 DEF Init, TypeOK

-----------------------------------------------------------------------------
(* Type correctness of one step of each kind: only the components that the
   step assigns need an argument. *)

LEMMA AttType ==
  ASSUME TypeOK, NEW a \in Attempts
  PROVE  /\ att[a] \in AttemptStates
         /\ att[a].inputs \subseteq Requests
         /\ Cardinality(att[a].inputs) \in Nat
         /\ QueueCapacity(Cardinality(att[a].inputs)) \in Nat
         /\ Len(att[a].queue) \in Nat
<1>1. att[a] \in AttemptStates
  BY DEF TypeOK
<1>2. att[a].inputs \in SUBSET Requests /\ att[a].queue \in Seq(Events)
  BY <1>1 DEF AttemptStates
<1>3. Cardinality(att[a].inputs) \in Nat
  BY <1>2, CardinalityRequests
<1>4. QueueCapacity(Cardinality(att[a].inputs)) \in Nat
  BY <1>3, CapacityNat
<1>5. Len(att[a].queue) \in Nat
  BY <1>2
<1> QED BY <1>1, <1>2, <1>3, <1>4, <1>5

(* A step that changes one attempt, keeps its inputs and queues at most one
   event, and that only below capacity. *)
LEMMA AttUpdateType ==
  ASSUME TypeOK, NEW a \in Attempts, NEW r \in AttemptStates,
         r.inputs = att[a].inputs,
         Len(r.queue) <= QueueCapacity(Cardinality(r.inputs)),
         att' = [att EXCEPT ![a] = r]
  PROVE  /\ att' \in [Attempts -> AttemptStates]
         /\ \A b \in Attempts :
              Len(att'[b].queue) <= QueueCapacity(Cardinality(att'[b].inputs))
BY DEF TypeOK

LEMMA BackendType ==
  ASSUME TypeOK, NEW a \in Attempts, Backend(a) \/ DrainWorker(a)
  PROVE  TypeOK'
<1> USE AttType DEF TypeOK
<1> DEFINE Rest == UNCHANGED <<active, suspended, resuming, discarded, created,
                               obj, th, handles, groups, ended>>
<1>0. a[2] \in Generations /\ NoEvent \in Events
  BY ParametersAssumption DEF Attempts, NoEvent, Terminal, Events, Generations
<1>1. ASSUME NEW e \in Events, Hold(a, e) PROVE TypeOK'
  <2> DEFINE r == [att[a] EXCEPT !.hold = e, !.worker = "check"]
  <2>1. att' = [att EXCEPT ![a] = r] /\ Rest
    BY <1>1 DEF Hold
  <2>2. r \in AttemptStates /\ r.inputs = att[a].inputs /\ r.queue = att[a].queue
    BY DEF AttemptStates
  <2> QED BY <2>1, <2>2, AttUpdateType
<1>2. ASSUME NEW i \in Requests, Yield(a, i) PROVE TypeOK'
  <2> DEFINE r == [att[a] EXCEPT !.hold = Completed(i, a[2]), !.worker = "check",
                                 !.todo = @ \ {i}]
  <2>1. att' = [att EXCEPT ![a] = r] /\ Rest
    BY <1>2 DEF Yield
  <2>2. Completed(i, a[2]) \in Events
    BY <1>0 DEF Completed, Events
  <2>3. r \in AttemptStates /\ r.inputs = att[a].inputs /\ r.queue = att[a].queue
    BY <2>2 DEF AttemptStates
  <2> QED BY <2>1, <2>3, AttUpdateType
<1>3. ASSUME NEW i \in Requests, YieldAgain(a, i) PROVE TypeOK'
  BY <1>0, <1>1, <1>3 DEF YieldAgain, Completed, Events
<1>4. ASSUME EndStream(a) PROVE TypeOK'
  BY <1>0, <1>1, <1>4 DEF EndStream, Terminal, Events
<1>5. ASSUME NEW x \in Exceptions, BreakStream(a, x) PROVE TypeOK'
  BY <1>0, <1>1, <1>5 DEF BreakStream, Terminal, Events
<1>6. ASSUME CheckAbort(a) PROVE TypeOK'
  <2> DEFINE r == IF att[a].aborted
                  THEN [att[a] EXCEPT !.worker = "done", !.hold = NoEvent]
                  ELSE [att[a] EXCEPT !.worker = "put"]
  <2>1. att' = [att EXCEPT ![a] = r] /\ Rest
    BY <1>6 DEF CheckAbort
  <2>2. r \in AttemptStates /\ r.inputs = att[a].inputs /\ r.queue = att[a].queue
    BY <1>0 DEF AttemptStates
  <2> QED BY <2>1, <2>2, AttUpdateType
<1>7. ASSUME PutEvent(a) PROVE TypeOK'
  <2> DEFINE r == [att[a] EXCEPT !.queue = Append(@, att[a].hold),
                     !.hold = NoEvent,
                     !.worker = IF att[a].hold.kind = "completed" THEN "pull"
                                                                  ELSE "done"]
  <2>1. att' = [att EXCEPT ![a] = r] /\ Rest
    BY <1>7 DEF PutEvent
  <2>2. att[a].queue \in Seq(Events) /\ att[a].hold \in Events
    BY DEF AttemptStates
  <2>3. Append(att[a].queue, att[a].hold) \in Seq(Events)
        /\ Len(Append(att[a].queue, att[a].hold)) = Len(att[a].queue) + 1
    BY <2>2
  <2>4. r \in AttemptStates /\ r.inputs = att[a].inputs
        /\ r.queue = Append(att[a].queue, att[a].hold)
    BY <1>0, <2>3 DEF AttemptStates
  <2>5. Len(att[a].queue) < QueueCapacity(Cardinality(att[a].inputs))
    BY <1>7 DEF PutEvent, Full
  <2> QED BY <2>1, <2>3, <2>4, <2>5, AttUpdateType
<1>8. ASSUME PutTimeout(a) PROVE TypeOK'
  <2> DEFINE r == [att[a] EXCEPT !.worker = "check"]
  <2>1. att' = [att EXCEPT ![a] = r] /\ Rest
    BY <1>8 DEF PutTimeout
  <2>2. r \in AttemptStates /\ r.inputs = att[a].inputs /\ r.queue = att[a].queue
    BY DEF AttemptStates
  <2> QED BY <2>1, <2>2, AttUpdateType
<1> QED BY <1>2, <1>3, <1>4, <1>5, <1>6, <1>7, <1>8 DEF Backend, DrainWorker

-----------------------------------------------------------------------------
LEMMA ThType ==
  ASSUME TypeOK, NEW t \in Threads
  PROVE  /\ th[t] \in ThreadStates
         /\ th[t].my \in 0..MaxObjects /\ th[t].rd \in Generations
         /\ th[t].ev \in Events /\ th[t].held \in Suspensions
         /\ Idle \in ThreadStates /\ NoEvent \in Events
<1>1. NoEvent \in Events /\ 0 \in Generations
  BY ParametersAssumption DEF NoEvent, Terminal, Events, Generations
<1>2. NoSuspended \in Suspensions
  BY <1>1, ParametersAssumption DEF NoSuspended, Suspensions
<1>3. Idle \in ThreadStates
  BY <1>1, <1>2, ParametersAssumption DEF Idle, ThreadStates
<1>4. th[t] \in ThreadStates
  BY DEF TypeOK
<1> QED BY <1>1, <1>3, <1>4 DEF ThreadStates

(* A step that gives one thread another state. *)
LEMMA ThUpdateType ==
  ASSUME TypeOK, NEW t \in Threads, NEW r \in ThreadStates,
         th' = [th EXCEPT ![t] = r]
  PROVE  th' \in [Threads -> ThreadStates]
BY DEF TypeOK

LEMMA ReturnType ==
  ASSUME TypeOK, NEW t \in Threads, Return(t)
  PROVE  th' \in [Threads -> ThreadStates]
BY ThType DEF TypeOK, Return

LEMMA GotoType ==
  ASSUME TypeOK, NEW t \in Threads, NEW pc, Goto(t, pc),
         pc \in {"read", "settle", "fail", "abort", "suspend_end"}
  PROVE  th' \in [Threads -> ThreadStates]
BY ThType, ZenonT(30) DEF TypeOK, Goto, ThreadStates

LEMMA RereadType ==
  ASSUME TypeOK, NEW t \in Threads,
         th' = [th EXCEPT ![t].pc = "read", ![t].ev = NoEvent]
  PROVE  th' \in [Threads -> ThreadStates]
<1> DEFINE r == [th[t] EXCEPT !.pc = "read", !.ev = NoEvent]
<1>1. r \in ThreadStates
  BY ThType DEF ThreadStates
<1>2. th' = [th EXCEPT ![t] = r]
  OBVIOUS
<1> QED BY <1>1, <1>2, ThUpdateType

LEMMA ObjType ==
  ASSUME TypeOK, NEW o \in Objects
  PROVE  /\ obj[o].done \in SUBSET Requests
         /\ obj[o].retries \in Generations /\ obj[o].gen \in Generations
         /\ Current(o) \in Attempts
         /\ \A g \in Generations : <<o, g>> \in Attempts
BY DEF TypeOK, Current, Attempts

LEMMA AbortedType ==
  ASSUME TypeOK, NEW o \in Objects
  PROVE  /\ Aborted(o) \in [Attempts -> AttemptStates]
         /\ \A b \in Attempts : /\ Aborted(o)[b].inputs = att[b].inputs
                                /\ Aborted(o)[b].queue = att[b].queue
<1> DEFINE a == Current(o)
<1>1. a \in Attempts /\ att[a] \in AttemptStates
  BY ObjType, AttType
<1>2. [att[a] EXCEPT !.aborted = TRUE] \in AttemptStates
  BY <1>1 DEF AttemptStates
<1>3. Aborted(o) = [att EXCEPT ![a] = [att[a] EXCEPT !.aborted = TRUE]]
  BY DEF Aborted
<1>4. /\ [att[a] EXCEPT !.aborted = TRUE].inputs = att[a].inputs
      /\ [att[a] EXCEPT !.aborted = TRUE].queue = att[a].queue
  BY <1>1 DEF AttemptStates
<1> QED BY <1>1, <1>2, <1>3, <1>4 DEF TypeOK

LEMMA StartAttemptType ==
  ASSUME NEW f \in [Attempts -> AttemptStates],
         \A b \in Attempts :
           Len(f[b].queue) <= QueueCapacity(Cardinality(f[b].inputs)),
         NEW a \in Attempts, NEW S \in SUBSET Requests,
         att' = [f EXCEPT ![a] = Started(S)]
  PROVE  /\ att' \in [Attempts -> AttemptStates]
         /\ \A b \in Attempts :
              Len(att'[b].queue) <= QueueCapacity(Cardinality(att'[b].inputs))
<1>1. Cardinality(S) \in Nat
  BY CardinalityRequests
<1>2. Len(Started(S).queue) <= QueueCapacity(Cardinality(Started(S).inputs))
  <2>1. QueueCapacity(Cardinality(S)) \in Nat
    BY <1>1, CapacityNat
  <2>2. Started(S).inputs = S /\ Started(S).queue = <<>>
    BY StartedType
  <2> QED BY <2>1, <2>2
<1>3. ASSUME NEW b \in Attempts
      PROVE  Len(att'[b].queue) <= QueueCapacity(Cardinality(att'[b].inputs))
  <2>1. CASE b = a
    BY <1>2, <2>1
  <2>2. CASE b # a
    <3>1. att'[b] = f[b]
      BY <2>2
    <3> QED BY <3>1
  <2> QED BY <2>1, <2>2
<1> QED BY <1>3, StartedType

LEMMA SubmitType == ASSUME TypeOK, Submit PROVE TypeOK'
<1>1. <<1, 0>> \in Attempts /\ 1 \in 0..MaxObjects
  BY ParametersAssumption DEF Attempts, Objects, Generations
<1>2. /\ att' \in [Attempts -> AttemptStates]
      /\ \A b \in Attempts :
           Len(att'[b].queue) <= QueueCapacity(Cardinality(att'[b].inputs))
  BY <1>1, StartAttemptType DEF TypeOK, Submit
<1> QED BY <1>1, <1>2 DEF TypeOK, Submit

LEMMA WaiterType ==
  ASSUME TypeOK, GenerationInv, ThreadInv, NEW t \in Threads, WaiterStep(t)
  PROVE  TypeOK'
<1> DEFINE o == th[t].my
<1>0. o \in Objects
  BY ThType DEF WaiterStep, ThreadInv, ReadQueue, TakeEvent, QueueEmpty,
     CheckEvent, Deliver, RejectDuplicate, RaiseInactive, Retry,
     RetryStartFails, RefuseRetry, FailBatch
<1>1. CASE ReadQueue(t)
  <2> DEFINE r == [th[t] EXCEPT !.pc = "get", !.rd = obj[o].gen]
  <2>1. r \in ThreadStates
    BY <1>0, ThType, ObjType DEF ThreadStates
  <2>2. th' = [th EXCEPT ![t] = r]
    BY <1>1 DEF ReadQueue
  <2> QED BY <1>1, <2>1, <2>2, ThUpdateType DEF ReadQueue, TypeOK
<1>2. CASE TakeEvent(t)
  <2> DEFINE a == <<o, th[t].rd>>
             q == att[a].queue
             r == [att[a] EXCEPT !.queue = Tail(@)]
  <2>1. a \in Attempts
    BY <1>0, ThType, ObjType
  <2>2. att[a] \in AttemptStates /\ q \in Seq(Events) /\ q # <<>>
    BY <2>1, <1>2, AttType DEF TakeEvent, AttemptStates
  <2>3. Head(q) \in Events /\ Tail(q) \in Seq(Events) /\ Len(Tail(q)) = Len(q) - 1
    BY <2>2
  <2>4. r \in AttemptStates /\ r.inputs = att[a].inputs /\ r.queue = Tail(q)
    BY <2>2, <2>3 DEF AttemptStates
  <2>5. Len(r.queue) <= QueueCapacity(Cardinality(r.inputs))
    BY <2>1, <2>3, <2>4, AttType DEF TypeOK
  <2>6. /\ att' \in [Attempts -> AttemptStates]
        /\ \A b \in Attempts :
             Len(att'[b].queue) <= QueueCapacity(Cardinality(att'[b].inputs))
    BY <1>2, <2>1, <2>4, <2>5, AttUpdateType DEF TakeEvent
  <2>7. th' \in [Threads -> ThreadStates]
    <3> DEFINE s == [th[t] EXCEPT !.pc = "check", !.ev = Head(q)]
    <3>1. s \in ThreadStates
      BY <2>3, ThType DEF ThreadStates
    <3>2. th' = [th EXCEPT ![t] = s]
      BY <1>2 DEF TakeEvent
    <3> QED BY <3>1, <3>2, ThUpdateType
  <2> QED BY <1>2, <2>6, <2>7 DEF TakeEvent, TypeOK
<1>3. CASE QueueEmpty(t)
  BY <1>3, ReturnType, GotoType DEF QueueEmpty, TypeOK
<1>4. CASE CheckEvent(t)
  <2>1. th' \in [Threads -> ThreadStates]
    BY <1>4, ReturnType, GotoType, RereadType DEF CheckEvent
  <2> QED BY <1>4, <2>1 DEF CheckEvent, TypeOK
<1>5. CASE Deliver(t)
  <2>1. th[t].ev.index \in Requests
    BY <1>5, ThType, RequestsAssumption DEF Deliver, Events, Exceptions
  <2>2. obj' \in [Objects -> [done : SUBSET Requests, retries : Generations,
                              gen : Generations]]
    BY <1>0, <1>5, <2>1, ObjType, SMTT(20) DEF Deliver, TypeOK
  <2>3. groups' \in [Requests -> Nat]
    BY <1>5, <2>1 DEF Deliver, TypeOK
  <2>4. active' \in 0..MaxObjects /\ ended' \in {"no", "completed", "user_code",
                                                 "infrastructure", "cancelled"}
    BY <1>5, ParametersAssumption DEF Deliver, TypeOK
  <2>5. th' \in [Threads -> ThreadStates]
    BY <1>5, ReturnType DEF Deliver
  <2> QED BY <1>5, <2>2, <2>3, <2>4, <2>5 DEF Deliver, TypeOK
<1>6. CASE RejectDuplicate(t)
  BY <1>6, GotoType, ParametersAssumption DEF RejectDuplicate, TypeOK
<1>7. CASE RaiseInactive(t)
  BY <1>7, ReturnType DEF RaiseInactive, TypeOK
<1>8. CASE Retry(t)
  <2> DEFINE g == obj[o].gen
             done == obj[o].done
  <2>1. /\ obj[o].retries + 1 \in Generations /\ g + 1 \in Generations
        /\ done \in SUBSET Requests
    BY <1>0, <1>8, ObjType, ParametersAssumption
       DEF Retry, CanRetry, GenerationInv, Generations
  <2>2. obj' \in [Objects -> [done : SUBSET Requests, retries : Generations,
                              gen : Generations]]
    BY <1>0, <1>8, <2>1, ObjType DEF Retry, TypeOK
  <2>3. <<o, g + 1>> \in Attempts /\ Remaining(done) \in SUBSET Requests
    BY <1>0, <2>1, ObjType DEF Remaining
  <2>4. \A b \in Attempts :
          Len(Aborted(o)[b].queue) <= QueueCapacity(Cardinality(Aborted(o)[b].inputs))
    BY <1>0, AbortedType DEF TypeOK
  <2>5. /\ att' \in [Attempts -> AttemptStates]
        /\ \A b \in Attempts :
             Len(att'[b].queue) <= QueueCapacity(Cardinality(att'[b].inputs))
    BY <1>0, <1>8, <2>3, <2>4, AbortedType, StartAttemptType DEF Retry
  <2>6. th' \in [Threads -> ThreadStates]
    BY <1>8, ReturnType, RereadType DEF Retry
  <2> QED BY <1>8, <2>2, <2>5, <2>6 DEF Retry, TypeOK
<1>9. CASE RetryStartFails(t)
  <2>1. obj[o].retries + 1 \in Generations
    BY <1>0, <1>9, ObjType, ParametersAssumption
       DEF RetryStartFails, CanRetry, Generations
  <2>2. obj' \in [Objects -> [done : SUBSET Requests, retries : Generations,
                              gen : Generations]]
    BY <1>0, <1>9, <2>1, ObjType, ZenonT(30) DEF RetryStartFails, TypeOK
  <2>3. /\ att' \in [Attempts -> AttemptStates]
        /\ \A b \in Attempts :
             Len(att'[b].queue) <= QueueCapacity(Cardinality(att'[b].inputs))
    BY <1>0, <1>9, AbortedType DEF RetryStartFails, TypeOK
  <2>4. ended' \in {"user_code", "infrastructure", "cancelled"}
    BY <1>9, TypeFailureKind DEF RetryStartFails
  <2>5. th' \in [Threads -> ThreadStates] /\ active' \in 0..MaxObjects
    BY <1>9, ReturnType, ParametersAssumption DEF RetryStartFails
  <2> QED BY <1>9, <2>2, <2>3, <2>4, <2>5 DEF RetryStartFails, TypeOK
<1>10. CASE RefuseRetry(t)
  BY <1>10, GotoType DEF RefuseRetry, TypeOK
<1>11. CASE FailBatch(t)
  <2>1. ended' \in {"user_code", "infrastructure", "cancelled"}
    BY <1>11, TypeFailureKind DEF FailBatch, EndKind
  <2>2. th' \in [Threads -> ThreadStates] /\ active' \in 0..MaxObjects
    BY <1>11, ReturnType, ParametersAssumption DEF FailBatch
  <2> QED BY <1>11, <2>1, <2>2 DEF FailBatch, TypeOK
<1> QED
  BY <1>1, <1>2, <1>3, <1>4, <1>5, <1>6, <1>7, <1>8, <1>9, <1>10, <1>11
     DEF WaiterStep

LEMMA ControllerType ==
  ASSUME TypeOK, ThreadInv, NEW t \in Threads,
         ControllerStep(t) \/ Abort(t) \/ ControlCall(t)
  PROVE  TypeOK'
<1> DEFINE o == th[t].my
<1>1. \A S \in Suspensions : S.obj \in 0..MaxObjects /\ S.done \in SUBSET Requests
                             /\ S.retries \in Generations
  BY DEF Suspensions
<1>2. NoSuspended \in Suspensions /\ 0 \in Generations
  BY ParametersAssumption DEF NoSuspended, Suspensions, Generations
<1>3. ASSUME NEW r \in ThreadStates, th' = [th EXCEPT ![t] = r]
      PROVE  th' \in [Threads -> ThreadStates]
  BY <1>3, ThUpdateType
<1>4. CASE SuspendAbort(t) \/ Abort(t)
  <2>1. o \in Objects
    BY <1>4 DEF SuspendAbort, Abort, ThreadInv
  <2>2. th' \in [Threads -> ThreadStates]
    BY <1>4, ReturnType, GotoType DEF SuspendAbort, Abort
  <2>3. /\ att' \in [Attempts -> AttemptStates]
        /\ \A b \in Attempts :
             Len(att'[b].queue) <= QueueCapacity(Cardinality(att'[b].inputs))
    BY <1>4, <2>1, AbortedType DEF SuspendAbort, Abort, TypeOK
  <2> QED BY <1>4, <2>2, <2>3 DEF SuspendAbort, Abort, TypeOK
<1>5. CASE SuspendEnd(t)
  <2>1. o \in Objects
    BY <1>5 DEF SuspendEnd, ThreadInv
  <2>2. handles' \subseteq 0..Cardinality(Requests)
    BY <1>5, <2>1, ObjType, CardinalityRequests DEF SuspendEnd, TypeOK
  <2>3. th' \in [Threads -> ThreadStates]
    BY <1>5, ReturnType DEF SuspendEnd
  <2> QED BY <1>5, <2>2, <2>3 DEF SuspendEnd, TypeOK
<1>6. CASE ResumeStart(t)
  <2> DEFINE held == th[t].held
             r == [th[t] EXCEPT !.pc = "resume_install", !.my = created + 1]
  <2>1. /\ created + 1 \in Objects
        /\ held.done \in SUBSET Requests /\ held.retries \in Generations
    BY <1>1, <1>6, ThType, ParametersAssumption
       DEF ResumeStart, ThreadInv, TypeOK, Objects
  <2>2. r \in ThreadStates
    <3>1. created + 1 \in 0..MaxObjects
      BY <2>1, ParametersAssumption DEF Objects
    <3> HIDE DEF held
    <3> QED BY <3>1, ThType DEF ThreadStates
  <2>3. th' \in [Threads -> ThreadStates]
    BY <1>3, <1>6, <2>2 DEF ResumeStart
  <2>4. obj' \in [Objects -> [done : SUBSET Requests, retries : Generations,
                              gen : Generations]]
    <3> DEFINE fields == [done |-> held.done, retries |-> held.retries, gen |-> 0]
    <3>1. fields \in [done : SUBSET Requests, retries : Generations,
                      gen : Generations]
      BY <1>2, <2>1
    <3>2. obj' = [obj EXCEPT ![created + 1] = fields]
      BY <1>6 DEF ResumeStart
    <3> QED BY <3>1, <3>2 DEF TypeOK
  <2>5. <<created + 1, 0>> \in Attempts /\ Remaining(held.done) \in SUBSET Requests
    BY <1>2, <2>1 DEF Attempts, Remaining
  <2>6. /\ att' \in [Attempts -> AttemptStates]
        /\ \A b \in Attempts :
             Len(att'[b].queue) <= QueueCapacity(Cardinality(att'[b].inputs))
    BY <1>6, <2>5, StartAttemptType DEF ResumeStart, TypeOK
  <2>7. created' \in 0..MaxObjects
    BY <1>6, <2>1 DEF ResumeStart, Objects
  <2> QED BY <1>6, <2>3, <2>4, <2>6, <2>7 DEF ResumeStart, TypeOK
<1>7. CASE ResumeStartFails(t)
  <2>1. th' \in [Threads -> ThreadStates]
    BY <1>7, ReturnType DEF ResumeStartFails
  <2>2. suspended' \in Suspensions
    BY <1>7, ThType DEF ResumeStartFails, TypeOK
  <2> QED BY <1>7, <2>1, <2>2 DEF ResumeStartFails, TypeOK
<1>8. CASE ResumeInstall(t)
  <2>1. th' \in [Threads -> ThreadStates]
    BY <1>8, ReturnType, GotoType DEF ResumeInstall
  <2>2. active' \in 0..MaxObjects
    BY <1>8, ThType DEF ResumeInstall, TypeOK
  <2> QED BY <1>8, <2>1, <2>2 DEF ResumeInstall, TypeOK
<1>9. CASE Cancel(t)
  <2> DEFINE r == [Idle EXCEPT !.pc = "abort", !.my = active]
  <2>1. r \in ThreadStates
    BY ThType DEF ThreadStates, TypeOK
  <2>2. th' \in [Threads -> ThreadStates]
    BY <1>3, <1>9, <2>1 DEF Cancel, TypeOK
  <2> QED BY <1>2, <1>9, <2>2, ParametersAssumption DEF Cancel, TypeOK
<1>10. CASE SuspendBegin(t)
  <2> DEFINE r == [Idle EXCEPT !.pc = "suspend_abort", !.my = active]
  <2>1. r \in ThreadStates
    BY ThType DEF ThreadStates, TypeOK
  <2>2. th' \in [Threads -> ThreadStates]
    BY <1>3, <1>10, <2>1 DEF SuspendBegin
  <2>3. active \in Objects
    BY <1>10 DEF SuspendBegin, TypeOK, Objects
  <2>4. suspended' \in Suspensions
    BY <1>10, <2>3, ObjType DEF SuspendBegin, Snapshot, Suspensions, Objects
  <2> QED BY <1>10, <2>2, <2>4, ParametersAssumption DEF SuspendBegin, TypeOK
<1>11. CASE Discard(t)
  BY <1>2, <1>11 DEF Discard, TypeOK
<1>12. ASSUME NEW n, ResumeBegin(t, n) PROVE TypeOK'
  <2> DEFINE r == [Idle EXCEPT !.pc = "resume_start", !.held = suspended]
  <2>1. r \in ThreadStates
    BY ThType DEF ThreadStates, TypeOK
  <2>2. th' \in [Threads -> ThreadStates]
    BY <1>3, <1>12, <2>1 DEF ResumeBegin
  <2> QED BY <1>2, <1>12, <2>2 DEF ResumeBegin, TypeOK
<1> QED
  BY <1>4, <1>5, <1>6, <1>7, <1>8, <1>9, <1>10, <1>11, <1>12
     DEF ControllerStep, ControlCall

LEMMA LookupType ==
  ASSUME TypeOK, NEW t \in Threads, NEW mode \in Modes, Lookup(t, mode)
  PROVE  TypeOK'
<1> DEFINE r == [Idle EXCEPT !.pc = "read", !.mode = mode, !.my = active]
<1>1. r \in ThreadStates
  BY ThType, ParametersAssumption DEF ThreadStates, TypeOK
<1>2. th' \in [Threads -> ThreadStates]
  BY <1>1, ThUpdateType DEF Lookup
<1> QED BY <1>2 DEF Lookup, TypeOK

LEMMA StepType == ASSUME IInv, [Next]_vars PROVE TypeOK'
<1> USE DEF IInv
<1>1. CASE Submit
  BY <1>1, SubmitType
<1>2. ASSUME NEW t \in Waiters, NEW mode \in Modes, Lookup(t, mode)
      PROVE  TypeOK'
  BY <1>2, LookupType DEF Threads
<1>3. ASSUME NEW t \in Threads, ClientStep(t) PROVE TypeOK'
  BY <1>3, WaiterType, ControllerType DEF ClientStep
<1>4. ASSUME NEW t \in Controllers, ControlCall(t) PROVE TypeOK'
  BY <1>4, ControllerType DEF Threads
<1>5. ASSUME NEW a \in Attempts, Backend(a) \/ DrainWorker(a) PROVE TypeOK'
  BY <1>5, BackendType
<1>6. CASE UNCHANGED vars
  BY <1>6 DEF vars, TypeOK
<1> QED BY <1>1, <1>2, <1>3, <1>4, <1>5, <1>6 DEF Next

-----------------------------------------------------------------------------
(* What a step preserves.  Most steps move one thread that is not resuming the
   batch and leave the batch where it is. *)

MovesOnly(t) ==
  /\ \A u \in Threads \ {t} : th'[u] = th[u]
  /\ ~Resuming(t) /\ ~Resuming(t)'
  /\ th'[t].pc # "idle" => th'[t].my \in Objects /\ created # 0

SameCompletions == \A o \in Objects : obj'[o].done = obj[o].done

LEMMA MoveKeepsThreads ==
  ASSUME IInv, NEW t \in Threads, MovesOnly(t), SameCompletions,
         UNCHANGED <<created, groups>>
  PROVE  /\ ThreadInv'
         /\ \A u \in Threads : Resuming(u)' <=> Resuming(u)
         /\ \A u \in Threads : Resuming(u)' => th'[u] = th[u]
         /\ Reported' = Reported
<1>1. Reported' = Reported
  BY DEF Reported
<1>2. ASSUME NEW u \in Threads
      PROVE  (Resuming(u)' <=> Resuming(u)) /\ (Resuming(u)' => th'[u] = th[u])
  BY DEF MovesOnly, Resuming
<1>3. ASSUME NEW u \in Threads
      PROVE  /\ th'[u].pc \notin {"idle", "resume_start"} => th'[u].my \in Objects
             /\ th'[u].pc = "resume_install" => obj'[th'[u].my].done = Reported'
             /\ th'[u].pc = "resume_start" => created' < MaxObjects
             /\ Resuming(u)' => th'[u].held.obj # 0
  <2>1. CASE u = t
    BY <2>1 DEF MovesOnly, Resuming
  <2>2. CASE u # t
    BY <1>1, <2>2 DEF MovesOnly, Resuming, IInv, ThreadInv, SameCompletions
  <2> QED BY <2>1, <2>2
<1> QED BY <1>1, <1>2, <1>3 DEF ThreadInv

LEMMA QuietStep ==
  ASSUME IInv, TypeOK', GenerationInv', NEW t \in Threads, MovesOnly(t),
         SameCompletions,
         UNCHANGED <<active, suspended, resuming, discarded, created, groups,
                     ended>>
  PROVE  IInv'
<1> USE MoveKeepsThreads
<1>1. CreationInv'
  BY DEF MovesOnly, IInv, CreationInv, SameCompletions
<1>2. OneHome'
  BY DEF IInv, OneHome
<1>3. active # 0 => active \in Objects
  BY DEF IInv, TypeOK, Objects
<1>4. CompletionsAccounted'
  BY <1>3 DEF IInv, CompletionsAccounted, SameCompletions
<1>5. ExactlyOnce'
  BY DEF IInv, ExactlyOnce
<1> QED BY <1>1, <1>2, <1>4, <1>5 DEF IInv, DiscardInv

(* The batch leaves the evaluator: cancelled, discarded or failed. *)
LEMMA EndStep ==
  ASSUME IInv, TypeOK', GenerationInv', NEW t \in Threads, MovesOnly(t),
         SameCompletions,
         active # 0 \/ suspended.obj # 0, active' = 0, suspended'.obj = 0,
         ended' \in {"user_code", "infrastructure", "cancelled"},
         UNCHANGED <<resuming, discarded, created, groups>>
  PROVE  IInv'
<1> USE MoveKeepsThreads
<1>1. created # 0 /\ ended = "no" /\ ~resuming /\ ~discarded
  BY DEF IInv, OneHome
<1>2. OneHome'
  BY <1>1 DEF IInv, OneHome
<1>3. CompletionsAccounted'
  BY <1>1 DEF IInv, OneHome, CompletionsAccounted
<1>4. ExactlyOnce'
  BY DEF IInv, ExactlyOnce
<1> QED BY <1>1, <1>2, <1>3, <1>4 DEF IInv, CreationInv, DiscardInv

LEMMA BackendKeeps ==
  ASSUME IInv, TypeOK', NEW a \in Attempts, Backend(a) \/ DrainWorker(a)
  PROVE  IInv'
<1>1. UNCHANGED <<active, suspended, resuming, discarded, created, obj, th,
                  handles, groups, ended>>
  BY DEF Backend, DrainWorker, Yield, YieldAgain, EndStream, BreakStream, Hold,
         CheckAbort, PutEvent, PutTimeout
<1>2. Reported' = Reported
  BY <1>1 DEF Reported
<1> QED
  BY <1>1, <1>2 DEF IInv, GenerationInv, CreationInv, ThreadInv, OneHome,
     CompletionsAccounted, ExactlyOnce, Resuming, DiscardInv

LEMMA StutterKeeps == ASSUME IInv, UNCHANGED vars PROVE IInv'
<1>1. Reported' = Reported
  BY DEF vars, Reported
<1> QED
  BY <1>1 DEF vars, IInv, TypeOK, GenerationInv, CreationInv, ThreadInv,
     OneHome, CompletionsAccounted, ExactlyOnce, Resuming, DiscardInv

LEMMA SubmitKeeps == ASSUME IInv, TypeOK', Submit PROVE IInv'
<1>1. /\ active = 0 /\ suspended.obj = 0 /\ ~resuming /\ ~discarded /\ ended = "no"
      /\ \A t \in Threads : th[t].pc = "idle"
      /\ Reported = {} /\ \A o \in Objects : obj[o].done = {}
  BY DEF Submit, IInv, CreationInv, OneHome
<1>2. \A t \in Threads : ~Resuming(t) /\ ~Resuming(t)'
  BY <1>1 DEF Submit, Resuming
<1>3. Reported' = {} /\ 1 \in Objects
  BY <1>1, ParametersAssumption DEF Submit, Reported, Objects
<1>4. ThreadInv' /\ GenerationInv' /\ CreationInv'
  BY <1>1, <1>2 DEF Submit, ThreadInv, IInv, GenerationInv, CreationInv
<1>5. OneHome'
  BY <1>1, <1>2 DEF Submit, OneHome
<1>6. CompletionsAccounted'
  BY <1>1, <1>2, <1>3, RequestsAssumption DEF Submit, CompletionsAccounted
<1>7. ExactlyOnce'
  BY DEF Submit, IInv, ExactlyOnce
<1>8. DiscardInv'
  BY <1>1 DEF Submit, DiscardInv
<1> QED BY <1>4, <1>5, <1>6, <1>7, <1>8 DEF IInv

(* The report of request i by the waiter t. *)
LEMMA DeliverKeeps ==
  ASSUME IInv, TypeOK', NEW t \in Threads, Deliver(t)
  PROVE  IInv'
<1> DEFINE i == th[t].ev.index
           o == th[t].my
<1>1. /\ active # 0 /\ o = active /\ o \in Objects
      /\ i \in Requests /\ i \notin obj[o].done
      /\ obj[o].done = Reported
      /\ created # 0 /\ suspended.obj = 0 /\ ~resuming /\ ended = "no"
  <2>1. o \in Objects
    BY DEF Deliver, IInv, ThreadInv
  <2>2. i \in Requests
    BY ThType, RequestsAssumption DEF Deliver, Events, Exceptions, IInv
  <2>3. o = active /\ i \notin obj[o].done
    BY DEF Deliver, LostOwnership, AlreadyReported
  <2>4. active # 0 /\ suspended.obj = 0 /\ ~resuming /\ ended = "no" /\ created # 0
    BY <2>1, <2>3 DEF IInv, OneHome, Objects
  <2> QED BY <2>1, <2>2, <2>3, <2>4 DEF IInv, CompletionsAccounted
<1>2. /\ obj' = [obj EXCEPT ![o].done = obj[o].done \cup {i}]
      /\ groups' = [groups EXCEPT ![i] = @ + 1]
      /\ th' = [th EXCEPT ![t] = Idle]
      /\ UNCHANGED <<suspended, resuming, discarded, created>>
  BY DEF Deliver, Return
<1>3. groups[i] = 0 /\ groups'[i] = 1
      /\ \A j \in Requests \ {i} : groups'[j] = groups[j]
  BY <1>1, <1>2 DEF Reported, IInv, TypeOK
<1>4. Reported' = Reported \cup {i}
  BY <1>1, <1>3 DEF Reported
<1>5. /\ obj'[o].done = Reported'
      /\ \A p \in Objects : obj'[p].gen = obj[p].gen /\ obj'[p].retries = obj[p].retries
  BY <1>1, <1>2, <1>4, ObjType DEF IInv, TypeOK
<1>6. \A u \in Threads : ~Resuming(u) /\ ~Resuming(u)'
  BY <1>1, <1>2 DEF IInv, OneHome, Resuming, TypeOK, Idle
<1>7. ThreadInv' /\ GenerationInv' /\ CreationInv'
  <2>1. \A u \in Threads : th'[u] = th[u] \/ th'[u].pc = "idle"
    BY <1>2 DEF Idle, IInv, TypeOK
  <2> QED BY <1>1, <1>2, <1>5, <1>6, <2>1
          DEF IInv, ThreadInv, GenerationInv, CreationInv, Resuming
<1>8. IF Reported' = Requests THEN active' = 0 /\ ended' = "completed"
                              ELSE active' = active /\ ended' = "no"
  BY <1>1, <1>4 DEF Deliver
<1>9. OneHome'
  BY <1>1, <1>2, <1>6, <1>8 DEF IInv, OneHome
<1>10. CompletionsAccounted'
  BY <1>1, <1>2, <1>5, <1>6, <1>8 DEF CompletionsAccounted
<1>11. ExactlyOnce'
  BY <1>3 DEF IInv, ExactlyOnce
<1>12. DiscardInv'
  BY <1>1, <1>2 DEF IInv, OneHome, DiscardInv
<1> QED BY <1>7, <1>9, <1>10, <1>11, <1>12 DEF IInv

LEMMA WaiterKeeps ==
  ASSUME IInv, TypeOK', NEW t \in Threads, WaiterStep(t)
  PROVE  IInv'
<1> DEFINE o == th[t].my
<1> USE DEF MovesOnly, SameCompletions, Resuming
<1>1. /\ o \in Objects /\ created # 0
      /\ obj[o].retries \in Generations /\ obj[o].gen \in Generations
      /\ th[t] \in ThreadStates /\ Idle.pc = "idle"
  BY ThType, ObjType DEF IInv, CreationInv, WaiterStep, ThreadInv, ReadQueue,
     TakeEvent, QueueEmpty, CheckEvent, Deliver, RejectDuplicate, RaiseInactive,
     Retry, RetryStartFails, RefuseRetry, FailBatch, Idle
<1>2. th \in [Threads -> ThreadStates]
  BY DEF IInv, TypeOK
<1>3. GenerationInv
  BY DEF IInv
<1>4. ASSUME ReadQueue(t) \/ TakeEvent(t) \/ QueueEmpty(t) \/ CheckEvent(t)
             \/ RaiseInactive(t) \/ RefuseRetry(t)
      PROVE  IInv'
  <2>1. MovesOnly(t)
    <3>1. CASE ReadQueue(t)
      BY <1>1, <1>2, <3>1 DEF ReadQueue, ThreadStates
    <3>2. CASE TakeEvent(t)
      BY <1>1, <1>2, <3>2 DEF TakeEvent, ThreadStates
    <3>3. CASE QueueEmpty(t)
      BY <1>1, <1>2, <3>3 DEF QueueEmpty, Return, Goto, ThreadStates
    <3>4. CASE CheckEvent(t)
      BY <1>1, <1>2, <3>4 DEF CheckEvent, Return, Goto, ThreadStates
    <3>5. CASE RaiseInactive(t)
      BY <1>1, <1>2, <3>5 DEF RaiseInactive, Return, ThreadStates
    <3>6. CASE RefuseRetry(t)
      BY <1>1, <1>2, <3>6 DEF RefuseRetry, Goto, ThreadStates
    <3> QED BY <1>4, <3>1, <3>2, <3>3, <3>4, <3>5, <3>6
  <2>2. UNCHANGED <<active, suspended, resuming, discarded, created, obj, groups,
                    ended>>
    BY <1>4 DEF ReadQueue, TakeEvent, QueueEmpty, CheckEvent, RaiseInactive,
       RefuseRetry
  <2>3. GenerationInv'
    BY <1>3, <2>2 DEF GenerationInv
  <2>4. SameCompletions
    BY <2>2
  <2> QED BY <2>1, <2>2, <2>3, <2>4, QuietStep
<1>5. CASE Deliver(t)
  BY <1>5, DeliverKeeps
<1>6. CASE RejectDuplicate(t) \/ FailBatch(t)
  <2>1. MovesOnly(t)
    BY <1>1, <1>2, <1>6 DEF RejectDuplicate, FailBatch, Return, Goto, ThreadStates
  <2>2. active # 0 /\ active' = 0
        /\ UNCHANGED <<suspended, resuming, discarded, created, obj, groups>>
    BY <1>1, <1>6 DEF RejectDuplicate, FailBatch, LostOwnership, Objects
  <2>3. suspended'.obj = 0 /\ GenerationInv' /\ SameCompletions
    BY <1>3, <2>2 DEF IInv, OneHome, GenerationInv
  <2>4. ended' \in {"user_code", "infrastructure", "cancelled"}
    BY <1>6, TypeFailureKind DEF RejectDuplicate, FailBatch, EndKind
  <2> QED BY <2>1, <2>2, <2>3, <2>4, EndStep
<1>7. CASE RetryStartFails(t)
  <2>1. MovesOnly(t)
    BY <1>1, <1>2, <1>7 DEF RetryStartFails, Return
  <2>2. active # 0 /\ active' = 0
        /\ UNCHANGED <<suspended, resuming, discarded, created, groups>>
    BY <1>1, <1>7 DEF RetryStartFails, LostOwnership, Objects
  <2>3. obj' = [obj EXCEPT ![o].retries = @ + 1]
    BY <1>7 DEF RetryStartFails
  <2>4. suspended'.obj = 0
    BY <2>2 DEF IInv, OneHome
  <2>5. GenerationInv' /\ SameCompletions
    BY <1>1, <1>3, <2>3, ObjType DEF GenerationInv, IInv, TypeOK, Generations
  <2>6. ended' \in {"user_code", "infrastructure", "cancelled"}
    BY <1>7, TypeFailureKind DEF RetryStartFails
  <2> QED BY <2>1, <2>2, <2>4, <2>5, <2>6, EndStep
<1>8. CASE Retry(t)
  <2>1. MovesOnly(t)
    BY <1>1, <1>2, <1>8 DEF Retry, Return, ThreadStates
  <2>2. UNCHANGED <<active, suspended, resuming, discarded, created, groups, ended>>
    BY <1>8 DEF Retry
  <2>3. obj' = [obj EXCEPT ![o].retries = @ + 1, ![o].gen = @ + 1]
    BY <1>8 DEF Retry
  <2>4. GenerationInv' /\ SameCompletions
    <3> DEFINE r == [obj[o] EXCEPT !.retries = @ + 1, !.gen = @ + 1]
    <3>1. obj' = [obj EXCEPT ![o] = r]
      BY <2>3
    <3>2. obj[o] \in [done : SUBSET Requests, retries : Generations,
                      gen : Generations]
      BY <1>1 DEF IInv, TypeOK
    <3>3. r.retries = obj[o].retries + 1 /\ r.gen = obj[o].gen + 1
          /\ r.done = obj[o].done
      BY <3>2
    <3>4. r.gen <= r.retries
      BY <1>1, <1>3, <3>3 DEF GenerationInv, Generations
    <3> HIDE DEF r
    <3> QED BY <1>3, <3>1, <3>3, <3>4 DEF GenerationInv, IInv, TypeOK
  <2> QED BY <2>1, <2>2, <2>4, QuietStep
<1> QED BY <1>4, <1>5, <1>6, <1>7, <1>8 DEF WaiterStep

LEMMA LookupKeeps ==
  ASSUME IInv, TypeOK', NEW t \in Threads, NEW mode, Lookup(t, mode)
  PROVE  IInv'
<1>1. active \in Objects /\ created # 0
  BY DEF Lookup, IInv, TypeOK, Objects, OneHome
<1>2. MovesOnly(t)
  BY <1>1 DEF Lookup, MovesOnly, Resuming, Idle, IInv, TypeOK
<1>3. GenerationInv' /\ SameCompletions
  BY DEF Lookup, IInv, GenerationInv, SameCompletions
<1> QED BY <1>2, <1>3, QuietStep DEF Lookup

(* The control calls. *)
LEMMA ControllerKeeps ==
  ASSUME IInv, TypeOK', NEW t \in Threads,
         ControllerStep(t) \/ Abort(t) \/ ControlCall(t)
  PROVE  IInv'
<1> DEFINE o == th[t].my
<1>0. /\ th \in [Threads -> ThreadStates] /\ th[t] \in ThreadStates
      /\ obj \in [Objects -> [done : SUBSET Requests, retries : Generations,
                              gen : Generations]]
      /\ active \in 0..MaxObjects /\ created \in Nat
      /\ Idle.pc = "idle"
  BY ThType, ParametersAssumption DEF IInv, TypeOK, Idle
<1>1. ThreadInv /\ OneHome /\ CompletionsAccounted /\ ExactlyOnce
      /\ GenerationInv /\ CreationInv /\ DiscardInv
  BY DEF IInv
<1>2. CASE SuspendAbort(t) \/ SuspendEnd(t) \/ Abort(t)
  <2>1. o \in Objects /\ created # 0
    BY <1>1, <1>2 DEF SuspendAbort, SuspendEnd, Abort, ThreadInv, CreationInv
  <2>2. MovesOnly(t)
    BY <1>0, <1>2, <2>1
       DEF SuspendAbort, SuspendEnd, Abort, Return, Goto, MovesOnly, Resuming,
           ThreadStates
  <2>3. UNCHANGED <<active, suspended, resuming, discarded, created, obj, groups,
                    ended>>
    BY <1>2 DEF SuspendAbort, SuspendEnd, Abort
  <2>4. GenerationInv' /\ SameCompletions
    BY <1>1, <2>3 DEF GenerationInv, SameCompletions
  <2> QED BY <2>2, <2>3, <2>4, QuietStep
<1>3. CASE Cancel(t)
  <2>1. created # 0 /\ (active # 0 => active \in Objects)
    BY <1>0, <1>1, <1>3 DEF Cancel, CreationInv, Objects
  <2>2. MovesOnly(t)
    BY <1>0, <1>3, <2>1 DEF Cancel, MovesOnly, Resuming, Idle
  <2>3. GenerationInv' /\ SameCompletions
    BY <1>1, <1>3 DEF Cancel, GenerationInv, SameCompletions
  <2> QED BY <1>3, <2>2, <2>3, EndStep DEF Cancel, NoSuspended
<1>4. CASE SuspendBegin(t)
  <2>1. /\ active \in Objects /\ active # 0 /\ created # 0 /\ suspended.obj = 0
        /\ ~resuming /\ obj[active].done = Reported /\ ended = "no"
    BY <1>0, <1>1, <1>4
       DEF SuspendBegin, CreationInv, OneHome, CompletionsAccounted, Objects
  <2>2. MovesOnly(t) /\ SameCompletions
    BY <1>0, <1>4, <2>1 DEF SuspendBegin, MovesOnly, Resuming, Idle, SameCompletions
  <2>3. /\ ThreadInv' /\ Reported' = Reported
        /\ \A u \in Threads : Resuming(u)' <=> Resuming(u)
        /\ \A u \in Threads : Resuming(u)' => th'[u] = th[u]
    BY <1>4, <2>2, MoveKeepsThreads DEF SuspendBegin
  <2>4. active' = 0 /\ suspended'.obj = active /\ suspended'.done = Reported
    BY <1>4, <2>1 DEF SuspendBegin, Snapshot
  <2>5. OneHome'
    BY <1>1, <1>4, <2>1, <2>3, <2>4 DEF SuspendBegin, OneHome
  <2>6. CompletionsAccounted'
    BY <1>1, <1>4, <2>3, <2>4 DEF SuspendBegin, CompletionsAccounted
  <2>7. GenerationInv' /\ CreationInv' /\ ExactlyOnce' /\ DiscardInv'
    BY <1>1, <1>4, <2>1
       DEF SuspendBegin, GenerationInv, CreationInv, ExactlyOnce, DiscardInv
  <2> QED BY <2>3, <2>5, <2>6, <2>7 DEF IInv
<1>5. CASE Discard(t)
  <2>1. Reported' = Reported /\ created # 0
    BY <1>1, <1>5 DEF Discard, Reported, CreationInv
  <2>2. \A u \in Threads : Resuming(u)' <=> Resuming(u)
    BY <1>5 DEF Discard, Resuming
  <2>3. active = 0 /\ ended \in {"no", "cancelled"} /\ ended' = "cancelled"
    BY <1>1, <1>5, <2>1 DEF Discard, OneHome, DiscardInv
  <2>4. suspended'.obj = 0
    BY <1>5 DEF Discard, NoSuspended
  <2>5. OneHome'
    BY <1>1, <1>5, <2>2, <2>3, <2>4 DEF Discard, OneHome, NoSuspended
  <2>6. CompletionsAccounted'
    BY <1>1, <1>5, <2>1, <2>2, <2>3, <2>4 DEF Discard, CompletionsAccounted
  <2>7. ThreadInv' /\ GenerationInv' /\ CreationInv' /\ ExactlyOnce' /\ DiscardInv'
    BY <1>1, <1>5, <2>1, <2>2
       DEF Discard, ThreadInv, GenerationInv, CreationInv, ExactlyOnce, DiscardInv
  <2> QED BY <2>5, <2>6, <2>7 DEF IInv
<1>6. ASSUME NEW n, ResumeBegin(t, n) PROVE IInv'
  <2>1. Reported' = Reported /\ created # 0 /\ created < MaxObjects
    BY <1>1, <1>6 DEF ResumeBegin, Reported, CreationInv
  <2>2. /\ th' = [th EXCEPT ![t] = [Idle EXCEPT !.pc = "resume_start",
                                                !.held = suspended]]
        /\ suspended'.obj = 0 /\ resuming'
        /\ UNCHANGED <<active, discarded, created, obj, groups, ended>>
    BY <1>6 DEF ResumeBegin, NoSuspended
  <2>3. /\ \A u \in Threads : ~Resuming(u)
        /\ active = 0 /\ suspended.obj # 0 /\ suspended.done = Reported
        /\ ~discarded /\ ended = "no"
    BY <1>1, <1>6, <2>1 DEF ResumeBegin, OneHome, CompletionsAccounted
  <2>4. /\ th'[t].pc = "resume_start" /\ th'[t].held = suspended
        /\ \A u \in Threads \ {t} : th'[u] = th[u]
    BY <1>0, <2>2 DEF Idle
  <2>5. Resuming(t)' /\ \A u \in Threads \ {t} : ~Resuming(u)'
    BY <2>3, <2>4 DEF Resuming
  <2>6. ThreadInv'
    BY <1>1, <2>1, <2>2, <2>3, <2>4, <2>5 DEF ThreadInv, Resuming
  <2>7. OneHome'
    BY <2>1, <2>2, <2>3, <2>5 DEF OneHome
  <2>8. CompletionsAccounted'
    BY <1>1, <2>1, <2>2, <2>3, <2>4, <2>5 DEF CompletionsAccounted
  <2>9. GenerationInv' /\ CreationInv' /\ ExactlyOnce' /\ DiscardInv'
    BY <1>1, <2>1, <2>2 DEF GenerationInv, CreationInv, ExactlyOnce, DiscardInv
  <2> QED BY <2>6, <2>7, <2>8, <2>9 DEF IInv
<1>7. ASSUME Resuming(t)
      PROVE  /\ resuming /\ active = 0 /\ suspended.obj = 0 /\ created # 0
             /\ \A u \in Threads \ {t} : ~Resuming(u)
             /\ th[t].held.done = Reported /\ th[t].held.obj # 0
             /\ ended = "completed" <=> Reported = Requests
             /\ ~discarded <=> ended = "no"
  BY <1>1, <1>7 DEF OneHome, CompletionsAccounted, ThreadInv, CreationInv, Resuming
<1>8. CASE ResumeStart(t)
  <2> DEFINE n == created + 1
             held == th[t].held
             fields == [done |-> held.done, retries |-> held.retries, gen |-> 0]
  <2>1. Resuming(t) /\ created < MaxObjects
    BY <1>1, <1>8 DEF ResumeStart, Resuming, ThreadInv
  <2>2. /\ th' = [th EXCEPT ![t].pc = "resume_install", ![t].my = n]
        /\ obj' = [obj EXCEPT ![n] = fields] /\ created' = n
        /\ UNCHANGED <<active, suspended, resuming, discarded, groups, ended>>
    BY <1>8 DEF ResumeStart
  <2>3. n \in Objects /\ n # 0 /\ held.retries \in Nat
    BY <1>0, <2>1, ThType, ParametersAssumption
       DEF Objects, Suspensions, Generations, IInv
  <2>4. /\ th'[t].pc = "resume_install" /\ th'[t].my = n /\ th'[t].held = held
        /\ \A u \in Threads \ {t} : th'[u] = th[u]
    BY <1>0, <2>2 DEF ThreadStates
  <2>5. Resuming(t)' /\ \A u \in Threads \ {t} : ~Resuming(u)'
    BY <1>7, <2>1, <2>4 DEF Resuming
  <2>6. /\ obj'[n] = fields /\ \A p \in Objects \ {n} : obj'[p] = obj[p]
        /\ Reported' = Reported
    BY <1>0, <2>2, <2>3 DEF Reported
  <2>7. ThreadInv'
    BY <1>1, <1>7, <2>1, <2>3, <2>4, <2>5, <2>6 DEF ThreadInv, Resuming
  <2>8. OneHome'
    BY <1>1, <1>7, <2>1, <2>2, <2>3, <2>5 DEF OneHome
  <2>9. CompletionsAccounted'
    BY <1>1, <1>7, <2>1, <2>2, <2>4, <2>5, <2>6 DEF CompletionsAccounted
  <2>10. GenerationInv' /\ CreationInv' /\ ExactlyOnce' /\ DiscardInv'
    BY <1>1, <2>2, <2>3, <2>6
       DEF GenerationInv, CreationInv, ExactlyOnce, DiscardInv
  <2> QED BY <2>7, <2>8, <2>9, <2>10 DEF IInv
<1>9. CASE ResumeStartFails(t)
  <2>1. Resuming(t)
    BY <1>9 DEF ResumeStartFails, Resuming
  <2>2. /\ th' = [th EXCEPT ![t] = Idle]
        /\ ~resuming' /\ ~discarded'
        /\ suspended' = IF discarded THEN suspended ELSE th[t].held
        /\ UNCHANGED <<active, created, obj, groups, ended>>
    BY <1>9 DEF ResumeStartFails, Return
  <2>3. \A u \in Threads : ~Resuming(u)' /\ (th'[u] = th[u] \/ th'[u].pc = "idle")
    BY <1>0, <1>7, <2>1, <2>2 DEF Resuming
  <2>4. Reported' = Reported
    BY <2>2 DEF Reported
  <2>5. ThreadInv'
    BY <1>1, <2>2, <2>3, <2>4 DEF ThreadInv, Resuming
  <2>6. OneHome'
    BY <1>7, <2>1, <2>2, <2>3 DEF OneHome
  <2>7. CompletionsAccounted'
    BY <1>1, <1>7, <2>1, <2>2, <2>3, <2>4 DEF CompletionsAccounted
  <2>8. GenerationInv' /\ CreationInv' /\ ExactlyOnce' /\ DiscardInv'
    BY <1>1, <1>7, <2>1, <2>2 DEF GenerationInv, CreationInv, ExactlyOnce, DiscardInv
  <2> QED BY <2>5, <2>6, <2>7, <2>8 DEF IInv
<1>10. CASE ResumeInstall(t)
  <2>1. Resuming(t) /\ o \in Objects /\ obj[o].done = Reported /\ o # 0
    BY <1>1, <1>10 DEF ResumeInstall, Resuming, ThreadInv, Objects
  <2>2. /\ ~resuming' /\ ~discarded'
        /\ active' = IF discarded THEN 0 ELSE o
        /\ UNCHANGED <<suspended, created, obj, groups, ended>>
    BY <1>7, <1>10, <2>1 DEF ResumeInstall
  <2>3. /\ \A u \in Threads \ {t} : th'[u] = th[u]
        /\ th'[t].pc = "idle" \/ (th'[t].pc = "abort" /\ th'[t].my = o)
    BY <1>0, <1>10 DEF ResumeInstall, Return, Goto, ThreadStates
  <2>4. \A u \in Threads : ~Resuming(u)'
    BY <1>7, <2>1, <2>3 DEF Resuming
  <2>5. Reported' = Reported
    BY <2>2 DEF Reported
  <2>6. ThreadInv'
    BY <1>1, <2>1, <2>2, <2>3, <2>4, <2>5 DEF ThreadInv, Resuming
  <2>7. OneHome'
    BY <1>7, <2>1, <2>2, <2>4 DEF OneHome
  <2>8. CompletionsAccounted'
    BY <1>1, <1>7, <2>1, <2>2, <2>4, <2>5 DEF CompletionsAccounted
  <2>9. GenerationInv' /\ CreationInv' /\ ExactlyOnce' /\ DiscardInv'
    BY <1>1, <1>7, <2>1, <2>2 DEF GenerationInv, CreationInv, ExactlyOnce, DiscardInv
  <2> QED BY <2>6, <2>7, <2>8, <2>9 DEF IInv
<1> QED
  BY <1>2, <1>3, <1>4, <1>5, <1>6, <1>8, <1>9, <1>10
     DEF ControllerStep, ControlCall

-----------------------------------------------------------------------------
LEMMA InitInv == Init => IInv
<1> SUFFICES ASSUME Init PROVE IInv
  OBVIOUS
<1>1. TypeOK
  BY InitType
<1>2. \A t \in Threads : th[t].pc = "idle" /\ ~Resuming(t)
  BY DEF Init, Idle, Resuming
<1>3. Reported = {} /\ \A p \in Objects : obj[p].done = {} /\ obj[p].gen <= obj[p].retries
  BY DEF Init, Reported
<1>4. suspended.obj = 0
  BY DEF Init, NoSuspended
<1> QED
  BY <1>1, <1>2, <1>3, <1>4, RequestsAssumption
     DEF Init, IInv, GenerationInv, CreationInv, ThreadInv, DiscardInv, OneHome,
         CompletionsAccounted, ExactlyOnce

LEMMA StepInv == ASSUME IInv, [Next]_vars PROVE IInv'
<1>0. TypeOK'
  BY StepType
<1>1. CASE Submit
  BY <1>0, <1>1, SubmitKeeps
<1>2. ASSUME NEW t \in Waiters, NEW mode \in Modes, Lookup(t, mode)
      PROVE  IInv'
  BY <1>0, <1>2, LookupKeeps DEF Threads
<1>3. ASSUME NEW t \in Threads, ClientStep(t) PROVE IInv'
  BY <1>0, <1>3, WaiterKeeps, ControllerKeeps DEF ClientStep
<1>4. ASSUME NEW t \in Controllers, ControlCall(t) PROVE IInv'
  BY <1>0, <1>4, ControllerKeeps DEF Threads
<1>5. ASSUME NEW a \in Attempts, Backend(a) \/ DrainWorker(a) PROVE IInv'
  BY <1>0, <1>5, BackendKeeps
<1>6. CASE UNCHANGED vars
  BY <1>6, StutterKeeps
<1> QED BY <1>1, <1>2, <1>3, <1>4, <1>5, <1>6 DEF Next

(* The inductive invariant of AsyncJoblib: what the evaluator's dictionaries,
   the attempts and the threads know of each other at every step. *)
THEOREM Invariance == Spec => []IInv
<1>1. Init => IInv
  BY InitInv
<1>2. IInv /\ [Next]_vars => IInv'
  BY StepInv
<1> QED BY <1>1, <1>2, PTL DEF Spec

(* Every variable keeps its type and no hand-off queue ever exceeds the bound
   that _start_active_batch gave it. *)
THEOREM TypeCorrect == Spec => []TypeOK
<1>1. IInv => TypeOK
  BY DEF IInv
<1> QED BY <1>1, Invariance, PTL

(* However the calls of the threads, the drain workers and the backend
   interleave, a request is never reported to callers twice. *)
THEOREM ReportedOnce == Spec => []ExactlyOnce
<1>1. IInv => ExactlyOnce
  BY DEF IInv
<1> QED BY <1>1, Invariance, PTL

(* The completed_indices that travel with the batch through suspensions and
   resumptions are the requests that were reported. *)
THEOREM Accounted == Spec => []CompletionsAccounted
<1>1. IInv => CompletionsAccounted
  BY DEF IInv
<1> QED BY <1>1, Invariance, PTL

(* A live batch is in exactly one of the evaluator's dictionaries, or in the
   hands of the one thread that resumes it; an ended one is in none. *)
THEOREM Homed == Spec => []OneHome
<1>1. IInv => OneHome
  BY DEF IInv
<1> QED BY <1>1, Invariance, PTL
-----------------------------------------------------------------------------
(* The retry budget.  What a suspended batch carries, or the thread that
   resumes it, covers the retries of every object made so far; and only the
   newest object is ever active, so an older one starts no generation. *)
BudgetInv ==
  /\ RetryBudget
  /\ active # 0 => active = created
  /\ suspended.obj # 0 => \A p \in 1..created : obj[p].gen <= suspended.retries
  /\ \A t \in Threads :
       /\ th[t].pc = "resume_start" =>
            \A p \in 1..created : obj[p].gen <= th[t].held.retries
       /\ th[t].pc = "resume_install" => th[t].my = created

SameRetries == \A o \in Objects : obj'[o].retries = obj[o].retries
                                  /\ obj'[o].gen = obj[o].gen

ResumersKeep == \A u \in Threads : Resuming(u)' => th'[u] = th[u]

LEMMA CreatedObjects ==
  ASSUME IInv
  PROVE  /\ created \in Nat /\ 1..created \subseteq Objects
         /\ \A o \in Objects : obj[o].retries \in 0..RetryLimit /\ obj[o].gen \in Nat
                               /\ o \in Nat \ {0} /\ obj[o].gen <= obj[o].retries
BY ParametersAssumption, SMTT(20) DEF IInv, TypeOK, Objects, Generations, GenerationInv

(* A step that starts no generation and takes up no suspended batch. *)
LEMMA QuietBudget ==
  ASSUME IInv, BudgetInv, SameRetries, ResumersKeep, UNCHANGED created,
         active' \in {0, active},
         suspended' = suspended \/ suspended'.obj = 0
  PROVE  BudgetInv'
<1>1. 1..created \subseteq Objects
  BY CreatedObjects
<1>2. RetryBudget'
  BY <1>1, CreatedObjects DEF BudgetInv, RetryBudget, SameRetries
<1> QED BY <1>1, <1>2 DEF BudgetInv, SameRetries, ResumersKeep, Resuming

LEMMA WaiterBudget ==
  ASSUME IInv, BudgetInv, NEW t \in Threads, WaiterStep(t)
  PROVE  BudgetInv'
<1> DEFINE o == th[t].my
<1>1. /\ o \in Objects /\ th \in [Threads -> ThreadStates] /\ ~Resuming(t)
      /\ obj[o] \in [done : SUBSET Requests, retries : Generations,
                     gen : Generations]
      /\ obj \in [Objects -> [done : SUBSET Requests, retries : Generations,
                              gen : Generations]]
  BY DEF IInv, TypeOK, WaiterStep, ThreadInv, ReadQueue, TakeEvent, QueueEmpty,
     CheckEvent, Deliver, RejectDuplicate, RaiseInactive, Retry,
     RetryStartFails, RefuseRetry, FailBatch, Resuming
<1>2. ResumersKeep
  BY <1>1, SMTT(20) DEF WaiterStep, ReadQueue, TakeEvent, QueueEmpty,
     CheckEvent, Deliver, RejectDuplicate, RaiseInactive, Retry,
     RetryStartFails, RefuseRetry, FailBatch, Return, Goto, Idle, Resuming,
     ResumersKeep, ThreadStates
<1>3. CASE ReadQueue(t) \/ TakeEvent(t) \/ QueueEmpty(t) \/ CheckEvent(t)
           \/ RaiseInactive(t) \/ RefuseRetry(t) \/ RejectDuplicate(t)
           \/ FailBatch(t)
  BY <1>2, <1>3, QuietBudget
     DEF ReadQueue, TakeEvent, QueueEmpty, CheckEvent, RaiseInactive,
         RefuseRetry, RejectDuplicate, FailBatch, SameRetries
<1>4. CASE Deliver(t)
  <2>1. SameRetries
    BY <1>1, <1>4 DEF Deliver, SameRetries
  <2> QED BY <1>2, <1>4, <2>1, QuietBudget DEF Deliver
<1>5. CASE Retry(t) \/ RetryStartFails(t)
  <2>1. /\ o = created /\ suspended.obj = 0 /\ ~resuming
        /\ UNCHANGED <<suspended, created>> /\ active' \in {0, active}
    BY <1>1, <1>5 DEF Retry, RetryStartFails, LostOwnership, BudgetInv, IInv,
       OneHome, Objects
  <2>2. /\ obj'[o].retries = obj[o].retries + 1
        /\ obj'[o].gen \in {obj[o].gen, obj[o].gen + 1}
        /\ \A p \in Objects \ {o} : obj'[p] = obj[p]
        /\ obj[o].retries < RetryLimit
    BY <1>1, <1>5 DEF Retry, RetryStartFails, CanRetry
  <2>3. RetryBudget'
    <3>1. ASSUME NEW q \in 1..created
          PROVE  /\ obj'[q].retries <= RetryLimit /\ obj'[q].retries >= obj'[q].gen
                 /\ \A p \in 1..(q - 1) : obj'[q].retries >= obj'[p].gen + obj'[q].gen
      <4>1. q \in Objects /\ 1..(q - 1) \subseteq Objects \ {o}
        BY <2>1, CreatedObjects
      <4>2. CASE q = o
        BY <1>1, <2>2, <4>1, <4>2, CreatedObjects, ParametersAssumption
           DEF BudgetInv, RetryBudget
      <4>3. CASE q # o
        BY <2>2, <4>1, <4>3 DEF BudgetInv, RetryBudget
      <4> QED BY <4>2, <4>3
    <3> QED BY <2>1, <3>1 DEF RetryBudget
  <2>4. \A u \in Threads : ~Resuming(u)'
    BY <1>2, <2>1 DEF ResumersKeep, Resuming, IInv, OneHome
  <2> QED BY <2>1, <2>3, <2>4 DEF BudgetInv, Resuming
<1> QED BY <1>3, <1>4, <1>5 DEF WaiterStep

LEMMA ControllerBudget ==
  ASSUME IInv, BudgetInv, NEW t \in Threads,
         ControllerStep(t) \/ Abort(t) \/ ControlCall(t)
  PROVE  BudgetInv'
<1>1. /\ th \in [Threads -> ThreadStates] /\ th[t] \in ThreadStates
      /\ \A u \in Threads : Resuming(u) => th[u].held.obj # 0
  BY DEF IInv, TypeOK, ThreadInv
<1>2. CASE SuspendAbort(t) \/ SuspendEnd(t) \/ Abort(t) \/ Cancel(t) \/ Discard(t)
  <2>1. ResumersKeep
    <3>1. CASE SuspendAbort(t)
      BY <1>1, <3>1 DEF SuspendAbort, Goto, Resuming, ResumersKeep, ThreadStates
    <3>2. CASE SuspendEnd(t) \/ Abort(t)
      BY <1>1, <3>2 DEF SuspendEnd, Abort, Return, Idle, Resuming, ResumersKeep
    <3>3. CASE Cancel(t)
      BY <1>1, <3>3 DEF Cancel, Idle, Resuming, ResumersKeep
    <3>4. CASE Discard(t)
      BY <3>4 DEF Discard, Resuming, ResumersKeep
    <3> QED BY <1>2, <3>1, <3>2, <3>3, <3>4
  <2> QED BY <1>2, <2>1, QuietBudget DEF SuspendAbort, SuspendEnd, Abort, Cancel,
             Discard, SameRetries, NoSuspended
<1>3. CASE SuspendBegin(t)
  <2>1. /\ active = created /\ active \in Objects
        /\ suspended'.retries = obj[active].retries
        /\ active' = 0 /\ UNCHANGED <<created, obj>>
    BY <1>3 DEF SuspendBegin, Snapshot, BudgetInv, IInv, TypeOK, Objects
  <2>2. \A p \in 1..created : obj[p].gen <= obj[created].retries
    BY <2>1, CreatedObjects DEF BudgetInv, RetryBudget
  <2>3. ResumersKeep
    BY <1>1, <1>3 DEF SuspendBegin, Idle, Resuming, ResumersKeep
  <2> QED BY <2>1, <2>2, <2>3
          DEF BudgetInv, RetryBudget, ResumersKeep, Resuming
<1>4. ASSUME NEW n, ResumeBegin(t, n) PROVE BudgetInv'
  <2>1. /\ suspended.obj # 0 /\ suspended'.obj = 0
        /\ th'[t].pc = "resume_start" /\ th'[t].held = suspended
        /\ \A u \in Threads \ {t} : th'[u] = th[u]
        /\ UNCHANGED <<active, created, obj>>
    BY <1>1, <1>4 DEF ResumeBegin, Idle, NoSuspended
  <2> QED BY <2>1 DEF BudgetInv, RetryBudget
<1>5. CASE ResumeStart(t)
  <2> DEFINE n == created + 1
             held == th[t].held
  <2>1. /\ created < MaxObjects /\ n \in Objects /\ active = 0 /\ suspended.obj = 0
        /\ \A u \in Threads \ {t} : ~Resuming(u)
        /\ held.retries \in Generations
    BY <1>5, CreatedObjects, ParametersAssumption, ThType
       DEF ResumeStart, IInv, ThreadInv, OneHome, Resuming, Objects, Suspensions
  <2>2. /\ created' = n /\ obj'[n].retries = held.retries /\ obj'[n].gen = 0
        /\ \A p \in Objects \ {n} : obj'[p] = obj[p]
        /\ th'[t].pc = "resume_install" /\ th'[t].my = n
        /\ \A u \in Threads \ {t} : th'[u] = th[u]
        /\ UNCHANGED <<active, suspended>>
    BY <1>1, <1>5, <2>1 DEF ResumeStart, IInv, TypeOK
  <2>3. \A p \in 1..created : obj[p].gen <= held.retries
    BY <1>5 DEF ResumeStart, BudgetInv
  <2>4. RetryBudget'
    <3>1. ASSUME NEW q \in 1..n
          PROVE  /\ obj'[q].retries <= RetryLimit /\ obj'[q].retries >= obj'[q].gen
                 /\ \A p \in 1..(q - 1) : obj'[q].retries >= obj'[p].gen + obj'[q].gen
      <4>1. /\ q \in Objects /\ 1..(q - 1) \subseteq 1..created
            /\ 1..created \subseteq Objects \ {n}
        BY <2>1, CreatedObjects
      <4>2. CASE q = n
        BY <2>1, <2>2, <2>3, <4>1, <4>2, CreatedObjects, ParametersAssumption
           DEF Generations
      <4>3. CASE q # n
        <5>1. q \in 1..created
          BY <4>3, CreatedObjects
        <5> QED BY <2>2, <4>1, <4>3, <5>1 DEF BudgetInv, RetryBudget
      <4> QED BY <4>2, <4>3
    <3> QED BY <2>2, <3>1 DEF RetryBudget
  <2> QED BY <2>1, <2>2, <2>4 DEF BudgetInv, Resuming
<1>6. CASE ResumeStartFails(t)
  <2>1. /\ suspended' \in {suspended, th[t].held} /\ th[t].pc = "resume_start"
        /\ th'[t].pc = "idle" /\ \A u \in Threads \ {t} : th'[u] = th[u]
        /\ UNCHANGED <<active, created, obj>>
    BY <1>1, <1>6 DEF ResumeStartFails, Return, Idle
  <2> QED BY <2>1 DEF BudgetInv, RetryBudget
<1>7. CASE ResumeInstall(t)
  <2>1. /\ active' \in {active, th[t].my} /\ th[t].my = created
        /\ th'[t].pc \in {"idle", "abort"} /\ \A u \in Threads \ {t} : th'[u] = th[u]
        /\ UNCHANGED <<suspended, created, obj>>
    BY <1>1, <1>7
       DEF ResumeInstall, Return, Goto, Idle, ThreadStates, BudgetInv
  <2> QED BY <2>1 DEF BudgetInv, RetryBudget
<1> QED BY <1>2, <1>3, <1>4, <1>5, <1>6, <1>7 DEF ControllerStep, ControlCall

LEMMA BudgetStep == ASSUME IInv, BudgetInv, [Next]_vars PROVE BudgetInv'
<1>1. CASE Submit
  <2>1. /\ created = 0 /\ created' = 1 /\ active' = 1 /\ suspended.obj = 0
        /\ \A t \in Threads : th[t].pc = "idle"
        /\ UNCHANGED <<suspended, obj, th>> /\ 1 \in Objects
    BY <1>1, ParametersAssumption DEF Submit, IInv, CreationInv, Objects
  <2>2. obj[1].retries <= RetryLimit /\ obj[1].retries >= obj[1].gen
    BY <2>1, CreatedObjects, ParametersAssumption
  <2>3. \A o \in 1..created' : o = 1 /\ 1..(o - 1) = {} /\ obj'[o] = obj[1]
    BY <2>1
  <2>4. RetryBudget'
    BY <2>2, <2>3 DEF RetryBudget
  <2>5. suspended' = suspended /\ active' = created' /\ th' = th
    BY <2>1
  <2>6. \A t \in Threads : th'[t].pc = "idle"
    BY <2>1
  <2> QED BY <2>1, <2>4, <2>5, <2>6 DEF BudgetInv
<1>2. ASSUME NEW t \in Waiters, NEW mode \in Modes, Lookup(t, mode)
      PROVE  BudgetInv'
  <2>1. ResumersKeep
    BY <1>2 DEF Lookup, Idle, Resuming, ResumersKeep, IInv, TypeOK, Threads
  <2> QED BY <1>2, <2>1, QuietBudget DEF Lookup, SameRetries
<1>3. ASSUME NEW t \in Threads, ClientStep(t) PROVE BudgetInv'
  BY <1>3, WaiterBudget, ControllerBudget DEF ClientStep
<1>4. ASSUME NEW t \in Controllers, ControlCall(t) PROVE BudgetInv'
  BY <1>4, ControllerBudget DEF Threads
<1>5. ASSUME NEW a \in Attempts, Backend(a) \/ DrainWorker(a) PROVE BudgetInv'
  <2>1. UNCHANGED <<active, suspended, created, obj, th>>
    BY <1>5 DEF Backend, DrainWorker, Yield, YieldAgain, EndStream, BreakStream,
       Hold, CheckAbort, PutEvent, PutTimeout
  <2> QED BY <2>1, QuietBudget DEF SameRetries, ResumersKeep, Resuming
<1>6. CASE UNCHANGED vars
  BY <1>6, QuietBudget DEF vars, SameRetries, ResumersKeep, Resuming
<1> QED BY <1>1, <1>2, <1>3, <1>4, <1>5, <1>6 DEF Next

(* The infrastructure retry budget belongs to the logical batch: however often
   it is suspended and resumed, the retries of all its attempts together stay
   within infrastructure_retry_limit. *)
THEOREM RetriesBounded == Spec => []RetryBudget
<1>1. Init => BudgetInv
  BY DEF Init, BudgetInv, RetryBudget, Idle, NoSuspended
<1>2. IInv /\ BudgetInv /\ [Next]_vars => BudgetInv'
  BY BudgetStep
<1>3. BudgetInv => RetryBudget
  BY DEF BudgetInv
<1> QED BY <1>1, <1>2, <1>3, Invariance, PTL DEF Spec
-----------------------------------------------------------------------------
(* Refinement: every step of the evaluator is a step of the batch contract, or
   one that callers do not see. *)

Hidden == UNCHANGED <<active, created, groups, ended>>

LEMMA HiddenStep == ASSUME Hidden PROVE UNCHANGED Contract!contractVars
BY DEF Hidden, Contract!contractVars, Phase

(* The batch is dropped from the evaluator. *)
LEMMA EndContract ==
  ASSUME IInv, active # 0 \/ suspended.obj # 0 \/ (resuming /\ ~discarded),
         ended' \in {"user_code", "infrastructure", "cancelled"},
         active # 0 \/ ended' = "cancelled",
         UNCHANGED <<created, groups>>
  PROVE  Contract!Next
<1>1. ended = "no" /\ created # 0
  BY DEF IInv, OneHome
<1>2. Phase \in {"running", "parked"} /\ (active # 0 => Phase = "running")
  BY <1>1 DEF Phase
<1>3. Phase' = IF ended' = "cancelled" THEN "cancelled" ELSE "failed"
  BY DEF Phase
<1> QED BY <1>2, <1>3 DEF Contract!Next, Contract!Fail, Contract!Cancel

LEMMA DeliverContract ==
  ASSUME IInv, IInv', NEW t \in Threads, Deliver(t)
  PROVE  Contract!Next
<1> DEFINE i == th[t].ev.index
           o == th[t].my
<1>1. /\ o \in Objects /\ o = active /\ i \notin obj[o].done
      /\ groups' = [groups EXCEPT ![i] = @ + 1]
      /\ i \in Requests
  BY ThType, RequestsAssumption
     DEF Deliver, LostOwnership, AlreadyReported, IInv, ThreadInv, Events, Exceptions
<1>2. active # 0 /\ ended = "no" /\ created # 0 /\ created' = created
  BY <1>1 DEF IInv, OneHome, Objects, Deliver
<1>3. obj[o].done = Reported
  BY <1>1, <1>2 DEF IInv, CompletionsAccounted
<1>4. groups[i] = 0 /\ groups' = [groups EXCEPT ![i] = 1]
  <2>1. groups[i] \in Nat /\ ~(groups[i] > 0)
    BY <1>1, <1>3 DEF Reported, IInv, TypeOK
  <2>2. groups[i] = 0 /\ groups[i] + 1 = 1
    BY <2>1
  <2> HIDE DEF i
  <2> QED BY <1>1, <2>2
<1>5. Reported' = Requests <=> \A j \in Requests : groups'[j] = 1
  <2>1. \A j \in Requests : groups'[j] \in {0, 1}
    BY DEF IInv, ExactlyOnce, TypeOK
  <2> QED BY <2>1 DEF Reported
<1>6. IF Reported' = Requests THEN ended' = "completed"
                              ELSE ended' = "no" /\ active' = active
  <2>1. ended' = "completed" \/ (ended' = "no" /\ active' = active)
    BY <1>2 DEF Deliver
  <2> QED BY <2>1 DEF IInv, CompletionsAccounted
<1>7. Phase = "running" /\ Phase' = IF Reported' = Requests THEN "completed"
                                                            ELSE "running"
  BY <1>2, <1>6 DEF Phase
<1>8. Contract!Deliver(i)
  BY <1>4, <1>5, <1>7 DEF Contract!Deliver
<1> QED BY <1>1, <1>8 DEF Contract!Next

LEMMA ThreadContract ==
  ASSUME IInv, IInv', NEW t \in Threads, ClientStep(t) \/ ControlCall(t)
  PROVE  Contract!Next \/ UNCHANGED Contract!contractVars
<1>0. th[t].my \in Objects => th[t].my # 0
  BY DEF Objects
<1>1. CASE ReadQueue(t) \/ TakeEvent(t) \/ QueueEmpty(t) \/ CheckEvent(t)
           \/ RaiseInactive(t) \/ RefuseRetry(t) \/ Retry(t)
           \/ Abort(t) \/ SuspendAbort(t) \/ SuspendEnd(t)
  BY <1>1, HiddenStep DEF Hidden, ReadQueue, TakeEvent, QueueEmpty, CheckEvent,
     RaiseInactive, RefuseRetry, Retry, Abort, SuspendAbort, SuspendEnd
<1>2. CASE Deliver(t)
  BY <1>2, DeliverContract
<1>3. CASE RejectDuplicate(t) \/ FailBatch(t) \/ RetryStartFails(t)
  <2>1. active # 0 /\ UNCHANGED <<created, groups>>
    BY <1>0, <1>3 DEF RejectDuplicate, FailBatch, RetryStartFails, LostOwnership,
       IInv, ThreadInv
  <2>2. ended' \in {"user_code", "infrastructure", "cancelled"}
    BY <1>3, TypeFailureKind
       DEF RejectDuplicate, FailBatch, RetryStartFails, EndKind
  <2> QED BY <2>1, <2>2, EndContract
<1>4. CASE Cancel(t)
  BY <1>4, EndContract DEF Cancel
<1>5. CASE Discard(t)
  <2>1. CASE discarded
    <3>1. Hidden
      BY <1>5, <2>1 DEF Discard, Hidden, IInv, DiscardInv
    <3> QED BY <3>1, HiddenStep
  <2>2. CASE ~discarded
    BY <1>5, <2>2, EndContract DEF Discard
  <2> QED BY <2>1, <2>2
<1>6. CASE SuspendBegin(t)
  <2>1. active # 0 /\ active' = 0 /\ UNCHANGED <<created, groups, ended>>
    BY <1>6 DEF SuspendBegin
  <2>2. created # 0 /\ ended = "no"
    BY <2>1 DEF IInv, OneHome
  <2>3. Phase = "running" /\ Phase' = "parked"
    BY <2>1, <2>2 DEF Phase
  <2> QED BY <2>1, <2>3 DEF Contract!Next, Contract!Park
<1>7. CASE ResumeStart(t)
  <2>1. Resuming(t) /\ created \in Nat /\ created' = created + 1
        /\ UNCHANGED <<active, ended, groups>>
    BY <1>7, ParametersAssumption DEF ResumeStart, Resuming, IInv, TypeOK
  <2>2. created # 0 /\ created' # 0
    BY <2>1 DEF IInv, CreationInv, Resuming
  <2>3. Phase' = Phase
    BY <2>1, <2>2 DEF Phase
  <2> QED BY <2>1, <2>3 DEF Contract!contractVars
<1>8. CASE ResumeStartFails(t) \/ \E n \in handles : ResumeBegin(t, n)
  BY <1>8, HiddenStep DEF ResumeStartFails, ResumeBegin, Hidden
<1>9. CASE ResumeInstall(t)
  <2>1. CASE discarded
    BY <1>9, <2>1, HiddenStep DEF ResumeInstall, Hidden
  <2>2. CASE ~discarded
    <3>1. Resuming(t) /\ th[t].my # 0
      BY <1>0, <1>9 DEF ResumeInstall, Resuming, IInv, ThreadInv
    <3>2. active = 0 /\ created # 0 /\ ended = "no"
      BY <2>2, <3>1 DEF IInv, OneHome
    <3>3. active' # 0 /\ UNCHANGED <<created, ended, groups>>
      BY <1>9, <2>2, <3>1 DEF ResumeInstall
    <3>4. Phase = "parked" /\ Phase' = "running"
      BY <3>2, <3>3 DEF Phase
    <3> QED BY <3>3, <3>4 DEF Contract!Next, Contract!Unpark
  <2> QED BY <2>1, <2>2
<1> QED
  BY <1>1, <1>2, <1>3, <1>4, <1>5, <1>6, <1>7, <1>8, <1>9
     DEF ClientStep, WaiterStep, ControllerStep, ControlCall

LEMMA InitContract == Init => Contract!Init
BY DEF Init, Phase, Contract!Init

LEMMA StepContract ==
  ASSUME IInv, IInv', [Next]_vars
  PROVE  Contract!Next \/ UNCHANGED Contract!contractVars
<1>1. CASE Submit
  <2>1. Phase = "new" /\ Phase' = "running" /\ UNCHANGED groups
    BY <1>1 DEF Submit, IInv, CreationInv, Phase
  <2> QED BY <2>1 DEF Contract!Next, Contract!Submit
<1>2. ASSUME NEW t \in Waiters, NEW mode \in Modes, Lookup(t, mode)
      PROVE  UNCHANGED Contract!contractVars
  BY <1>2, HiddenStep DEF Lookup, Hidden
<1>3. ASSUME NEW a \in Attempts, Backend(a) \/ DrainWorker(a)
      PROVE  UNCHANGED Contract!contractVars
  BY <1>3, HiddenStep DEF Hidden, Backend, DrainWorker, Yield, YieldAgain,
     EndStream, BreakStream, Hold, CheckAbort, PutEvent, PutTimeout
<1>4. CASE UNCHANGED vars
  BY <1>4, HiddenStep DEF vars, Hidden
<1> QED BY <1>1, <1>2, <1>3, <1>4, ThreadContract DEF Next, Threads

(* AsyncJoblibEvaluator implements the batch contract: whatever is retried,
   suspended, resumed, discarded or duplicated underneath, callers see a batch
   that reports each request at most once while it runs, completes with the
   report of the last one, and never leaves a terminal phase. *)
THEOREM Refinement == Spec => ImplementsContract
<1>1. Init => Contract!Init
  BY InitContract
<1>2. IInv /\ IInv' /\ [Next]_vars => [Contract!Next]_(Contract!contractVars)
  BY StepContract
<1> QED BY <1>1, <1>2, Invariance, PTL DEF Spec, ImplementsContract, Contract!Spec

-----------------------------------------------------------------------------
(* The work of the attempts, for a single waiter.                          *)

(* One thread polls and waits for the batch. *)
OneWaiter == \A t, u \in Waiters : t = u

(* An attempt runs for the batch: that of the newest object, from its start
   until the batch is taken from it. *)
Live == active # 0 \/ \E t \in Threads : th[t].pc = "resume_install"
Running == Current(created)

(* An event is what its attempt produced: a result has left joblib, and
   nothing follows the end of a stream. *)
Emitted(a, e) ==
  /\ e.kind # "none" /\ e.gen = a[2]
  /\ e.kind = "completed" => e.index \notin att[a].todo
  /\ e.kind # "completed" => att[a].worker = "done"

AttemptTrue(a) ==
  /\ att[a].worker \in {"check", "put"} <=> att[a].hold.kind # "none"
  /\ att[a].hold.kind # "none" => att[a].hold.gen = a[2]
  /\ att[a].hold.kind = "completed" => att[a].hold.index \notin att[a].todo
  /\ \A n \in 1..Len(att[a].queue) : Emitted(a, att[a].queue[n])

(* Only the waiter reads events, and the one it acts upon is of the newest
   generation; a thread that took the batch away has nothing to do with the
   attempt that runs; nobody else knows an object that is being installed. *)
ThreadTrue(t) ==
  /\ th[t].my <= created
  /\ th[t].pc \in {"read", "get", "check", "settle", "fail"} => t \in Waiters
  /\ th[t].pc \notin {"check", "settle", "fail", "abort"} => th[t].ev.kind = "none"
  /\ th[t].pc \in {"check", "settle", "fail"} =>
       Emitted(<<th[t].my, th[t].ev.gen>>, th[t].ev)
  /\ th[t].pc \in {"settle", "fail"} => th[t].ev.gen = obj[th[t].my].gen
  /\ th[t].pc = "fail" => th[t].ev.kind # "completed"
  /\ Live /\ th[t].pc \in {"abort", "suspend_abort"} => th[t].my # created
  /\ th[t].pc = "resume_install" => \A u \in Threads \ {t} : th[u].my # created

(* Replaced attempts are told to stop; the running one is not, and works on
   nothing that has been reported. *)
StopTrue ==
  /\ \A o \in 1..created : \A g \in 0..(obj[o].gen - 1) : att[<<o, g>>].aborted
  /\ created = 0 => \A o \in Objects : obj[o].gen = 0
  /\ Live => /\ ~att[Running].aborted
             /\ att[Running].todo \cap obj[created].done = {}

(* The places where a request of attempt a may be, besides reported and with
   joblib: in the worker's hand, queued, taken by the waiter. *)
InHand(a, i)    == att[a].hold.kind = "completed" /\ att[a].hold.index = i
Queued(a, n, i) == att[a].queue[n].kind = "completed" /\ att[a].queue[n].index = i
InQueue(a, i)   == \E n \in 1..Len(att[a].queue) : Queued(a, n, i)
Takes(t, a, i) ==
  /\ th[t].my = a[1] /\ th[t].ev.kind = "completed"
  /\ th[t].ev.gen = a[2] /\ th[t].ev.index = i
Taken(a, i)    == \E t \in Waiters : Takes(t, a, i)

Placed(a, i) ==
  LET done == i \in obj[a[1]].done
      todo == i \in att[a].todo
  IN  /\ done \/ todo \/ InHand(a, i) \/ InQueue(a, i) \/ Taken(a, i)
      /\ ~(done /\ todo)
      /\ InHand(a, i)  => ~done /\ ~todo
      /\ InQueue(a, i) => ~done /\ ~todo /\ ~InHand(a, i)
      /\ Taken(a, i)   => ~done /\ ~todo /\ ~InHand(a, i) /\ ~InQueue(a, i)

AllPlaced(a) ==
  /\ \A i \in Requests : Placed(a, i)
  /\ \A n, m \in 1..Len(att[a].queue), i \in Requests :
       Queued(a, n, i) /\ Queued(a, m, i) => n = m

Placement == Live /\ "duplicate" \notin BackendFaults => \A a \in {Running} : AllPlaced(a)

(* The attempt of generation g of object o goes on for nobody, or no more. *)
Ends(t, o) ==
  th[t].my = o /\ th[t].pc \in {"abort", "suspend_abort", "resume_install"}

Stopped(o, g) ==
  \/ o = active /\ g = obj[o].gen
  \/ att[<<o, g>>].aborted \/ att[<<o, g>>].worker = "done"
  \/ att[<<o, g>>].todo = {} /\ ended = "completed"
  \/ \E t \in Threads : Ends(t, o)

AllStopped == \A o \in 1..created : \A g \in 0..obj[o].gen : Stopped(o, g)

WorkInv ==
  /\ \A a \in Attempts : AttemptTrue(a)
  /\ \A t \in Threads : ThreadTrue(t)
  /\ StopTrue /\ Placement /\ AllStopped

(* Where the batch is, for the proofs below. *)
LEMMA WorkFacts ==
  ASSUME IInv, BudgetInv
  PROVE  /\ created \in Nat /\ 1..created \subseteq Objects
         /\ active # 0 => /\ active = created /\ created \in Objects /\ ended = "no"
                          /\ \A t \in Threads : ~Resuming(t)
         /\ \A t \in Threads : th[t].pc = "resume_install" =>
              /\ th[t].my = created /\ active = 0 /\ created \in Objects
              /\ \A u \in Threads \ {t} : ~Resuming(u)
         /\ Live => created \in Objects /\ Running \in Attempts /\ ended # "completed"
<1>1. created \in Nat /\ 1..created \subseteq Objects
  BY CreatedObjects
<1>2. active # 0 => /\ active = created /\ created \in Objects /\ ended = "no"
                    /\ \A t \in Threads : ~Resuming(t)
  BY DEF IInv, TypeOK, OneHome, BudgetInv, Objects
<1>3. ASSUME NEW t \in Threads, th[t].pc = "resume_install"
      PROVE  /\ th[t].my = created /\ active = 0 /\ created \in Objects
             /\ ended # "completed"
             /\ \A u \in Threads \ {t} : ~Resuming(u)
  <2>1. Resuming(t) /\ th[t].my \in Objects
    BY <1>3 DEF Resuming, IInv, ThreadInv
  <2>2. ended # "completed"
    BY <2>1 DEF IInv, OneHome, DiscardInv
  <2> QED BY <1>3, <2>1, <2>2 DEF IInv, OneHome, BudgetInv
<1>4. Live => created \in Objects /\ ended # "completed"
  BY <1>2, <1>3 DEF Live
<1>5. created \in Objects => Running \in Attempts
  BY ObjType DEF Running, IInv
<1> QED BY <1>1, <1>2, <1>3, <1>4, <1>5

LEMMA EventFields ==
  ASSUME NEW e \in Events
  PROVE  /\ e.gen \in Generations
         /\ e.kind = "completed" => e.index \in Requests
         /\ e.kind \in {"completed", "none", "exhausted", "pool", "user", "interrupt"}
BY RequestsAssumption DEF Events, Exceptions

LEMMA AttemptFields ==
  ASSUME IInv, NEW a \in Attempts
  PROVE  /\ att[a].todo \subseteq Requests /\ att[a].queue \in Seq(Events)
         /\ att[a].hold \in Events /\ Len(att[a].queue) \in Nat
         /\ a[1] \in Objects /\ a[2] \in Generations /\ a = <<a[1], a[2]>>
<1>1. att[a] \in AttemptStates
  BY AttType DEF IInv
<1>2. att[a].todo \in SUBSET Requests /\ att[a].queue \in Seq(Events) /\ att[a].hold \in Events
  BY <1>1 DEF AttemptStates
<1> QED BY <1>2 DEF Attempts

(* A step of the drain worker or of joblib: one attempt moves on. *)
MovesAttempt(a) ==
  /\ UNCHANGED <<active, created, obj, th, ended>>
  /\ \A b \in Attempts \ {a} : att'[b] = att[b]
  /\ att'[a].aborted = att[a].aborted
  /\ att'[a].todo \subseteq att[a].todo
  /\ att[a].worker # "done"

LEMMA AttemptMoves ==
  ASSUME IInv, BudgetInv, WorkInv, NEW a \in Attempts, MovesAttempt(a), AttemptTrue(a)',
         Live /\ a = Running /\ AllPlaced(a) /\ "duplicate" \notin BackendFaults => AllPlaced(a)'
  PROVE  WorkInv'
<1>1. \A b \in Attempts : /\ att'[b].todo \subseteq att[b].todo
                          /\ att'[b].aborted = att[b].aborted
                          /\ att[b].worker = "done" => att'[b].worker = "done"
  BY DEF MovesAttempt
<1>2. UNCHANGED <<active, created, obj, th, ended>>
  BY DEF MovesAttempt
<1>3. Live' = Live /\ Running' = Running
  BY <1>2 DEF Live, Running, Current
<1>4. ASSUME NEW b \in Attempts PROVE AttemptTrue(b)'
  <2>1. CASE b = a
    BY <2>1
  <2>2. CASE b # a
    <3>1. att'[b] = att[b]
      BY <2>2 DEF MovesAttempt
    <3> QED BY <3>1 DEF WorkInv, AttemptTrue, Emitted
  <2> QED BY <2>1, <2>2
<1>5. ASSUME NEW t \in Threads PROVE ThreadTrue(t)'
  <2>1. ThreadTrue(t) /\ th' = th /\ obj' = obj /\ created' = created
    BY <1>2 DEF WorkInv
  <2>2. ASSUME th[t].pc \in {"check", "settle", "fail"}
        PROVE  Emitted(<<th[t].my, th[t].ev.gen>>, th[t].ev)'
    <3>1. <<th[t].my, th[t].ev.gen>> \in Attempts
      BY <2>2, ThType, EventFields DEF IInv, ThreadInv, Attempts
    <3>2. Emitted(<<th[t].my, th[t].ev.gen>>, th[t].ev)
      BY <2>1, <2>2 DEF ThreadTrue
    <3> QED BY <1>1, <2>1, <3>1, <3>2 DEF Emitted
  <2> QED BY <1>3, <2>1, <2>2 DEF ThreadTrue
<1>6. StopTrue'
  <2>1. \A o \in 1..created : \A g \in 0..(obj[o].gen - 1) : <<o, g>> \in Attempts
    BY CreatedObjects, ParametersAssumption DEF Attempts, Generations, IInv, GenerationInv
  <2>2. Live => Running \in Attempts
    BY WorkFacts
  <2> QED BY <1>1, <1>2, <1>3, <2>1, <2>2 DEF WorkInv, StopTrue
<1>7. AllStopped'
  <2> SUFFICES ASSUME NEW o \in 1..created, NEW g \in 0..obj[o].gen PROVE Stopped(o, g)'
    BY <1>2 DEF AllStopped
  <2>1. <<o, g>> \in Attempts
    BY CreatedObjects, ParametersAssumption DEF Attempts, Generations, IInv, GenerationInv
  <2>2. Stopped(o, g)
    BY DEF WorkInv, AllStopped
  <2> QED BY <1>1, <1>2, <2>1, <2>2 DEF Stopped, Ends
<1>8. Placement'
  <2> SUFFICES ASSUME Live, "duplicate" \notin BackendFaults, NEW r \in {Running}
               PROVE  AllPlaced(r)'
    BY <1>3 DEF Placement
  <2>1. AllPlaced(r) /\ r \in Attempts
    BY WorkFacts DEF WorkInv, Placement
  <2>2. CASE r # a
    <3>1. att'[r] = att[r]
      BY <2>1, <2>2 DEF MovesAttempt
    <3> QED BY <1>2, <2>1, <3>1, SMTT(20) DEF AllPlaced, Placed, InHand, InQueue, Queued, Taken, Takes
  <2> QED BY <2>1, <2>2
<1> QED BY <1>4, <1>5, <1>6, <1>7, <1>8 DEF WorkInv

(* The worker takes hold of an event that it did not have before, and that is
   no result joblib still owes. *)
LEMMA HoldWork ==
  ASSUME IInv, BudgetInv, WorkInv, NEW a \in Attempts, NEW e \in Events,
         e.kind # "none", e.gen = a[2], Hold(a, e),
         e.kind = "completed" => e.index \notin att[a].todo /\ "duplicate" \in BackendFaults
  PROVE  WorkInv'
<1>1. AttemptTrue(a) /\ att[a].worker = "pull"
  BY DEF WorkInv, Hold
<1>2. /\ att'[a].hold = e /\ att'[a].worker = "check"
      /\ att'[a].todo = att[a].todo /\ att'[a].queue = att[a].queue
      /\ att'[a].aborted = att[a].aborted
  BY DEF Hold, IInv, TypeOK
<1>3. MovesAttempt(a)
  BY <1>1, <1>2 DEF Hold, MovesAttempt, IInv, TypeOK
<1>4. AttemptTrue(a)'
  BY <1>1, <1>2 DEF AttemptTrue, Emitted
<1>5. ASSUME AllPlaced(a), "duplicate" \notin BackendFaults PROVE AllPlaced(a)'
  <2>1. th' = th /\ obj' = obj
    BY <1>3 DEF MovesAttempt
  <2>2. \A i \in Requests : ~InHand(a, i) /\ ~InHand(a, i)'
    BY <1>1, <1>2, <1>5 DEF InHand, AttemptTrue
  <2> QED BY <1>2, <1>5, <2>1, <2>2 DEF AllPlaced, Placed, InQueue, Queued, Taken, Takes
<1> QED BY <1>3, <1>4, <1>5, AttemptMoves

LEMMA YieldWork ==
  ASSUME IInv, BudgetInv, WorkInv, NEW a \in Attempts, NEW i \in Requests, Yield(a, i)
  PROVE  WorkInv'
<1>1. AttemptTrue(a) /\ att[a].worker = "pull" /\ i \in att[a].todo
  BY DEF WorkInv, Yield
<1>2. /\ att'[a].hold = Completed(i, a[2]) /\ att'[a].worker = "check"
      /\ att'[a].todo = att[a].todo \ {i} /\ att'[a].queue = att[a].queue
      /\ att'[a].aborted = att[a].aborted
  BY DEF Yield, IInv, TypeOK
<1>3. MovesAttempt(a)
  BY <1>1, <1>2 DEF Yield, MovesAttempt, IInv, TypeOK
<1>4. AttemptTrue(a)'
  BY <1>1, <1>2 DEF AttemptTrue, Emitted, Completed
<1>5. ASSUME AllPlaced(a) PROVE AllPlaced(a)'
  <2>1. th' = th /\ obj' = obj
    BY <1>3 DEF MovesAttempt
  <2>2. \A j \in Requests : ~InHand(a, j) /\ (InHand(a, j)' <=> j = i)
    BY <1>1, <1>2 DEF InHand, AttemptTrue, Completed
  <2>3. \A j \in Requests : /\ InQueue(a, j)' <=> InQueue(a, j)
                            /\ Taken(a, j)' <=> Taken(a, j)
    BY <1>2, <2>1 DEF InQueue, Queued, Taken, Takes
  <2>4. \A j \in Requests : Placed(a, j)'
    BY <1>1, <1>2, <1>5, <2>1, <2>2, <2>3 DEF AllPlaced, Placed
  <2> QED BY <1>2, <1>5, <2>4 DEF AllPlaced, Queued
<1> QED BY <1>3, <1>4, <1>5, AttemptMoves

LEMMA PutWork ==
  ASSUME IInv, BudgetInv, WorkInv, NEW a \in Attempts, PutEvent(a)
  PROVE  WorkInv'
<1>0. PICK q \in Seq(Events), e \in Events : q = att[a].queue /\ e = att[a].hold
  BY AttemptFields
<1>1. AttemptTrue(a) /\ att[a].worker = "put" /\ Len(q) \in Nat
  BY DEF WorkInv, PutEvent
<1>2. /\ att'[a].queue = Append(q, e) /\ att'[a].hold = NoEvent
      /\ att'[a].worker = IF e.kind = "completed" THEN "pull" ELSE "done"
      /\ att'[a].todo = att[a].todo /\ att'[a].aborted = att[a].aborted
  BY <1>0 DEF PutEvent, IInv, TypeOK
<1>3. MovesAttempt(a)
  BY <1>1, <1>2 DEF PutEvent, MovesAttempt, IInv, TypeOK
<1>4. /\ Len(Append(q, e)) = Len(q) + 1 /\ Append(q, e)[Len(q) + 1] = e
      /\ \A n \in 1..Len(q) : Append(q, e)[n] = q[n]
  OBVIOUS
<1>5. AttemptTrue(a)'
  <2>1. \A n \in 1..Len(q) : Emitted(a, q[n])' /\ q[n].kind = "completed"
    BY <1>0, <1>1, <1>2 DEF AttemptTrue, Emitted
  <2>2. Emitted(a, e)'
    BY <1>0, <1>1, <1>2 DEF AttemptTrue, Emitted
  <2>3. \A n \in 1..(Len(q) + 1) : Emitted(a, Append(q, e)[n])'
    BY <1>1, <1>4, <2>1, <2>2
  <2> QED BY <1>2, <1>4, <2>3 DEF AttemptTrue, NoEvent, Terminal
<1>6. ASSUME AllPlaced(a) PROVE AllPlaced(a)'
  <2>1. th' = th /\ obj' = obj
    BY <1>3 DEF MovesAttempt
  <2>2. \A j \in Requests : ~InHand(a, j)'
    BY <1>2 DEF InHand, NoEvent, Terminal
  <2> DEFINE l == Len(q) + 1
  <2>3. \A j \in Requests : /\ Queued(a, l, j)' <=> InHand(a, j)
                            /\ \A n \in 1..Len(q) : Queued(a, n, j)' <=> Queued(a, n, j)
    BY <1>0, <1>1, <1>2, <1>4 DEF Queued, InHand
  <2>4. \A n \in 1..l : n = l \/ n \in 1..Len(q)
    BY <1>1
  <2>5. l \in 1..l /\ 1..Len(q) \subseteq 1..l /\ l \notin 1..Len(q)
    BY <1>1
  <2>6. \A j \in Requests : InQueue(a, j)' <=> InQueue(a, j) \/ InHand(a, j)
    <3> HIDE DEF l
    <3>1. \A j \in Requests : InQueue(a, j)' <=> \E n \in 1..l : Queued(a, n, j)'
      BY <1>2, <1>4 DEF InQueue, l
    <3> QED BY <1>0, <2>3, <2>4, <2>5, <3>1 DEF InQueue
  <2>7. \A j \in Requests : Taken(a, j)' <=> Taken(a, j)
    BY <2>1 DEF Taken, Takes
  <2>8. \A j \in Requests : Placed(a, j)'
    BY <1>2, <1>6, <2>1, <2>2, <2>6, <2>7 DEF AllPlaced, Placed
  <2>9. \A n, m \in 1..l, j \in Requests :
          Queued(a, n, j)' /\ Queued(a, m, j)' => n = m
    <3> HIDE DEF l
    <3>1. \A j \in Requests : ~(InQueue(a, j) /\ InHand(a, j))
      BY <1>6 DEF AllPlaced, Placed
    <3>2. \A n, m \in 1..Len(q), j \in Requests : Queued(a, n, j) /\ Queued(a, m, j) => n = m
      BY <1>0, <1>6 DEF AllPlaced
    <3> QED BY <1>0, <2>3, <2>4, <3>1, <3>2 DEF InQueue
  <2> QED BY <1>2, <1>4, <2>8, <2>9 DEF AllPlaced
<1> QED BY <1>3, <1>5, <1>6, AttemptMoves

LEMMA CheckWork ==
  ASSUME IInv, BudgetInv, WorkInv, NEW a \in Attempts, CheckAbort(a) \/ PutTimeout(a)
  PROVE  WorkInv'
<1>1. /\ AttemptTrue(a) /\ att[a].worker \in {"check", "put"}
      /\ \A n \in 1..Len(att[a].queue) : att[a].queue[n].kind = "completed"
  BY DEF WorkInv, CheckAbort, PutTimeout, AttemptTrue, Emitted
<1>2. /\ att'[a].todo = att[a].todo /\ att'[a].aborted = att[a].aborted
      /\ att'[a].queue = att[a].queue
      /\ \/ att[a].aborted /\ att'[a].worker = "done" /\ att'[a].hold = NoEvent
         \/ att'[a].worker \in {"check", "put"} /\ att'[a].hold = att[a].hold
  <2>1. CASE CheckAbort(a)
    BY <2>1 DEF CheckAbort, IInv, TypeOK
  <2>2. CASE PutTimeout(a)
    BY <2>2 DEF PutTimeout, IInv, TypeOK
  <2> QED BY <2>1, <2>2
<1>3. MovesAttempt(a)
  BY <1>1, <1>2 DEF CheckAbort, PutTimeout, MovesAttempt, IInv, TypeOK
<1>4. AttemptTrue(a)'
  BY <1>1, <1>2 DEF AttemptTrue, Emitted, NoEvent, Terminal
<1>5. ASSUME Live, a = Running, AllPlaced(a) PROVE AllPlaced(a)'
  <2>1. att'[a].hold = att[a].hold
    BY <1>2, <1>5 DEF WorkInv, StopTrue
  <2> QED BY <1>2, <1>3, <1>5, <2>1
    DEF MovesAttempt, AllPlaced, Placed, InHand, InQueue, Queued, Taken, Takes
<1> QED BY <1>3, <1>4, <1>5, AttemptMoves

LEMMA BackendWork ==
  ASSUME IInv, BudgetInv, WorkInv, NEW a \in Attempts, Backend(a) \/ DrainWorker(a)
  PROVE  WorkInv'
<1>0. a[2] \in Generations
  BY AttemptFields
<1>1. ASSUME NEW i \in Requests, YieldAgain(a, i) PROVE WorkInv'
  <2>1. Completed(i, a[2]) \in Events
    BY <1>0 DEF Completed, Events
  <2> QED BY <1>1, <2>1, HoldWork DEF YieldAgain, Completed
<1>2. CASE EndStream(a)
  <2>1. Terminal("exhausted", a[2]) \in Events
    BY <1>0 DEF Terminal, Events
  <2> QED BY <1>2, <2>1, HoldWork DEF EndStream, Terminal
<1>3. ASSUME NEW x \in Exceptions, BreakStream(a, x) PROVE WorkInv'
  <2>1. Terminal(x, a[2]) \in Events /\ x \notin {"none", "completed"}
    BY <1>0 DEF Terminal, Events, Exceptions
  <2> QED BY <1>3, <2>1, HoldWork DEF BreakStream, Terminal
<1> QED BY <1>1, <1>2, <1>3, YieldWork, PutWork, CheckWork DEF Backend, DrainWorker

(* A step of thread t that starts no attempt. *)
OnlyMoves(t) == \A u \in Threads \ {t} : th'[u] = th[u]
Steady ==
  /\ created' = created
  /\ \A a \in Attempts : /\ att'[a].todo \subseteq att[a].todo
                         /\ att[a].worker = "done" => att'[a].worker = "done"
                         /\ att[a].aborted => att'[a].aborted
  /\ \A o \in Objects : obj'[o].gen = obj[o].gen
  /\ Live' => Live
  /\ ended = "completed" => ended' = "completed"

LEMMA ThreadAttempt ==
  ASSUME IInv, NEW t \in Threads, th[t].pc \notin {"idle", "resume_start"}
  PROVE  th[t].my \in Objects /\ <<th[t].my, th[t].ev.gen>> \in Attempts
BY ThType, EventFields DEF IInv, ThreadInv, Attempts

LEMMA OlderAttempts ==
  ASSUME IInv, NEW o \in 1..created, NEW g \in 0..obj[o].gen
  PROVE  <<o, g>> \in Attempts /\ o \in Objects
BY CreatedObjects, ParametersAssumption DEF Attempts, Generations, IInv, GenerationInv

(* What is true of the other threads stays so. *)
LEMMA OthersTrue ==
  ASSUME IInv, BudgetInv, WorkInv, NEW t \in Threads, OnlyMoves(t), Steady,
         th'[t].my \in {0, th[t].my, active}, NEW u \in Threads \ {t}
  PROVE  ThreadTrue(u)'
<1>1. ThreadTrue(u) /\ th'[u] = th[u]
  BY DEF WorkInv, OnlyMoves
<1>2. ASSUME th[u].pc \in {"check", "settle", "fail"}
      PROVE  Emitted(<<th[u].my, th[u].ev.gen>>, th[u].ev)'
  BY <1>1, <1>2, ThreadAttempt DEF ThreadTrue, Emitted, Steady
<1>3. ASSUME th[u].pc \in {"settle", "fail"} PROVE th[u].ev.gen = obj'[th[u].my].gen
  BY <1>1, <1>3, ThreadAttempt DEF ThreadTrue, Steady
<1>4. ASSUME th[u].pc = "resume_install", NEW v \in Threads \ {u} PROVE th'[v].my # created
  <2>1. th[v].my # created /\ active = 0 /\ created # 0
    BY <1>1, <1>4, WorkFacts DEF ThreadTrue, Objects
  <2> QED BY <2>1 DEF OnlyMoves
<1>5. Live' => Live
  BY DEF Steady
<1>6. created' = created
  BY DEF Steady
<1> QED BY <1>1, <1>2, <1>3, <1>4, <1>5, <1>6 DEF ThreadTrue

(* Attempts that end for nobody still do: the one that ran is told to stop,
   has ended, or has a thread that will tell it; and a thread does what it
   came for. *)
LEMMA StoppedKeeps ==
  ASSUME IInv, BudgetInv, WorkInv, Steady,
         active # 0 /\ active' # active =>
           \/ att'[Running].aborted \/ att'[Running].worker = "done"
           \/ att'[Running].todo = {} /\ ended' = "completed"
           \/ \E t \in Threads : th'[t].my = created /\
                                 th'[t].pc \in {"abort", "suspend_abort", "resume_install"},
         \A t \in Threads, o \in 1..created :
           Ends(t, o) => Ends(t, o)' \/ att'[Current(o)].aborted \/ active' = o
  PROVE  AllStopped'
<1>1. created' = created /\ \A o \in 1..created : obj'[o].gen = obj[o].gen
  BY WorkFacts DEF Steady
<1> SUFFICES ASSUME NEW o \in 1..created, NEW g \in 0..obj[o].gen PROVE Stopped(o, g)'
  BY <1>1 DEF AllStopped
<1>2. <<o, g>> \in Attempts /\ Stopped(o, g) /\ obj'[o].gen = obj[o].gen
  BY <1>1, OlderAttempts DEF WorkInv, AllStopped
<1>3. CASE g # obj[o].gen
  <2>1. g \in 0..(obj[o].gen - 1)
    BY <1>3, CreatedObjects
  <2>2. att[<<o, g>>].aborted
    BY <2>1 DEF WorkInv, StopTrue
  <2> QED BY <1>2, <2>2 DEF Steady, Stopped
<1>4. CASE g = obj[o].gen
  <2>1. CASE o = active
    <3>1. active = created /\ active # 0
      BY <2>1, WorkFacts
    <3>2. <<o, g>> = Running
      BY <1>4, <2>1, <3>1 DEF Running, Current
    <3>3. CASE active' = active
      BY <1>2, <1>4, <2>1, <3>3 DEF Stopped
    <3>4. CASE active' # active
      BY <2>1, <3>1, <3>2, <3>4 DEF Stopped, Ends
    <3> QED BY <3>3, <3>4
  <2>2. CASE \E t \in Threads : Ends(t, o)
    <3>1. <<o, g>> = Current(o)
      BY <1>4 DEF Current
    <3> QED BY <1>2, <1>4, <2>2, <3>1 DEF Stopped
  <2>3. CASE att[<<o, g>>].aborted \/ att[<<o, g>>].worker = "done"
    BY <1>2, <2>3 DEF Steady, Stopped
  <2>4. CASE att[<<o, g>>].todo = {} /\ ended = "completed"
    BY <1>2, <2>4 DEF Steady, Stopped
  <2> QED BY <1>2, <2>1, <2>2, <2>3, <2>4 DEF Stopped
<1> QED BY <1>3, <1>4

(* A thread inside no call. *)
LEMMA IdleTrue ==
  ASSUME NEW t \in Threads, th'[t] = Idle, created' \in Nat
  PROVE  ThreadTrue(t)'
BY DEF ThreadTrue, Idle, NoEvent, Terminal

(* A step of a thread that takes no part in where the batch is. *)
LEMMA QuietWork ==
  ASSUME IInv, BudgetInv, WorkInv, NEW t \in Threads, OnlyMoves(t),
         UNCHANGED <<active, created, obj, att>>,
         ended = "completed" => ended' = "completed",
         th'[t].my \in {0, th[t].my, active}, th'[t].pc # "resume_install",
         th[t].pc \notin {"abort", "suspend_abort", "resume_install"},
         ThreadTrue(t)',
         \A a \in {Running}, i \in Requests :
           Live => (Takes(t, a, i)' <=> Takes(t, a, i))
  PROVE  WorkInv'
<1>1. Live' <=> Live
  BY DEF Live, OnlyMoves
<1>2. Steady /\ Running' = Running
  BY <1>1 DEF Steady, Running, Current
<1>3. \A a \in Attempts : AttemptTrue(a)'
  BY DEF WorkInv, AttemptTrue, Emitted
<1>4. \A u \in Threads : ThreadTrue(u)'
  BY <1>2, OthersTrue
<1>5. StopTrue'
  BY <1>1, <1>2 DEF WorkInv, StopTrue
<1>6. AllStopped'
  <2>1. \A u \in Threads, o \in 1..created : Ends(u, o) => Ends(u, o)'
    BY DEF Ends, OnlyMoves
  <2> QED BY <1>2, <2>1, StoppedKeeps
<1>7. Placement'
  <2> SUFFICES ASSUME Live, "duplicate" \notin BackendFaults, NEW a \in {Running}
               PROVE  AllPlaced(a)'
    BY <1>1, <1>2 DEF Placement
  <2>1. AllPlaced(a)
    BY DEF WorkInv, Placement
  <2>2. \A i \in Requests : Taken(a, i)' <=> Taken(a, i)
    BY DEF Taken, Takes, OnlyMoves, Threads
  <2> QED BY <2>1, <2>2 DEF AllPlaced, Placed, InHand, InQueue, Queued
<1> QED BY <1>3, <1>4, <1>5, <1>6, <1>7 DEF WorkInv

(* A waiter that lost the batch does not hold anything of the running attempt. *)
LEMMA LostWork ==
  ASSUME IInv, BudgetInv, WorkInv, NEW t \in Threads, LostOwnership(t), Live,
         th[t].pc # "resume_install"
  PROVE  th[t].my # created
<1>1. CASE active # 0
  BY <1>1, WorkFacts DEF LostOwnership
<1>2. CASE active = 0
  <2>1. PICK u \in Threads : th[u].pc = "resume_install"
    BY <1>2 DEF Live
  <2> QED BY <2>1 DEF WorkInv, ThreadTrue
<1> QED BY <1>1, <1>2

LEMMA ReaderWork ==
  ASSUME IInv, BudgetInv, WorkInv, NEW t \in Threads,
         ReadQueue(t) \/ QueueEmpty(t) \/ CheckEvent(t) \/ RaiseInactive(t) \/ RefuseRetry(t)
  PROVE  WorkInv'
<1>0. created \in Nat /\ ThreadTrue(t) /\ th \in [Threads -> ThreadStates]
  BY WorkFacts DEF WorkInv, IInv, TypeOK
<1>1. UNCHANGED <<active, created, obj, att, ended>> /\ OnlyMoves(t)
  BY <1>0 DEF ReadQueue, QueueEmpty, CheckEvent, RaiseInactive, RefuseRetry, Return, Goto,
    OnlyMoves
<1>2. th[t].pc \in {"read", "get", "check", "settle", "fail"} /\ t \in Waiters
  BY <1>0 DEF ReadQueue, QueueEmpty, CheckEvent, RaiseInactive, RefuseRetry, ThreadTrue
<1> DEFINE Kept == th'[t].my = th[t].my /\ th'[t].ev = th[t].ev
<1>3. ASSUME th'[t] = Idle, Live => th[t].ev.kind = "none" \/ LostOwnership(t)
      PROVE  WorkInv'
  <2>1. ThreadTrue(t)'
    BY <1>0, <1>1, <1>3, IdleTrue
  <2>2. Live => \A a \in {Running}, i \in Requests : ~Takes(t, a, i) /\ ~Takes(t, a, i)'
    BY <1>2, <1>3, LostWork DEF Takes, Running, Current, Idle, NoEvent, Terminal
  <2> QED BY <1>1, <1>2, <1>3, <2>1, <2>2, QuietWork DEF Idle
<1>4. ASSUME th'[t].my = th[t].my, th'[t].pc \in {"read", "get", "check", "settle", "fail"},
             ThreadTrue(t)',
             th'[t].ev = th[t].ev
             \/ (th'[t].ev = NoEvent /\ th[t].ev.gen # obj[created].gen)
      PROVE  WorkInv'
  <2>1. \A a \in {Running}, i \in Requests : Takes(t, a, i)' <=> Takes(t, a, i)
    BY <1>4 DEF Takes, Running, Current, NoEvent, Terminal
  <2> QED BY <1>1, <1>2, <1>4, <2>1, QuietWork
<1>5. CASE ReadQueue(t)
  <2>1. /\ th'[t].pc = "get" /\ th'[t].my = th[t].my /\ th'[t].ev = th[t].ev
        /\ th[t].pc = "read"
    BY <1>0, <1>5 DEF ReadQueue, ThreadStates
  <2>2. ThreadTrue(t)'
    BY <1>0, <1>1, <1>2, <2>1 DEF ThreadTrue
  <2> QED BY <1>4, <2>1, <2>2
<1>6. CASE QueueEmpty(t)
  <2>1. \/ th'[t] = Idle
        \/ th'[t].pc = "read" /\ th'[t].my = th[t].my /\ th'[t].ev = th[t].ev
    BY <1>0, <1>6 DEF QueueEmpty, Return, Goto, ThreadStates
  <2>2. th[t].ev.kind = "none"
    BY <1>0, <1>6 DEF QueueEmpty, ThreadTrue
  <2>3. th'[t] # Idle => ThreadTrue(t)'
    BY <1>0, <1>1, <1>2, <2>1, <2>2 DEF ThreadTrue
  <2> QED BY <1>3, <1>4, <2>1, <2>2, <2>3
<1>7. CASE CheckEvent(t)
  <2>1. CASE LostOwnership(t)
    BY <1>0, <1>3, <1>7, <2>1 DEF CheckEvent, Return
  <2>2. CASE ~LostOwnership(t) /\ IsStale(t)
    <3>1. th[t].my \in Objects
      BY <1>2, ThreadAttempt
    <3>2. th[t].my = created /\ active = created
      BY <2>2, <3>1, WorkFacts DEF LostOwnership, Objects
    <3>3. th[t].ev.gen # obj[created].gen
      BY <2>2, <3>2 DEF IsStale
    <3>4. \/ th'[t] = Idle
          \/ th'[t].pc = "read" /\ th'[t].my = th[t].my /\ th'[t].ev = NoEvent
      BY <1>0, <1>7, <2>2 DEF CheckEvent, Return, ThreadStates
    <3>5. CASE th'[t] = Idle
      <4>1. ThreadTrue(t)'
        BY <1>0, <1>1, <3>5, IdleTrue
      <4>2. \A a \in {Running}, i \in Requests : ~Takes(t, a, i) /\ ~Takes(t, a, i)'
        BY <3>3, <3>5 DEF Takes, Running, Current, Idle, NoEvent, Terminal
      <4> QED BY <1>1, <1>2, <3>5, <4>1, <4>2, QuietWork DEF Idle
    <3>6. CASE th'[t] # Idle
      <4>1. ThreadTrue(t)'
        BY <1>0, <1>1, <1>2, <3>4, <3>6 DEF ThreadTrue, NoEvent, Terminal
      <4> QED BY <1>4, <3>3, <3>4, <3>6, <4>1
    <3> QED BY <3>5, <3>6
  <2>3. CASE ~LostOwnership(t) /\ ~IsStale(t)
    <3>1. th'[t].pc = "settle" /\ th'[t].my = th[t].my /\ th'[t].ev = th[t].ev
      BY <1>0, <1>7, <2>3 DEF CheckEvent, Goto, ThreadStates
    <3>2. ThreadTrue(t)'
      <4>1. Emitted(<<th[t].my, th[t].ev.gen>>, th[t].ev)
        BY <1>0, <1>7 DEF CheckEvent, ThreadTrue
      <4>2. th[t].ev.gen = obj[th[t].my].gen
        BY <2>3 DEF IsStale
      <4> QED BY <1>0, <1>1, <1>2, <3>1, <4>1, <4>2 DEF ThreadTrue, Emitted
    <3> QED BY <1>4, <3>1, <3>2
  <2> QED BY <2>1, <2>2, <2>3
<1>8. CASE RaiseInactive(t)
  BY <1>0, <1>3, <1>8 DEF RaiseInactive, Return
<1>9. CASE RefuseRetry(t)
  <2>1. th'[t].pc = "fail" /\ th'[t].my = th[t].my /\ th'[t].ev = th[t].ev
        /\ th[t].pc = "settle" /\ th[t].ev.kind \in {"exhausted", "pool"}
    BY <1>0, <1>9 DEF RefuseRetry, Goto, Retryable, ThreadStates
  <2>2. ThreadTrue(t)'
    BY <1>0, <1>1, <1>2, <2>1 DEF ThreadTrue, Emitted
  <2> QED BY <1>4, <2>1, <2>2
<1> QED BY <1>5, <1>6, <1>7, <1>8, <1>9

LEMMA LookupWork ==
  ASSUME IInv, BudgetInv, WorkInv, NEW t \in Waiters, NEW mode \in Modes, Lookup(t, mode)
  PROVE  WorkInv'
<1>0. t \in Threads /\ created \in Nat /\ th \in [Threads -> ThreadStates]
  BY WorkFacts DEF Threads, IInv, TypeOK
<1>1. /\ UNCHANGED <<active, created, obj, att, ended>> /\ OnlyMoves(t)
      /\ th[t].pc = "idle" /\ th'[t].pc = "read" /\ th'[t].my = active
      /\ th'[t].ev = NoEvent
  BY <1>0 DEF Lookup, Idle, OnlyMoves
<1>2. active = created
  BY WorkFacts DEF Lookup
<1>3. ThreadTrue(t)'
  BY <1>0, <1>1, <1>2 DEF ThreadTrue, NoEvent, Terminal
<1>4. \A a \in {Running}, i \in Requests : ~Takes(t, a, i) /\ ~Takes(t, a, i)'
  <2>1. th[t].ev.kind = "none"
    BY <1>0, <1>1 DEF WorkInv, ThreadTrue
  <2> QED BY <1>1, <2>1 DEF Takes, NoEvent, Terminal
<1> QED BY <1>0, <1>1, <1>3, <1>4, QuietWork

(* The waiter takes the head of the queue of the attempt it read. *)
LEMMA TakeWork ==
  ASSUME OneWaiter, IInv, BudgetInv, WorkInv, NEW t \in Threads, TakeEvent(t)
  PROVE  WorkInv'
<1>0. /\ created \in Nat /\ ThreadTrue(t) /\ th \in [Threads -> ThreadStates]
      /\ th[t].pc = "get" /\ t \in Waiters /\ th[t].ev.kind = "none"
  BY WorkFacts DEF WorkInv, IInv, TypeOK, TakeEvent, ThreadTrue
<1>1. <<th[t].my, th[t].rd>> \in Attempts
  BY <1>0, ThType DEF IInv, ThreadInv, Attempts
<1>2. PICK a \in Attempts : a = <<th[t].my, th[t].rd>>
  BY <1>1
<1>3. PICK q \in Seq(Events) : q = att[a].queue
  BY AttemptFields
<1>4. /\ q # <<>> /\ Len(q) \in Nat \ {0} /\ Tail(q) \in Seq(Events)
      /\ Len(Tail(q)) = Len(q) - 1 /\ \A n \in 1..(Len(q) - 1) : Tail(q)[n] = q[n + 1]
  BY <1>2, <1>3 DEF TakeEvent
<1>5. PICK e \in Events : e = q[1]
  BY <1>4
<1>6. /\ att'[a].queue = Tail(q) /\ att'[a].hold = att[a].hold
      /\ att'[a].todo = att[a].todo /\ att'[a].worker = att[a].worker
      /\ att'[a].aborted = att[a].aborted
      /\ \A b \in Attempts \ {a} : att'[b] = att[b]
  BY <1>2, <1>3 DEF TakeEvent, IInv, TypeOK
<1>7. /\ th'[t].pc = "check" /\ th'[t].my = th[t].my /\ th'[t].rd = th[t].rd
      /\ th'[t].ev = e /\ OnlyMoves(t) /\ UNCHANGED <<active, created, obj, ended>>
  BY <1>0, <1>2, <1>3, <1>5 DEF TakeEvent, OnlyMoves, ThreadStates
<1>8. Steady /\ (Live' <=> Live) /\ Running' = Running
  BY <1>0, <1>6, <1>7 DEF Steady, Live, OnlyMoves, Running, Current
<1>9. \A n \in 1..Len(q) : Emitted(a, q[n])
  BY <1>3 DEF WorkInv, AttemptTrue
<1>10. Emitted(a, e) /\ a[1] = th[t].my /\ a[2] = th[t].rd
  BY <1>2, <1>4, <1>5, <1>9
<1>11. ASSUME NEW b \in Attempts PROVE AttemptTrue(b)'
  <2>1. AttemptTrue(b)
    BY DEF WorkInv
  <2>2. CASE b = a
    <3>1. \A n \in 1..Len(Tail(q)) : n + 1 \in 1..Len(q) /\ Tail(q)[n] = q[n + 1]
      BY <1>4
    <3>2. \A n \in 1..Len(Tail(q)) : Emitted(a, q[n + 1])
      BY <1>9, <3>1
    <3>3. \A n \in 1..Len(Tail(q)) : Emitted(a, Tail(q)[n])'
      BY <1>6, <3>1, <3>2 DEF Emitted
    <3> QED BY <1>6, <2>1, <2>2, <3>3 DEF AttemptTrue
  <2>3. CASE b # a
    BY <1>6, <2>1, <2>3 DEF AttemptTrue, Emitted
  <2> QED BY <2>2, <2>3
<1>12. ThreadTrue(t)'
  <2>1. Emitted(a, e)'
    BY <1>6, <1>10 DEF Emitted
  <2>2. e.gen = th[t].rd
    BY <1>10 DEF Emitted
  <2> QED BY <1>0, <1>2, <1>7, <2>1, <2>2 DEF ThreadTrue, Emitted
<1>13. \A u \in Threads : ThreadTrue(u)'
  BY <1>7, <1>8, <1>12, OthersTrue
<1>14. StopTrue'
  <2>1. \A o \in 1..created : \A g \in 0..(obj[o].gen - 1) : <<o, g>> \in Attempts
    BY CreatedObjects, ParametersAssumption, SMTT(20) DEF Attempts, Generations, IInv, GenerationInv
  <2>2. Live => Running \in Attempts /\ att'[Running].todo = att[Running].todo
                /\ att'[Running].aborted = att[Running].aborted
    BY <1>6, WorkFacts
  <2> QED BY <1>7, <1>8, <2>1, <2>2 DEF WorkInv, StopTrue, Steady
<1>15. AllStopped'
  <2>1. \A u \in Threads, o \in 1..created : Ends(u, o) => Ends(u, o)'
    BY <1>0, <1>7 DEF Ends, OnlyMoves
  <2> QED BY <1>7, <1>8, <2>1, StoppedKeeps
<1>16. Placement'
  <2> SUFFICES ASSUME Live, "duplicate" \notin BackendFaults, NEW r \in {Running}
               PROVE  AllPlaced(r)'
    BY <1>8 DEF Placement
  <2>1. AllPlaced(r) /\ r \in Attempts
    BY WorkFacts DEF WorkInv, Placement
  <2>2. \A b \in Attempts, i \in Requests : ~Taken(b, i)
    BY <1>0 DEF OneWaiter, Taken, Takes
  <2>3. \A i \in Requests : Taken(r, i)' <=>
          r = a /\ e.kind = "completed" /\ e.index = i
    <3>1. \A u \in Waiters : u = t
      BY <1>0 DEF OneWaiter
    <3>2. \A i \in Requests : Taken(r, i)' <=> Takes(t, r, i)'
      BY <1>0, <3>1 DEF Taken
    <3>3. r = <<r[1], r[2]>> /\ a = <<a[1], a[2]>>
      BY <2>1, AttemptFields
    <3>4. e.gen = a[2]
      BY <1>10 DEF Emitted
    <3>5. r = a <=> th[t].my = r[1] /\ e.gen = r[2]
      BY <1>10, <3>3, <3>4
    <3> QED BY <1>7, <3>2, <3>5 DEF Takes
  <2>4. CASE r # a
    <3>1. att'[r] = att[r]
      BY <1>6, <2>1, <2>4
    <3> QED BY <1>7, <2>1, <2>2, <2>3, <2>4, <3>1 DEF AllPlaced, Placed, InHand, InQueue, Queued
  <2>5. CASE r = a
    <3>1. \A i \in Requests, n \in 1..(Len(q) - 1) :
            n + 1 \in 1..Len(q) /\ n + 1 # 1 /\ (Queued(a, n, i)' <=> Queued(a, n + 1, i))
      BY <1>3, <1>4, <1>6 DEF Queued
    <3>2. \A n \in 1..Len(q) : n = 1 \/ (n - 1 \in 1..(Len(q) - 1) /\ n = (n - 1) + 1)
      BY <1>4
    <3>3. \A i \in Requests : Queued(a, 1, i) <=> Taken(a, i)'
      BY <1>3, <1>5, <2>3, <2>5 DEF Queued
    <3>4. 1 \in 1..Len(q)
      BY <1>4
    <3>5. \A i \in Requests : InQueue(a, i)' <=> \E n \in 1..(Len(q) - 1) : Queued(a, n, i)'
      BY <1>4, <1>6 DEF InQueue
    <3>6. \A n, m \in 1..Len(q), i \in Requests : Queued(a, n, i) /\ Queued(a, m, i) => n = m
      BY <1>3, <2>1, <2>5 DEF AllPlaced
    <3>7. \A i \in Requests : InQueue(a, i) <=> InQueue(a, i)' \/ Taken(a, i)'
      BY <1>3, <3>1, <3>2, <3>3, <3>4, <3>5, ZenonT(30) DEF InQueue
    <3>8. \A i \in Requests : ~(InQueue(a, i)' /\ Taken(a, i)')
      BY <3>1, <3>3, <3>4, <3>5, <3>6
    <3>9. \A i \in Requests : InHand(a, i)' <=> InHand(a, i)
      BY <1>6 DEF InHand
    <3>10. \A i \in Requests : Placed(a, i)'
      BY <1>6, <1>7, <2>1, <2>2, <2>5, <3>7, <3>8, <3>9 DEF AllPlaced, Placed
    <3>11. \A n, m \in 1..(Len(q) - 1), i \in Requests :
             Queued(a, n, i)' /\ Queued(a, m, i)' => n = m
      <4> SUFFICES ASSUME NEW n \in 1..(Len(q) - 1), NEW m \in 1..(Len(q) - 1), NEW i \in Requests,
                          Queued(a, n, i)', Queued(a, m, i)'
                   PROVE  n = m
        OBVIOUS
      <4>1. n + 1 = m + 1
        BY <3>1, <3>6
      <4> QED BY <1>4, <4>1
    <3> QED BY <1>4, <1>6, <2>5, <3>10, <3>11 DEF AllPlaced
  <2> QED BY <2>4, <2>5
<1> QED BY <1>11, <1>13, <1>14, <1>15, <1>16 DEF WorkInv

(* A step of thread t that starts no attempt and tells some to stop. *)
OnlyAborts ==
  /\ created' = created
  /\ Live' => Live
  /\ ended = "completed" => ended' = "completed"
  /\ \A o \in Objects : obj'[o].gen = obj[o].gen
  /\ \A a \in Attempts : /\ att'[a].todo = att[a].todo /\ att'[a].queue = att[a].queue
                         /\ att'[a].worker = att[a].worker /\ att'[a].hold = att[a].hold
                         /\ att[a].aborted => att'[a].aborted

LEMMA KeepWork ==
  ASSUME IInv, BudgetInv, WorkInv, NEW t \in Threads, OnlyMoves(t), OnlyAborts,
         th'[t].my \in {0, th[t].my, active}, ThreadTrue(t)', AllStopped',
         \A a \in {Running} : Live' =>
           ~att'[a].aborted /\ att'[a].todo \cap obj'[created].done = {},
         \A a \in {Running} : Live' /\ AllPlaced(a) => AllPlaced(a)'
  PROVE  WorkInv'
<1>1. Steady
  BY DEF OnlyAborts, Steady
<1>2. \A u \in Threads : ThreadTrue(u)'
  BY <1>1, OthersTrue
<1>3. \A a \in Attempts : AttemptTrue(a)'
  BY DEF WorkInv, OnlyAborts, AttemptTrue, Emitted
<1>4. created \in Objects => Running' = Running
  BY DEF OnlyAborts, Running, Current
<1>5. Live' => Live /\ created \in Objects /\ Running' = Running
  BY <1>4, WorkFacts DEF OnlyAborts
<1>6. StopTrue'
  <2>1. \A o \in 1..created : /\ obj'[o].gen = obj[o].gen
                              /\ \A g \in 0..(obj[o].gen - 1) : <<o, g>> \in Attempts
    BY CreatedObjects, ParametersAssumption
       DEF Attempts, Generations, IInv, GenerationInv, OnlyAborts
  <2>2. Live' => ~att'[Running].aborted /\ att'[Running].todo \cap obj'[created].done = {}
    OBVIOUS
  <2> QED BY <1>5, <2>1, <2>2 DEF WorkInv, StopTrue, OnlyAborts
<1>7. Placement'
  BY <1>5 DEF WorkInv, Placement
<1> QED BY <1>2, <1>3, <1>6, <1>7 DEF WorkInv

(* A step that leaves no attempt running for the batch. *)
LEMMA DropWork ==
  ASSUME IInv, BudgetInv, WorkInv, NEW t \in Threads, OnlyMoves(t), OnlyAborts, ~Live',
         th'[t].my \in {0, th[t].my, active}, ThreadTrue(t)', AllStopped'
  PROVE  WorkInv'
BY KeepWork

LEMMA AbortsOne ==
  ASSUME IInv, NEW o \in Objects, NEW a \in Attempts
  PROVE  /\ Aborted(o)[a].todo = att[a].todo /\ Aborted(o)[a].queue = att[a].queue
         /\ Aborted(o)[a].worker = att[a].worker /\ Aborted(o)[a].hold = att[a].hold
         /\ Aborted(o)[a].aborted <=> att[a].aborted \/ a = Current(o)
<1>1. att[a] \in AttemptStates /\ Current(o) \in Attempts
  BY AttType, ObjType DEF IInv
<1>2. CASE a = Current(o)
  <2>1. Aborted(o)[a] = [att[a] EXCEPT !.aborted = TRUE]
    BY <1>1, <1>2 DEF Aborted, IInv, TypeOK
  <2> QED BY <1>1, <1>2, <2>1 DEF AttemptStates
<1>3. CASE a # Current(o)
  <2>1. Aborted(o)[a] = att[a]
    BY <1>1, <1>3 DEF Aborted, IInv, TypeOK
  <2> QED BY <1>3, <2>1
<1> QED BY <1>2, <1>3

(* A thread that settles an event of the batch holds the newest object, and
   the event is of the running attempt. *)
LEMMA Settling ==
  ASSUME IInv, BudgetInv, WorkInv, NEW t \in Threads,
         th[t].pc \in {"settle", "fail"}, ~LostOwnership(t)
  PROVE  /\ th[t].my = created /\ active = created /\ created \in Objects
         /\ created # 0 /\ t \in Waiters /\ Live /\ ended = "no"
         /\ Running = <<created, th[t].ev.gen>> /\ Running \in Attempts
         /\ \A a \in {Running} : Emitted(a, th[t].ev)
         /\ \A u \in Threads : th[u].pc # "resume_install"
<1>1. ThreadTrue(t) /\ th[t].my \in Objects /\ active = th[t].my
  BY ThreadAttempt DEF WorkInv, LostOwnership
<1>2. active # 0
  BY <1>1 DEF Objects
<1>3. active = created /\ created \in Objects /\ ended = "no" /\ Live /\ Running \in Attempts
      /\ \A u \in Threads : ~Resuming(u)
  BY <1>2, WorkFacts DEF Live
<1>4. Running = <<created, th[t].ev.gen>>
  BY <1>1, <1>3 DEF ThreadTrue, Running, Current
<1> QED BY <1>1, <1>2, <1>3, <1>4 DEF ThreadTrue, Resuming

LEMMA DeliverWork ==
  ASSUME OneWaiter, IInv, BudgetInv, WorkInv, NEW t \in Threads, Deliver(t)
  PROVE  WorkInv'
<1> DEFINE i == th[t].ev.index
           done == obj[created].done \cup {i}
<1>1. /\ th[t].my = created /\ active = created /\ created \in Objects /\ created # 0
      /\ t \in Waiters /\ Live /\ ended = "no" /\ th[t].pc = "settle"
      /\ th[t].ev.kind = "completed" /\ Running = <<created, th[t].ev.gen>>
      /\ Running \in Attempts /\ th \in [Threads -> ThreadStates] /\ created \in Nat
      /\ \A u \in Threads : th[u].pc # "resume_install"
  BY Settling, WorkFacts DEF Deliver, IInv, TypeOK
<1>2. i \notin att[Running].todo /\ i \in Requests /\ att[Running].todo \subseteq Requests
  BY <1>1, Settling, ThType, EventFields, AttemptFields DEF Deliver, Emitted, IInv
<1>3. /\ obj'[created].done = done /\ OnlyMoves(t) /\ th'[t] = Idle
      /\ \A o \in Objects : obj'[o].gen = obj[o].gen
      /\ UNCHANGED <<created, att>>
  BY <1>1 DEF Deliver, Return, OnlyMoves, IInv, TypeOK
<1>4. IF done = Requests THEN active' = 0 /\ ended' = "completed"
                         ELSE UNCHANGED <<active, ended>>
  BY <1>1 DEF Deliver
<1>5. OnlyAborts
  BY <1>1, <1>3, <1>4 DEF OnlyAborts
<1>6. ThreadTrue(t)' /\ th'[t].my = 0
  BY <1>1, <1>3, IdleTrue DEF Idle
<1>7. Steady /\ \A u \in Threads, o \in 1..created : Ends(u, o) => Ends(u, o)'
  BY <1>1, <1>3, <1>5 DEF OnlyAborts, Steady, Ends, OnlyMoves
<1>8. att[Running].todo \cap done = {}
  BY <1>1, <1>2 DEF WorkInv, StopTrue
<1>9. AllStopped'
  <2>1. active' # active => att'[Running].todo = {} /\ ended' = "completed"
    BY <1>2, <1>3, <1>4, <1>8
  <2> QED BY <1>7, <2>1, StoppedKeeps
<1>10. ASSUME NEW a \in {Running}
       PROVE  ~att'[a].aborted /\ att'[a].todo \cap obj'[created].done = {}
  BY <1>1, <1>3, <1>8 DEF WorkInv, StopTrue
<1>11. ASSUME NEW a \in {Running}, AllPlaced(a) PROVE AllPlaced(a)'
  <2>1. /\ a = <<created, th[t].ev.gen>> /\ a[1] = created /\ a[2] = th[t].ev.gen
    BY <1>1, <1>11
  <2>2. \A u \in Waiters : u = t
    BY <1>1 DEF OneWaiter
  <2>3. \A j \in Requests : (Taken(a, j) <=> j = i) /\ ~Taken(a, j)'
    BY <1>1, <1>3, <2>1, <2>2 DEF Taken, Takes, Idle, NoEvent, Terminal
  <2>4. \A j \in Requests : j \in obj'[a[1]].done <=> j = i \/ j \in obj[a[1]].done
    BY <1>3, <2>1
  <2>5. \A j \in Requests : Placed(a, j)'
    BY <1>3, <1>11, <2>3, <2>4 DEF AllPlaced, Placed, InHand, InQueue, Queued
  <2> QED BY <1>3, <1>11, <2>5 DEF AllPlaced, Queued
<1> QED BY <1>3, <1>5, <1>6, <1>9, <1>10, <1>11, KeepWork

(* The batch is dropped by the waiter: its running attempt is over, is told to
   stop, or will be. *)
LEMMA DroppedWork ==
  ASSUME IInv, BudgetInv, WorkInv, NEW t \in Threads,
         RejectDuplicate(t) \/ FailBatch(t) \/ RetryStartFails(t)
  PROVE  WorkInv'
<1>1. /\ th[t].my = created /\ active = created /\ created \in Objects /\ created # 0
      /\ t \in Waiters /\ Live /\ ended = "no" /\ th[t].pc \in {"settle", "fail"}
      /\ Running \in Attempts /\ th \in [Threads -> ThreadStates] /\ created \in Nat
      /\ \A u \in Threads : th[u].pc # "resume_install"
  BY Settling, WorkFacts
     DEF RejectDuplicate, FailBatch, RetryStartFails, IInv, TypeOK
<1>2. /\ active' = 0 /\ created' = created /\ OnlyMoves(t)
      /\ \A o \in Objects : obj'[o].gen = obj[o].gen
      /\ th'[t] = Idle \/ th'[t] = [th[t] EXCEPT !.pc = "abort"]
  <2>1. /\ active' = 0 /\ created' = created
        /\ Return(t) \/ th' = [th EXCEPT ![t] = [th[t] EXCEPT !.pc = "abort"]]
    BY DEF RejectDuplicate, FailBatch, RetryStartFails, Goto
  <2>2. \A o \in Objects : obj'[o].gen = obj[o].gen
    BY <1>1 DEF RejectDuplicate, FailBatch, RetryStartFails, IInv, TypeOK
  <2> QED BY <1>1, <2>1, <2>2 DEF Return, OnlyMoves
<1>3. th'[t].pc # "resume_install" /\ th'[t].my \in {0, th[t].my}
  BY <1>1, <1>2 DEF Idle, ThreadStates
<1>4. ~Live'
  BY <1>1, <1>2, <1>3 DEF Live, OnlyMoves
<1>5. \A a \in Attempts : /\ att'[a].todo = att[a].todo /\ att'[a].queue = att[a].queue
                          /\ att'[a].worker = att[a].worker /\ att'[a].hold = att[a].hold
                          /\ att[a].aborted => att'[a].aborted
  <2>1. att' = att \/ att' = Aborted(created)
    BY <1>1 DEF RejectDuplicate, FailBatch, RetryStartFails
  <2> QED BY <1>1, <2>1, AbortsOne
<1>6. OnlyAborts
  BY <1>1, <1>2, <1>4, <1>5 DEF OnlyAborts
<1>7. ThreadTrue(t)'
  <2>1. CASE th'[t] = Idle
    BY <1>1, <1>2, <2>1, IdleTrue
  <2>2. CASE th'[t] = [th[t] EXCEPT !.pc = "abort"]
    <3>1. th'[t].pc = "abort" /\ th'[t].my = created
      BY <1>1, <2>2 DEF ThreadStates
    <3> QED BY <1>1, <1>2, <1>4, <3>1 DEF ThreadTrue
  <2> QED BY <1>2, <2>1, <2>2
<1>8. AllStopped'
  <2>1. \/ att'[Running].aborted \/ att'[Running].worker = "done"
        \/ th'[t].my = created /\ th'[t].pc = "abort"
    <3>1. CASE RejectDuplicate(t)
      BY <1>1, <3>1 DEF RejectDuplicate, Goto, ThreadStates
    <3>2. CASE FailBatch(t)
      <4>1. th[t].ev.kind # "completed"
        BY <3>2 DEF FailBatch, WorkInv, ThreadTrue
      <4>2. \A a \in {Running} : att[a].worker = "done"
        BY <1>1, <3>2, <4>1, Settling DEF Emitted, FailBatch
      <4> QED BY <1>1, <1>5, <4>2
    <3>3. CASE RetryStartFails(t)
      BY <1>1, <3>3 DEF RetryStartFails, Aborted, Running, IInv, TypeOK, AttemptStates
    <3> QED BY <3>1, <3>2, <3>3
  <2>2. Steady /\ \A u \in Threads, o \in 1..created : Ends(u, o) => Ends(u, o)'
    BY <1>1, <1>2, <1>6 DEF OnlyAborts, Steady, Ends, OnlyMoves
  <2> QED BY <2>1, <2>2, StoppedKeeps
<1> QED BY <1>2, <1>3, <1>4, <1>6, <1>7, <1>8, DropWork

(* The waiter replaces the running attempt by one over what is unfinished. *)
LEMMA RetryWork ==
  ASSUME OneWaiter, IInv, BudgetInv, WorkInv, NEW t \in Threads, Retry(t)
  PROVE  WorkInv'
<1>1. /\ th[t].my = created /\ active = created /\ created \in Objects /\ created # 0
      /\ t \in Waiters /\ Live /\ th[t].pc = "settle"
      /\ th \in [Threads -> ThreadStates] /\ created \in Nat
      /\ \A u \in Threads : th[u].pc # "resume_install"
  BY Settling, WorkFacts DEF Retry, IInv, TypeOK
<1>2. PICK g \in Nat : g = obj[created].gen /\ g + 1 \in Generations
  BY <1>1, CreatedObjects, ParametersAssumption DEF Retry, CanRetry, Generations
<1>3. PICK r : r = <<created, g + 1>>
  OBVIOUS
<1>4. PICK left \in SUBSET Requests : left = Requests \ obj[created].done
  OBVIOUS
<1>5. r \in Attempts /\ r # Current(created) /\ Current(created) = <<created, g>>
  BY <1>1, <1>2, <1>3 DEF Attempts, Current
<1>6. UNCHANGED <<active, created, ended>> /\ OnlyMoves(t)
  BY <1>1 DEF Retry, Return, OnlyMoves
<1>7. /\ obj'[created].done = obj[created].done /\ obj'[created].gen = g + 1
      /\ \A o \in Objects \ {created} : obj'[o] = obj[o]
  BY <1>1, <1>2 DEF Retry, IInv, TypeOK
<1>8. Aborted(created) \in [Attempts -> AttemptStates]
  BY <1>1, AbortedType DEF IInv
<1>9. /\ att'[r] = Started(left)
      /\ \A a \in Attempts \ {r} : att'[a] = Aborted(created)[a]
  BY <1>1, <1>2, <1>3, <1>4, <1>5, <1>8 DEF Retry, Remaining
<1>10. /\ th'[t].pc \in {"idle", "read"} /\ th'[t].my \in {0, created}
       /\ th'[t].ev = NoEvent
  BY <1>1 DEF Retry, Return, Idle, ThreadStates
<1>11. Live' /\ Running' = r
  BY <1>1, <1>3, <1>6, <1>7 DEF Live, Running, Current
<1>12. /\ att'[r].todo = left /\ ~att'[r].aborted /\ att'[r].worker = "pull"
       /\ att'[r].hold = NoEvent /\ att'[r].queue = <<>>
  BY <1>9 DEF Started, Unstarted
<1>13. ASSUME NEW a \in Attempts PROVE AttemptTrue(a)'
  <2>1. CASE a = r
    BY <1>12, <2>1 DEF AttemptTrue, NoEvent, Terminal
  <2>2. CASE a # r
    <3>1. /\ att'[a].todo = att[a].todo /\ att'[a].queue = att[a].queue
          /\ att'[a].worker = att[a].worker /\ att'[a].hold = att[a].hold
      BY <1>1, <1>9, <2>2, AbortsOne
    <3> QED BY <3>1 DEF WorkInv, AttemptTrue, Emitted
  <2> QED BY <2>1, <2>2
<1>14. ASSUME NEW u \in Threads PROVE ThreadTrue(u)'
  <2>1. CASE u = t
    BY <1>1, <1>6, <1>10, <2>1 DEF ThreadTrue, NoEvent, Terminal
  <2>2. CASE u # t
    <3>1. u \notin Waiters /\ th'[u] = th[u]
      BY <1>1, <1>6, <2>2 DEF OneWaiter, OnlyMoves
    <3> QED BY <1>1, <1>6, <3>1 DEF WorkInv, ThreadTrue
  <2> QED BY <2>1, <2>2
<1>15. StopTrue'
  <2>1. ASSUME NEW o \in 1..created, NEW n \in 0..(obj'[o].gen - 1)
        PROVE  att'[<<o, n>>].aborted
    <3>1. CASE o # created
      <4>1. /\ <<o, n>> \in Attempts /\ <<o, n>> # r /\ obj'[o] = obj[o] /\ o \in Objects
            /\ n \in 0..obj[o].gen
        BY <1>3, <1>7, <3>1, CreatedObjects, OlderAttempts
      <4> QED BY <1>1, <1>9, <3>1, <4>1, AbortsOne DEF WorkInv, StopTrue
    <3>2. CASE o = created
      <4>1. n \in 0..g /\ n \in 0..obj[o].gen
        BY <1>2, <1>7, <3>2
      <4>2. <<o, n>> \in Attempts /\ <<o, n>> # r
        BY <1>2, <1>3, <4>1, OlderAttempts
      <4>3. <<o, n>> = Current(created) \/ att[<<o, n>>].aborted
        BY <1>2, <1>5, <3>2, <4>1 DEF WorkInv, StopTrue
      <4> QED BY <1>1, <1>9, <4>2, <4>3, AbortsOne
    <3> QED BY <3>1, <3>2
  <2> QED BY <1>1, <1>4, <1>6, <1>7, <1>11, <1>12, <2>1 DEF StopTrue
<1>16. Placement'
  <2> SUFFICES AllPlaced(r)'
    BY <1>11 DEF Placement
  <2>1. r[1] = created /\ obj'[created].done = obj[created].done
    BY <1>3, <1>7
  <2>2. \A j \in Requests : ~InHand(r, j)' /\ ~InQueue(r, j)' /\ ~Taken(r, j)'
    <3>1. \A u \in Waiters : u = t
      BY <1>1 DEF OneWaiter
    <3> QED BY <1>10, <1>12, <3>1 DEF InHand, InQueue, Taken, Takes, NoEvent, Terminal
  <2>3. \A j \in Requests : Placed(r, j)'
    BY <1>4, <1>12, <2>1, <2>2 DEF Placed
  <2> QED BY <1>12, <2>3 DEF AllPlaced
<1>17. AllStopped'
  <2> SUFFICES ASSUME NEW o \in 1..created, NEW n \in 0..obj'[o].gen PROVE Stopped(o, n)'
    BY <1>6 DEF AllStopped
  <2>1. CASE o # created
    <3>1. /\ <<o, n>> \in Attempts /\ <<o, n>> # r /\ obj'[o] = obj[o] /\ o \in Objects
          /\ Stopped(o, n)
      BY <1>3, <1>7, <2>1, CreatedObjects, OlderAttempts DEF WorkInv, AllStopped
    <3>2. /\ att'[<<o, n>>].todo = att[<<o, n>>].todo
          /\ att'[<<o, n>>].worker = att[<<o, n>>].worker
          /\ att[<<o, n>>].aborted => att'[<<o, n>>].aborted
      BY <1>1, <1>9, <3>1, AbortsOne
    <3>3. ASSUME NEW u \in Threads, Ends(u, o) PROVE Ends(u, o)'
      BY <1>1, <1>6, <3>3 DEF Ends, OnlyMoves
    <3> QED BY <1>6, <3>1, <3>2, <3>3 DEF Stopped
  <2>2. CASE o = created /\ n = g + 1
    BY <1>1, <1>6, <1>7, <2>2 DEF Stopped
  <2>3. CASE o = created /\ n # g + 1
    <3>1. n \in 0..(obj'[o].gen - 1)
      BY <1>2, <1>7, <2>3
    <3> QED BY <1>6, <1>15, <3>1 DEF StopTrue, Stopped
  <2> QED BY <2>1, <2>2, <2>3
<1> QED BY <1>13, <1>14, <1>15, <1>16, <1>17 DEF WorkInv

(* Another thread takes the batch away, and will tell its attempt to stop. *)
LEMMA TakenAwayWork ==
  ASSUME IInv, BudgetInv, WorkInv, NEW t \in Threads,
         SuspendBegin(t) \/ (Cancel(t) /\ active # 0)
  PROVE  WorkInv'
<1>1. /\ active = created /\ active # 0 /\ created \in Nat /\ ended = "no"
      /\ th \in [Threads -> ThreadStates]
      /\ \A u \in Threads : th[u].pc # "resume_install"
  BY WorkFacts DEF SuspendBegin, Cancel, IInv, TypeOK, Resuming
<1>2. /\ active' = 0 /\ UNCHANGED <<created, obj, att>> /\ OnlyMoves(t)
      /\ th[t].pc = "idle" /\ th'[t].my = created
      /\ th'[t].pc \in {"abort", "suspend_abort"} /\ th'[t].ev = NoEvent
  BY <1>1, ZenonT(30) DEF SuspendBegin, Cancel, Idle, OnlyMoves
<1>3. ~Live'
  BY <1>1, <1>2 DEF Live, OnlyMoves
<1>4. OnlyAborts
  BY <1>1, <1>2, <1>3 DEF OnlyAborts
<1>5. ThreadTrue(t)'
  BY <1>1, <1>2, <1>3 DEF ThreadTrue, NoEvent, Terminal
<1>6. AllStopped'
  <2>1. Steady /\ \A u \in Threads, o \in 1..created : Ends(u, o) => Ends(u, o)'
    BY <1>2, <1>4 DEF OnlyAborts, Steady, Ends, OnlyMoves
  <2> QED BY <1>1, <1>2, <2>1, StoppedKeeps
<1> QED BY <1>1, <1>2, <1>3, <1>4, <1>5, <1>6, DropWork

(* A thread tells the attempt it took away to stop. *)
LEMMA AbortWork ==
  ASSUME IInv, BudgetInv, WorkInv, NEW t \in Threads, Abort(t) \/ SuspendAbort(t)
  PROVE  WorkInv'
<1>1. /\ th[t].pc \in {"abort", "suspend_abort"} /\ th \in [Threads -> ThreadStates]
      /\ created \in Nat /\ ThreadTrue(t) /\ th[t] \in ThreadStates
  BY WorkFacts DEF Abort, SuspendAbort, IInv, TypeOK, WorkInv
<1>2. th[t].my \in Objects
  BY <1>1, ThreadAttempt
<1>3. PICK o \in Objects : o = th[t].my
  BY <1>2
<1>4. UNCHANGED <<active, created, obj, ended>> /\ OnlyMoves(t) /\ att' = Aborted(o)
  BY <1>1, <1>3 DEF Abort, SuspendAbort, Return, Goto, OnlyMoves
<1>5. \/ th'[t] = Idle
      \/ th'[t].pc = "suspend_end" /\ th'[t].my = o /\ th'[t].ev = th[t].ev
         /\ th[t].pc = "suspend_abort"
  BY <1>1, <1>3 DEF Abort, SuspendAbort, Return, Goto, ThreadStates
<1>6. /\ th'[t].pc \in {"idle", "suspend_end"} /\ th'[t].my \in {0, o}
      /\ th'[t].ev.kind = "none"
  BY <1>1, <1>5 DEF ThreadTrue, Idle, NoEvent, Terminal
<1>7. Live' <=> Live
  BY <1>1, <1>4, <1>6 DEF Live, OnlyMoves
<1>8. \A a \in Attempts :
        /\ att'[a].todo = att[a].todo /\ att'[a].queue = att[a].queue
        /\ att'[a].worker = att[a].worker /\ att'[a].hold = att[a].hold
        /\ att'[a].aborted <=> att[a].aborted \/ a = Current(o)
  BY <1>4, AbortsOne
<1>9. OnlyAborts
  BY <1>4, <1>7, <1>8 DEF OnlyAborts
<1>10. ThreadTrue(t)'
  BY <1>1, <1>3, <1>4, <1>6 DEF ThreadTrue
<1>11. AllStopped'
  <2>1. Steady
    BY <1>9 DEF OnlyAborts, Steady
  <2>2. ASSUME NEW u \in Threads, NEW p \in 1..created, Ends(u, p)
        PROVE  Ends(u, p)' \/ att'[Current(p)].aborted
    <3>1. CASE u = t
      <4>1. p = o
        BY <1>3, <2>2, <3>1 DEF Ends
      <4> QED BY <1>8, <4>1, ObjType DEF IInv
    <3>2. CASE u # t
      BY <1>4, <2>2, <3>2 DEF Ends, OnlyMoves
    <3> QED BY <3>1, <3>2
  <2> QED BY <1>4, <2>1, <2>2, StoppedKeeps
<1>12. ASSUME Live, NEW a \in {Running}
       PROVE  /\ ~att'[a].aborted /\ att'[a].todo \cap obj'[created].done = {}
              /\ AllPlaced(a) => AllPlaced(a)'
  <2>1. a \in Attempts /\ created \in Objects /\ a = Running /\ a[1] = created
    BY <1>12, WorkFacts DEF Running, Current
  <2>2. o # created
    BY <1>1, <1>3, <1>12 DEF ThreadTrue
  <2>3. a # Current(o)
    BY <2>1, <2>2 DEF Current
  <2>4. ~att'[a].aborted /\ att'[a].todo \cap obj'[created].done = {}
    BY <1>4, <1>8, <1>12, <2>1, <2>3 DEF WorkInv, StopTrue
  <2>5. \A i \in Requests : Taken(a, i)' <=> Taken(a, i)
    <3>1. \A i \in Requests : ~Takes(t, a, i) /\ ~Takes(t, a, i)'
      BY <1>3, <1>6, <2>1, <2>2 DEF Takes
    <3> QED BY <1>4, <3>1 DEF Taken, Takes, OnlyMoves, Threads
  <2>6. /\ att'[a].todo = att[a].todo /\ att'[a].queue = att[a].queue
        /\ att'[a].hold = att[a].hold /\ obj' = obj
    BY <1>4, <1>8, <2>1
  <2>7. \A i \in Requests :
          /\ InHand(a, i)' <=> InHand(a, i)
          /\ InQueue(a, i)' <=> InQueue(a, i)
          /\ \A n \in 1..Len(att[a].queue) : Queued(a, n, i)' <=> Queued(a, n, i)
    BY <2>6 DEF InHand, InQueue, Queued
  <2>8. \A i \in Requests : Placed(a, i) => Placed(a, i)'
    BY <2>5, <2>6, <2>7 DEF Placed
  <2>9. AllPlaced(a) => AllPlaced(a)'
    BY <2>6, <2>7, <2>8 DEF AllPlaced
  <2> QED BY <2>4, <2>9
<1> QED BY <1>3, <1>4, <1>6, <1>7, <1>9, <1>10, <1>11, <1>12, KeepWork

(* Calls that start and stop no attempt. *)
LEMMA BystanderWork ==
  ASSUME IInv, BudgetInv, WorkInv, NEW t \in Threads,
         \/ SuspendEnd(t) \/ ResumeStartFails(t) \/ Discard(t)
         \/ (Cancel(t) /\ active = 0) \/ \E n \in handles : ResumeBegin(t, n)
  PROVE  WorkInv'
<1>1. th \in [Threads -> ThreadStates] /\ created \in Nat /\ ThreadTrue(t)
  BY WorkFacts DEF IInv, TypeOK, WorkInv
<1>2. UNCHANGED <<active, created, obj, att>> /\ OnlyMoves(t)
  BY <1>1 DEF SuspendEnd, ResumeStartFails, Discard, Cancel, ResumeBegin, Return, OnlyMoves
<1>3. /\ th[t].pc \in {"idle", "suspend_end", "resume_start"} /\ th[t].ev.kind = "none"
  BY <1>1 DEF SuspendEnd, ResumeStartFails, Discard, Cancel, ResumeBegin, ThreadTrue
<1>4. /\ th'[t].pc \in {"idle", "resume_start"} /\ th'[t].ev.kind = "none"
      /\ th'[t].my \in {0, th[t].my}
  <2>1. CASE SuspendEnd(t) \/ ResumeStartFails(t)
    BY <1>1, <2>1 DEF SuspendEnd, ResumeStartFails, Return, Idle, NoEvent, Terminal
  <2>2. CASE Discard(t) \/ (Cancel(t) /\ active = 0)
    BY <1>3, <2>2 DEF Discard, Cancel
  <2>3. ASSUME NEW n \in handles, ResumeBegin(t, n)
        PROVE  th'[t].pc = "resume_start" /\ th'[t].ev = NoEvent /\ th'[t].my = 0
    BY <1>1, <2>3 DEF ResumeBegin, Idle
  <2> QED BY <2>1, <2>2, <2>3 DEF NoEvent, Terminal
<1>5. ended = "completed" => ended' = "completed"
  BY DEF SuspendEnd, ResumeStartFails, Discard, Cancel, ResumeBegin, IInv, OneHome, DiscardInv
<1>6. ThreadTrue(t)'
  BY <1>1, <1>2, <1>4 DEF ThreadTrue
<1>7. \A a \in {Running}, i \in Requests : Takes(t, a, i)' <=> Takes(t, a, i)
  BY <1>3, <1>4 DEF Takes
<1> QED BY <1>2, <1>3, <1>4, <1>5, <1>6, <1>7, QuietWork

(* The new object of a resumed batch becomes its entry, or is to be stopped. *)
LEMMA InstallWork ==
  ASSUME IInv, BudgetInv, WorkInv, NEW t \in Threads, ResumeInstall(t)
  PROVE  WorkInv'
<1>1. /\ th \in [Threads -> ThreadStates] /\ created \in Nat /\ ThreadTrue(t)
      /\ th[t].pc = "resume_install" /\ th[t].my = created /\ active = 0
      /\ created \in Objects /\ created # 0 /\ th[t].ev.kind = "none"
      /\ \A u \in Threads \ {t} : th[u].pc # "resume_install"
  <2>1. /\ th \in [Threads -> ThreadStates] /\ ThreadTrue(t)
        /\ th[t].pc = "resume_install" /\ Resuming(t)
    BY DEF ResumeInstall, IInv, TypeOK, WorkInv, Resuming
  <2>2. /\ created \in Nat /\ th[t].my = created /\ active = 0 /\ created \in Objects
        /\ \A u \in Threads \ {t} : ~Resuming(u)
    BY <2>1, WorkFacts
  <2> QED BY <2>1, <2>2 DEF ThreadTrue, Objects, Resuming
<1>2. Live
  BY <1>1 DEF Live
<1>3. UNCHANGED <<created, obj, att, ended>> /\ OnlyMoves(t)
  BY <1>1 DEF ResumeInstall, Return, Goto, OnlyMoves
<1>4. \/ active' = created /\ th'[t] = Idle
      \/ active' = 0 /\ th'[t].pc = "abort" /\ th'[t].my = created /\ th'[t].ev = th[t].ev
  BY <1>1 DEF ResumeInstall, Return, Goto, ThreadStates
<1>5. th'[t].pc \in {"idle", "abort"} /\ th'[t].my \in {0, created} /\ th'[t].ev.kind = "none"
  BY <1>1, <1>4 DEF Idle, NoEvent, Terminal
<1>6. OnlyAborts
  BY <1>2, <1>3 DEF OnlyAborts
<1>7. ThreadTrue(t)'
  <2>1. CASE active' = created /\ th'[t] = Idle
    BY <1>1, <1>3, <2>1, IdleTrue
  <2>2. CASE active' = 0 /\ th'[t].pc = "abort" /\ th'[t].my = created
    <3>1. ~Live'
      BY <1>1, <1>3, <2>2 DEF Live, OnlyMoves
    <3> QED BY <1>1, <1>3, <2>2, <3>1 DEF ThreadTrue
  <2> QED BY <1>4, <2>1, <2>2
<1>8. AllStopped'
  <2>1. Steady
    BY <1>6 DEF OnlyAborts, Steady
  <2>2. \A u \in Threads, o \in 1..created : Ends(u, o) => Ends(u, o)' \/ active' = o
    BY <1>1, <1>3, <1>4 DEF Ends, OnlyMoves
  <2> QED BY <1>1, <2>1, <2>2, StoppedKeeps
<1>9. ASSUME NEW a \in {Running}
      PROVE  /\ ~att'[a].aborted /\ att'[a].todo \cap obj'[created].done = {}
             /\ AllPlaced(a) => AllPlaced(a)'
  <2>1. ~att'[a].aborted /\ att'[a].todo \cap obj'[created].done = {}
    BY <1>2, <1>3 DEF WorkInv, StopTrue
  <2>2. \A i \in Requests : Taken(a, i)' <=> Taken(a, i)
    BY <1>1, <1>3, <1>5 DEF Taken, Takes, OnlyMoves, Threads
  <2> QED BY <1>3, <2>1, <2>2 DEF AllPlaced, Placed, InHand, InQueue, Queued
<1> QED BY <1>1, <1>3, <1>5, <1>6, <1>7, <1>8, <1>9, KeepWork

(* An attempt starts over the requests not in done, for the new object n that
   becomes the batch's entry or is about to. *)
StartsObject(n, done) ==
  /\ created' = n /\ obj'[n].done = done /\ obj'[n].gen = 0
  /\ \A o \in Objects \ {n} : obj'[o] = obj[o]
  /\ att' = [att EXCEPT ![<<n, 0>>] = Started(Requests \ done)]
  /\ active = 0 /\ ended' = ended
  /\ \/ active' = n
     \/ active' = 0 /\ \E t \in Threads : th'[t].my = n /\ th'[t].pc = "resume_install"
  /\ \A t \in Threads : th[t].pc # "resume_start" => th'[t] = th[t]
  /\ \A t \in Waiters : th'[t].my = n => th'[t].ev.kind = "none"

LEMMA StartWork ==
  ASSUME IInv, BudgetInv, WorkInv, NEW n \in Objects, n = created + 1,
         NEW done \in SUBSET Requests, StartsObject(n, done),
         \A t \in Threads : ThreadTrue(t)'
  PROVE  WorkInv'
<1>0. PICK left \in SUBSET Requests : left = Requests \ done
  OBVIOUS
<1>1. /\ created \in Nat /\ 1..n = 1..created \cup {n} /\ n \notin 1..created /\ n # 0
      /\ 1..created \subseteq Objects
  BY CreatedObjects
<1>2. PICK r \in Attempts : r = <<n, 0>>
  <2>1. 0 \in Generations
    BY ParametersAssumption DEF Generations
  <2> QED BY <2>1 DEF Attempts
<1>3. att'[r] = Started(left) /\ \A a \in Attempts \ {r} : att'[a] = att[a]
  BY <1>0, <1>2 DEF StartsObject, IInv, TypeOK
<1>4. /\ att'[r].todo = left /\ ~att'[r].aborted /\ att'[r].worker = "pull"
      /\ att'[r].hold = NoEvent /\ att'[r].queue = <<>>
  BY <1>3 DEF Started, Unstarted
<1>5. Running' = r /\ created' = n /\ obj'[n].done = done /\ obj'[n].gen = 0
  BY <1>2 DEF Running, Current, StartsObject
<1>6. ASSUME NEW a \in Attempts PROVE AttemptTrue(a)'
  <2>1. CASE a = r
    BY <1>4, <2>1 DEF AttemptTrue, NoEvent, Terminal
  <2>2. CASE a # r
    BY <1>3, <2>2 DEF WorkInv, AttemptTrue, Emitted
  <2> QED BY <2>1, <2>2
<1>7. \A o \in 1..created : obj'[o] = obj[o]
  BY <1>1 DEF StartsObject
<1>8. ASSUME NEW o \in 1..created, NEW g \in 0..obj[o].gen
      PROVE  <<o, g>> \in Attempts /\ att'[<<o, g>>] = att[<<o, g>>]
  <2>1. <<o, g>> \in Attempts /\ <<o, g>> # r
    BY <1>1, <1>2, OlderAttempts
  <2> QED BY <1>3, <2>1
<1>9. StopTrue'
  <2>1. ASSUME NEW o \in 1..n, NEW g \in 0..(obj'[o].gen - 1) PROVE att'[<<o, g>>].aborted
    <3>1. o \in 1..created
      BY <1>1, <1>5
    <3>2. g \in 0..(obj[o].gen - 1) /\ g \in 0..obj[o].gen
      BY <1>7, <3>1, CreatedObjects
    <3> QED BY <1>8, <3>1, <3>2 DEF WorkInv, StopTrue
  <2> QED BY <1>0, <1>1, <1>4, <1>5, <2>1 DEF StopTrue
<1>10. AllStopped'
  <2> SUFFICES ASSUME NEW o \in 1..n, NEW g \in 0..obj'[o].gen PROVE Stopped(o, g)'
    BY <1>5 DEF AllStopped
  <2>1. CASE o = n
    BY <1>5, <2>1 DEF StartsObject, Stopped, Ends
  <2>2. CASE o # n
    <3>1. o \in 1..created /\ g \in 0..obj[o].gen /\ o # active
      <4>1. o \in 1..created
        BY <1>1, <2>2
      <4> QED BY <1>7, <4>1 DEF StartsObject
    <3>2. Stopped(o, g) /\ att'[<<o, g>>] = att[<<o, g>>]
      BY <1>8, <3>1 DEF WorkInv, AllStopped
    <3>3. \A u \in Threads : Ends(u, o) => Ends(u, o)'
      BY DEF StartsObject, Ends
    <3> QED BY <3>1, <3>2, <3>3 DEF StartsObject, Stopped
  <2> QED BY <2>1, <2>2
<1>11. Placement'
  <2> SUFFICES AllPlaced(r)'
    BY <1>5 DEF Placement
  <2>1. \A j \in Requests : ~InHand(r, j)' /\ ~InQueue(r, j)' /\ ~Taken(r, j)'
    <3>1. \A j \in Requests : ~InHand(r, j)' /\ ~InQueue(r, j)'
      BY <1>4 DEF InHand, InQueue, NoEvent, Terminal
    <3>2. r[1] = n
      BY <1>2
    <3> QED BY <3>1, <3>2 DEF StartsObject, Taken, Takes
  <2>2. \A j \in Requests : Placed(r, j)'
    <3>1. obj'[r[1]].done = done /\ att'[r].todo = Requests \ done
      BY <1>0, <1>2, <1>4, <1>5
    <3> QED BY <2>1, <3>1 DEF Placed
  <2> QED BY <1>4, <2>2 DEF AllPlaced
<1> QED BY <1>6, <1>9, <1>10, <1>11 DEF WorkInv

LEMMA SubmitWork == ASSUME IInv, BudgetInv, WorkInv, Submit PROVE WorkInv'
<1>1. /\ created = 0 /\ created' = 1 /\ active = 0 /\ active' = 1 /\ 1 \in Objects
      /\ UNCHANGED <<obj, th, ended>> /\ \A t \in Threads : th[t].pc = "idle"
      /\ obj[1].done = {} /\ obj[1].gen = 0
      /\ att' = [att EXCEPT ![<<1, 0>>] = Started(Requests \ {})]
  <2>1. Requests \ {} = Requests /\ 1 \in Objects
    BY ParametersAssumption DEF Objects
  <2> QED BY <2>1 DEF Submit, IInv, CreationInv, WorkInv, StopTrue
<1>3. \A t \in Threads : ThreadTrue(t)' /\ th[t].ev.kind = "none"
  <2>1. \A t \in Threads : ThreadTrue(t) /\ th[t].my \in 0..MaxObjects
    BY ThType DEF WorkInv, IInv
  <2> QED BY <1>1, <2>1 DEF ThreadTrue
<1>4. 1 = created + 1 /\ {} \in SUBSET Requests
  BY <1>1
<1>5. StartsObject(1, {})
  BY <1>1, <1>3 DEF StartsObject, Threads
<1> QED BY <1>1, <1>3, <1>4, <1>5, StartWork

LEMMA ResumeStartWork ==
  ASSUME IInv, BudgetInv, WorkInv, NEW t \in Threads, ResumeStart(t) PROVE WorkInv'
<1>1. PICK n \in Objects : n = created + 1
  <2>1. created < MaxObjects /\ created \in Nat
    BY CreatedObjects DEF ResumeStart, IInv, ThreadInv
  <2> QED BY <2>1, ParametersAssumption DEF Objects
<1>2. PICK done \in SUBSET Requests : done = th[t].held.done
  BY ThType DEF IInv, Suspensions
<1>3. /\ active = 0 /\ created \in Nat /\ n # 0
      /\ \A u \in Threads \ {t} : ~Resuming(u)
      /\ th[t].pc = "resume_start" /\ th \in [Threads -> ThreadStates]
  BY <1>1, WorkFacts DEF ResumeStart, IInv, TypeOK, OneHome, Resuming
<1>5. /\ created' = n /\ obj'[n].done = done /\ obj'[n].gen = 0
      /\ \A o \in Objects \ {n} : obj'[o] = obj[o]
      /\ att' = [att EXCEPT ![<<n, 0>>] = Started(Requests \ done)]
      /\ UNCHANGED <<active, ended>>
  BY <1>1, <1>2 DEF ResumeStart, IInv, TypeOK, Remaining
<1>6. /\ th'[t].pc = "resume_install" /\ th'[t].my = n /\ th'[t].ev = th[t].ev
      /\ OnlyMoves(t)
  BY <1>1, <1>3 DEF ResumeStart, OnlyMoves, ThreadStates
<1>7. \A u \in Threads : ThreadTrue(u)
  BY DEF WorkInv
<1>8. th[t].ev.kind = "none"
  BY <1>3, <1>7 DEF ThreadTrue
<1>9. \A u \in Threads : th[u].my <= created /\ th[u].my \in 0..MaxObjects /\ th[u].my # n
  <2>1. \A u \in Threads : th[u].my <= created
    BY <1>7 DEF ThreadTrue
  <2>2. \A u \in Threads : th[u].my \in 0..MaxObjects
    BY ThType DEF IInv
  <2> QED BY <1>1, <1>3, <2>1, <2>2
<1>10. ASSUME NEW u \in Threads PROVE ThreadTrue(u)'
  <2>1. CASE u = t
    BY <1>1, <1>3, <1>5, <1>6, <1>8, <1>9, <2>1 DEF ThreadTrue, OnlyMoves
  <2>2. CASE u # t
    <3>1. th'[u] = th[u] /\ th[u].pc # "resume_install" /\ th[u].my # n /\ th[u].my <= n
      BY <1>1, <1>3, <1>6, <1>9, <2>2 DEF OnlyMoves, Resuming
    <3>2. ASSUME th[u].pc \in {"check", "settle", "fail"}
          PROVE  /\ Emitted(<<th[u].my, th[u].ev.gen>>, th[u].ev)'
                 /\ obj'[th[u].my] = obj[th[u].my]
      <4>1. th[u].my \in Objects /\ <<th[u].my, th[u].ev.gen>> \in Attempts
        BY <3>2, ThreadAttempt
      <4>2. PICK a \in Attempts : a = <<th[u].my, th[u].ev.gen>>
        BY <4>1
      <4>3. a # <<n, 0>>
        BY <3>1, <4>2
      <4>4. att'[a] = att[a]
        BY <1>5, <4>3 DEF IInv, TypeOK
      <4>5. Emitted(a, th[u].ev)
        BY <1>7, <3>2, <4>2 DEF ThreadTrue
      <4> QED BY <1>5, <3>1, <4>1, <4>2, <4>4, <4>5 DEF Emitted
    <3> QED BY <1>5, <1>7, <3>1, <3>2 DEF ThreadTrue
  <2> QED BY <2>1, <2>2
<1>11. StartsObject(n, done)
  <2>1. \A u \in Waiters : th'[u].my = n => th'[u].ev.kind = "none"
    BY <1>6, <1>8, <1>9 DEF OnlyMoves, Threads
  <2>2. \A u \in Threads : th[u].pc # "resume_start" => th'[u] = th[u]
    BY <1>3, <1>6 DEF OnlyMoves
  <2> QED BY <1>3, <1>5, <1>6, <2>1, <2>2 DEF StartsObject
<1> QED BY <1>1, <1>10, <1>11, StartWork

LEMMA WorkStep ==
  ASSUME OneWaiter, IInv, BudgetInv, WorkInv, [Next]_vars PROVE WorkInv'
<1>1. ASSUME NEW t \in Threads, ClientStep(t) PROVE WorkInv'
  BY <1>1, ReaderWork, TakeWork, DeliverWork, DroppedWork, RetryWork, AbortWork, BystanderWork,
     InstallWork, ResumeStartWork DEF ClientStep, WaiterStep, ControllerStep
<1>2. ASSUME NEW t \in Controllers, ControlCall(t) PROVE WorkInv'
  BY <1>2, TakenAwayWork, BystanderWork DEF ControlCall, Threads
<1>3. CASE UNCHANGED vars
  <2>1. UNCHANGED <<active, created, obj, att, th, ended>>
    BY <1>3 DEF vars
  <2>2. Live' = Live /\ Running' = Running
    BY <2>1 DEF Live, Running, Current
  <2>3. \A a \in Attempts : AttemptTrue(a)'
    BY <2>1 DEF WorkInv, AttemptTrue, Emitted
  <2>4. \A t \in Threads : ThreadTrue(t)'
    BY <2>1, <2>2 DEF WorkInv, ThreadTrue, Emitted
  <2>5. StopTrue'
    BY <2>1, <2>2 DEF WorkInv, StopTrue
  <2>6. Placement'
    BY <2>1, <2>2
       DEF WorkInv, Placement, AllPlaced, Placed, InHand, InQueue, Queued, Taken, Takes
  <2>7. AllStopped'
    BY <2>1 DEF WorkInv, AllStopped, Stopped, Ends
  <2> QED BY <2>3, <2>4, <2>5, <2>6, <2>7 DEF WorkInv
<1> QED BY <1>1, <1>2, <1>3, SubmitWork, LookupWork, BackendWork DEF Next

LEMMA WorkInit == Init => WorkInv
<1> SUFFICES ASSUME Init PROVE WorkInv
  OBVIOUS
<1>1. \A a \in Attempts : AttemptTrue(a)
  BY DEF Init, AttemptTrue, Unstarted, NoEvent, Terminal
<1>2. \A t \in Threads : ThreadTrue(t) /\ th[t].pc = "idle"
  BY DEF Init, ThreadTrue, Idle, NoEvent, Terminal
<1>3. ~Live /\ created = 0
  BY <1>2 DEF Init, Live
<1>4. StopTrue /\ Placement /\ AllStopped
  BY <1>3 DEF Init, StopTrue, Placement, AllStopped
<1> QED BY <1>1, <1>2, <1>4 DEF WorkInv

(* What is in place of the running attempt, in the words of the property. *)
LEMMA PlacedOnce ==
  ASSUME IInv, BudgetInv, WorkInv, active # 0, "duplicate" \notin BackendFaults
  PROVE  NothingLost
<1> DEFINE a == Current(active)
           inQueue == {n \in DOMAIN att[a].queue : att[a].queue[n].kind = "completed"}
           holders == {t \in Waiters : th[t].my = active /\ th[t].ev.kind = "completed"
                                      /\ th[t].ev.gen = obj[active].gen}
           P1 == obj[active].done
           P2 == att[a].todo
           P3 == IF att[a].hold.kind = "completed" THEN {att[a].hold.index} ELSE {}
           P4 == {att[a].queue[n].index : n \in inQueue}
           P5 == {th[t].ev.index : t \in holders}
           parts == <<P1, P2, P3, P4, P5>>
<1>1. active = created /\ a = Running /\ a \in Attempts /\ a[1] = active /\ a[2] = obj[active].gen
  BY WorkFacts DEF Live, Running, Current
<1>2. AllPlaced(a)
  BY <1>1 DEF WorkInv, Placement, Live
<1>3. DOMAIN att[a].queue = 1..Len(att[a].queue)
  BY <1>1, AttemptFields
<1>4. ASSUME NEW i \in Requests
      PROVE  /\ i \in P1 <=> i \in obj[a[1]].done
             /\ i \in P3 <=> InHand(a, i)
             /\ i \in P4 <=> InQueue(a, i)
             /\ i \in P5 <=> Taken(a, i)
  <2>1. i \in P1 <=> i \in obj[a[1]].done
    BY <1>1
  <2>2. i \in P3 <=> InHand(a, i)
    BY DEF InHand
  <2>3. i \in P4 <=> InQueue(a, i)
    BY <1>3 DEF InQueue, Queued
  <2>4. i \in P5 <=> Taken(a, i)
    BY <1>1 DEF Taken, Takes
  <2> QED BY <2>1, <2>2, <2>3, <2>4
<1>5. ASSUME NEW i \in Requests
      PROVE  \E n \in 1..5 : i \in parts[n] /\ \A m \in 1..5 \ {n} : i \notin parts[m]
  <2>1. Placed(a, i)
    BY <1>2 DEF AllPlaced
  <2>2. /\ i \in P1 \/ i \in P2 \/ i \in P3 \/ i \in P4 \/ i \in P5
        /\ ~(i \in P1 /\ i \in P2)
        /\ i \in P3 => i \notin P1 /\ i \notin P2
        /\ i \in P4 => i \notin P1 /\ i \notin P2 /\ i \notin P3
        /\ i \in P5 => i \notin P1 /\ i \notin P2 /\ i \notin P3 /\ i \notin P4
    BY <1>4, <2>1 DEF Placed
  <2> HIDE DEF P1, P2, P3, P4, P5
  <2>3. /\ parts[1] = P1 /\ parts[2] = P2 /\ parts[3] = P3 /\ parts[4] = P4 /\ parts[5] = P5
        /\ \A m \in 1..5 : m = 1 \/ m = 2 \/ m = 3 \/ m = 4 \/ m = 5
    OBVIOUS
  <2> HIDE DEF parts
  <2>4. 1 \in 1..5 /\ 2 \in 1..5 /\ 3 \in 1..5 /\ 4 \in 1..5 /\ 5 \in 1..5
    OBVIOUS
  <2>5. CASE i \in P1
    BY <2>2, <2>3, <2>4, <2>5
  <2>6. CASE i \in P2
    BY <2>2, <2>3, <2>4, <2>6
  <2>7. CASE i \in P3
    BY <2>2, <2>3, <2>4, <2>7
  <2>8. CASE i \in P4
    BY <2>2, <2>3, <2>4, <2>8
  <2>9. CASE i \in P5
    BY <2>2, <2>3, <2>4, <2>9
  <2> QED BY <2>2, <2>5, <2>6, <2>7, <2>8, <2>9
<1>6. ASSUME NEW n \in inQueue, NEW m \in inQueue, n # m
      PROVE  att[a].queue[n].index # att[a].queue[m].index
  <2>1. att[a].queue \in Seq(Events) /\ n \in 1..Len(att[a].queue) /\ m \in 1..Len(att[a].queue)
    BY <1>1, <1>3, AttemptFields
  <2>2. att[a].queue[n] \in Events /\ att[a].queue[n].kind = "completed"
    BY <2>1
  <2>3. att[a].queue[n].index \in Requests
    BY <2>2, EventFields
  <2> QED BY <1>2, <1>6, <2>1, <2>3 DEF AllPlaced, Queued
<1> QED BY <1>5, <1>6 DEF NothingLost

LEMMA WorkAccountedNow ==
  ASSUME IInv, BudgetInv, WorkInv PROVE WorkAccounted
<1>1. NothingLost
  <2>1. CASE active # 0 /\ BackendFaults \cap {"duplicate", "early_end"} = {}
    BY <2>1, PlacedOnce
  <2>2. CASE ~(active # 0 /\ BackendFaults \cap {"duplicate", "early_end"} = {})
    BY <2>2 DEF NothingLost
  <2> QED BY <2>1, <2>2
<1>2. NoOrphanAttempt
  BY DEF NoOrphanAttempt, WorkInv, AllStopped, Stopped, Ends
<1> QED BY <1>1, <1>2 DEF WorkAccounted

(* With a single waiter no result is lost and no attempt works for nobody: each
   request of the running attempt is reported, with joblib, in the worker's
   hand, queued or taken by the waiter, in one of these places only, and every
   other attempt is over or being stopped. *)
THEOREM WorkIsAccounted == ASSUME OneWaiter PROVE Spec => []WorkAccounted
<1>1. Init => BudgetInv /\ WorkInv
  BY WorkInit DEF Init, BudgetInv, RetryBudget, Idle, NoSuspended
<1>2. IInv /\ BudgetInv /\ WorkInv /\ [Next]_vars => BudgetInv' /\ WorkInv'
  BY BudgetStep, WorkStep
<1>3. IInv /\ BudgetInv /\ WorkInv => WorkAccounted
  BY WorkAccountedNow
<1> QED BY <1>1, <1>2, <1>3, Invariance, PTL DEF Spec
=============================================================================
