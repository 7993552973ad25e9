------------------------------ MODULE SessionProofs ------------------------------
(***************************************************************************)
(* The sessions of the evaluators and the exact-async steps that run in    *)
(* them: StepAccounted and ToldOnce for every set of requests and any      *)
(* number of suspends and resumes, and SessionsIsolated for every set of   *)
(* sessions, tasks and processes; and the loop that does without them, the *)
(* fused direct one, which implements the general loop.                    *)
(***************************************************************************)
EXTENDS ExactAsyncStep, WorkerSession, DirectScalarRun, SequenceTheorems, FiniteSetTheorems, TLAPS

(***************************************************************************)
(* Exact-async steps.  Both properties follow from one inductive invariant *)
(* on how the three lifecycles of a batch and the call of each thread go   *)
(* together.                                                               *)
(***************************************************************************)
Lifecycles == {"active", "suspended", "completed", "failed", "cancelled"}

SessionFields == [joblib : Lifecycles, count : Nat, study : Lifecycles,
                  stored : SUBSET Requests, finished : BOOLEAN]

HandleFields == [stored : SUBSET Requests, count : Nat]

CollectStages == {"collect", "evaluator", "joblib_record", "study_record"}
CancelStages  == {"cancel_reads", "discard_batch", "cancel_batch", "joblib_cancelled",
                  "study_cancelled"}
Stages == CollectStages \cup CancelStages \cup
            {"idle", "raises", "returned", "assimilate", "parked", "joblib_suspend",
             "study_suspend", "resume"}

CallFields == [pc : Stages,
               name : {"none", "batch", "poll", "wait", "finish", "suspend", "resume", "cancel"},
               on : Nat, got : SUBSET Requests, kind : {"none", "failed", "cancelled"},
               handle : HandleFields \cup {{}}]

StepTypeOK ==
  /\ program \in {"step", "batch"} /\ phase \in Batch!Phases
  /\ delivered \in [Requests -> {0, 1}]
  /\ resuming \in BOOLEAN /\ missed \in BOOLEAN
  /\ sessions \in Seq(SessionFields) /\ handles \in SUBSET HandleFields
  /\ call \in [StepThreads -> CallFields]
  /\ tells \in Seq([on : Nat, attempts : SUBSET Requests, ok : BOOLEAN])

(* The batch ended, or it slipped through a cancellation. *)
Over == phase \in {"completed", "failed", "cancelled"} \/ missed

(* A batch that has reported all its requests has completed. *)
BatchTrue ==
  /\ phase = "new" <=> Opened = 0
  /\ phase = "new" => Delivered = {}
  /\ phase \in {"new", "running", "parked"} => Delivered # Requests

(* What the sessions and the handles have is what the evaluator delivered, and
   of the sessions only the newest can reach the batch: its lifecycle in front
   of the evaluator says where the batch is. *)
SessionsTrue ==
  /\ \A s \in 1..Opened :
       /\ sessions[s].stored \subseteq Delivered
       /\ sessions[s].count <= Cardinality(Delivered)
       /\ sessions[s].finished => sessions[s].study # "active"
       /\ s < Opened => sessions[s].joblib # "active" /\ sessions[s].stored # Requests
  /\ \A h \in handles : h.stored \subseteq Delivered /\ ValidHandle(h)
  /\ Opened > 0 =>
       /\ sessions[Opened].joblib = "suspended" => phase # "running"
       /\ sessions[Opened].joblib \in {"completed", "failed", "cancelled"} => Over
       /\ sessions[Opened].study = "cancelled" => Over

(* What the owner has in its hands, when c is the call it is in.  While the
   batch lives, the newest session has what was delivered, but for what the
   owner is about to store; a batch call may give that up. *)
OwnerTrue(c) ==
  /\ c.pc = "idle" => c = NoCall
  /\ c.got \subseteq Delivered /\ (c.got # {} => c.on = Opened)
  /\ c.pc \in {"evaluator", "joblib_record", "study_record", "parked", "joblib_suspend"}
       => c.on = Opened
  /\ c.name = "batch" => c.on = Opened
  /\ c.pc \in {"joblib_record", "study_record"} => \E i \in Requests : c.got = {i}
  /\ c.pc = "joblib_record" => sessions[c.on].count < Cardinality(Delivered)
  /\ c.pc = "raises" => phase \in {"failed", "cancelled"} /\ c.kind \in {"failed", "cancelled"}
  /\ c.pc \in {"parked", "joblib_suspend"} => phase \in {"parked", "cancelled"}
  /\ phase = "parked" /\ c.pc \notin {"parked", "joblib_suspend"} /\ Opened > 0
       => sessions[Opened].joblib # "active"
  /\ c.pc = "resume" => c.handle \in handles /\ Fits(c.handle)
  /\ c.pc = "returned" => Over /\ c.name = "batch"
  /\ c.pc \in CollectStages \cup {"assimilate"} => ~sessions[c.on].finished
  /\ c.pc = "assimilate" => sessions[c.on].study # "active"
  /\ Opened > 0 /\ phase \in {"running", "parked"} =>
       sessions[Opened].stored \cup c.got = Delivered
  /\ \/ c.got = {}
     \/ c.got \subseteq sessions[Opened].stored
     \/ c.pc \in {"joblib_record", "study_record"}
     \/ c.name = "batch" /\ c.pc \in CancelStages \cup {"returned"}

(* A cancellation of the newest session ends the batch before it returns. *)
CallTrue(c) ==
  /\ c.pc \notin {"idle", "resume"} => c.on \in 1..Opened
  /\ c.on = Opened =>
       /\ c.pc = "discard_batch" => phase # "running"
       /\ c.pc \in {"joblib_cancelled", "study_cancelled"} => Over

CallsTrue == (\A c \in {call[Owner]} : OwnerTrue(c)) /\ \A t \in StepThreads : CallTrue(call[t])

TellsTrue ==
  /\ ToldOnce
  /\ tells # <<>> => Delivered = Requests
  /\ (\E n \in 1..Len(tells) : tells[n].ok) => sessions[Opened].finished

StepInv == StepTypeOK /\ BatchTrue /\ SessionsTrue /\ CallsTrue /\ TellsTrue

-----------------------------------------------------------------------------
LEMMA DeliveredFinite ==
  /\ Delivered \subseteq Requests /\ IsFiniteSet(Delivered)
  /\ Cardinality(Delivered) \in Nat /\ Cardinality(Requests) \in Nat
  /\ Cardinality(Delivered) <= Cardinality(Requests)
  /\ Cardinality(Delivered) = Cardinality(Requests) => Delivered = Requests
<1>1. Delivered \subseteq Requests
  BY DEF Delivered
<1> QED BY <1>1, StepAssumption, FS_Subset, FS_CardinalityType

(* What a thread's call is when it makes one on a session. *)
CallOf(stage, name, on) == [NoCall EXCEPT !.pc = stage, !.name = name, !.on = on]

LEMMA CallMade ==
  ASSUME NEW stage \in Stages, NEW on \in Nat,
         NEW name \in {"none", "batch", "poll", "wait", "finish", "suspend", "resume", "cancel"}
  PROVE  /\ CallOf(stage, name, on) \in CallFields
         /\ CallOf(stage, name, on).pc = stage
         /\ CallOf(stage, name, on).name = name
         /\ CallOf(stage, name, on).on = on
         /\ CallOf(stage, name, on).got = {}
<1>1. CallOf(stage, name, on) \in CallFields
  BY DEF CallOf, NoCall, CallFields
<1>2. /\ CallOf(stage, name, on).pc = stage
      /\ CallOf(stage, name, on).name = name
      /\ CallOf(stage, name, on).on = on
      /\ CallOf(stage, name, on).got = {}
  BY DEF CallOf, NoCall
<1> QED BY <1>1, <1>2

LEMMA OpenedNat ==
  ASSUME StepInv
  PROVE  Opened \in Nat
  BY DEF StepInv, StepTypeOK, Opened

(* The sessions, when the fields of one of them change. *)
LEMMA SessionChanges ==
  ASSUME sessions \in Seq(SessionFields), NEW s \in 1..Opened, NEW new \in SessionFields,
         sessions' = [sessions EXCEPT ![s] = new]
  PROVE  /\ sessions' \in Seq(SessionFields) /\ Opened' = Opened
         /\ sessions'[s] = new
         /\ \A r \in 1..Opened : r # s => sessions'[r] = sessions[r]
  BY ExceptSeq DEF Opened

LEMMA SessionTyped ==
  ASSUME sessions \in Seq(SessionFields), NEW s \in 1..Opened
  PROVE  sessions[s] \in SessionFields
  BY ElementOfSeq DEF Opened

(* A step that only takes one thread further in its call. *)
LEMMA CallMoves ==
  ASSUME StepInv, NEW t \in StepThreads, NEW c \in CallFields,
         call' = [call EXCEPT ![t] = c], resuming' \in BOOLEAN,
         UNCHANGED <<program, phase, delivered, sessions, handles, missed, tells>>,
         CallTrue(c), t = Owner => OwnerTrue(c)
  PROVE  StepInv'
<1>1. call'[t] = c /\ \A u \in StepThreads : u # t => call'[u] = call[u]
  BY DEF StepInv, StepTypeOK
<1>2. StepTypeOK'
  BY DEF StepInv, StepTypeOK
<1>3. Delivered' = Delivered /\ Opened' = Opened /\ Over' = Over
  BY DEF Delivered, Opened, Over
<1>4. BatchTrue' /\ SessionsTrue' /\ TellsTrue'
  BY <1>3 DEF StepInv, BatchTrue, SessionsTrue, TellsTrue, ToldOnce
<1>5. ASSUME NEW k
      PROVE  (CallTrue(k) => CallTrue(k)') /\ (OwnerTrue(k) => OwnerTrue(k)')
  BY <1>3 DEF CallTrue, OwnerTrue, Fits
<1>6. Owner \in StepThreads
  BY DEF StepThreads
<1>7. (\A k \in {call[Owner]} : OwnerTrue(k))'
  <2>1. \A k \in {call'[Owner]} : OwnerTrue(k)
    BY <1>1, <1>6 DEF StepInv, CallsTrue
  <2> QED BY <2>1, <1>5
<1>8. ASSUME NEW u \in StepThreads
      PROVE  CallTrue(call[u])'
  <2>1. CallTrue(call'[u])
    BY <1>1 DEF StepInv, CallsTrue
  <2> QED BY <2>1, <1>3 DEF CallTrue
<1> QED BY <1>2, <1>4, <1>7, <1>8 DEF StepInv, CallsTrue

(* The owner's call may return where it has nothing that is not stored. *)
LEMMA MayReturn ==
  ASSUME StepInv, call[Owner].pc \notin {"joblib_record", "study_record", "parked", "joblib_suspend"},
         call[Owner].name # "batch" \/ call[Owner].pc \notin CancelStages \cup {"returned"}
  PROVE  OwnerTrue(NoCall) /\ CallTrue(NoCall) /\ NoCall \in CallFields
<1>1. NoCall \in CallFields /\ NoCall.pc = "idle" /\ NoCall.got = {} /\ NoCall.name = "none"
  BY DEF NoCall, CallFields, Stages
<1>2. CallTrue(NoCall)
  BY <1>1 DEF CallTrue
<1>3. OwnerTrue(call[Owner])
  BY DEF StepInv, CallsTrue
<1>4. OwnerTrue(NoCall)
  BY <1>1, <1>3 DEF OwnerTrue, CollectStages
<1> QED BY <1>1, <1>2, <1>4

LEMMA OwnerMoves ==
  ASSUME StepInv,
         \/ \E s \in 1..Opened, name \in {"poll", "wait", "finish"} : Collect(s, name)
         \/ \E s \in 1..Opened : FinishCompleted(s)
         \/ \E h \in handles : ResumeBegin(h)
         \/ EnterJoblib \/ EvaluatorRefuses \/ EvaluatorReturnsNone \/ BatchInterrupted
  PROVE  StepInv'
<1>1. Owner \in StepThreads /\ call[Owner] \in CallFields
  BY DEF StepInv, StepTypeOK, StepThreads
<1>2. OwnerTrue(call[Owner]) /\ CallTrue(call[Owner]) /\ SessionsTrue /\ resuming \in BOOLEAN
  BY <1>1 DEF StepInv, CallsTrue, StepTypeOK
<1>3. ASSUME call[Owner].pc \in CollectStages,
             call' = [call EXCEPT ![Owner].pc = "cancel_reads"], call[Owner].name = "batch",
             UNCHANGED <<program, phase, delivered, resuming, sessions, handles, missed, tells>>
      PROVE  StepInv'
  <2> DEFINE c == [call[Owner] EXCEPT !.pc = "cancel_reads"]
  <2>1. c \in CallFields /\ c.pc = "cancel_reads" /\ c.on = call[Owner].on
        /\ c.got = call[Owner].got /\ c.name = call[Owner].name
    BY <1>1 DEF CallFields, Stages, CancelStages
  <2>2. call' = [call EXCEPT ![Owner] = c]
    BY <1>1, <1>3 DEF StepInv, StepTypeOK
  <2> HIDE DEF c
  <2>3. CallTrue(c)
    BY <1>2, <1>3, <2>1 DEF CallTrue, CollectStages
  <2>4. OwnerTrue(c)
    BY <1>2, <1>3, <2>1 DEF OwnerTrue, CollectStages, CancelStages
  <2> QED BY <1>1, <1>2, <1>3, <2>1, <2>2, <2>3, <2>4, CallMoves
<1>4. ASSUME call' = [call EXCEPT ![Owner] = NoCall], call[Owner].pc \in {"collect", "evaluator"},
             UNCHANGED <<program, phase, delivered, resuming, sessions, handles, missed, tells>>
      PROVE  StepInv'
  <2>1. OwnerTrue(NoCall) /\ CallTrue(NoCall) /\ NoCall \in CallFields
    BY <1>4, MayReturn DEF CancelStages
  <2> QED BY <1>1, <1>2, <1>4, <2>1, CallMoves
<1>5. ASSUME NEW s \in 1..Opened, NEW name \in {"poll", "wait", "finish"}, Collect(s, name)
      PROVE  StepInv'
  <2> DEFINE c == CallOf("collect", name, s)
  <2>1. c \in CallFields /\ c.pc = "collect" /\ c.on = s /\ c.got = {} /\ c.name = name
    BY OpenedNat, CallMade DEF Stages, CollectStages
  <2>2. call[Owner] = NoCall /\ NoCall.got = {} /\ NoCall.pc = "idle"
    BY <1>2, <1>5 DEF Collect, At, OwnerTrue, NoCall
  <2>3. CallTrue(c)
    BY <2>1 DEF CallTrue
  <2>4. ~sessions[s].finished
    BY <1>2, <1>5 DEF Collect, SessionsTrue
  <2>5. OwnerTrue(NoCall)
    BY <1>2, <2>2
  <2>6. OwnerTrue(c)
    BY <2>1, <2>2, <2>4, <2>5 DEF OwnerTrue
  <2> QED BY <1>1, <1>2, <1>5, <2>1, <2>3, <2>6, CallMoves DEF Collect, CallOf
<1>6. ASSUME NEW s \in 1..Opened, FinishCompleted(s)
      PROVE  StepInv'
  <2> DEFINE c == CallOf("assimilate", "finish", s)
  <2>1. c \in CallFields /\ c.pc = "assimilate" /\ c.on = s /\ c.got = {} /\ c.name = "finish"
    <3>1. "assimilate" \in Stages /\ s \in Nat
      BY OpenedNat DEF Stages
    <3> QED BY <3>1, CallMade
  <2>2. call[Owner] = NoCall /\ NoCall.got = {} /\ NoCall.pc = "idle"
    BY <1>2, <1>6 DEF FinishCompleted, At, OwnerTrue, NoCall
  <2>3. CallTrue(c)
    BY <2>1 DEF CallTrue
  <2>4. ~sessions[s].finished /\ sessions[s].study # "active"
    BY <1>6 DEF FinishCompleted
  <2>5. OwnerTrue(NoCall)
    BY <1>2, <2>2
  <2>6. OwnerTrue(c)
    BY <2>1, <2>2, <2>4, <2>5 DEF OwnerTrue
  <2> QED BY <1>1, <1>2, <1>6, <2>1, <2>3, <2>6, CallMoves DEF FinishCompleted, CallOf
<1>7. ASSUME NEW h \in handles, ResumeBegin(h)
      PROVE  StepInv'
  <2> DEFINE c == [NoCall EXCEPT !.pc = "resume", !.name = "resume", !.handle = h]
  <2>1. c \in CallFields /\ c.pc = "resume" /\ c.on = 0 /\ c.got = {} /\ c.name = "resume"
        /\ c.handle = h
    BY DEF StepInv, StepTypeOK, NoCall, CallFields, Stages
  <2>2. call[Owner] = NoCall /\ NoCall.got = {} /\ NoCall.pc = "idle"
    BY <1>2, <1>7 DEF ResumeBegin, At, OwnerTrue, NoCall
  <2>3. CallTrue(c)
    BY <2>1 DEF CallTrue
  <2>4. OwnerTrue(NoCall)
    BY <1>2, <2>2
  <2>5. OwnerTrue(c)
    BY <1>7, <2>1, <2>2, <2>4 DEF OwnerTrue, ResumeBegin, CollectStages
  <2> QED BY <1>1, <1>2, <1>7, <2>1, <2>3, <2>5, CallMoves DEF ResumeBegin
<1>8. CASE EnterJoblib
  <2>1. CASE sessions[call[Owner].on].joblib = "active"
    <3> DEFINE c == [call[Owner] EXCEPT !.pc = "evaluator"]
    <3>1. c \in CallFields /\ c.pc = "evaluator" /\ c.on = call[Owner].on
          /\ c.got = call[Owner].got /\ c.name = call[Owner].name
      BY <1>1 DEF CallFields, Stages, CollectStages
    <3>2. call' = [call EXCEPT ![Owner] = c] /\ call[Owner].pc = "collect"
      BY <1>1, <1>8, <2>1 DEF EnterJoblib, Goes, On, At, StepInv, StepTypeOK
    <3> HIDE DEF c
    <3>3. c.on = Opened /\ c.on \in 1..Opened /\ Opened \in Nat
      BY <1>2, <2>1, <3>1, <3>2 DEF CallTrue, SessionsTrue, Opened, StepInv, StepTypeOK
    <3>4. CallTrue(c)
      BY <3>1, <3>3 DEF CallTrue
    <3>5. ~sessions[c.on].finished /\ (c.got = {} \/ c.got \subseteq sessions[Opened].stored)
      BY <1>2, <3>1, <3>2 DEF OwnerTrue, CollectStages, CancelStages
    <3>6. OwnerTrue(c)
      BY <1>2, <3>1, <3>2, <3>3, <3>5 DEF OwnerTrue
    <3> QED BY <1>1, <1>2, <1>8, <3>1, <3>2, <3>4, <3>6, CallMoves DEF EnterJoblib
  <2>2. CASE sessions[call[Owner].on].joblib # "active"
    BY <1>3, <1>4, <1>8, <2>2 DEF EnterJoblib, Goes, Returns, On, At, CollectStages
  <2> QED BY <2>1, <2>2
<1>9. CASE EvaluatorRefuses
  BY <1>3, <1>4, <1>9 DEF EvaluatorRefuses, Goes, Returns, At, CollectStages
<1>10. CASE EvaluatorReturnsNone
  BY <1>4, <1>10 DEF EvaluatorReturnsNone, Returns, At
<1>11. CASE BatchInterrupted
  BY <1>3, <1>11 DEF BatchInterrupted, Goes, CollectStages
<1> QED BY <1>5, <1>6, <1>7, <1>8, <1>9, <1>10, <1>11

(* Cancel reads the lifecycle of its session, and the batch goes on living. *)
LEMMA CancelMoves ==
  ASSUME StepInv, NEW t \in StepThreads,
         (\E s \in 1..Opened : CancelBegin(t, s)) \/ CancelReads(t)
  PROVE  StepInv'
<1>1. Owner \in StepThreads /\ call[t] \in CallFields
  BY DEF StepInv, StepTypeOK, StepThreads
<1>2. OwnerTrue(call[Owner]) /\ CallTrue(call[t]) /\ SessionsTrue /\ resuming \in BOOLEAN
  BY <1>1 DEF StepInv, CallsTrue, StepTypeOK
<1>3. ASSUME NEW s \in 1..Opened, CancelBegin(t, s)
      PROVE  StepInv'
  <2> DEFINE c == CallOf("cancel_reads", "cancel", s)
  <2>1. c \in CallFields /\ c.pc = "cancel_reads" /\ c.on = s /\ c.got = {} /\ c.name = "cancel"
    <3>1. s \in Nat
      BY OpenedNat
    <3>2. "cancel_reads" \in Stages
      BY DEF Stages, CancelStages
    <3> QED BY <3>1, <3>2, CallMade
  <2>2. CallTrue(c)
    BY <2>1 DEF CallTrue
  <2>3. t = Owner => OwnerTrue(NoCall) /\ NoCall.got = {} /\ NoCall.pc = "idle"
    BY <1>2, <1>3 DEF CancelBegin, At, OwnerTrue, NoCall
  <2>4. t = Owner => OwnerTrue(c)
    BY <2>1, <2>3 DEF OwnerTrue, CollectStages
  <2> QED BY <1>1, <1>2, <1>3, <2>1, <2>2, <2>4, CallMoves DEF CancelBegin, CallOf
<1>4. CASE CancelReads(t)
  <2>1. call[t].on \in 1..Opened /\ call[t].pc = "cancel_reads"
    BY <1>2, <1>4 DEF CancelReads, At, CallTrue
  <2>2. sessions[call[t].on] \in SessionFields
    BY <2>1, SessionTyped DEF StepInv, StepTypeOK
  <2>3. PICK stage \in {"discard_batch", "cancel_batch", "study_cancelled"} :
          /\ call' = [call EXCEPT ![t].pc = stage]
          /\ stage = "discard_batch" => sessions[call[t].on].joblib = "suspended"
          /\ stage = "study_cancelled" =>
               sessions[call[t].on].joblib \in {"completed", "failed", "cancelled"}
    BY <1>4, <2>2 DEF CancelReads, Goes, On, SessionFields, Lifecycles
  <2> DEFINE c == [call[t] EXCEPT !.pc = stage]
  <2>4. c \in CallFields /\ c.pc = stage /\ c.on = call[t].on
        /\ c.got = call[t].got /\ c.name = call[t].name
    BY <1>1 DEF CallFields, Stages, CancelStages
  <2>5. call' = [call EXCEPT ![t] = c]
    BY <1>1, <2>3 DEF StepInv, StepTypeOK
  <2> HIDE DEF c
  <2>6. CallTrue(c)
    BY <1>2, <2>1, <2>3, <2>4 DEF CallTrue, SessionsTrue
  <2>7. t = Owner => OwnerTrue(c)
    BY <1>2, <2>1, <2>3, <2>4 DEF OwnerTrue, CollectStages, CancelStages
  <2> QED BY <1>1, <1>2, <1>4, <2>4, <2>5, <2>6, <2>7, CallMoves DEF CancelReads
<1> QED BY <1>3, <1>4

-----------------------------------------------------------------------------
(* A step that changes one session, and the call of one thread. *)
LEMMA SessionMoves ==
  ASSUME StepInv, NEW t \in StepThreads, NEW c \in CallFields, call' = [call EXCEPT ![t] = c],
         NEW s \in 1..Opened, NEW new \in SessionFields,
         sessions' = [sessions EXCEPT ![s] = new],
         UNCHANGED <<program, phase, delivered, resuming, missed>>,
         handles' \in SUBSET HandleFields,
         \A h \in handles' : h.stored \subseteq Delivered /\ ValidHandle(h),
         new.stored \subseteq Delivered, new.count <= Cardinality(Delivered),
         new.finished => new.study # "active",
         s < Opened => new.joblib # "active" /\ new.stored # Requests,
         s = Opened =>
           /\ new.joblib = "suspended" => phase # "running"
           /\ new.joblib \in {"completed", "failed", "cancelled"} => Over
           /\ new.study = "cancelled" => Over,
         CallTrue(c), t = Owner => OwnerTrue(c)',
         NEW k, k = call[Owner], t # Owner => OwnerTrue(k)',
         tells' \in Seq([on : Nat, attempts : SUBSET Requests, ok : BOOLEAN]), TellsTrue'
  PROVE  StepInv'
<1>1. call'[t] = c /\ \A u \in StepThreads : u # t => call'[u] = call[u]
  BY DEF StepInv, StepTypeOK
<1>2. /\ sessions' \in Seq(SessionFields) /\ Opened' = Opened
      /\ sessions'[s] = new
      /\ \A r \in 1..Opened : r # s => sessions'[r] = sessions[r]
  BY SessionChanges DEF StepInv, StepTypeOK
<1>3. StepTypeOK'
  BY <1>2 DEF StepInv, StepTypeOK
<1>4. Delivered' = Delivered /\ Over' = Over /\ \A h : ValidHandle(h)' = ValidHandle(h)
  BY DEF Delivered, Over, ValidHandle
<1>5. BatchTrue'
  BY <1>2, <1>4 DEF StepInv, BatchTrue
<1>6. SessionsTrue'
  <2>1. ASSUME NEW r \in 1..Opened
        PROVE  /\ sessions'[r].stored \subseteq Delivered
               /\ sessions'[r].count <= Cardinality(Delivered)
               /\ sessions'[r].finished => sessions'[r].study # "active"
               /\ r < Opened => sessions'[r].joblib # "active" /\ sessions'[r].stored # Requests
    <3>1. CASE r = s
      BY <3>1, <1>2
    <3>2. CASE r # s
      BY <3>2, <1>2 DEF StepInv, SessionsTrue
    <3> QED BY <3>1, <3>2
  <2>2. Opened > 0 =>
          /\ sessions'[Opened].joblib = "suspended" => phase # "running"
          /\ sessions'[Opened].joblib \in {"completed", "failed", "cancelled"} => Over
          /\ sessions'[Opened].study = "cancelled" => Over
    <3>1. CASE s = Opened
      BY <3>1, <1>2
    <3>2. CASE s # Opened
      BY <3>2, <1>2, OpenedNat DEF StepInv, SessionsTrue
    <3> QED BY <3>1, <3>2
  <2> QED BY <2>1, <2>2, <1>2, <1>4 DEF SessionsTrue
<1>7. (\A d \in {call[Owner]} : OwnerTrue(d))'
  <2>1. CASE t = Owner
    BY <2>1, <1>1
  <2>2. CASE t # Owner
    BY <2>2, <1>1 DEF StepThreads
  <2> QED BY <2>1, <2>2
<1>8. ASSUME NEW u \in StepThreads
      PROVE  CallTrue(call[u])'
  <2>1. CallTrue(call'[u])
    BY <1>1 DEF StepInv, CallsTrue
  <2> QED BY <2>1, <1>2, <1>4 DEF CallTrue
<1> QED BY <1>3, <1>5, <1>6, <1>7, <1>8 DEF StepInv, CallsTrue

(* What was told is as it was, as long as no session is new or forgets that it
   finished. *)
LEMMA TellsKept ==
  ASSUME StepInv, UNCHANGED tells, Opened' = Opened, Delivered' = Delivered,
         Opened > 0 /\ sessions[Opened].finished => sessions'[Opened].finished
  PROVE  TellsTrue' /\ tells' \in Seq([on : Nat, attempts : SUBSET Requests, ok : BOOLEAN])
<1>1. tells \in Seq([on : Nat, attempts : SUBSET Requests, ok : BOOLEAN])
  BY DEF StepInv, StepTypeOK
<1>2. tells # <<>> => Opened > 0
  BY DeliveredFinite, OpenedNat DEF StepInv, TellsTrue, BatchTrue
<1>3. (\E n \in 1..Len(tells) : tells[n].ok) => tells # <<>>
  BY <1>1
<1> QED BY <1>1, <1>2, <1>3 DEF StepInv, TellsTrue, ToldOnce

LEMMA CallGoes ==
  ASSUME StepInv, NEW t \in StepThreads, NEW stage \in Stages, Goes(t, stage)
  PROVE  \E c \in CallFields :
           /\ call' = [call EXCEPT ![t] = c]
           /\ c.pc = stage /\ c.name = call[t].name /\ c.on = call[t].on
           /\ c.got = call[t].got
<1> DEFINE c == [call[t] EXCEPT !.pc = stage]
<1>1. call[t] \in CallFields
  BY DEF StepInv, StepTypeOK
<1>2. c \in CallFields
  BY <1>1 DEF CallFields
<1>3. c.pc = stage /\ c.name = call[t].name /\ c.on = call[t].on /\ c.got = call[t].got
  BY <1>1 DEF CallFields
<1>4. call' = [call EXCEPT ![t] = c]
  BY DEF StepInv, StepTypeOK, Goes
<1> HIDE DEF c
<1> QED BY <1>2, <1>3, <1>4

LEMMA JoblibSet ==
  ASSUME StepInv, NEW t, call[t].on \in 1..Opened, NEW v \in Lifecycles, Sets(t, "joblib", v)
  PROVE  \E new \in SessionFields :
           /\ sessions' = [sessions EXCEPT ![call[t].on] = new]
           /\ new.joblib = v /\ new.study = On(t).study /\ new.stored = On(t).stored
           /\ new.count = On(t).count /\ new.finished = On(t).finished
<1> DEFINE s == call[t].on
           new == [sessions[s] EXCEPT !["joblib"] = v]
<1>1. sessions[s] \in SessionFields
  BY SessionTyped DEF StepInv, StepTypeOK
<1>2. new \in SessionFields
  BY <1>1 DEF SessionFields
<1>3. /\ new.joblib = v /\ new.study = sessions[s].study /\ new.stored = sessions[s].stored
      /\ new.count = sessions[s].count /\ new.finished = sessions[s].finished
  BY <1>1 DEF SessionFields
<1>4. sessions' = [sessions EXCEPT ![s] = new]
  BY DEF Sets
<1> HIDE DEF new
<1> QED BY <1>2, <1>3, <1>4 DEF On

LEMMA StudySet ==
  ASSUME StepInv, NEW t, call[t].on \in 1..Opened, NEW v \in Lifecycles, Sets(t, "study", v)
  PROVE  \E new \in SessionFields :
           /\ sessions' = [sessions EXCEPT ![call[t].on] = new]
           /\ new.study = v /\ new.joblib = On(t).joblib /\ new.stored = On(t).stored
           /\ new.count = On(t).count /\ new.finished = On(t).finished
<1> DEFINE s == call[t].on
           new == [sessions[s] EXCEPT !["study"] = v]
<1>1. sessions[s] \in SessionFields
  BY SessionTyped DEF StepInv, StepTypeOK
<1>2. new \in SessionFields
  BY <1>1 DEF SessionFields
<1>3. /\ new.study = v /\ new.joblib = sessions[s].joblib /\ new.stored = sessions[s].stored
      /\ new.count = sessions[s].count /\ new.finished = sessions[s].finished
  BY <1>1 DEF SessionFields
<1>4. sessions' = [sessions EXCEPT ![s] = new]
  BY DEF Sets
<1> HIDE DEF new
<1> QED BY <1>2, <1>3, <1>4 DEF On

(* The end of a cancellation, of either thread: the two session objects learn
   of it, the newest one only when the batch is over. *)
LEMMA CancelEnds ==
  ASSUME StepInv, NEW t \in StepThreads, JoblibCancelled(t) \/ StudyCancelled(t)
  PROVE  StepInv'
<1> DEFINE s == call[t].on
<1>1. Owner \in StepThreads /\ call[t] \in CallFields /\ resuming \in BOOLEAN
  BY DEF StepInv, StepTypeOK, StepThreads
<1>2. OwnerTrue(call[Owner]) /\ CallTrue(call[t]) /\ SessionsTrue
  BY <1>1 DEF StepInv, CallsTrue
<1>3. s \in 1..Opened /\ sessions[s] \in SessionFields
  BY <1>2, SessionTyped DEF CallTrue, JoblibCancelled, StudyCancelled, At, StepInv, StepTypeOK
<1>4. s = Opened => Over
  BY <1>2 DEF CallTrue, JoblibCancelled, StudyCancelled, At
<1>5. Delivered' = Delivered /\ handles' = handles
  BY DEF Delivered, JoblibCancelled, StudyCancelled
<1>6. /\ handles \in SUBSET HandleFields
      /\ \A h \in handles : h.stored \subseteq Delivered /\ ValidHandle(h)
  BY <1>2 DEF StepInv, StepTypeOK, SessionsTrue
<1>7. /\ sessions[s].stored \subseteq Delivered
      /\ sessions[s].count <= Cardinality(Delivered)
      /\ sessions[s].finished => sessions[s].study # "active"
      /\ s < Opened => sessions[s].joblib # "active" /\ sessions[s].stored # Requests
      /\ sessions[Opened].joblib = "suspended" => phase # "running"
      /\ sessions[Opened].joblib \in {"completed", "failed", "cancelled"} => Over
      /\ sessions[Opened].study = "cancelled" => Over
  BY <1>2, <1>3, OpenedNat DEF SessionsTrue
<1>8. ASSUME NEW new \in SessionFields, sessions' = [sessions EXCEPT ![s] = new],
             new.stored = sessions[s].stored, new.count = sessions[s].count,
             new.finished = sessions[s].finished,
             new.study \in {sessions[s].study, "cancelled"},
             new.joblib \in {sessions[s].joblib, "cancelled"},
             UNCHANGED <<phase, delivered, missed, handles>>,
             NEW c, OwnerTrue(c)
      PROVE  OwnerTrue(c)'
  <2>1. /\ Opened' = Opened /\ sessions'[s] = new
        /\ \A r \in 1..Opened : r # s => sessions'[r] = sessions[r]
    BY <1>3, <1>8, SessionChanges DEF StepInv, StepTypeOK
  <2>2. Over' = Over
    BY <1>8 DEF Over
  <2> QED
    BY <1>3, <1>4, <1>5, <1>8, <2>1, <2>2, OpenedNat DEF OwnerTrue, Fits
<1>9. CASE JoblibCancelled(t)
  <2>1. PICK c \in CallFields : /\ call' = [call EXCEPT ![t] = c]
                                /\ c.pc = "study_cancelled" /\ c.name = call[t].name
                                /\ c.on = s /\ c.got = call[t].got
    BY <1>9, CallGoes DEF JoblibCancelled, Stages, CancelStages
  <2>2. PICK new \in SessionFields :
          /\ sessions' = [sessions EXCEPT ![s] = new]
          /\ new.joblib = "cancelled" /\ new.study = sessions[s].study
          /\ new.stored = sessions[s].stored /\ new.count = sessions[s].count
          /\ new.finished = sessions[s].finished
    BY <1>3, <1>9, JoblibSet DEF JoblibCancelled, Lifecycles, On
  <2>3. PICK k : k = call[Owner]
    OBVIOUS
  <2>4. OwnerTrue(k)'
    BY <1>2, <1>5, <1>8, <1>9, <2>2, <2>3 DEF JoblibCancelled
  <2>5. CallTrue(c)
    BY <1>3, <1>4, <2>1 DEF CallTrue
  <2>6. t = Owner => OwnerTrue(c)'
    BY <1>9, <2>1, <2>3, <2>4 DEF OwnerTrue, JoblibCancelled, At, CollectStages, CancelStages, Fits
  <2>7. /\ Opened' = Opened /\ sessions'[s] = new
        /\ \A r \in 1..Opened : r # s => sessions'[r] = sessions[r]
    BY <1>3, <2>2, SessionChanges DEF StepInv, StepTypeOK
  <2>8. TellsTrue' /\ tells' \in Seq([on : Nat, attempts : SUBSET Requests, ok : BOOLEAN])
    BY <1>3, <1>5, <1>9, <2>2, <2>7, OpenedNat, TellsKept DEF JoblibCancelled
  <2> QED
    BY <1>3, <1>4, <1>5, <1>6, <1>7, <1>9, <2>1, <2>2, <2>3, <2>4, <2>5, <2>6, <2>8, SessionMoves
    DEF JoblibCancelled, Lifecycles
<1>10. CASE StudyCancelled(t) /\ call[t].name = "cancel"
  <2>1. Sets(t, "study", "cancelled") /\ call' = [call EXCEPT ![t] = NoCall]
    BY <1>10 DEF StudyCancelled, Returns
  <2>2. PICK new \in SessionFields :
          /\ sessions' = [sessions EXCEPT ![s] = new]
          /\ new.study = "cancelled" /\ new.joblib = sessions[s].joblib
          /\ new.stored = sessions[s].stored /\ new.count = sessions[s].count
          /\ new.finished = sessions[s].finished
    BY <1>3, <2>1, StudySet DEF Lifecycles, On
  <2>3. PICK k : k = call[Owner]
    OBVIOUS
  <2>4. OwnerTrue(k)'
    BY <1>2, <1>5, <1>8, <1>10, <2>2, <2>3 DEF StudyCancelled
  <2>5. NoCall \in CallFields /\ CallTrue(NoCall) /\ NoCall.pc = "idle" /\ NoCall.got = {}
        /\ NoCall.name = "none"
    BY DEF NoCall, CallFields, Stages, CallTrue
  <2>6. t = Owner => OwnerTrue(NoCall)'
    BY <1>10, <2>3, <2>4, <2>5 DEF OwnerTrue, StudyCancelled, At, CollectStages, CancelStages, Fits
  <2>7. /\ Opened' = Opened /\ sessions'[s] = new
        /\ \A r \in 1..Opened : r # s => sessions'[r] = sessions[r]
    BY <1>3, <2>2, SessionChanges DEF StepInv, StepTypeOK
  <2>8. TellsTrue' /\ tells' \in Seq([on : Nat, attempts : SUBSET Requests, ok : BOOLEAN])
    BY <1>3, <1>5, <1>10, <2>2, <2>7, OpenedNat, TellsKept DEF StudyCancelled
  <2> QED
    BY <1>3, <1>4, <1>5, <1>6, <1>7, <1>10, <2>1, <2>2, <2>3, <2>4, <2>5, <2>6, <2>8, SessionMoves
    DEF StudyCancelled, Lifecycles
<1>11. CASE StudyCancelled(t) /\ call[t].name = "batch"
  <2>1. PICK c \in CallFields : /\ call' = [call EXCEPT ![t] = c]
                                /\ c.pc = "returned" /\ c.name = call[t].name
                                /\ c.on = s /\ c.got = call[t].got
    BY <1>11, CallGoes DEF StudyCancelled, Stages
  <2>2. CallTrue(c)
    BY <1>3, <2>1 DEF CallTrue
  <2>3. t = Owner => OwnerTrue(c)
    BY <1>2, <1>4, <1>11, <2>1 DEF OwnerTrue, StudyCancelled, At, CollectStages, CancelStages
  <2> QED BY <1>1, <1>11, <2>1, <2>2, <2>3, CallMoves DEF StudyCancelled
<1>12. CASE StudyCancelled(t) /\ call[t].name \notin {"batch", "cancel"}
  <2>1. UNCHANGED sessions /\ call' = [call EXCEPT ![t] = NoCall]
    BY <1>12 DEF StudyCancelled, Returns
  <2>2. NoCall \in CallFields /\ CallTrue(NoCall)
    BY DEF NoCall, CallFields, Stages, CallTrue
  <2>3. t = Owner => OwnerTrue(NoCall)
    BY <1>12, MayReturn DEF StudyCancelled, At
  <2> QED BY <1>1, <1>12, <2>1, <2>2, <2>3, CallMoves DEF StudyCancelled
<1> QED BY <1>9, <1>10, <1>11, <1>12

(* The owner's steps on the session of its call. *)
LEMMA OwnerSets ==
  ASSUME StepInv, call[Owner].on \in 1..Opened, NEW c \in CallFields,
         call' = [call EXCEPT ![Owner] = c],
         NEW new \in SessionFields, sessions' = [sessions EXCEPT ![call[Owner].on] = new],
         UNCHANGED <<program, phase, delivered, resuming, missed>>,
         handles' = handles \/ \E h \in HandleFields :
           handles' = handles \cup {h} /\ h.stored \subseteq Delivered /\ ValidHandle(h),
         new.stored \subseteq Delivered, new.count <= Cardinality(Delivered),
         new.finished => new.study # "active", On(Owner).finished => new.finished,
         call[Owner].on < Opened => new.joblib # "active" /\ new.stored # Requests,
         call[Owner].on = Opened =>
           /\ new.joblib = "suspended" => phase # "running"
           /\ new.joblib \in {"completed", "failed", "cancelled"} => Over
           /\ new.study = "cancelled" => Over,
         CallTrue(c), OwnerTrue(c)', tells' = tells \/ TellsTrue',
         tells' \in Seq([on : Nat, attempts : SUBSET Requests, ok : BOOLEAN])
  PROVE  StepInv'
<1>1. Owner \in StepThreads /\ Delivered' = Delivered
  BY DEF StepThreads, Delivered
<1>2. /\ handles' \in SUBSET HandleFields
      /\ \A h \in handles' : h.stored \subseteq Delivered /\ ValidHandle(h)
  BY DEF StepInv, StepTypeOK, SessionsTrue
<1>3. /\ Opened' = Opened /\ sessions'[call[Owner].on] = new
      /\ \A r \in 1..Opened : r # call[Owner].on => sessions'[r] = sessions[r]
  BY SessionChanges DEF StepInv, StepTypeOK
<1>4. TellsTrue'
  <2>1. Opened > 0 /\ sessions[Opened].finished => sessions'[Opened].finished
    BY <1>3, OpenedNat DEF On
  <2> QED BY <1>1, <1>3, <2>1, TellsKept
<1>5. PICK k : k = call[Owner]
  OBVIOUS
<1>6. PICK s \in 1..Opened : s = call[Owner].on
  OBVIOUS
<1> QED BY <1>1, <1>2, <1>4, <1>5, <1>6, SessionMoves

(* What the invariant says of the session of the owner's call. *)
LEMMA OwnersSession ==
  ASSUME StepInv, call[Owner].pc \notin {"idle", "resume"}
  PROVE  LET s == call[Owner].on IN
         /\ s \in 1..Opened /\ sessions[s] \in SessionFields
         /\ sessions[s].stored \subseteq Delivered
         /\ sessions[s].count <= Cardinality(Delivered)
         /\ sessions[s].finished => sessions[s].study # "active"
         /\ s < Opened => sessions[s].joblib # "active" /\ sessions[s].stored # Requests
         /\ sessions[Opened].joblib = "suspended" => phase # "running"
         /\ sessions[Opened].joblib \in {"completed", "failed", "cancelled"} => Over
         /\ sessions[Opened].study = "cancelled" => Over
         /\ OwnerTrue(call[Owner]) /\ CallTrue(call[Owner])
         /\ tells \in Seq([on : Nat, attempts : SUBSET Requests, ok : BOOLEAN])
<1>1. Owner \in StepThreads
  BY DEF StepThreads
<1>2. OwnerTrue(call[Owner]) /\ CallTrue(call[Owner]) /\ SessionsTrue
  BY <1>1 DEF StepInv, CallsTrue
<1>3. call[Owner].on \in 1..Opened
  BY <1>2 DEF CallTrue
<1>4. sessions[call[Owner].on] \in SessionFields
  BY <1>3, SessionTyped DEF StepInv, StepTypeOK
<1>5. Opened > 0 /\ Opened \in Nat
  BY <1>3, OpenedNat
<1>6. tells \in Seq([on : Nat, attempts : SUBSET Requests, ok : BOOLEAN])
  BY DEF StepInv, StepTypeOK
<1> QED BY <1>2, <1>3, <1>4, <1>5, <1>6 DEF SessionsTrue

(* Where an owner that has nothing in its hands is when its call returns. *)
LEMMA ReturnsTrue ==
  ASSUME StepInv, call[Owner].pc \notin {"idle", "resume"}, Delivered' = Delivered,
         NEW new, sessions' = [sessions EXCEPT ![call[Owner].on] = new], new \in SessionFields,
         UNCHANGED phase,
         call[Owner].on = Opened /\ phase = "parked" => new.joblib # "active",
         call[Owner].on = Opened /\ phase \in {"running", "parked"} => new.stored = Delivered,
         call[Owner].pc \notin {"joblib_record", "study_record"} \/ call[Owner].got \subseteq new.stored,
         call[Owner].pc \notin CancelStages \cup {"returned"},
         call[Owner].on # Opened => call[Owner].pc \notin {"parked", "joblib_suspend"}
  PROVE  OwnerTrue(NoCall)' /\ CallTrue(NoCall) /\ NoCall \in CallFields
<1>1. NoCall \in CallFields /\ CallTrue(NoCall) /\ NoCall.pc = "idle" /\ NoCall.got = {}
      /\ NoCall.name = "none" /\ NoCall.on = 0
  BY DEF NoCall, CallFields, Stages, CallTrue
<1>2. call[Owner].on \in 1..Opened /\ OwnerTrue(call[Owner])
  BY OwnersSession
<1>3. /\ Opened' = Opened /\ sessions'[call[Owner].on] = new
      /\ \A r \in 1..Opened : r # call[Owner].on => sessions'[r] = sessions[r]
  BY <1>2, SessionChanges DEF StepInv, StepTypeOK
<1>4. CASE call[Owner].on = Opened
  BY <1>1, <1>3, <1>4 DEF OwnerTrue, CollectStages
<1>5. CASE call[Owner].on # Opened
  <2>1. sessions'[Opened] = sessions[Opened] /\ call[Owner].got = {}
    BY <1>2, <1>3, <1>5, OpenedNat DEF OwnerTrue
  <2> QED BY <1>1, <1>2, <1>3, <1>5, <2>1 DEF OwnerTrue, CollectStages
<1> QED BY <1>1, <1>4, <1>5

LEMMA RaisingKeeps ==
  ASSUME StepInv, StudyRaises
  PROVE  StepInv'
<1> DEFINE s == call[Owner].on
<1>1. call[Owner].pc = "raises"
  BY DEF StudyRaises, At
<1>2. /\ s \in 1..Opened /\ sessions[s] \in SessionFields
      /\ OwnerTrue(call[Owner]) /\ Delivered' = Delivered
  BY <1>1, OwnersSession DEF StudyRaises, Delivered
<1>3. call[Owner].kind \in {"failed", "cancelled"} /\ phase \in {"failed", "cancelled"}
  BY <1>1, <1>2 DEF OwnerTrue
<1>4. PICK new \in SessionFields :
        /\ sessions' = [sessions EXCEPT ![s] = new]
        /\ new.study = call[Owner].kind /\ new.joblib = sessions[s].joblib
        /\ new.stored = sessions[s].stored /\ new.count = sessions[s].count
        /\ new.finished = sessions[s].finished
  BY <1>2, <1>3, StudySet DEF StudyRaises, Lifecycles, On
<1>5. call[Owner].pc \notin CancelStages \cup {"returned"}
  BY <1>1 DEF CancelStages
<1>6. OwnerTrue(NoCall)' /\ CallTrue(NoCall) /\ NoCall \in CallFields
  BY <1>1, <1>2, <1>3, <1>4, <1>5, ReturnsTrue DEF StudyRaises
<1> QED
  BY <1>1, <1>2, <1>3, <1>4, <1>6, OwnersSession, OwnerSets DEF StudyRaises, Returns, On, Over

(* The joblib session counts what the call has: it completes with the batch. *)
LEMMA JoblibRecordKeeps ==
  ASSUME StepInv, JoblibRecord
  PROVE  StepInv'
<1> DEFINE s == call[Owner].on
           count == sessions[s].count + Cardinality(call[Owner].got)
           new == [sessions[s] EXCEPT !.count = count,
                     !.joblib = IF count >= Cardinality(Requests) THEN "completed" ELSE @]
<1>1. call[Owner].pc = "joblib_record"
  BY DEF JoblibRecord, At
<1>2. /\ s \in 1..Opened /\ sessions[s] \in SessionFields
      /\ OwnerTrue(call[Owner]) /\ Delivered' = Delivered
  BY <1>1, OwnersSession DEF JoblibRecord, Delivered
<1>3. s = Opened /\ sessions[s].count < Cardinality(Delivered) /\ Cardinality(call[Owner].got) = 1
  <2>1. s = Opened /\ sessions[s].count < Cardinality(Delivered)
        /\ \E i \in Requests : call[Owner].got = {i}
    BY <1>1, <1>2 DEF OwnerTrue
  <2> QED BY <2>1, FS_Singleton
<1>4. count \in Nat /\ count <= Cardinality(Delivered)
  BY <1>2, <1>3, DeliveredFinite DEF SessionFields
<1>5. count >= Cardinality(Requests) => Over
  <2> HIDE DEF count
  <2> SUFFICES ASSUME count >= Cardinality(Requests)
               PROVE  Over
    OBVIOUS
  <2>1. Delivered = Requests
    BY <1>4, DeliveredFinite
  <2>2. phase \notin {"new", "running", "parked"} /\ phase \in Batch!Phases
    BY <2>1 DEF StepInv, BatchTrue, StepTypeOK
  <2> QED BY <2>2 DEF Over, Batch!Phases
<1>6. new \in SessionFields /\ new.study = sessions[s].study /\ new.stored = sessions[s].stored
      /\ new.count = count /\ new.finished = sessions[s].finished
      /\ new.joblib = IF count >= Cardinality(Requests) THEN "completed" ELSE sessions[s].joblib
  <2> HIDE DEF count
  <2>1. new \in SessionFields
    BY <1>2, <1>4 DEF SessionFields, Lifecycles
  <2>2. new.study = sessions[s].study /\ new.stored = sessions[s].stored
        /\ new.count = count /\ new.finished = sessions[s].finished
        /\ new.joblib = IF count >= Cardinality(Requests) THEN "completed" ELSE sessions[s].joblib
    BY <1>2 DEF SessionFields
  <2> QED BY <2>1, <2>2
<1>7. sessions' = [sessions EXCEPT ![s] = new]
  BY <1>2 DEF JoblibRecord, On, StepInv, StepTypeOK
<1>8. PICK c \in CallFields : /\ call' = [call EXCEPT ![Owner] = c]
                              /\ c.pc = "study_record" /\ c.name = call[Owner].name
                              /\ c.on = s /\ c.got = call[Owner].got
  BY CallGoes DEF JoblibRecord, Stages, CollectStages, StepThreads
<1> HIDE DEF new, count
<1>9. CallTrue(c)
  BY <1>2, <1>8 DEF CallTrue
<1>10. Opened' = Opened /\ sessions'[s] = new
  BY <1>2, <1>6, <1>7, SessionChanges DEF StepInv, StepTypeOK
<1>11. OwnerTrue(c)'
  <2>1. UNCHANGED <<phase, handles>>
    BY DEF JoblibRecord
  <2>2. phase = "parked" => new.joblib # "active"
    BY <1>1, <1>2, <1>3, <1>6 DEF OwnerTrue
  <2> QED BY <1>1, <1>2, <1>3, <1>6, <1>8, <1>10, <2>1, <2>2 DEF OwnerTrue, CollectStages
<1> QED
  BY <1>1, <1>2, <1>3, <1>4, <1>5, <1>6, <1>7, <1>8, <1>9, <1>11, OwnersSession, OwnerSets, ZenonT(30)
  DEF JoblibRecord, On

(* The study stores what the call has, or finds it stored already. *)
LEMMA StudyRecordKeeps ==
  ASSUME StepInv, StudyRecord
  PROVE  StepInv'
<1> DEFINE s == call[Owner].on
           stored == sessions[s].stored \cup call[Owner].got
<1>1. call[Owner].pc = "study_record" /\ call[Owner].name # "batch"
  BY DEF StudyRecord, At
<1>2. /\ s \in 1..Opened /\ sessions[s] \in SessionFields
      /\ OwnerTrue(call[Owner]) /\ Delivered' = Delivered
      /\ UNCHANGED <<program, phase, delivered, resuming, missed, handles, tells>>
  BY <1>1, OwnersSession DEF StudyRecord, Delivered
<1>3. s = Opened /\ (\E i \in Requests : call[Owner].got = {i}) /\ call[Owner].got \subseteq Delivered
      /\ ~sessions[s].finished
  BY <1>1, <1>2 DEF OwnerTrue, CollectStages
<1>4. CASE Overlaps
  <2>1. call[Owner].got \subseteq sessions[s].stored
    BY <1>3, <1>4 DEF Overlaps, On
  <2>2. PICK new \in SessionFields :
          /\ sessions' = [sessions EXCEPT ![s] = new]
          /\ new.study = "failed" /\ new.joblib = sessions[s].joblib
          /\ new.stored = sessions[s].stored /\ new.count = sessions[s].count
          /\ new.finished = sessions[s].finished
    BY <1>2, <1>4, StudySet DEF StudyRecord, Lifecycles, On
  <2>3. PICK c \in CallFields : /\ call' = [call EXCEPT ![Owner] = c]
                                /\ c.pc = "cancel_reads" /\ c.name = call[Owner].name
                                /\ c.on = s /\ c.got = call[Owner].got
    BY <1>4, CallGoes DEF StudyRecord, Stages, CancelStages, StepThreads
  <2>4. CallTrue(c)
    BY <1>2, <2>3 DEF CallTrue
  <2>5. Opened' = Opened /\ sessions'[s] = new
    BY <1>2, <2>2, SessionChanges DEF StepInv, StepTypeOK
  <2>6. OwnerTrue(c)'
    BY <1>1, <1>2, <1>3, <2>1, <2>2, <2>3, <2>5 DEF OwnerTrue, CollectStages, CancelStages
  <2> QED
    BY <1>1, <1>2, <1>3, <2>2, <2>3, <2>4, <2>6, OwnersSession, OwnerSets DEF On
<1>5. CASE ~Overlaps
  <2> DEFINE study == IF stored = Requests THEN "completed" ELSE sessions[s].study
             recorded == [sessions[s] EXCEPT !.stored = stored, !.study = study]
  <2>1. sessions' = [sessions EXCEPT ![s] = recorded]
    BY <1>2, <1>5 DEF StudyRecord, On, StepInv, StepTypeOK
  <2>2. stored \in SUBSET Requests /\ stored \subseteq Delivered /\ study \in Lifecycles
    BY <1>2, <1>3, <1>1, OwnersSession, DeliveredFinite DEF SessionFields, Lifecycles
  <2> HIDE DEF stored
  <2>3. PICK new \in SessionFields :
          /\ sessions' = [sessions EXCEPT ![s] = new]
          /\ new.stored = stored /\ new.study = study
          /\ new.joblib = sessions[s].joblib /\ new.count = sessions[s].count
          /\ new.finished = sessions[s].finished
    <3> HIDE DEF study
    <3>1. /\ recorded \in SessionFields /\ recorded.stored = stored /\ recorded.study = study
          /\ recorded.joblib = sessions[s].joblib /\ recorded.count = sessions[s].count
          /\ recorded.finished = sessions[s].finished
      BY <1>2, <2>2 DEF SessionFields
    <3> HIDE DEF recorded
    <3> QED BY <2>1, <3>1
  <2>4. study = "cancelled" => sessions[s].study = "cancelled"
    OBVIOUS
  <2> HIDE DEF study
  <2>5. Opened' = Opened /\ sessions'[s] = new
    BY <1>2, <2>3, SessionChanges DEF StepInv, StepTypeOK
  <2>6. ASSUME NEW c \in CallFields, OwnerTrue(c)', CallTrue(c), call' = [call EXCEPT ![Owner] = c]
        PROVE  StepInv'
    <3>1. /\ new.stored \subseteq Delivered /\ new.count <= Cardinality(Delivered)
          /\ new.finished => new.study # "active"
          /\ sessions[s].finished => new.finished
          /\ ~(s < Opened)
      BY <1>1, <1>2, <1>3, <2>2, <2>3, OwnersSession, OpenedNat
    <3>2. /\ new.joblib = "suspended" => phase # "running"
          /\ new.joblib \in {"completed", "failed", "cancelled"} => Over
          /\ new.study = "cancelled" => Over
      BY <1>1, <1>3, <2>3, <2>4, OwnersSession
    <3>3. tells' \in Seq([on : Nat, attempts : SUBSET Requests, ok : BOOLEAN])
      BY <1>2 DEF StepInv, StepTypeOK
    <3> QED BY <1>2, <2>3, <2>6, <3>1, <3>2, <3>3, OwnerSets DEF On
  <2>7. /\ Opened > 0 /\ phase \in {"running", "parked"} => stored = Delivered
        /\ phase = "parked" => new.joblib # "active"
    BY <1>1, <1>2, <1>3, <2>3 DEF OwnerTrue, stored
  <2>8. CASE call[Owner].name # "finish"
    <3>1. OwnerTrue(NoCall)' /\ CallTrue(NoCall) /\ NoCall \in CallFields
      <4>1. call[Owner].got \subseteq new.stored /\ call[Owner].pc \notin CancelStages \cup {"returned"}
        BY <1>1, <2>3 DEF CancelStages, stored
      <4>2. phase \in {"running", "parked"} => new.stored = Delivered
        BY <1>2, <2>3, <2>7, OpenedNat
      <4> QED BY <1>1, <1>2, <1>3, <2>3, <2>7, <4>1, <4>2, ReturnsTrue
    <3> QED BY <1>5, <2>6, <2>8, <3>1 DEF StudyRecord, Returns
  <2>9. CASE call[Owner].name = "finish"
    <3>1. PICK c \in CallFields :
            /\ call' = [call EXCEPT ![Owner] = c]
            /\ c.pc = IF sessions'[s].study = "active" THEN "collect" ELSE "assimilate"
            /\ c.name = "finish" /\ c.on = s /\ c.got = call[Owner].got
      BY <1>5, <2>9, CallGoes DEF StudyRecord, Stages, CollectStages, StepThreads
    <3>2. CallTrue(c)
      BY <1>2, <3>1 DEF CallTrue
    <3>3. call[Owner].got \subseteq new.stored
      BY <2>3 DEF stored
    <3>4. OwnerTrue(c)'
      BY <1>1, <1>2, <1>3, <2>3, <2>5, <2>7, <3>1, <3>3 DEF OwnerTrue, CollectStages
    <3> QED BY <2>6, <3>1, <3>2, <3>4
  <2> QED BY <2>8, <2>9
<1> QED BY <1>4, <1>5

(* A batch that reported every request is over. *)
LEMMA AllDelivered ==
  ASSUME StepInv, Delivered = Requests
  PROVE  Over
<1>1. phase \notin {"new", "running", "parked"} /\ phase \in Batch!Phases
  BY DEF StepInv, BatchTrue, StepTypeOK
<1> QED BY <1>1 DEF Over, Batch!Phases

LEMMA BatchRecordKeeps ==
  ASSUME StepInv, BatchRecord
  PROVE  StepInv'
<1> DEFINE s == call[Owner].on
           stored == sessions[s].stored \cup call[Owner].got
<1>1. call[Owner].pc = "study_record" /\ call[Owner].name = "batch"
  BY DEF BatchRecord, At
<1>2. /\ s \in 1..Opened /\ sessions[s] \in SessionFields
      /\ OwnerTrue(call[Owner]) /\ Delivered' = Delivered
      /\ UNCHANGED <<program, phase, delivered, resuming, missed, handles, tells>>
  BY <1>1, OwnersSession DEF BatchRecord, Delivered
<1>3. s = Opened /\ call[Owner].got \subseteq Delivered /\ ~sessions[s].finished
  BY <1>1, <1>2 DEF OwnerTrue, CollectStages
<1>4. CASE Overlaps
  <2>1. PICK c \in CallFields : /\ call' = [call EXCEPT ![Owner] = c]
                                /\ c.pc = "cancel_reads" /\ c.name = call[Owner].name
                                /\ c.on = s /\ c.got = call[Owner].got
    BY <1>4, CallGoes DEF BatchRecord, Stages, CancelStages, StepThreads
  <2>2. CallTrue(c)
    BY <1>2, <2>1 DEF CallTrue
  <2>3. OwnerTrue(c)
    BY <1>1, <1>2, <2>1 DEF OwnerTrue, CollectStages, CancelStages
  <2>4. resuming' \in BOOLEAN /\ Owner \in StepThreads /\ UNCHANGED sessions
    BY <1>2, <1>4 DEF StepInv, StepTypeOK, StepThreads, BatchRecord
  <2> QED BY <1>2, <2>1, <2>2, <2>3, <2>4, CallMoves
<1>5. CASE ~Overlaps
  <2> DEFINE recorded == [sessions[s] EXCEPT !["stored"] = stored]
  <2>1. sessions' = [sessions EXCEPT ![s] = recorded]
    BY <1>2, <1>5 DEF BatchRecord, On, Sets, StepInv, StepTypeOK
  <2>2. stored \in SUBSET Requests /\ stored \subseteq Delivered
    BY <1>2, <1>3, <1>1, OwnersSession, DeliveredFinite DEF SessionFields
  <2>3. PICK new \in SessionFields :
          /\ sessions' = [sessions EXCEPT ![s] = new]
          /\ new.stored = stored /\ new.study = sessions[s].study
          /\ new.joblib = sessions[s].joblib /\ new.count = sessions[s].count
          /\ new.finished = sessions[s].finished
    <3> HIDE DEF stored
    <3>1. /\ recorded \in SessionFields /\ recorded.stored = stored
          /\ recorded.study = sessions[s].study
          /\ recorded.joblib = sessions[s].joblib /\ recorded.count = sessions[s].count
          /\ recorded.finished = sessions[s].finished
      BY <1>2, <2>2 DEF SessionFields
    <3> HIDE DEF recorded
    <3> QED BY <2>1, <3>1
  <2>4. PICK c \in CallFields :
          /\ call' = [call EXCEPT ![Owner] = c]
          /\ c.pc = IF stored = Requests THEN "returned" ELSE "collect"
          /\ c.name = "batch" /\ c.on = s /\ c.got = call[Owner].got
    BY <1>1, <1>5, CallGoes DEF BatchRecord, Stages, CollectStages, StepThreads, On
  <2>5. CallTrue(c)
    BY <1>2, <2>4 DEF CallTrue
  <2>6. Opened' = Opened /\ sessions'[s] = new
    BY <1>2, <2>3, SessionChanges DEF StepInv, StepTypeOK
  <2>7. stored = Requests => Over /\ Over'
    <3>1. Over' = Over
      BY <1>2 DEF Over
    <3> QED BY <2>2, <3>1, AllDelivered, DeliveredFinite
  <2>8. /\ phase \in {"running", "parked"} => stored = Delivered
        /\ phase = "parked" => new.joblib # "active"
    BY <1>1, <1>2, <1>3, <2>3, OpenedNat DEF OwnerTrue
  <2>9. call[Owner].got \subseteq new.stored
    BY <2>3
  <2> HIDE DEF stored
  <2>10. OwnerTrue(c)'
    BY <1>1, <1>2, <1>3, <2>2, <2>3, <2>4, <2>6, <2>7, <2>8, <2>9 DEF OwnerTrue, CollectStages
  <2>11. /\ new.stored \subseteq Delivered /\ new.count <= Cardinality(Delivered)
         /\ new.finished => new.study # "active"
         /\ sessions[s].finished => new.finished
         /\ ~(s < Opened)
    BY <1>1, <1>2, <1>3, <2>2, <2>3, OwnersSession, OpenedNat
  <2>12. /\ new.joblib = "suspended" => phase # "running"
         /\ new.joblib \in {"completed", "failed", "cancelled"} => Over
         /\ new.study = "cancelled" => Over
    BY <1>1, <1>3, <2>3, OwnersSession
  <2>13. tells' \in Seq([on : Nat, attempts : SUBSET Requests, ok : BOOLEAN])
    BY <1>2 DEF StepInv, StepTypeOK
  <2> QED BY <1>2, <2>3, <2>4, <2>5, <2>10, <2>11, <2>12, <2>13, OwnerSets DEF On
<1> QED BY <1>4, <1>5

-----------------------------------------------------------------------------
(* Suspending: the batch is parked, then the evaluator's session says so, then
   the study's, which gives its handle out. *)
LEMMA SuspendReturnsKeeps ==
  ASSUME StepInv, SuspendReturns
  PROVE  StepInv'
<1> DEFINE s == call[Owner].on
<1>1. call[Owner].pc = "parked"
  BY DEF SuspendReturns, At
<1>2. /\ s \in 1..Opened /\ sessions[s] \in SessionFields
      /\ OwnerTrue(call[Owner]) /\ Delivered' = Delivered
      /\ UNCHANGED <<program, phase, delivered, resuming, missed, handles, tells>>
  BY <1>1, OwnersSession DEF SuspendReturns, Delivered
<1>3. s = Opened /\ phase \in {"parked", "cancelled"}
  BY <1>1, <1>2 DEF OwnerTrue
<1>4. CASE phase = "parked"
  <2>1. PICK c \in CallFields : /\ call' = [call EXCEPT ![Owner] = c]
                                /\ c.pc = "joblib_suspend" /\ c.name = call[Owner].name
                                /\ c.on = s /\ c.got = call[Owner].got
    BY <1>4, CallGoes DEF SuspendReturns, Stages, StepThreads
  <2>2. CallTrue(c)
    BY <1>2, <2>1 DEF CallTrue
  <2>3. OwnerTrue(c)
    BY <1>1, <1>2, <2>1 DEF OwnerTrue, CollectStages, CancelStages
  <2>4. resuming' \in BOOLEAN /\ Owner \in StepThreads /\ UNCHANGED sessions
    BY <1>2, <1>4 DEF StepInv, StepTypeOK, StepThreads, SuspendReturns
  <2> QED BY <1>2, <2>1, <2>2, <2>3, <2>4, CallMoves
<1>5. CASE phase # "parked"
  <2>1. PICK new \in SessionFields :
          /\ sessions' = [sessions EXCEPT ![s] = new]
          /\ new.joblib = "cancelled" /\ new.study = sessions[s].study
          /\ new.stored = sessions[s].stored /\ new.count = sessions[s].count
          /\ new.finished = sessions[s].finished
    BY <1>2, <1>5, JoblibSet DEF SuspendReturns, Lifecycles, On
  <2>2. OwnerTrue(NoCall)' /\ CallTrue(NoCall) /\ NoCall \in CallFields
    BY <1>1, <1>2, <1>3, <1>5, <2>1, ReturnsTrue DEF CancelStages
  <2>3. Over
    BY <1>3, <1>5 DEF Over
  <2>4. tells' \in Seq([on : Nat, attempts : SUBSET Requests, ok : BOOLEAN])
    BY <1>2 DEF StepInv, StepTypeOK
  <2>5. call' = [call EXCEPT ![Owner] = NoCall]
    BY <1>5 DEF SuspendReturns, Returns
  <2>6. ~(s < Opened)
    BY <1>3, OpenedNat
  <2> QED BY <1>1, <1>2, <1>3, <2>1, <2>2, <2>3, <2>4, <2>5, <2>6, OwnersSession, OwnerSets DEF On
<1> QED BY <1>4, <1>5

LEMMA SuspendJoblibKeeps ==
  ASSUME StepInv, SuspendJoblib
  PROVE  StepInv'
<1> DEFINE s == call[Owner].on
           count == Cardinality(Delivered)
           suspended == [sessions[s] EXCEPT !.count = count, !.joblib = "suspended"]
<1>1. call[Owner].pc = "joblib_suspend"
  BY DEF SuspendJoblib, At
<1>2. /\ s \in 1..Opened /\ sessions[s] \in SessionFields
      /\ OwnerTrue(call[Owner]) /\ Delivered' = Delivered
      /\ UNCHANGED <<program, phase, delivered, resuming, missed, handles, tells>>
  BY <1>1, OwnersSession DEF SuspendJoblib, Delivered
<1>3. s = Opened /\ phase \in {"parked", "cancelled"}
  BY <1>1, <1>2 DEF OwnerTrue
<1>4. sessions' = [sessions EXCEPT ![s] = suspended]
  BY <1>2 DEF SuspendJoblib, StepInv, StepTypeOK
<1>5. count \in Nat
  BY DeliveredFinite
<1> HIDE DEF count
<1>6. PICK new \in SessionFields :
        /\ sessions' = [sessions EXCEPT ![s] = new]
        /\ new.joblib = "suspended" /\ new.study = sessions[s].study
        /\ new.stored = sessions[s].stored /\ new.count = count
        /\ new.finished = sessions[s].finished
  <2>1. /\ suspended \in SessionFields
        /\ suspended.joblib = "suspended" /\ suspended.study = sessions[s].study
        /\ suspended.stored = sessions[s].stored /\ suspended.count = count
        /\ suspended.finished = sessions[s].finished
    BY <1>2, <1>5 DEF SessionFields, Lifecycles
  <2> HIDE DEF suspended
  <2> QED BY <1>4, <2>1
<1>7. PICK c \in CallFields : /\ call' = [call EXCEPT ![Owner] = c]
                              /\ c.pc = "study_suspend" /\ c.name = call[Owner].name
                              /\ c.on = s /\ c.got = call[Owner].got
  BY CallGoes DEF SuspendJoblib, Stages, StepThreads
<1>8. CallTrue(c)
  BY <1>2, <1>7 DEF CallTrue
<1>9. Opened' = Opened /\ sessions'[s] = new
  BY <1>2, <1>6, SessionChanges DEF StepInv, StepTypeOK
<1>10. OwnerTrue(c)'
  BY <1>1, <1>2, <1>3, <1>6, <1>7, <1>9 DEF OwnerTrue, CollectStages, CancelStages
<1>11. tells' \in Seq([on : Nat, attempts : SUBSET Requests, ok : BOOLEAN])
  BY <1>2 DEF StepInv, StepTypeOK
<1>12. /\ new.stored \subseteq Delivered /\ new.count <= Cardinality(Delivered)
       /\ new.finished => new.study # "active"
       /\ sessions[s].finished => new.finished
       /\ ~(s < Opened)
       /\ new.study = "cancelled" => Over
  BY <1>1, <1>2, <1>3, <1>5, <1>6, OwnersSession, OpenedNat DEF count
<1> QED BY <1>2, <1>3, <1>6, <1>7, <1>8, <1>10, <1>11, <1>12, OwnerSets DEF On

LEMMA SuspendStudyKeeps ==
  ASSUME StepInv, SuspendStudy
  PROVE  StepInv'
<1> DEFINE s == call[Owner].on
<1>1. call[Owner].pc = "study_suspend"
  BY DEF SuspendStudy, At
<1>2. /\ s \in 1..Opened /\ sessions[s] \in SessionFields
      /\ OwnerTrue(call[Owner]) /\ Delivered' = Delivered
      /\ UNCHANGED <<program, phase, delivered, resuming, missed, tells>>
  BY <1>1, OwnersSession DEF SuspendStudy, Delivered
<1>3. PICK new \in SessionFields :
        /\ sessions' = [sessions EXCEPT ![s] = new]
        /\ new.study = "suspended" /\ new.joblib = sessions[s].joblib
        /\ new.stored = sessions[s].stored /\ new.count = sessions[s].count
        /\ new.finished = sessions[s].finished
  BY <1>2, StudySet DEF SuspendStudy, Lifecycles, On
<1>4. handles' = handles \/ \E h \in HandleFields :
        handles' = handles \cup {h} /\ h.stored \subseteq Delivered /\ ValidHandle(h)
  <2> DEFINE h == HandleOf(s)
  <2>1. h \in HandleFields /\ h.stored \subseteq Delivered
    BY <1>1, <1>2, OwnersSession DEF HandleOf, HandleFields, SessionFields
  <2>2. handles' = handles \cup {k \in {h} : ValidHandle(k)}
    BY DEF SuspendStudy
  <2> HIDE DEF h
  <2>3. CASE ValidHandle(h)
    BY <2>1, <2>2, <2>3
  <2>4. CASE ~ValidHandle(h)
    BY <2>2, <2>4
  <2> QED BY <2>3, <2>4
<1>5. OwnerTrue(NoCall)' /\ CallTrue(NoCall) /\ NoCall \in CallFields
  <2>1. /\ s = Opened /\ phase = "parked" => new.joblib # "active"
        /\ s = Opened /\ phase \in {"running", "parked"} => new.stored = Delivered
    BY <1>1, <1>2, <1>3, OpenedNat, SMTT(20) DEF OwnerTrue, CancelStages
  <2> QED BY <1>1, <1>2, <1>3, <2>1, ReturnsTrue DEF CancelStages
<1>6. tells' \in Seq([on : Nat, attempts : SUBSET Requests, ok : BOOLEAN])
  BY <1>2 DEF StepInv, StepTypeOK
<1>7. call' = [call EXCEPT ![Owner] = NoCall]
  BY DEF SuspendStudy, Returns
<1> QED BY <1>1, <1>2, <1>3, <1>4, <1>5, <1>6, <1>7, OwnersSession, OwnerSets DEF On

(* The assimilation: told once, with every attempt, on the newest session. *)
LEMMA AssimilateKeeps ==
  ASSUME StepInv, Assimilate
  PROVE  StepInv'
<1> DEFINE s == call[Owner].on
<1>1. call[Owner].pc = "assimilate" /\ call' = [call EXCEPT ![Owner] = NoCall]
  BY DEF Assimilate, At, Returns
<1>2. /\ s \in 1..Opened /\ sessions[s] \in SessionFields
      /\ OwnerTrue(call[Owner]) /\ Delivered' = Delivered
      /\ UNCHANGED <<program, phase, delivered, resuming, missed, handles>>
  BY <1>1, OwnersSession DEF Assimilate, Delivered
<1>3. CASE UNCHANGED <<sessions, tells>>
  <2>1. OwnerTrue(NoCall) /\ CallTrue(NoCall) /\ NoCall \in CallFields
    BY <1>1, MayReturn DEF CancelStages
  <2>2. resuming' \in BOOLEAN /\ Owner \in StepThreads
    BY <1>2 DEF StepInv, StepTypeOK, StepThreads
  <2> QED BY <1>1, <1>2, <1>3, <2>1, <2>2, CallMoves
<1>4. ASSUME NEW ok \in BOOLEAN, sessions[s].stored = Requests,
             tells' = Append(tells, [on |-> s, attempts |-> sessions[s].stored, ok |-> ok]),
             IF ok THEN Sets(Owner, "finished", TRUE) ELSE UNCHANGED sessions
      PROVE  StepInv'
  <2>1. s = Opened /\ Delivered = Requests
    <3>1. sessions[s].stored \subseteq Delivered /\ ~(s < Opened)
      BY <1>1, <1>4, OwnersSession
    <3>2. s = Opened
      BY <1>2, <3>1, OpenedNat
    <3>3. Delivered = Requests
      BY <1>4, <3>1, DeliveredFinite
    <3> QED BY <3>2, <3>3
  <2>2. ~sessions[s].finished /\ sessions[s].study # "active"
    BY <1>1, <1>2 DEF OwnerTrue
  <2> DEFINE finished == [sessions[s] EXCEPT !["finished"] = ok]
  <2>3. sessions' = [sessions EXCEPT ![s] = finished]
    <3>1. CASE ok
      BY <1>2, <1>4, <3>1 DEF Sets, StepInv, StepTypeOK
    <3>2. CASE ~ok
      <4>1. finished = sessions[s]
        BY <1>2, <2>2, <3>2 DEF SessionFields
      <4> HIDE DEF finished
      <4> QED BY <1>2, <1>4, <3>2, <4>1 DEF StepInv, StepTypeOK
    <3> QED BY <3>1, <3>2
  <2>4. PICK new \in SessionFields :
          /\ sessions' = [sessions EXCEPT ![s] = new]
          /\ new.joblib = sessions[s].joblib /\ new.study = sessions[s].study
          /\ new.stored = sessions[s].stored /\ new.count = sessions[s].count
          /\ new.finished = ok
    <3>1. /\ finished \in SessionFields
          /\ finished.joblib = sessions[s].joblib /\ finished.study = sessions[s].study
          /\ finished.stored = sessions[s].stored /\ finished.count = sessions[s].count
          /\ finished.finished = ok
      BY <1>2 DEF SessionFields
    <3> HIDE DEF finished
    <3> QED BY <2>3, <3>1
  <2>5. OwnerTrue(NoCall)' /\ CallTrue(NoCall) /\ NoCall \in CallFields
    <3>1. /\ phase = "parked" => new.joblib # "active"
          /\ phase \in {"running", "parked"} => new.stored = Delivered
      BY <1>1, <1>2, <1>4, <2>1, <2>4, OpenedNat DEF OwnerTrue
    <3> QED BY <1>1, <1>2, <2>1, <2>4, <3>1, ReturnsTrue DEF CancelStages
  <2>6. tells \in Seq([on : Nat, attempts : SUBSET Requests, ok : BOOLEAN])
        /\ [on |-> s, attempts |-> sessions[s].stored, ok |-> ok]
              \in [on : Nat, attempts : SUBSET Requests, ok : BOOLEAN]
    BY <1>2, <1>4, OpenedNat DEF StepInv, StepTypeOK
  <2>7. /\ tells' \in Seq([on : Nat, attempts : SUBSET Requests, ok : BOOLEAN])
        /\ Len(tells') = Len(tells) + 1 /\ Len(tells) \in Nat
        /\ tells'[Len(tells) + 1] = [on |-> s, attempts |-> sessions[s].stored, ok |-> ok]
        /\ \A n \in 1..Len(tells) : tells'[n] = tells[n]
    BY <1>4, <2>6, AppendProperties, LenProperties
  <2>8. Opened' = Opened /\ sessions'[s] = new
    BY <1>2, <2>4, SessionChanges DEF StepInv, StepTypeOK
  <2>9. TellsTrue'
    <3>1. \A n \in 1..Len(tells) : ~tells[n].ok /\ tells[n].attempts = Requests /\ tells[n].on = Opened
      BY <2>1, <2>2 DEF StepInv, TellsTrue, ToldOnce
    <3>2. \A n \in 1..Len(tells') : tells'[n].attempts = Requests /\ tells'[n].on = Opened
      BY <1>4, <2>1, <2>7, <3>1
    <3>3. \A n \in 1..Len(tells') : tells'[n].ok => n = Len(tells')
      BY <2>7, <3>1
    <3>4. (\E n \in 1..Len(tells') : tells'[n].ok) => ok
      BY <2>7, <3>1
    <3> QED BY <1>2, <2>1, <2>4, <2>8, <3>2, <3>3, <3>4 DEF TellsTrue, ToldOnce
  <2>10. /\ new.stored \subseteq Delivered /\ new.count <= Cardinality(Delivered)
         /\ new.finished => new.study # "active"
         /\ sessions[s].finished => new.finished
         /\ ~(s < Opened)
         /\ new.joblib = "suspended" => phase # "running"
         /\ new.joblib \in {"completed", "failed", "cancelled"} => Over
         /\ new.study = "cancelled" => Over
    BY <1>1, <1>2, <2>1, <2>2, <2>4, OwnersSession, OpenedNat
  <2> QED BY <1>1, <1>2, <2>4, <2>5, <2>7, <2>9, <2>10, OwnerSets DEF On
<1> QED BY <1>3, <1>4 DEF Assimilate, On

-----------------------------------------------------------------------------
(* The batch in the evaluator, for a step that leaves the sessions alone and
   moves one thread: a batch that is over, or slipped through, stays so. *)
LEMMA BatchMoves ==
  ASSUME StepInv, NEW t \in StepThreads, NEW c \in CallFields, call' = [call EXCEPT ![t] = c],
         UNCHANGED <<program, delivered, resuming, sessions, handles, tells>>,
         missed' \in BOOLEAN, phase' \in Batch!Phases, Over => Over',
         phase # "running" => phase' # "running", phase' = "new" <=> phase = "new",
         phase' \in {"running", "parked"} => phase \in {"running", "parked"},
         CallTrue(c)', t = Owner => OwnerTrue(c)', NEW k, k = call[Owner], t # Owner => OwnerTrue(k)'
  PROVE  StepInv'
<1>1. call'[t] = c /\ \A u \in StepThreads : u # t => call'[u] = call[u]
  BY DEF StepInv, StepTypeOK
<1>2. StepTypeOK'
  BY DEF StepInv, StepTypeOK
<1>3. Delivered' = Delivered /\ Opened' = Opened
  BY DEF Delivered, Opened
<1>4. BatchTrue' /\ SessionsTrue' /\ TellsTrue'
  BY <1>3 DEF StepInv, BatchTrue, SessionsTrue, TellsTrue, ToldOnce
<1>5. (\A d \in {call[Owner]} : OwnerTrue(d))'
  <2>1. CASE t = Owner
    BY <2>1, <1>1
  <2>2. CASE t # Owner
    BY <2>2, <1>1 DEF StepThreads
  <2> QED BY <2>1, <2>2
<1>6. \A d : CallTrue(d) => CallTrue(d)'
  BY <1>3 DEF CallTrue
<1>7. (\A u \in StepThreads : CallTrue(call[u]))'
  <2> SUFFICES ASSUME NEW u \in StepThreads
               PROVE  \A d \in {call'[u]} : CallTrue(d)'
    BY DEF CallTrue
  <2>1. CASE u = t
    BY <2>1, <1>1
  <2>2. CASE u # t
    BY <2>2, <1>1, <1>6 DEF StepInv, CallsTrue
  <2> QED BY <2>1, <2>2
<1> QED BY <1>2, <1>4, <1>5, <1>7 DEF StepInv, CallsTrue

(* A cancel reaches the evaluator. *)
LEMMA CancelReachesKeeps ==
  ASSUME StepInv, NEW t \in StepThreads, DiscardBatch(t) \/ CancelBatch(t)
  PROVE  StepInv'
<1> DEFINE s == call[t].on
<1>1. Owner \in StepThreads /\ call[t] \in CallFields /\ phase \in Batch!Phases
  BY DEF StepInv, StepTypeOK, StepThreads
<1>2. OwnerTrue(call[Owner]) /\ CallTrue(call[t])
  BY <1>1 DEF StepInv, CallsTrue
<1>3. call[t].pc \in {"discard_batch", "cancel_batch"} /\ Goes(t, "joblib_cancelled")
      /\ UNCHANGED <<program, delivered, resuming, sessions, handles, tells>>
  BY DEF DiscardBatch, CancelBatch, At, Batch!Cancel
<1>4. PICK c \in CallFields : /\ call' = [call EXCEPT ![t] = c]
                              /\ c.pc = "joblib_cancelled" /\ c.name = call[t].name
                              /\ c.on = s /\ c.got = call[t].got
  BY <1>3, CallGoes DEF Stages, CancelStages
<1>5. s \in 1..Opened /\ phase # "new"
  BY <1>2, <1>3, OpenedNat DEF CallTrue, StepInv, BatchTrue
<1>6. missed' \in BOOLEAN /\ (missed => missed')
      /\ (phase' = phase \/ (phase \in {"running", "parked"} /\ phase' = "cancelled"))
  <2>1. missed \in BOOLEAN /\ resuming \in BOOLEAN
    BY DEF StepInv, StepTypeOK
  <2>2. missed' = missed \/ missed' = (missed \/ resuming)
    BY Zenon DEF DiscardBatch, CancelBatch
  <2>3. missed' \in BOOLEAN /\ (missed => missed')
    BY <2>1, <2>2, Zenon
  <2>4. phase' = phase \/ (phase \in {"running", "parked"} /\ phase' = "cancelled")
    <3>1. Batch!Cancel \/ UNCHANGED <<phase, delivered>>
      BY Zenon DEF DiscardBatch, CancelBatch
    <3> QED BY <3>1 DEF Batch!Cancel
  <2> QED BY <2>3, <2>4
<1>7. Delivered' = Delivered /\ Opened' = Opened /\ (Over => Over')
  BY <1>3, <1>6 DEF Delivered, Opened, Over
<1>8. s = Opened => Over'
  <2>1. CASE DiscardBatch(t)
    BY <1>1, <1>2, <1>5, <2>1 DEF DiscardBatch, At, CallTrue, Batch!Cancel, Batch!Phases, Over
  <2>2. CASE CancelBatch(t)
    BY <1>1, <1>5, <2>2 DEF CancelBatch, Batch!Cancel, Batch!Phases, Over
  <2> QED BY <2>1, <2>2
<1>9. CallTrue(c)'
  BY <1>4, <1>5, <1>7, <1>8 DEF CallTrue
<1>10. ASSUME NEW d, OwnerTrue(d)
       PROVE  OwnerTrue(d)'
  BY <1>3, <1>6, <1>7, <1>10 DEF OwnerTrue, Fits
<1>11. PICK k : k = call[Owner]
  OBVIOUS
<1>12. OwnerTrue(k)'
  BY <1>2, <1>10, <1>11
<1>13. t = Owner => OwnerTrue(c)'
  BY <1>3, <1>4, <1>11, <1>12 DEF OwnerTrue, CollectStages, CancelStages, Fits
<1>14. phase' \in Batch!Phases
  BY <1>1, <1>6 DEF Batch!Phases
<1> QED BY <1>3, <1>4, <1>5, <1>6, <1>7, <1>9, <1>11, <1>12, <1>13, <1>14, BatchMoves

(* Suspending parks the batch. *)
LEMMA SuspendBeginKeeps ==
  ASSUME StepInv, NEW s \in 1..Opened, SuspendBegin(s)
  PROVE  StepInv'
<1> DEFINE c == CallOf("parked", "suspend", s)
<1>1. Owner \in StepThreads /\ phase = "running" /\ phase' = "parked"
      /\ UNCHANGED <<program, delivered, resuming, sessions, handles, tells, missed>>
  BY DEF SuspendBegin, StepThreads, Batch!Park
<1>2. OwnerTrue(call[Owner]) /\ SessionsTrue
  BY <1>1 DEF StepInv, CallsTrue
<1>3. call[Owner] = NoCall /\ NoCall.got = {} /\ NoCall.pc = "idle"
  BY <1>2 DEF SuspendBegin, At, OwnerTrue, NoCall
<1>4. /\ c \in CallFields /\ c.pc = "parked" /\ c.on = s /\ c.got = {} /\ c.name = "suspend"
  <2>1. "parked" \in Stages /\ s \in Nat
    BY OpenedNat DEF Stages
  <2> QED BY <2>1, CallMade
<1>5. call' = [call EXCEPT ![Owner] = c]
  BY DEF SuspendBegin, CallOf
<1> HIDE DEF c
<1>6. s = Opened
  BY <1>2, OpenedNat DEF SuspendBegin, SessionsTrue
<1>7. Delivered' = Delivered /\ Opened' = Opened /\ (Over => Over')
  BY <1>1 DEF Delivered, Opened, Over
<1>8. CallTrue(c)'
  BY <1>4, <1>7 DEF CallTrue
<1>9. OwnerTrue(c)'
  <2>1. OwnerTrue(NoCall)
    BY <1>2, <1>3
  <2>2. sessions[Opened].stored \cup {} = Delivered
    BY <1>1, <1>3, <1>6, <2>1, OpenedNat DEF OwnerTrue
  <2> QED BY <1>1, <1>4, <1>6, <1>7, <2>2 DEF OwnerTrue, CollectStages
<1>10. PICK k : k = call[Owner]
  OBVIOUS
<1>11. phase' \in Batch!Phases /\ missed' \in BOOLEAN
  BY <1>1 DEF Batch!Phases, StepInv, StepTypeOK
<1> QED BY <1>1, <1>4, <1>5, <1>7, <1>8, <1>9, <1>10, <1>11, BatchMoves

-----------------------------------------------------------------------------
(* The evaluator reports one more request: it is in the owner's hands, and the
   batch completes when it was the last. *)
LEMMA DeliverKeeps ==
  ASSUME StepInv, NEW i \in Requests, EvaluatorDelivers(i)
  PROVE  StepInv'
<1> DEFINE s == call[Owner].on
<1>1. call[Owner].pc = "evaluator" /\ phase = "running" /\ i \notin Delivered
      /\ UNCHANGED <<program, resuming, sessions, handles, tells, missed>>
  BY DEF EvaluatorDelivers, At, Batch!Deliver, Delivered
<1>2. /\ s \in 1..Opened /\ OwnerTrue(call[Owner]) /\ CallTrue(call[Owner])
      /\ sessions[s].count <= Cardinality(Delivered)
      /\ sessions[s] \in SessionFields
  BY <1>1, OwnersSession
<1>3. s = Opened /\ ~sessions[s].finished /\ sessions[Opened].stored = Delivered
  BY <1>1, <1>2, OpenedNat DEF OwnerTrue, CollectStages, CancelStages
<1>4. /\ delivered' \in [Requests -> {0, 1}] /\ phase' \in {"running", "completed"}
      /\ Delivered' = Delivered \cup {i}
      /\ phase' = "running" => Delivered' # Requests
  <2>1. /\ delivered' = [delivered EXCEPT ![i] = 1] /\ delivered \in [Requests -> {0, 1}]
        /\ phase' = IF \A j \in Requests : delivered'[j] = 1 THEN "completed" ELSE "running"
    BY DEF EvaluatorDelivers, Batch!Deliver, StepInv, StepTypeOK
  <2>2. Delivered' = {j \in Requests : delivered'[j] = 1}
    BY DEF Delivered
  <2> QED BY <2>1, <2>2 DEF Delivered
<1>5. Cardinality(Delivered') = Cardinality(Delivered) + 1 /\ Cardinality(Delivered) \in Nat
  BY <1>1, <1>4, DeliveredFinite, FS_AddElement
<1>6. Opened' = Opened /\ (Over => Over')
  BY <1>1 DEF Opened, Over
<1>7. PICK c \in CallFields : /\ call' = [call EXCEPT ![Owner] = c]
                              /\ c.pc = "joblib_record" /\ c.got = {i} /\ c.on = s
                              /\ c.name = call[Owner].name
  <2> DEFINE d == [call[Owner] EXCEPT !.pc = "joblib_record", !.got = {i}]
  <2>1. call[Owner] \in CallFields
    BY DEF StepInv, StepTypeOK, StepThreads
  <2>2. d \in CallFields
    BY <2>1 DEF CallFields, Stages, CollectStages
  <2>3. d.pc = "joblib_record" /\ d.got = {i} /\ d.on = s /\ d.name = call[Owner].name
    BY <2>1 DEF CallFields
  <2>4. call' = [call EXCEPT ![Owner] = d]
    BY DEF EvaluatorDelivers, StepInv, StepTypeOK, StepThreads
  <2> HIDE DEF d
  <2> QED BY <2>2, <2>3, <2>4
<1>8. sessions[s].count < Cardinality(Delivered')
  BY <1>2, <1>5 DEF SessionFields
<1>9. call'[Owner] = c /\ \A u \in StepThreads : u # Owner => call'[u] = call[u]
  BY <1>7 DEF StepInv, StepTypeOK, StepThreads
<1>10. StepTypeOK'
  BY <1>1, <1>4, <1>7 DEF StepInv, StepTypeOK, Batch!Phases
<1>11. BatchTrue'
  BY <1>1, <1>4, <1>6 DEF StepInv, BatchTrue
<1>12. SessionsTrue'
  <2>1. \A r \in 1..Opened : sessions[r].count \in Nat
    BY SessionTyped DEF StepInv, StepTypeOK, SessionFields
  <2>2. \A h : ValidHandle(h)' = ValidHandle(h)
    BY DEF ValidHandle
  <2> QED BY <1>1, <1>4, <1>5, <1>6, <2>1, <2>2 DEF StepInv, SessionsTrue
<1>13. OwnerTrue(c)'
  BY <1>1, <1>2, <1>3, <1>4, <1>6, <1>7, <1>8 DEF OwnerTrue, CollectStages
<1>14. CallTrue(c)'
  BY <1>2, <1>6, <1>7 DEF CallTrue
<1>15. CallsTrue'
  <2>1. \A d : CallTrue(d) => CallTrue(d)'
    BY <1>1, <1>6 DEF CallTrue
  <2>2. ASSUME NEW u \in StepThreads
        PROVE  \A d \in {call'[u]} : CallTrue(d)'
    BY <1>9, <1>14, <2>1 DEF StepInv, CallsTrue
  <2>3. \A u \in StepThreads : CallTrue(call[u])'
    BY <2>2 DEF CallTrue
  <2> QED BY <1>9, <1>13, <2>3 DEF CallsTrue
<1>16. TellsTrue'
  <2>1. tells = <<>>
    BY <1>1 DEF StepInv, TellsTrue, BatchTrue
  <2> QED BY <1>1, <2>1 DEF TellsTrue, ToldOnce
<1> QED BY <1>10, <1>11, <1>12, <1>15, <1>16 DEF StepInv

(* The evaluator raises: its session fails or is cancelled with the batch. *)
LEMMA RaiseKeeps ==
  ASSUME StepInv, EvaluatorRaises
  PROVE  StepInv'
<1> DEFINE s == call[Owner].on
<1>1. call[Owner].pc = "evaluator"
      /\ UNCHANGED <<program, delivered, resuming, handles, tells, missed>>
  BY DEF EvaluatorRaises, At, Batch!Fail, Batch!Cancel
<1>2. /\ s \in 1..Opened /\ OwnerTrue(call[Owner]) /\ CallTrue(call[Owner])
      /\ sessions[s] \in SessionFields
  BY <1>1, OwnersSession
<1>3. s = Opened
  BY <1>1, <1>2 DEF OwnerTrue
<1>4. PICK kind \in {"failed", "cancelled"} :
        /\ phase \in {"running", "cancelled"} /\ phase' \in {"failed", "cancelled"}
        /\ Sets(Owner, "joblib", kind)
        /\ call' = [call EXCEPT ![Owner].kind = kind, ![Owner].pc =
                      IF call[Owner].name = "batch" THEN "cancel_reads" ELSE "raises"]
  BY DEF EvaluatorRaises, Batch!Fail, Batch!Cancel
<1>5. PICK new \in SessionFields :
        /\ sessions' = [sessions EXCEPT ![s] = new]
        /\ new.joblib = kind /\ new.study = sessions[s].study
        /\ new.stored = sessions[s].stored /\ new.count = sessions[s].count
        /\ new.finished = sessions[s].finished
  BY <1>2, <1>4, JoblibSet DEF Lifecycles, On
<1>6. PICK c \in CallFields :
        /\ call' = [call EXCEPT ![Owner] = c]
        /\ c.pc = IF call[Owner].name = "batch" THEN "cancel_reads" ELSE "raises"
        /\ c.kind = kind /\ c.got = call[Owner].got /\ c.on = s /\ c.name = call[Owner].name
  <2> DEFINE stage == IF call[Owner].name = "batch" THEN "cancel_reads" ELSE "raises"
             d == [call[Owner] EXCEPT !.kind = kind, !.pc = stage]
  <2>1. call[Owner] \in CallFields /\ stage \in Stages
    BY DEF StepInv, StepTypeOK, StepThreads, Stages, CancelStages
  <2>2. call' = [call EXCEPT ![Owner] = d]
    BY <1>4 DEF StepInv, StepTypeOK, StepThreads
  <2> HIDE DEF stage
  <2>3. d \in CallFields
    BY <2>1 DEF CallFields
  <2>4. d.pc = stage /\ d.kind = kind /\ d.got = call[Owner].got /\ d.on = s
        /\ d.name = call[Owner].name
    BY <2>1 DEF CallFields
  <2> HIDE DEF d
  <2> QED BY <2>2, <2>3, <2>4 DEF stage
<1>7. /\ Opened' = Opened /\ sessions'[s] = new /\ sessions' \in Seq(SessionFields)
      /\ \A r \in 1..Opened : r # s => sessions'[r] = sessions[r]
  BY <1>2, <1>5, SessionChanges DEF StepInv, StepTypeOK
<1>8. Delivered' = Delivered /\ Over'
  BY <1>1, <1>4 DEF Delivered, Over
<1>9. call'[Owner] = c /\ \A u \in StepThreads : u # Owner => call'[u] = call[u]
  BY <1>6 DEF StepInv, StepTypeOK, StepThreads
<1>10. StepTypeOK'
  BY <1>1, <1>4, <1>6, <1>7 DEF StepInv, StepTypeOK, Batch!Phases
<1>11. BatchTrue'
  BY <1>2, <1>4, <1>7, <1>8, OpenedNat DEF BatchTrue
<1>12. SessionsTrue'
  <2>1. \A h : ValidHandle(h)' = ValidHandle(h)
    BY DEF ValidHandle
  <2>2. ASSUME NEW r \in 1..Opened
        PROVE  /\ sessions'[r].stored \subseteq Delivered
               /\ sessions'[r].count <= Cardinality(Delivered)
               /\ sessions'[r].finished => sessions'[r].study # "active"
               /\ r < Opened => sessions'[r].joblib # "active" /\ sessions'[r].stored # Requests
    <3>1. CASE r = s
      BY <1>3, <1>5, <1>7, <3>1, OpenedNat DEF StepInv, SessionsTrue
    <3>2. CASE r # s
      BY <1>7, <3>2 DEF StepInv, SessionsTrue
    <3> QED BY <3>1, <3>2
  <2>3. \A h \in handles : h.stored \subseteq Delivered /\ ValidHandle(h)
    BY DEF StepInv, SessionsTrue
  <2> QED BY <1>1, <1>3, <1>4, <1>7, <1>8, <2>1, <2>2, <2>3 DEF SessionsTrue
<1>13. OwnerTrue(c)'
  BY <1>1, <1>2, <1>3, <1>4, <1>5, <1>6, <1>7, <1>8 DEF OwnerTrue, CollectStages, CancelStages
<1>14. CallTrue(c)'
  BY <1>2, <1>6, <1>7, <1>8 DEF CallTrue
<1>15. CallsTrue'
  <2>1. \A d : CallTrue(d) => CallTrue(d)'
    BY <1>4, <1>7, <1>8 DEF CallTrue
  <2>2. ASSUME NEW u \in StepThreads
        PROVE  \A d \in {call'[u]} : CallTrue(d)'
    BY <1>9, <1>14, <2>1 DEF StepInv, CallsTrue
  <2>3. \A u \in StepThreads : CallTrue(call[u])'
    BY <2>2 DEF CallTrue
  <2> QED BY <1>9, <1>13, <2>3 DEF CallsTrue
<1>16. TellsTrue'
  <2>1. Opened > 0 /\ sessions[Opened].finished => sessions'[Opened].finished
    BY <1>3, <1>5, <1>7
  <2> QED BY <1>1, <1>7, <1>8, <2>1, TellsKept
<1> QED BY <1>10, <1>11, <1>12, <1>15, <1>16 DEF StepInv

(* A session over a batch that runs from now on: the first of the step, or one
   that has what its handle had. *)
LEMMA OpensSession ==
  ASSUME StepInv, phase \in {"new", "parked"}, phase' = "running",
         UNCHANGED <<program, delivered, handles, tells, missed>>, resuming' \in BOOLEAN,
         Opened > 0 => sessions[Opened].joblib # "active",
         NEW count \in Nat, count = Cardinality(Delivered),
         sessions' = Append(sessions, Session(Delivered, count)),
         NEW c \in CallFields, call' = [call EXCEPT ![Owner] = c],
         c = NoCall \/ (c.pc = "collect" /\ c.on = Opened + 1 /\ c.got = {})
  PROVE  StepInv'
<1> DEFINE new == Session(Delivered, count)
<1>1. Opened \in Nat /\ Delivered \subseteq Requests /\ Delivered # Requests
  BY OpenedNat, DeliveredFinite DEF StepInv, BatchTrue
<1>2. new \in SessionFields
  BY <1>1 DEF Session, SessionFields, Lifecycles
<1>3. new.joblib = "active" /\ new.study = "active" /\ new.stored = Delivered
      /\ new.count = count /\ new.finished = FALSE
  BY DEF Session
<1> HIDE DEF new
<1>4. /\ sessions' \in Seq(SessionFields) /\ Opened' = Opened + 1
      /\ sessions'[Opened + 1] = new
      /\ \A r \in 1..Opened : sessions'[r] = sessions[r]
  BY <1>2, AppendProperties DEF StepInv, StepTypeOK, Opened, new
<1>5. Delivered' = Delivered /\ (Over' <=> missed)
  BY DEF Delivered, Over
<1>6. call'[Owner] = c /\ \A u \in StepThreads : u # Owner => call'[u] = call[u]
  BY DEF StepInv, StepTypeOK, StepThreads
<1>7. StepTypeOK'
  BY <1>4 DEF StepInv, StepTypeOK, Batch!Phases
<1>8. BatchTrue'
  BY <1>1, <1>4, <1>5 DEF BatchTrue
<1>9. SessionsTrue'
  <2>1. \A h : ValidHandle(h)' = ValidHandle(h)
    BY DEF ValidHandle
  <2>2. ASSUME NEW r \in 1..(Opened + 1)
        PROVE  /\ sessions'[r].stored \subseteq Delivered
               /\ sessions'[r].count <= Cardinality(Delivered)
               /\ sessions'[r].finished => sessions'[r].study # "active"
               /\ r < Opened + 1 => sessions'[r].joblib # "active" /\ sessions'[r].stored # Requests
    <3>1. CASE r = Opened + 1
      <4>1. sessions'[r] = new /\ ~(r < Opened + 1)
        <5>1. sessions'[r] = new
          BY <1>4, <3>1, Zenon
        <5>2. \A n \in Nat : ~(n + 1 < n + 1)
          OBVIOUS
        <5>3. ~(r < Opened + 1)
          BY <1>1, <3>1, <5>2, Zenon
        <5> QED BY <5>1, <5>3
      <4>2. new.count <= Cardinality(Delivered)
        BY <1>3
      <4> QED BY <1>3, <4>1, <4>2
    <3>2. CASE r \in 1..Opened
      <4>1. /\ sessions[r].stored \subseteq Delivered
            /\ sessions[r].count <= Cardinality(Delivered)
            /\ sessions[r].finished => sessions[r].study # "active"
        BY <3>2 DEF StepInv, SessionsTrue
      <4>2. sessions[r].joblib # "active"
        BY <1>1, <3>2 DEF StepInv, SessionsTrue
      <4> QED BY <1>1, <1>4, <3>2, <4>1, <4>2
    <3>3. r = Opened + 1 \/ r \in 1..Opened
      BY <1>1
    <3> QED BY <3>1, <3>2, <3>3, Zenon
  <2>3. \A h \in handles : h.stored \subseteq Delivered /\ ValidHandle(h)
    BY DEF StepInv, SessionsTrue
  <2> QED BY <1>3, <1>4, <1>5, <2>1, <2>2, <2>3 DEF SessionsTrue
<1>10. OwnerTrue(c)'
  <2>1. CASE c = NoCall
    <3>1. NoCall.pc = "idle" /\ NoCall.got = {} /\ NoCall.name = "none"
      BY DEF NoCall
    <3> QED BY <1>3, <1>4, <1>5, <2>1, <3>1 DEF OwnerTrue, CollectStages
  <2>2. CASE c.pc = "collect" /\ c.on = Opened + 1 /\ c.got = {}
    BY <1>3, <1>4, <1>5, <2>2 DEF OwnerTrue, CollectStages
  <2> QED BY <2>1, <2>2
<1>11. CallTrue(c)'
  BY <1>1, <1>4 DEF CallTrue, NoCall
<1>12. CallsTrue'
  <2>1. \A d : CallTrue(d) => CallTrue(d)'
    BY <1>1, <1>4, <1>5 DEF CallTrue
  <2>2. ASSUME NEW u \in StepThreads
        PROVE  \A d \in {call'[u]} : CallTrue(d)'
    BY <1>6, <1>11, <2>1 DEF StepInv, CallsTrue
  <2>3. \A u \in StepThreads : CallTrue(call[u])'
    BY <2>2 DEF CallTrue
  <2> QED BY <1>6, <1>10, <2>3 DEF CallsTrue
<1>13. TellsTrue'
  <2>1. tells = <<>>
    BY <1>1 DEF StepInv, TellsTrue
  <2> QED BY <2>1 DEF TellsTrue, ToldOnce
<1> QED BY <1>7, <1>8, <1>9, <1>12, <1>13 DEF StepInv

LEMMA OpenKeeps ==
  ASSUME StepInv, Open
  PROVE  StepInv'
<1>1. Opened = 0 /\ phase = "new" /\ phase' = "running" /\ call[Owner].pc = "idle"
      /\ UNCHANGED <<program, delivered, resuming, handles, tells, missed>>
  BY DEF Open, At, Batch!Submit
<1>2. Delivered = {}
  BY <1>1 DEF StepInv, BatchTrue
<1>3. sessions' = Append(sessions, Session(Delivered, 0))
  <2>1. sessions = <<>>
    BY <1>1 DEF Opened, StepInv, StepTypeOK
  <2> QED BY <1>2, <2>1 DEF Open
<1>4. Owner \in StepThreads /\ call[Owner] = NoCall
  BY <1>1 DEF StepInv, CallsTrue, OwnerTrue, StepThreads, At
<1>5. PICK c \in CallFields : /\ call' = [call EXCEPT ![Owner] = c]
                              /\ c = NoCall \/ (c.pc = "collect" /\ c.on = 1 /\ c.got = {})
  <2>1. CASE program = "step"
    <3>1. call' = [call EXCEPT ![Owner] = NoCall]
      BY <1>4, <2>1 DEF Open, StepInv, StepTypeOK
    <3>2. NoCall \in CallFields
      BY DEF NoCall, CallFields, Stages
    <3> QED BY <3>1, <3>2
  <2>2. CASE program # "step"
    <3>1. "collect" \in Stages
      BY DEF Stages, CollectStages
    <3>2. CallOf("collect", "batch", 1) \in CallFields
          /\ CallOf("collect", "batch", 1).pc = "collect"
          /\ CallOf("collect", "batch", 1).on = 1
          /\ CallOf("collect", "batch", 1).got = {}
      BY <3>1, CallMade
    <3>3. call' = [call EXCEPT ![Owner] = CallOf("collect", "batch", 1)]
      BY <2>2 DEF Open, CallOf
    <3> QED BY <3>2, <3>3
  <2> QED BY <2>1, <2>2
<1>6. Cardinality(Delivered) = 0
  BY <1>2, FS_EmptySet
<1>7. resuming' \in BOOLEAN
  BY <1>1 DEF StepInv, StepTypeOK
<1>8. c = NoCall \/ (c.pc = "collect" /\ c.on = Opened + 1 /\ c.got = {})
  BY <1>1, <1>5
<1>9. phase \in {"new", "parked"} /\ (Opened > 0 => sessions[Opened].joblib # "active")
  BY <1>1
<1>10. PICK count \in Nat : count = 0
  OBVIOUS
<1>11. count = Cardinality(Delivered) /\ sessions' = Append(sessions, Session(Delivered, count))
  BY <1>3, <1>6, <1>10
<1>12. call' = [call EXCEPT ![Owner] = c] /\ UNCHANGED <<program, delivered, handles, tells, missed>>
  BY <1>1, <1>5
<1>13. phase' = "running"
  BY <1>1
<1> QED BY <1>7, <1>8, <1>9, <1>11, <1>12, <1>13, OpensSession, Zenon

(* A handle that counts what was delivered has all of it. *)
LEMMA ResumeEndKeeps ==
  ASSUME StepInv, ResumeEnd
  PROVE  StepInv'
<1>1. call[Owner].pc = "resume" /\ resuming' = FALSE
      /\ call' = [call EXCEPT ![Owner] = NoCall]
      /\ UNCHANGED <<program, handles, tells, missed>>
  BY DEF ResumeEnd, At, Returns
<1>2. Owner \in StepThreads /\ OwnerTrue(call[Owner])
  BY DEF StepInv, CallsTrue, StepThreads
<1>3. call[Owner].name # "batch" \/ call[Owner].pc \notin CancelStages \cup {"returned"}
  BY <1>1 DEF CancelStages
<1>4. OwnerTrue(NoCall) /\ CallTrue(NoCall) /\ NoCall \in CallFields
  BY <1>1, <1>3, MayReturn
<1>5. CASE UNCHANGED <<phase, delivered, sessions>>
  BY <1>1, <1>2, <1>4, <1>5, CallMoves
<1>6. CASE /\ Batch!Unpark
           /\ sessions' = Append(sessions, Session(call[Owner].handle.stored,
                                                   call[Owner].handle.count))
  <2>1. phase = "parked" /\ phase' = "running" /\ UNCHANGED delivered
    BY <1>6 DEF Batch!Unpark
  <2>2. PICK h : h = call[Owner].handle
    OBVIOUS
  <2>3. h \in handles /\ h.count = Cardinality(Delivered)
    BY <1>1, <1>2, <2>2 DEF OwnerTrue, Fits
  <2>4. h.stored \subseteq Delivered /\ Cardinality(h.stored) = h.count /\ h.count \in Nat
    BY <2>3 DEF StepInv, SessionsTrue, StepTypeOK, ValidHandle, HandleFields
  <2>5. h.stored = Delivered
    BY <2>3, <2>4, DeliveredFinite, FS_Subset
  <2>6. sessions' = Append(sessions, Session(Delivered, h.count))
    BY <1>6, <2>2, <2>5
  <2>7. Opened > 0 => sessions[Opened].joblib # "active"
    BY <1>1, <1>2, <2>1 DEF OwnerTrue
  <2> QED BY <1>1, <1>4, <2>1, <2>3, <2>4, <2>6, <2>7, OpensSession
<1> QED BY <1>5, <1>6 DEF ResumeEnd

-----------------------------------------------------------------------------
LEMMA StepInvInit == StepInit => StepInv
<1> SUFFICES ASSUME StepInit
             PROVE  StepInv
  OBVIOUS
<1>1. phase = "new" /\ Opened = 0 /\ sessions = <<>> /\ tells = <<>> /\ handles = {}
      /\ delivered = [i \in Requests |-> 0]
      /\ call = [t \in StepThreads |-> NoCall] /\ resuming = FALSE /\ missed = FALSE
      /\ program \in {"step", "batch"}
  BY DEF StepInit, Batch!Init, Opened
<1>2. NoCall \in CallFields /\ NoCall.pc = "idle" /\ NoCall.got = {} /\ NoCall.name = "none"
  BY DEF NoCall, CallFields, Stages
<1>3. Delivered = {} /\ Delivered # Requests
  BY <1>1, StepAssumption DEF Delivered
<1>4. StepTypeOK
  <2>1. sessions \in Seq(SessionFields)
        /\ tells \in Seq([on : Nat, attempts : SUBSET Requests, ok : BOOLEAN])
    BY <1>1
  <2>2. call \in [StepThreads -> CallFields] /\ delivered \in [Requests -> {0, 1}]
    BY <1>1, <1>2
  <2> QED BY <1>1, <2>1, <2>2 DEF StepTypeOK, Batch!Phases
<1>5. BatchTrue /\ SessionsTrue /\ TellsTrue
  BY <1>1, <1>3 DEF BatchTrue, SessionsTrue, TellsTrue, ToldOnce
<1>6. OwnerTrue(NoCall) /\ CallTrue(NoCall)
  BY <1>1, <1>2 DEF OwnerTrue, CallTrue, CollectStages
<1>7. CallsTrue
  BY <1>1, <1>6 DEF CallsTrue, StepThreads
<1> QED BY <1>4, <1>5, <1>7 DEF StepInv

LEMMA StepInvStep == StepInv /\ [StepNext]_stepVars => StepInv'
<1> SUFFICES ASSUME StepInv, [StepNext]_stepVars
             PROVE  StepInv'
  OBVIOUS
<1>1. CASE Open
  BY <1>1, OpenKeeps
<1>2. ASSUME NEW s \in 1..Opened,
             \/ \E name \in {"poll", "wait", "finish"} : Collect(s, name)
             \/ FinishCompleted(s) \/ SuspendBegin(s)
             \/ \E t \in StepThreads : CancelBegin(t, s)
      PROVE  StepInv'
  BY <1>2, OwnerMoves, SuspendBeginKeeps, CancelMoves
<1>3. CASE (\E h \in handles : ResumeBegin(h)) \/ EvaluatorReturnsNone \/ BatchInterrupted
  BY <1>3, OwnerMoves
<1>4. CASE OwnerStep
  BY <1>4, OwnerMoves, RaisingKeeps, JoblibRecordKeeps, StudyRecordKeeps, BatchRecordKeeps,
     AssimilateKeeps, SuspendReturnsKeeps, SuspendJoblibKeeps, SuspendStudyKeeps, ResumeEndKeeps
  DEF OwnerStep
<1>5. CASE EvaluatorStep
  BY <1>5, DeliverKeeps, RaiseKeeps DEF EvaluatorStep
<1>6. ASSUME NEW t \in StepThreads, CancelStep(t)
      PROVE  StepInv'
  BY <1>6, CancelMoves, CancelReachesKeeps, CancelEnds DEF CancelStep
<1>7. CASE UNCHANGED stepVars
  <2>1. Owner \in StepThreads /\ OwnerTrue(call[Owner]) /\ CallTrue(call[Owner])
        /\ call[Owner] \in CallFields /\ resuming' \in BOOLEAN
    BY <1>7 DEF StepInv, CallsTrue, StepThreads, StepTypeOK, stepVars
  <2>2. call' = [call EXCEPT ![Owner] = call[Owner]]
    BY <1>7, <2>1 DEF StepInv, StepTypeOK, stepVars
  <2>3. PICK c \in CallFields : c = call[Owner]
    BY <2>1
  <2> QED BY <1>7, <2>1, <2>2, <2>3, CallMoves DEF stepVars
<1> QED BY <1>1, <1>2, <1>3, <1>4, <1>5, <1>6, <1>7 DEF StepNext

LEMMA StepInvHolds == StepSpec => []StepInv
  BY StepInvInit, StepInvStep, PTL DEF StepSpec

(* Nothing that was evaluated is lost while the step lives, and nothing of it
   lives on when its owner has given it up: for every number of requests and of
   suspends and resumes, and a second thread that cancels at any moment. *)
THEOREM AttemptsAccounted == StepSpec => []StepAccounted
<1>1. StepInv => StepAccounted
  <2> SUFFICES ASSUME StepInv, Opened > 0
               PROVE  StepAccounted
    BY DEF StepAccounted, AttemptsAddUp, NothingLeftBehind
  <2>1. OwnerTrue(call[Owner]) /\ SessionsTrue
    BY DEF StepInv, CallsTrue
  <2>2. AttemptsAddUp
    <3>1. call[Owner].on # Opened => call[Owner].got = {}
      BY <2>1 DEF OwnerTrue
    <3> QED BY <2>1, <3>1 DEF AttemptsAddUp, OwnerTrue
  <2>3. NothingLeftBehind
    BY <2>1 DEF NothingLeftBehind, OwnerTrue, SessionsTrue, Over, At
  <2> QED BY <2>2, <2>3 DEF StepAccounted
<1> QED BY <1>1, StepInvHolds, PTL

(* The optimizer is told once, on the newest session, with an attempt for every
   request, whatever was suspended, resumed, retried and cancelled before. *)
THEOREM ToldExactlyOnce == StepSpec => []ToldOnce
<1>1. StepInv => ToldOnce
  BY DEF StepInv, TellsTrue
<1> QED BY <1>1, StepInvHolds, PTL

(***************************************************************************)
(* Worker sessions.  What SessionsIsolated says of `results` rests on the  *)
(* registries of the processes and on the tasks they run; what it says of  *)
(* the resources of a session rests on how far the session got in opening  *)
(* them.                                                                   *)
(***************************************************************************)
WorkerStages == {"new", "config", "transport", "runner", "ready", "evaluating", "closing", "closed"}

WorkerFields == [pc : WorkerStages, entered : BOOLEAN, closed : BOOLEAN, runner : BOOLEAN,
                  todo : SUBSET TaskIds, sent : SUBSET TaskIds]

SessionTypeOK ==
  /\ ses \in [Sessions -> WorkerFields]
  /\ open \in [Sessions -> SUBSET {"config", "transport", "runner"}]

(* Only a new session can be entered.  One that opens its resources has those
   that precede the next one; whatever is open was opened after what it needs,
   in any stage. *)
OpenedInOrder ==
  \A s \in Sessions :
    /\ ~ses[s].entered /\ ~ses[s].closed => ses[s].pc = "new"
    /\ ses[s].pc \in {"new", "config", "closed"} => open[s] = {}
    /\ ses[s].pc \in {"transport", "runner"} => "config" \in open[s]
    /\ ses[s].pc = "runner" /\ Needs(s, "transport") => "transport" \in open[s]
    /\ open[s] # {} => "config" \in open[s]
    /\ "runner" \in open[s] /\ Needs(s, "transport") => "transport" \in open[s]

Problems == {Bound[s] : s \in Sessions} \cup {NoToken}

Tasks == {Task(s, k) : s \in Sessions, k \in TaskIds}

RegistryFields == [token : Sessions \cup {NoToken}, problem : Problems,
                   task : SUBSET Tasks, with : Problems]

(* A registry that has a token has the problem of that token's session, and a
   process runs its task with the problem of the task's session. *)
RegistriesTrue ==
  /\ proc \in [Processes -> RegistryFields]
  /\ \A w \in Processes :
       /\ proc[w].token \in Sessions => proc[w].problem = Bound[proc[w].token]
       /\ \A task \in proc[w].task : proc[w].with = Bound[task.session]

ResultsTrue == \A r \in results : r.problem = Bound[r.task.session]

WorkerInv == SessionTypeOK /\ OpenedInOrder /\ RegistriesTrue /\ ResultsTrue

-----------------------------------------------------------------------------
(* What a registry and a result say does not depend on the sessions: a step of
   a session that touches neither keeps both. *)
LEMMA OwnerKeepsProcesses ==
  ASSUME RegistriesTrue, UNCHANGED proc
  PROVE  RegistriesTrue'
  BY DEF RegistriesTrue

(* A step of a session changes its own fields and resources: the order in
   which those of the others were opened is as it was. *)
LEMMA OthersInOrder ==
  ASSUME NEW s \in Sessions, SessionTypeOK, OpenedInOrder,
         NEW fields \in WorkerFields, NEW opened \in SUBSET {"config", "transport", "runner"},
         ses' = [ses EXCEPT ![s] = fields], open' = [open EXCEPT ![s] = opened],
         ~fields.entered /\ ~fields.closed => fields.pc = "new",
         fields.pc \in {"new", "config", "closed"} => opened = {},
         fields.pc \in {"transport", "runner"} => "config" \in opened,
         fields.pc = "runner" /\ Needs(s, "transport") => "transport" \in opened,
         opened # {} => "config" \in opened,
         "runner" \in opened /\ Needs(s, "transport") => "transport" \in opened
  PROVE  SessionTypeOK' /\ OpenedInOrder'
<1>1. SessionTypeOK'
  BY DEF SessionTypeOK
<1>2. ASSUME NEW r \in Sessions, r # s
      PROVE  ses'[r] = ses[r] /\ open'[r] = open[r]
  BY <1>2 DEF SessionTypeOK
<1>3. ses'[s] = fields /\ open'[s] = opened
  BY DEF SessionTypeOK
<1>4. OpenedInOrder'
  <2> SUFFICES ASSUME NEW r \in Sessions
               PROVE  /\ ~ses'[r].entered /\ ~ses'[r].closed => ses'[r].pc = "new"
                      /\ ses'[r].pc \in {"new", "config", "closed"} => open'[r] = {}
                      /\ ses'[r].pc \in {"transport", "runner"} => "config" \in open'[r]
                      /\ ses'[r].pc = "runner" /\ Needs(r, "transport") => "transport" \in open'[r]
                      /\ open'[r] # {} => "config" \in open'[r]
                      /\ "runner" \in open'[r] /\ Needs(r, "transport") => "transport" \in open'[r]
    BY DEF OpenedInOrder, Needs
  <2>1. CASE r = s
    BY <2>1, <1>3
  <2>2. CASE r # s
    BY <2>2, <1>2 DEF OpenedInOrder
  <2> QED BY <2>1, <2>2
<1> QED BY <1>1, <1>4

-----------------------------------------------------------------------------
LEMMA WorkerInvInit == WorkerInit => WorkerInv
<1> SUFFICES ASSUME WorkerInit
             PROVE  WorkerInv
  OBVIOUS
<1>1. NewSession \in WorkerFields /\ NewSession.pc = "new"
  BY DEF NewSession, WorkerFields, WorkerStages
<1>2. SessionTypeOK /\ OpenedInOrder
  BY <1>1 DEF WorkerInit, NothingOpen, SessionTypeOK, OpenedInOrder
<1>3. RegistriesTrue
  <2> DEFINE empty == [token |-> NoToken, problem |-> NoToken, task |-> {}, with |-> NoToken]
  <2>1. proc = [w \in Processes |-> empty]
    BY DEF WorkerInit, NothingOpen
  <2>2. empty \in RegistryFields /\ empty.token \notin Sessions /\ empty.task = {}
    BY SessionAssumption DEF RegistryFields, Problems
  <2> HIDE DEF empty
  <2> QED BY <2>1, <2>2 DEF RegistriesTrue
<1>4. ResultsTrue
  BY DEF WorkerInit, NothingOpen, ResultsTrue
<1> QED BY <1>2, <1>3, <1>4 DEF WorkerInv

(* What a session opens, in order. *)
LEMMA EnteringKeepsInv ==
  ASSUME WorkerInv, NEW s \in Sessions, NEW n \in 1..3, EnterContext(s, n)
  PROVE  WorkerInv'
<1> DEFINE resource == Resources[n]
           next == ses'[s].pc
           fields == [ses[s] EXCEPT !.pc = next, !.runner = (resource = "runner")]
<1>1. SessionTypeOK /\ OpenedInOrder /\ ses[s] \in WorkerFields
  BY DEF WorkerInv, SessionTypeOK
<1>2. \/ n = 1 /\ resource = "config"
      \/ n = 2 /\ resource = "transport"
      \/ n = 3 /\ resource = "runner"
  <2>1. n = 1 \/ n = 2 \/ n = 3
    OBVIOUS
  <2>2. Resources[1] = "config" /\ Resources[2] = "transport" /\ Resources[3] = "runner"
    BY DEF Resources
  <2> QED BY <2>1, <2>2
<1>3. ses[s].pc = resource /\ open' = [open EXCEPT ![s] = open[s] \cup {resource}]
  BY DEF EnterContext
<1>4. /\ n = 1 /\ Needs(s, "transport") => next = "transport"
      /\ n = 1 /\ ~Needs(s, "transport") => next = "runner"
      /\ n = 2 => next = "runner"
      /\ n = 3 => next = "ready"
  <2> DEFINE needed == {k \in (n + 1)..3 : Needs(s, Resources[k])}
             stage == IF needed = {} THEN "ready"
                      ELSE Resources[CHOOSE k \in needed : \A j \in needed : k <= j]
  <2>1. next = stage
    BY <1>1 DEF EnterContext, WorkerFields, SessionTypeOK
  <2>2. /\ Resources[1] = "config" /\ Resources[2] = "transport" /\ Resources[3] = "runner"
        /\ Needs(s, "runner")
    BY DEF Resources, Needs
  <2>3. CASE n = 1 /\ Needs(s, "transport")
    <3>1. needed = {2, 3}
      BY <2>2, <2>3
    <3>2. (CHOOSE k \in needed : \A j \in needed : k <= j) = 2
      BY <3>1
    <3> QED BY <2>1, <2>2, <2>3, <3>1, <3>2
  <2>4. CASE n = 1 /\ ~Needs(s, "transport")
    <3>1. needed = {3}
      BY <2>2, <2>4
    <3>2. (CHOOSE k \in needed : \A j \in needed : k <= j) = 3
      BY <3>1
    <3> QED BY <2>1, <2>2, <2>4, <3>1, <3>2
  <2>5. CASE n = 2
    <3>1. needed = {3}
      BY <2>2, <2>5
    <3>2. (CHOOSE k \in needed : \A j \in needed : k <= j) = 3
      BY <3>1
    <3> QED BY <2>1, <2>2, <2>5, <3>1, <3>2
  <2>6. CASE n = 3
    <3>1. needed = {}
      BY <2>6
    <3> QED BY <2>1, <2>6, <3>1
  <2> QED BY <2>3, <2>4, <2>5, <2>6
<1>5. next \in {"transport", "runner", "ready"}
  BY <1>2, <1>4
<1>6. fields \in WorkerFields /\ fields.pc = next
  BY <1>1, <1>5 DEF WorkerFields, WorkerStages
<1>7. ses' = [ses EXCEPT ![s] = fields]
  <2> DEFINE needed == {k \in (n + 1)..3 : Needs(s, Resources[k])}
             stage == IF needed = {} THEN "ready"
                      ELSE Resources[CHOOSE k \in needed : \A j \in needed : k <= j]
  <2>1. ses' = [ses EXCEPT ![s].pc = stage, ![s].runner = (resource = "runner")]
    BY DEF EnterContext
  <2> HIDE DEF stage, resource
  <2>2. next = stage
    BY <2>1, <1>1 DEF WorkerFields, SessionTypeOK
  <2> QED BY <2>1, <2>2
<1>8. open[s] \cup {resource} \in SUBSET {"config", "transport", "runner"}
  BY <1>1, <1>2 DEF SessionTypeOK
<1>9. SessionTypeOK' /\ OpenedInOrder'
  <2> HIDE DEF next, fields, resource
  <2>1. "config" \in open[s] \cup {resource}
    BY <1>1, <1>2, <1>3 DEF OpenedInOrder
  <2>2. resource = "runner" /\ Needs(s, "transport") => "transport" \in open[s]
    BY <1>1, <1>3 DEF OpenedInOrder
  <2>3. next = "runner" /\ Needs(s, "transport") => "transport" \in open[s] \cup {resource}
    BY <1>2, <1>4
  <2>4. "runner" \in open[s] /\ Needs(s, "transport") => "transport" \in open[s]
    BY <1>1 DEF OpenedInOrder
  <2>5. fields.entered \/ fields.closed
    BY <1>1, <1>2, <1>3 DEF fields, OpenedInOrder, WorkerFields
  <2> QED
    BY <2>5, <1>1, <1>3, <1>5, <1>6, <1>7, <1>8, <2>1, <2>2, <2>3, <2>4, OthersInOrder
<1>10. UNCHANGED <<proc, results>>
  BY DEF EnterContext
<1> QED BY <1>9, <1>10, OwnerKeepsProcesses DEF WorkerInv, ResultsTrue

(* The owner's other steps open nothing; closing goes from the resource opened
   last to the first. *)
LEMMA OwnerKeepsInv ==
  ASSUME WorkerInv, NEW s \in Sessions,
         \/ Enter(s) \/ EnterSerial(s) \/ EnterFails(s) \/ Exit(s) \/ CloseResource(s)
         \/ \E tasks \in SUBSET TaskIds : EvaluateRemotely(s, tasks)
         \/ EvaluateReturns(s) \/ EvaluateRaises(s)
  PROVE  WorkerInv'
<1>1. SessionTypeOK /\ OpenedInOrder /\ ses[s] \in WorkerFields
  BY DEF WorkerInv, SessionTypeOK
<1>2. UNCHANGED <<proc, results>>
  BY DEF Enter, EnterSerial, EnterFails, Exit, CloseResource, EvaluateRemotely,
         EvaluateReturns, EvaluateRaises
<1>3. SessionTypeOK' /\ OpenedInOrder'
  <2>1. /\ open[s] \in SUBSET {"config", "transport", "runner"}
        /\ ~ses[s].entered /\ ~ses[s].closed => ses[s].pc = "new"
        /\ ses[s].pc \in {"new", "config", "closed"} => open[s] = {}
        /\ open[s] # {} => "config" \in open[s]
        /\ "runner" \in open[s] /\ Needs(s, "transport") => "transport" \in open[s]
    BY <1>1 DEF SessionTypeOK, OpenedInOrder
  <2>2. open = [open EXCEPT ![s] = open[s]]
    BY <1>1 DEF SessionTypeOK
  <2>3. CASE Enter(s)
    <3> DEFINE fields == [ses[s] EXCEPT !.entered = TRUE, !.pc = "config"]
    <3>1. fields \in WorkerFields /\ fields.pc = "config" /\ fields.entered
      BY <1>1 DEF WorkerFields, WorkerStages
    <3>2. ses' = [ses EXCEPT ![s] = fields] /\ open' = open /\ open[s] = {}
      BY <1>1, <2>1, <2>3 DEF Enter, SessionTypeOK, WorkerFields
    <3> HIDE DEF fields
    <3> QED BY <1>1, <2>1, <2>2, <3>1, <3>2, OthersInOrder
  <2>4. CASE EnterSerial(s)
    <3> DEFINE fields == [ses[s] EXCEPT !.pc = "ready"]
    <3>1. fields \in WorkerFields /\ fields.pc = "ready" /\ fields.entered
      BY <1>1, <2>4 DEF EnterSerial, WorkerFields, WorkerStages
    <3>2. ses' = [ses EXCEPT ![s] = fields] /\ open' = [open EXCEPT ![s] = {}]
      BY <1>1, <2>4 DEF EnterSerial, SessionTypeOK, WorkerFields
    <3> HIDE DEF fields
    <3> QED BY <1>1, <3>1, <3>2, OthersInOrder
  <2>5. CASE EnterFails(s) \/ Exit(s)
    <3> DEFINE fields == [ses[s] EXCEPT !.entered = FALSE, !.closed = TRUE,
                                        !.runner = FALSE, !.pc = "closing"]
    <3>1. fields \in WorkerFields /\ fields.pc = "closing" /\ fields.closed
      BY <1>1 DEF WorkerFields, WorkerStages
    <3>2. ses' = [ses EXCEPT ![s] = fields] /\ open' = open
      BY <1>1, <2>5 DEF EnterFails, Exit, SessionTypeOK, WorkerFields
    <3> HIDE DEF fields
    <3> QED BY <1>1, <2>1, <2>2, <3>1, <3>2, OthersInOrder
  <2>6. CASE CloseResource(s)
    <3> DEFINE opened == IF "runner" \in open[s] THEN open[s] \ {"runner"}
                         ELSE IF "transport" \in open[s] THEN open[s] \ {"transport"} ELSE {}
               stage == IF opened = {} THEN "closed" ELSE ses[s].pc
               fields == [ses[s] EXCEPT !.pc = stage]
    <3>1. open' = [open EXCEPT ![s] = opened] /\ ses[s].pc = "closing"
      BY <2>6 DEF CloseResource
    <3>2. open'[s] = opened
      BY <3>1, <1>1 DEF SessionTypeOK
    <3>3. ses' = [ses EXCEPT ![s] = fields]
      <4>1. ses' = [ses EXCEPT ![s].pc = IF open'[s] = {} THEN "closed" ELSE @]
        BY <2>6 DEF CloseResource
      <4> HIDE DEF opened
      <4> QED BY <1>1, <3>2, <4>1 DEF SessionTypeOK, WorkerFields
    <3>4. /\ opened \in SUBSET {"config", "transport", "runner"}
          /\ opened # {} => "config" \in opened
          /\ "runner" \notin opened
      BY <2>1
    <3>5. /\ stage \in {"closed", "closing"} /\ (stage = "closed" => opened = {})
      BY <3>1
    <3> HIDE DEF opened, stage
    <3>6. fields \in WorkerFields /\ fields.pc = stage
          /\ fields.entered = ses[s].entered /\ fields.closed = ses[s].closed
      BY <1>1, <3>5 DEF WorkerFields, WorkerStages
    <3>7. ses[s].entered \/ ses[s].closed
      BY <2>1, <3>1
    <3> HIDE DEF fields
    <3> QED BY <1>1, <3>1, <3>3, <3>4, <3>5, <3>6, <3>7, OthersInOrder
  <2>7. ASSUME NEW stage \in {"ready", "evaluating"}, ses[s].pc \in {"ready", "evaluating"},
               NEW todo \in SUBSET TaskIds, NEW sent \in SUBSET TaskIds, open' = open,
               ses' = [ses EXCEPT ![s] = [ses[s] EXCEPT !.pc = stage, !.todo = todo, !.sent = sent]]
        PROVE  SessionTypeOK' /\ OpenedInOrder'
    <3> DEFINE fields == [ses[s] EXCEPT !.pc = stage, !.todo = todo, !.sent = sent]
    <3>1. fields \in WorkerFields /\ fields.pc = stage
          /\ fields.entered = ses[s].entered /\ fields.closed = ses[s].closed
      BY <1>1, <2>7 DEF WorkerFields, WorkerStages
    <3>2. ses[s].entered \/ ses[s].closed
      BY <2>1, <2>7
    <3>3. ses' = [ses EXCEPT ![s] = fields] /\ open' = open
      BY <2>7
    <3> HIDE DEF fields
    <3> QED BY <1>1, <2>1, <2>2, <3>1, <3>2, <3>3, OthersInOrder
  <2>8. CASE \E tasks \in SUBSET TaskIds : EvaluateRemotely(s, tasks)
    <3>1. PICK tasks \in SUBSET TaskIds : EvaluateRemotely(s, tasks)
      BY <2>8
    <3>2. ses[s].pc \in {"ready", "evaluating"} /\ open' = open
          /\ ses' = [ses EXCEPT ![s] = [ses[s] EXCEPT !.pc = "evaluating", !.todo = tasks,
                                                     !.sent = ses[s].sent \cup tasks]]
      BY <1>1, <3>1 DEF EvaluateRemotely, SessionTypeOK, WorkerFields
    <3>3. ses[s].sent \cup tasks \in SUBSET TaskIds
      BY <1>1 DEF WorkerFields
    <3> QED BY <3>2, <3>3, <2>7
  <2>9. CASE EvaluateReturns(s) \/ EvaluateRaises(s)
    <3>1. ses[s].todo \in SUBSET TaskIds /\ ses[s].sent \in SUBSET TaskIds
      BY <1>1 DEF WorkerFields
    <3>2. PICK todo \in {ses[s].todo, {}} : ses' = [ses EXCEPT ![s] =
            [ses[s] EXCEPT !.pc = "ready", !.todo = todo, !.sent = ses[s].sent]]
      BY <1>1, <2>9 DEF EvaluateReturns, EvaluateRaises, SessionTypeOK, WorkerFields
    <3>3. ses[s].pc \in {"ready", "evaluating"} /\ open' = open
      BY <2>9 DEF EvaluateReturns, EvaluateRaises
    <3> QED BY <3>1, <3>2, <3>3, <2>7
  <2> QED BY <2>3, <2>4, <2>5, <2>6, <2>8, <2>9
<1> QED BY <1>2, <1>3, OwnerKeepsProcesses DEF WorkerInv, ResultsTrue

(* A task that is evaluated in the session's own process gets the session's
   problem. *)
LEMMA EvaluatingHereKeepsInv ==
  ASSUME WorkerInv, NEW s \in Sessions, NEW k \in TaskIds, EvaluateHere(s, k)
  PROVE  WorkerInv'
<1>1. SessionTypeOK /\ OpenedInOrder /\ ses[s] \in WorkerFields
  BY DEF WorkerInv, SessionTypeOK
<1> DEFINE fields == [ses[s] EXCEPT !.sent = ses[s].sent \cup {k}]
<1>2. fields \in WorkerFields /\ fields.pc = "ready" /\ fields.entered
  BY <1>1 DEF EvaluateHere, WorkerFields
<1>3. ses' = [ses EXCEPT ![s] = fields] /\ open' = [open EXCEPT ![s] = open[s]]
  BY <1>1 DEF EvaluateHere, SessionTypeOK, WorkerFields
<1>4. /\ open[s] \in SUBSET {"config", "transport", "runner"}
      /\ open[s] # {} => "config" \in open[s]
      /\ "runner" \in open[s] /\ Needs(s, "transport") => "transport" \in open[s]
  BY <1>1 DEF SessionTypeOK, OpenedInOrder
<1> HIDE DEF fields
<1>5. SessionTypeOK' /\ OpenedInOrder'
  BY <1>1, <1>2, <1>3, <1>4, OthersInOrder
<1>6. ResultsTrue'
  BY DEF WorkerInv, ResultsTrue, EvaluateHere, Task
<1> QED BY <1>5, <1>6, OwnerKeepsProcesses DEF WorkerInv, EvaluateHere

(* A process that takes a task runs it with the problem of the task's session,
   whether its registry had the token or not. *)
LEMMA TakingKeepsInv ==
  ASSUME WorkerInv, NEW w \in Processes, NEW s \in Sessions, NEW k \in TaskIds,
         \/ ProblemInstalled(w, Task(s, k)) \/ ProblemDecoded(w, Task(s, k))
         \/ DecodeFails(w, Task(s, k))
  PROVE  WorkerInv'
<1>1. UNCHANGED <<ses, open, results>>
  BY DEF ProblemInstalled, ProblemDecoded, DecodeFails
<1>2. Task(s, k).session = s
  BY DEF Task
<1> DEFINE task == Task(s, k)
<1>3. RegistriesTrue /\ proc[w] \in RegistryFields
      /\ task \in Tasks /\ task.session \in Sessions /\ Bound[task.session] \in Problems
  BY <1>2 DEF WorkerInv, RegistriesTrue, Problems, Tasks
<1> HIDE DEF task
<1>4. ASSUME NEW registry \in RegistryFields, proc' = [proc EXCEPT ![w] = registry],
             registry.token \in Sessions => registry.problem = Bound[registry.token],
             \A t \in registry.task : registry.with = Bound[t.session]
      PROVE  RegistriesTrue'
  BY <1>3, <1>4 DEF RegistriesTrue
<1>5. RegistriesTrue'
  <2>1. CASE ProblemInstalled(w, task)
    <3>1. proc[w].token \in Sessions /\ proc[w].problem = Bound[task.session]
      BY <1>2, <1>3, <2>1 DEF RegistriesTrue, ProblemInstalled, task
    <3> DEFINE registry == [proc[w] EXCEPT !.task = {task}, !.with = proc[w].problem]
    <3>2. proc' = [proc EXCEPT ![w] = registry]
      BY <1>3, <2>1 DEF RegistriesTrue, ProblemInstalled, RegistryFields
    <3>3. /\ registry \in RegistryFields /\ registry.token = proc[w].token
          /\ registry.problem = proc[w].problem /\ registry.task = {task}
          /\ registry.with = proc[w].problem
      BY <1>3 DEF RegistryFields
    <3>4. proc[w].token \in Sessions => proc[w].problem = Bound[proc[w].token]
      BY <1>3 DEF RegistriesTrue
    <3> HIDE DEF registry
    <3> QED BY <1>4, <3>1, <3>2, <3>3, <3>4
  <2>2. CASE ProblemDecoded(w, task)
    <3> DEFINE registry == [proc[w] EXCEPT !.token = task.session, !.problem = Bound[task.session],
                                           !.task = {task}, !.with = Bound[task.session]]
    <3>1. proc' = [proc EXCEPT ![w] = registry]
      BY <1>3, <2>2 DEF RegistriesTrue, ProblemDecoded
    <3>2. /\ registry \in RegistryFields /\ registry.token = task.session
          /\ registry.problem = Bound[task.session] /\ registry.task = {task}
          /\ registry.with = Bound[task.session]
      BY <1>2, <1>3 DEF RegistryFields
    <3> HIDE DEF registry
    <3> QED BY <1>4, <3>1, <3>2
  <2>3. CASE DecodeFails(w, task)
    BY <1>3, <2>3 DEF RegistriesTrue, DecodeFails
  <2> QED BY <2>1, <2>2, <2>3 DEF task
<1> QED BY <1>1, <1>5 DEF WorkerInv, SessionTypeOK, OpenedInOrder, ResultsTrue

LEMMA RunningKeepsInv ==
  ASSUME WorkerInv, NEW w \in Processes, NEW s \in Sessions, NEW k \in TaskIds,
         RunTask(w, Task(s, k))
  PROVE  WorkerInv'
<1> DEFINE task == Task(s, k)
           fields == [ses[s] EXCEPT !.todo = ses[s].todo \ {k}]
<1>1. SessionTypeOK /\ OpenedInOrder /\ RegistriesTrue /\ ses[s] \in WorkerFields
  BY DEF WorkerInv, SessionTypeOK
<1>2. task.session = s /\ task.id = k
  BY DEF Task
<1>3. fields \in WorkerFields /\ fields.pc = ses[s].pc
      /\ fields.entered = ses[s].entered /\ fields.closed = ses[s].closed
  BY <1>1 DEF WorkerFields
<1>4. ses' = [ses EXCEPT ![s] = fields] /\ open' = [open EXCEPT ![s] = open[s]]
  BY <1>1, <1>2 DEF RunTask, SessionTypeOK, WorkerFields
<1>5. /\ open[s] \in SUBSET {"config", "transport", "runner"}
      /\ ~ses[s].entered /\ ~ses[s].closed => ses[s].pc = "new"
      /\ ses[s].pc \in {"new", "config", "closed"} => open[s] = {}
      /\ ses[s].pc \in {"transport", "runner"} => "config" \in open[s]
      /\ ses[s].pc = "runner" /\ Needs(s, "transport") => "transport" \in open[s]
      /\ open[s] # {} => "config" \in open[s]
      /\ "runner" \in open[s] /\ Needs(s, "transport") => "transport" \in open[s]
  BY <1>1 DEF SessionTypeOK, OpenedInOrder
<1> HIDE DEF fields, task
<1>6. SessionTypeOK' /\ OpenedInOrder'
  BY <1>1, <1>3, <1>4, <1>5, OthersInOrder
<1>7. proc[w].task = {task} /\ proc[w].with = Bound[task.session]
  BY <1>1 DEF RunTask, RegistriesTrue, task
<1>8. ResultsTrue'
  <2>1. results' = results \cup {[task |-> task, problem |-> Bound[task.session]]}
    BY <1>7 DEF RunTask, task
  <2> QED BY <2>1 DEF WorkerInv, ResultsTrue
<1>9. RegistriesTrue'
  <2> DEFINE registry == [proc[w] EXCEPT !.task = {}, !.with = NoToken]
  <2>1. proc[w] \in RegistryFields
    BY <1>1 DEF RegistriesTrue
  <2>2. proc' = [proc EXCEPT ![w] = registry]
    BY <1>1, <2>1 DEF RunTask, RegistriesTrue, RegistryFields
  <2>3. /\ registry \in RegistryFields /\ registry.token = proc[w].token
        /\ registry.problem = proc[w].problem /\ registry.task = {}
    BY <2>1 DEF RegistryFields, Problems
  <2> HIDE DEF registry
  <2> QED BY <1>1, <2>2, <2>3 DEF RegistriesTrue
<1> QED BY <1>6, <1>8, <1>9 DEF WorkerInv

LEMMA WorkerInvStep == WorkerInv /\ [WorkerNext]_workerVars => WorkerInv'
<1> SUFFICES ASSUME WorkerInv, [WorkerNext]_workerVars
             PROVE  WorkerInv'
  OBVIOUS
<1>1. ASSUME NEW s \in Sessions, OwnerOf(s)
      PROVE  WorkerInv'
  <2>1. CASE \E n \in 1..3 : EnterContext(s, n)
    BY <2>1, EnteringKeepsInv
  <2>2. CASE \E k \in TaskIds : EvaluateHere(s, k)
    BY <2>2, EvaluatingHereKeepsInv
  <2> QED BY <1>1, <2>1, <2>2, OwnerKeepsInv DEF OwnerOf
<1>2. ASSUME NEW w \in Processes, ProcessStep(w)
      PROVE  WorkerInv'
  BY <1>2, TakingKeepsInv, RunningKeepsInv DEF ProcessStep
<1>3. CASE UNCHANGED workerVars
  BY <1>3 DEF workerVars, WorkerInv, SessionTypeOK, OpenedInOrder, RegistriesTrue, ResultsTrue
<1> QED BY <1>1, <1>2, <1>3 DEF WorkerNext

(* Every task is evaluated with the problem of the session that sent it, by
   whichever process and after whichever failures, and the resources of every
   session are opened and closed in order: for any number of sessions, worker
   processes and tasks. *)
THEOREM TasksSeeTheirProblem == WorkerSpec => []SessionsIsolated
<1>1. WorkerInv => SessionsIsolated
  <2> SUFFICES ASSUME WorkerInv, NEW s \in Sessions, "runner" \in open[s], NEW n \in 1..2,
                      Needs(s, Resources[n])
               PROVE  Resources[n] \in open[s]
    BY DEF WorkerInv, OpenedInOrder, ResultsTrue, SessionsIsolated
  <2>1. Resources[1] = "config" /\ Resources[2] = "transport" /\ (n = 1 \/ n = 2)
    BY DEF Resources
  <2> QED BY <2>1 DEF WorkerInv, OpenedInOrder
<1> QED BY <1>1, WorkerInvInit, WorkerInvStep, PTL DEF WorkerSpec

(***************************************************************************)
(* The fused direct loop implements the general loop for every budget,     *)
(* batch size and mode of accounting.  The one fact the refinement rests   *)
(* on is that the loop's two ways to count agree: what the history has     *)
(* summed up is what the budget has lost, but for the batch in hand.       *)
(***************************************************************************)
Batches == [slots : Nat, before : Nat, charged : Nat, looked : Nat, cost : Nat]
HistoryType == [steps : Nat, slots : Nat, cost : Nat, evaluations : Nat]

\* What the budget has lost for the batch in hand.
Held == IF CountCost THEN batch.charged ELSE 0

BatchInv ==
  /\ pc \in {"loop", "exit"} => batch = NoBatch
  /\ pc = "asked" => batch.slots \in 1..remaining /\ batch.slots <= BatchSize
                     /\ batch.charged = 0 /\ batch.cost = 0
  /\ pc \in {"evaluating", "returned"} =>
       /\ batch.slots \in 1..BatchSize /\ batch.charged = batch.slots
       /\ ~CountCost => batch.slots <= remaining
  /\ pc = "evaluating" => batch.cost = 0
  /\ pc = "returned" => batch.cost = batch.slots
  /\ pc \in {"asked", "evaluating", "returned"} => batch.before = remaining + Held

\* Direct evaluations cost one each, so history and budget count alike.
CountInv ==
  pc # "done" =>
    /\ history.evaluations + Held + remaining = MaxEvaluations
    /\ history.evaluations = history.cost

DInv ==
  /\ pc \in {"loop", "asked", "evaluating", "returned", "exit", "done"}
  /\ remaining \in Nat
  /\ batch \in Batches
  /\ history \in HistoryType
  /\ unsafeSince \in BOOLEAN
  /\ snapshot.taken => snapshot.history.evaluations >= snapshot.history.cost
  /\ BatchInv
  /\ CountInv
-----------------------------------------------------------------------------
\* A failing batch leaves the invariant alone: the call is over.
LEMMA EndKeeps ==
  ASSUME DInv, pc' = "done", history' \in HistoryType,
         UNCHANGED <<remaining, batch, snapshot, unsafeSince>>
  PROVE  DInv'
BY DEF DInv, BatchInv, CountInv

LEMMA AppendedType ==
  ASSUME DInv, pc = "returned"
  PROVE  /\ Appended \in HistoryType
         /\ Appended.evaluations = history.evaluations + batch.slots
         /\ Appended.cost = Appended.evaluations
BY DEF DInv, BatchInv, CountInv, Appended, HistoryType, Batches

LEMMA DInit == Init => DInv
<1> SUFFICES ASSUME Init PROVE DInv
  OBVIOUS
<1>1. batch = NoBatch /\ history = EmptyHistory /\ pc = "loop"
      /\ remaining = MaxEvaluations /\ unsafeSince = FALSE
  BY DEF Init
<1>2. snapshot.history = EmptyHistory
  BY DEF Init, Cut, NoCut
<1>3. NoBatch \in Batches /\ NoBatch.charged = 0 /\ EmptyHistory \in HistoryType
      /\ EmptyHistory.evaluations = 0 /\ EmptyHistory.cost = 0
  BY DEF NoBatch, EmptyHistory, Batches, HistoryType
<1>4. BatchInv
  BY <1>1 DEF BatchInv
<1>5. CountInv
  BY <1>1, <1>3, DirectAssumption DEF CountInv, Held
<1> QED
  <2>1. snapshot.history.evaluations >= snapshot.history.cost
    BY <1>2, <1>3
  <2>2. remaining \in Nat /\ batch \in Batches /\ history \in HistoryType
    BY <1>1, <1>3, DirectAssumption
  <2>3. unsafeSince \in BOOLEAN
    BY <1>1
  <2> QED BY <1>1, <1>4, <1>5, <2>1, <2>2, <2>3 DEF DInv

LEMMA DNext == DInv /\ [Next]_vars => DInv'
<1> SUFFICES ASSUME DInv, [Next]_vars PROVE DInv'
  OBVIOUS
<1> USE DirectAssumption
<1>1. CASE Ask
  <2>1. PICK n \in 1..Smaller(BatchSize, remaining) :
          batch' = [NoBatch EXCEPT !.slots = n, !.before = remaining]
    BY <1>1 DEF Ask
  <2>2. n \in 1..remaining /\ n <= BatchSize
    BY <2>1 DEF Smaller, DInv
  <2>3. batch' \in Batches /\ batch'.slots = n /\ batch'.before = remaining
        /\ batch'.charged = 0 /\ batch'.cost = 0
    <3>1. n \in Nat /\ remaining \in Nat
      BY <2>2 DEF DInv
    <3> QED BY <2>1, <3>1 DEF NoBatch, Batches
  <2>4. batch.charged = 0
    BY <1>1 DEF NoBatch, DInv, BatchInv, Ask
  <2> QED
    BY <1>1, <2>2, <2>3, <2>4 DEF Ask, DInv, BatchInv, CountInv, Held
<1>2. CASE AskFails \/ CandidateInvalid
  BY <1>2, EndKeeps DEF AskFails, CandidateInvalid, FailExecution,
     RaiseRunExecutionFailed, End, DInv
<1>3. CASE Charge
  <2>1. batch' \in Batches /\ batch'.charged = batch.slots /\ batch'.cost = 0
        /\ batch'.slots = batch.slots /\ batch'.before = batch.before
    BY <1>3 DEF Charge, DInv, BatchInv, Batches
  <2> QED
    BY <1>3, <2>1 DEF Charge, DInv, BatchInv, CountInv, Held, HistoryType
<1>4. CASE EvaluateNext
  <2>1. batch' \in Batches /\ batch'.charged = batch.charged
        /\ batch'.cost = batch.cost
        /\ batch'.slots = batch.slots /\ batch'.before = batch.before
    BY <1>4 DEF EvaluateNext, DInv, Batches
  <2> QED
    BY <1>4, <2>1 DEF EvaluateNext, DInv, BatchInv, CountInv, Held
<1>5. CASE BuildBatch
  <2>1. batch' \in Batches /\ batch'.charged = batch.charged
        /\ batch'.cost = batch.slots
        /\ batch'.slots = batch.slots /\ batch'.before = batch.before
    BY <1>5 DEF BuildBatch, DInv, Batches
  <2> QED
    BY <1>5, <2>1 DEF BuildBatch, DInv, BatchInv, CountInv, Held
<1>6. ASSUME NEW safe \in BOOLEAN, NEW exhausted \in BOOLEAN, Tell(safe, exhausted)
      PROVE  DInv'
  <2>1. /\ pc = "returned" /\ pc' \in {"loop", "exit"} /\ history' = Appended
        /\ batch' = NoBatch /\ unsafeSince' \in BOOLEAN
        /\ remaining' = IF CountCost THEN remaining ELSE remaining - batch.slots
    BY <1>6 DEF Tell
  <2>2. NoBatch \in Batches /\ NoBatch.charged = 0
    BY DEF NoBatch, Batches
  <2>3. snapshot'.taken => snapshot'.history.evaluations >= snapshot'.history.cost
    BY <1>6, <2>1, AppendedType DEF Tell, Cut, DInv, HistoryType
  <2>4. remaining' \in Nat /\ history'.evaluations + remaining' = MaxEvaluations
    BY <2>1, AppendedType DEF DInv, BatchInv, CountInv, Held, Batches, HistoryType
  <2>5. BatchInv'
    BY <2>1 DEF BatchInv
  <2>6. CountInv'
    BY <2>1, <2>2, <2>4, AppendedType DEF CountInv, Held, DInv, HistoryType
  <2> QED
    BY <2>1, <2>2, <2>3, <2>4, <2>5, <2>6, AppendedType DEF DInv
<1>7. CASE TellFails
  BY <1>7, AppendedType, EndKeeps DEF TellFails, RaiseRunExecutionFailed, End
<1>8. CASE Finish
  BY <1>8, EndKeeps DEF Finish, End, DInv
<1>9. CASE UNCHANGED vars
  BY <1>9 DEF vars, DInv, BatchInv, CountInv, Held
<1> QED BY <1>1, <1>2, <1>3, <1>4, <1>5, <1>6, <1>7, <1>8, <1>9 DEF Next

\* The two counts of the direct loop agree throughout.
THEOREM Counting == Spec => []DInv
BY DInit, DNext, PTL DEF Spec
-----------------------------------------------------------------------------
\* The names the two modules share mean the same.
LEMMA SameNames ==
  /\ General!EmptyHistory = EmptyHistory /\ General!FreshState = FreshState
  /\ General!NoCut = NoCut /\ General!NoOutcome = NoOutcome
  /\ \A h, s : General!Cut(h, s) = Cut(h, s)
BY DEF General!EmptyHistory, EmptyHistory, General!FreshState, FreshState,
       General!NoCut, NoCut, General!NoOutcome, NoOutcome, General!Cut, Cut

\* A failure reports what the budget has lost, which the history cannot exceed.
LEMMA RefFail ==
  ASSUME DInv, pc # "done", FailExecution, batch' = batch
  PROVE  General!FailExecution(remaining)
<1>1. General!PartialReport(remaining) = [history EXCEPT !.evaluations = Spent]
  BY DEF General!PartialReport, General!Spent, Spent
<1>2. MaxEvaluations - remaining >= history.cost
  BY DirectAssumption DEF DInv, CountInv, Held, HistoryType, Batches
<1>3. General!ValidReport([history EXCEPT !.evaluations = Spent])
  BY <1>2 DEF General!ValidReport, Spent, DInv, HistoryType
<1>4. snapshot.taken => General!ValidReport(snapshot.history)
  BY DEF General!ValidReport, DInv
<1>5. GeneralStep' = GeneralStep
  BY DEF GeneralStep
<1> QED
  BY <1>1, <1>3, <1>4, <1>5
     DEF FailExecution, RaiseRunExecutionFailed, End, General!FailExecution,
         General!RaiseRunExecutionFailed, General!End

LEMMA RefInit == Init => General!Init
<1> SUFFICES ASSUME Init PROVE General!Init
  OBVIOUS
<1>1. GeneralStep = General!NoStep
  BY DEF Init, GeneralStep, NoBatch, General!NoStep
<1> QED
  BY <1>1, SameNames DEF Init, General!Init

LEMMA RefNext == DInv /\ [Next]_vars => [General!Next]_(General!vars)
<1> SUFFICES ASSUME DInv, [Next]_vars PROVE General!Next \/ UNCHANGED General!vars
  BY DEF General!Next
<1>1. CASE Ask
  <2>1. PICK n \in 1..Smaller(BatchSize, remaining) :
          batch' = [NoBatch EXCEPT !.slots = n, !.before = remaining]
    BY <1>1 DEF Ask
  <2>2. GeneralStep' = [General!NoStep EXCEPT !.slots = n, !.before = remaining]
    <3>1. /\ batch'.slots = n /\ batch'.before = remaining
          /\ batch'.charged = 0 /\ batch'.cost = 0
      BY <2>1 DEF NoBatch
    <3>2. /\ General!NoStep \in General!Steps /\ General!NoStep.queried = 0
          /\ General!NoStep.reserved = 0 /\ General!NoStep.cost = 0
          /\ General!NoStep.counted = 0
      BY DEF General!NoStep, General!Steps
    <3>3. GeneralStep' \in General!Steps /\ GeneralStep'.slots = n
          /\ GeneralStep'.before = remaining /\ GeneralStep'.queried = 0
          /\ GeneralStep'.reserved = 0 /\ GeneralStep'.cost = 0
          /\ GeneralStep'.counted = 0
      BY <2>1, <3>1, DirectAssumption DEF GeneralStep, General!Steps, DInv, Smaller
    <3> QED BY <3>2, <3>3 DEF General!Steps
  <2>3. General!Ask
    BY <1>1, <2>1, <2>2 DEF Ask, General!Ask, General!HasWork, HasWork,
       General!Smaller, Smaller
  <2> QED BY <2>3 DEF General!Next
<1>2. CASE AskFails
  <2>1. General!FailExecution(remaining)
    BY <1>2, RefFail DEF AskFails, FailExecution
  <2>2. General!AskFails \/ General!KernelFails
    BY <1>2, <2>1 DEF AskFails, General!AskFails, General!KernelFails,
       General!HasWork, HasWork
  <2> QED BY <2>2 DEF General!Next
<1>3. CASE Charge
  <2>1. batch.slots \in 1..BatchSize /\ batch.charged = 0 /\ batch.slots <= remaining
        /\ pc = "asked" /\ batch.cost = 0 /\ BatchSize \in Nat
    BY <1>3, DirectAssumption DEF Charge, DInv, BatchInv, Batches
  <2>2. /\ GeneralStep.queried = 0 /\ GeneralStep.slots = batch.slots
        /\ GeneralStep' = [GeneralStep EXCEPT !.queried = @ + batch.slots]
    BY <1>3, <2>1 DEF Charge, GeneralStep, DInv, Batches
  <2>3. General!KernelQuery(batch.slots)
    BY <1>3, <2>1, <2>2 DEF Charge, General!KernelQuery
  <2> QED BY <2>1, <2>3 DEF General!Next
<1>4. CASE EvaluateNext
  <2>1. GeneralStep' = GeneralStep
    BY <1>4 DEF EvaluateNext, GeneralStep, DInv, Batches
  <2> QED BY <1>4, <2>1 DEF EvaluateNext, General!vars
<1>5. CASE CandidateInvalid
  <2>1. General!FailExecution(remaining)
    BY <1>5, RefFail DEF CandidateInvalid, FailExecution
  <2>2. General!KernelFails
    BY <1>5, <2>1 DEF CandidateInvalid, General!KernelFails
  <2> QED BY <2>2 DEF General!Next
<1>6. CASE BuildBatch
  <2>1. /\ pc = "evaluating" /\ batch.slots \in 1..BatchSize /\ batch.charged = batch.slots
        /\ batch.before = remaining + Held /\ batch.cost = 0
        /\ remaining \in Nat /\ BatchSize \in Nat
    BY <1>6, DirectAssumption DEF BuildBatch, DInv, BatchInv
  <2>2. General!Unmetered(batch.slots) = 0 /\ General!Counted(batch.slots) = batch.slots
    BY <2>1 DEF General!Unmetered, General!Counted, GeneralStep, Held
  <2>3. GeneralStep' = [GeneralStep EXCEPT !.cost = batch.slots, !.counted = batch.slots]
    <3>1. /\ batch'.slots = batch.slots /\ batch'.before = batch.before
          /\ batch'.charged = batch.charged /\ batch'.cost = batch.slots
      BY <1>6 DEF BuildBatch, DInv, Batches
    <3>2. GeneralStep \in General!Steps /\ GeneralStep' \in General!Steps
          /\ batch.slots \in Nat
      BY <2>1, <3>1 DEF GeneralStep, General!Steps, DInv, Batches
    <3>3. /\ GeneralStep'.slots = GeneralStep.slots
          /\ GeneralStep'.before = GeneralStep.before
          /\ GeneralStep'.queried = GeneralStep.queried
          /\ GeneralStep'.reserved = GeneralStep.reserved
          /\ GeneralStep'.cost = batch.slots /\ GeneralStep'.counted = batch.slots
      BY <3>1 DEF GeneralStep
    <3> HIDE DEF GeneralStep
    <3> QED BY <3>2, <3>3 DEF General!Steps
  <2>4. GeneralStep.queried + batch.slots > 0
    BY <2>1 DEF GeneralStep
  <2>5. General!KernelReturns(batch.slots)
    BY <1>6, <2>1, <2>2, <2>3, <2>4 DEF BuildBatch, General!KernelReturns
  <2>6. batch.slots \in 0..BatchSize
    BY <2>1
  <2> QED BY <2>5, <2>6 DEF General!Next
<1>7. ASSUME NEW safe \in BOOLEAN, NEW exhausted \in BOOLEAN, Tell(safe, exhausted)
      PROVE  General!Next
  <2> DEFINE s == [steps |-> state.steps + 1, slots |-> state.slots + batch.slots,
                   pending |-> FALSE, safe |-> safe, exhausted |-> exhausted]
  <2>1. General!Appended = Appended /\ General!Told(safe, exhausted) = s
    BY DEF General!Appended, Appended, General!Told, GeneralStep
  <2>2. remaining' = General!RemainingAfterTell
    BY <1>7 DEF Tell, General!RemainingAfterTell, GeneralStep, DInv, BatchInv, Held
  <2>3. snapshot' = General!Checkpointed(s)
    BY <1>7, <2>1, SameNames DEF Tell, General!Checkpointed
  <2>4. GeneralStep' = General!NoStep
    BY <1>7 DEF Tell, GeneralStep, NoBatch, General!NoStep
  <2>5. unsafeSince' = IF ~StopAtCheckpoint THEN FALSE
                       ELSE IF safe THEN unsafeSince ELSE TRUE
    BY <1>7, Zenon DEF Tell, DInv
  <2>6. /\ pc = "returned" /\ history' = Appended /\ state' = s
        /\ pc' = IF StopAtCheckpoint /\ safe /\ unsafeSince THEN "exit" ELSE "loop"
        /\ UNCHANGED <<outcome, submitted>>
    BY <1>7 DEF Tell
  <2>7. General!Tell(safe, exhausted)
    BY <2>1, <2>2, <2>3, <2>4, <2>5, <2>6 DEF General!Tell
  <2> QED BY <2>7 DEF General!Next
<1>8. CASE TellFails
  <2>1. General!Appended = Appended
    BY DEF General!Appended, Appended, GeneralStep
  <2>2. /\ General!ValidReport(Appended)
        /\ snapshot.taken => General!ValidReport(snapshot.history)
    BY <1>8, AppendedType DEF TellFails, General!ValidReport, DInv, HistoryType
  <2>3. GeneralStep' = GeneralStep
    BY <1>8 DEF TellFails, GeneralStep
  <2>4. General!TellFails
    BY <1>8, <2>1, <2>2, <2>3
       DEF TellFails, RaiseRunExecutionFailed, End, General!TellFails,
           General!RaiseRunExecutionFailed, General!End
  <2> QED BY <2>4 DEF General!Next
<1>9. CASE Finish
  <2>1. GeneralStep' = GeneralStep
    BY <1>9 DEF Finish, GeneralStep
  <2>2. Held = 0 /\ pc \in {"loop", "exit"}
    BY <1>9 DEF Finish, DInv, BatchInv, Held, NoBatch
  <2>3. history.evaluations = Spent
    BY <2>2, DirectAssumption DEF DInv, CountInv, Spent, HistoryType
  <2>4. [history EXCEPT !.evaluations = Spent] = history
    BY <2>3 DEF DInv, HistoryType
  <2>5. General!Finish
    BY <1>9, <2>1, <2>2, <2>4, SameNames
       DEF Finish, End, HasWork, General!Finish, General!End, General!HasWork
  <2> QED BY <2>5 DEF General!Next
<1>10. CASE UNCHANGED vars
  BY <1>10 DEF vars, General!vars, GeneralStep
<1> QED
  BY <1>1, <1>2, <1>3, <1>4, <1>5, <1>6, <1>7, <1>8, <1>9, <1>10 DEF Next

\* Study.optimize's fused direct loop implements the general run loop, so the
\* theorems about that loop hold of it.
THEOREM Refinement == Spec => ImplementsStudyRun
BY RefInit, RefNext, Counting, PTL DEF Spec, ImplementsStudyRun, General!Spec
==================================================================================
