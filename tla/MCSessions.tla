------------------------------ MODULE MCSessions ------------------------------
(* Model-checking instance of what a study exchanges with an evaluator: the
   step session of an asynchronous evaluator, the worker sessions of the
   synchronous one, the fused loop that does without either, and the attempts
   that all of them return.  They share no state, so a behaviour is about one
   of them; `part` says which. *)
EXTENDS ExactAsyncStep, WorkerSession, AttemptArtifacts, DirectScalarRun

CONSTANTS s1, s2, s3, p1, p2, Parts

VARIABLE part

-----------------------------------------------------------------------------
(* What a protocol or a kernel may make of a request: values 1 and 2 are one
   candidate to the space, and two to `==`. *)
MCClass == <<1, 1, 2>>

Candidate(at, val) == [at |-> at, val |-> val]
RequestOf(at, cand, id) == [at |-> at, cand |-> cand, id |-> id]
PayloadOf(kind, score, record) == [kind |-> kind, score |-> score, record |-> record]

First  == RequestOf(1, Candidate(1, 1), 1)
Second == RequestOf(2, Candidate(2, 3), 2)

Simple(request, payload) == [request |-> request, made |-> Success(request, payload, 1, << >>, FALSE)]
NoAnswer(request)        == [request |-> request, made |-> Failure(request, 1)]

Records ==
  {[request |-> r, cand |-> c] : r \in {First, RequestOf(31, First.cand, 1), RequestOf(31, First.cand, 2)},
                                 c \in {First.cand, Candidate(21, 1), Candidate(21, 2), Candidate(21, 3)}}

(* A refined candidate, and what the refinement says it is. *)
Refinements ==
  UNION {{[request |-> RequestOf(41, c, 1), ref |-> <<[source |-> First.cand, refined |-> d]>>] :
             d \in {c, Candidate(43, 1), Candidate(43, 3)}} : c \in {Candidate(42, 2), Candidate(42, 3)}}

RefinedRecords(request) ==
  {<< >>} \cup {<<[request |-> r, cand |-> c]>> :
                  r \in {First, request, RequestOf(44, Candidate(45, 2), 1), RequestOf(44, Candidate(45, 3), 1)},
                  c \in {request.cand, Candidate(46, request.cand.val)}}

Made(kind, score) ==
  {Simple(First, PayloadOf(kind, score, << >>))}
    \cup {Simple(First, PayloadOf(k, score, <<r>>)) : k \in {kind, "custom"}, r \in Records}
    \cup UNION {{[request |-> First, made |-> Success(f.request, PayloadOf(k, score, r), 2, f.ref, TRUE)] :
                   k \in {kind, "custom"}, r \in RefinedRecords(f.request)} : f \in Refinements}

MCBatches ==
  {<<m, Simple(Second, PayloadOf("value", <<2>>, << >>))>> : m \in Made("value", <<2>>) \cup {NoAnswer(First)}}
    \cup {<<m, Simple(Second, PayloadOf("vector", <<1, 1>>, << >>))>> : m \in Made("vector", <<2, 1>>)}
    \cup {<<m, Simple(Second, PayloadOf("vector", <<1, 2>>, << >>)), NoAnswer(RequestOf(3, Candidate(3, 1), 3))>> :
            m \in Made("vector", <<2, 1>>)}
    \cup {<<Simple(First, PayloadOf("vector", <<2, 1>>, << >>)), Simple(Second, PayloadOf("vector", <<1>>, << >>))>>}

sessionVars  == <<stepVars, workerVars, artifactVars, vars, part>>

-----------------------------------------------------------------------------
(* Two loky sessions share the processes; one session stays in threads.  The
   sessions that a behaviour does not use are closed from the start. *)
MCBound   == [s \in {s1, s2, s3} |-> IF s = s1 THEN p1 ELSE p2]
MCBackend == [s \in {s1, s2, s3} |-> IF s = s3 THEN "threading" ELSE "loky"]

Unused == [NewSession EXCEPT !.closed = TRUE, !.pc = "closed"]

SessionsInit ==
  /\ part \in Parts
  /\ IF part = "step" THEN StepInit ELSE StepInit /\ program = "step"
  /\ IF part = "worker"
     THEN /\ \E used \in {{s1, s2}, {s3}} :
               ses = [s \in Sessions |-> IF s \in used THEN NewSession ELSE Unused]
          /\ NothingOpen
     ELSE WorkerInit
  /\ IF part = "artifacts" THEN ArtifactInit
     ELSE raw = "scalar" /\ exchange = << >> /\ slots = << >> /\ stage = "asked" /\ report = NoReport
  /\ IF part = "direct" THEN Init ELSE Init /\ ~state.safe /\ ~state.exhausted

SessionsNext ==
  /\ UNCHANGED part
  /\ \/ part = "step" /\ StepNext /\ UNCHANGED <<workerVars, artifactVars, vars>>
     \/ part = "worker" /\ WorkerNext /\ UNCHANGED <<stepVars, artifactVars, vars>>
     \/ part = "artifacts" /\ ArtifactNext /\ UNCHANGED <<stepVars, workerVars, vars>>
     \/ part = "direct" /\ Next /\ UNCHANGED <<stepVars, workerVars, artifactVars>>

SessionsSpec == SessionsInit /\ [][SessionsNext]_sessionVars /\ StepFairness
=============================================================================
