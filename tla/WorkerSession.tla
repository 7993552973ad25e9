---------------------------- MODULE WorkerSession ----------------------------
(***************************************************************************)
(* Joblib worker sessions (src/variopt/evaluators/joblib/session.py) and   *)
(* the problem registry of the worker processes (worker_context.py).       *)
(*                                                                         *)
(* A session opens a configuration, a snapshot of its problem in a         *)
(* temporary file and a joblib runner, in this order, any of which may     *)
(* fail, and closes them in the opposite order.  Loky reuses its worker    *)
(* processes: one worker serves the tasks of a session, of the next one,   *)
(* and of one that another thread has open, so the registry of each        *)
(* process keeps the problem of one token and replaces it when a task      *)
(* carries another.  Tasks of a batch that failed may still run when the   *)
(* session that sent them is gone and its snapshot deleted.                *)
(***************************************************************************)
EXTENDS Integers, FiniteSets

CONSTANTS
  Sessions,    \* JoblibWorkerSession objects; each draws a token of its own
  Bound,       \* the problem each session is made for
  Backend,     \* the backend each session asks for: "loky" or "threading"
  Processes,   \* the worker processes of loky
  NoToken,     \* an empty registry
  TaskIds      \* bound: the tasks a session can send

ASSUME SessionAssumption ==
  /\ Backend \in [Sessions -> {"loky", "threading"}]
  /\ NoToken \notin Sessions
  /\ IsFiniteSet(TaskIds)

VARIABLES
  ses,      \* the fields of each session and where its owner is
  open,     \* the resources each session has open
  queued,   \* tasks sent to loky and not yet taken
  proc,     \* each process: its registry and the task it runs
  results   \* history: which problem each task was evaluated with

workerVars == <<ses, open, queued, proc, results>>

-----------------------------------------------------------------------------
Resources == <<"config", "transport", "runner">>

(* What __enter__ opens for a session, in order. *)
Needs(s, resource) == resource # "transport" \/ Backend[s] = "loky"

NewSession == [pc |-> "new", entered |-> FALSE, closed |-> FALSE,
               runner |-> FALSE, todo |-> {}, sent |-> {}]

NothingOpen ==
  /\ open = [s \in Sessions |-> {}]
  /\ queued = {}
  /\ proc = [w \in Processes |-> [token |-> NoToken, problem |-> NoToken,
                                  task |-> {}, with |-> NoToken]]
  /\ results = {}

WorkerInit == ses = [s \in Sessions |-> NewSession] /\ NothingOpen

(* __enter__: a session that was entered or closed before raises. *)
Enter(s) ==
  /\ ~ses[s].entered /\ ~ses[s].closed
  /\ ses' = [ses EXCEPT ![s].entered = TRUE, ![s].pc = "config"]
  /\ UNCHANGED <<open, queued, proc, results>>

(* resource_stack.enter_context: the next resource that the session needs.
   With the runner in place the session is ready. *)
EnterContext(s, n) ==
  LET resource == Resources[n]
      needed == {k \in (n + 1)..3 : Needs(s, Resources[k])}
      next == IF needed = {} THEN "ready"
              ELSE Resources[CHOOSE k \in needed : \A j \in needed : k <= j]
  IN
  /\ ses[s].pc = resource
  /\ open' = [open EXCEPT ![s] = @ \cup {resource}]
  /\ ses' = [ses EXCEPT ![s].pc = next, ![s].runner = (resource = "runner")]
  /\ UNCHANGED <<queued, proc, results>>

(* One effective job: the configuration is popped again, the session is ready
   without a runner. *)
EnterSerial(s) ==
  /\ ses[s].pc \notin {"config", "ready"} /\ open[s] = {"config"}
  /\ ses[s].entered
  /\ open' = [open EXCEPT ![s] = {}]
  /\ ses' = [ses EXCEPT ![s].pc = "ready"]
  /\ UNCHANGED <<queued, proc, results>>

(* Opening a resource raises; a snapshot half written is deleted by create. *)
EnterFails(s) ==
  /\ ses[s].pc \in {"config", "transport", "runner"}
  /\ ses' = [ses EXCEPT ![s].entered = FALSE, ![s].closed = TRUE,
                        ![s].runner = FALSE, ![s].pc = "closing"]
  /\ UNCHANGED <<open, queued, proc, results>>

(* __exit__, after a batch or instead of one. *)
Exit(s) ==
  /\ ses[s].entered /\ ses[s].pc = "ready"
  /\ ses' = [ses EXCEPT ![s].entered = FALSE, ![s].closed = TRUE,
                        ![s].runner = FALSE, ![s].pc = "closing"]
  /\ UNCHANGED <<open, queued, proc, results>>

(* ExitStack closes the resource opened last, whatever the others raise. *)
CloseResource(s) ==
  /\ ses[s].pc = "closing"
  /\ open' = [open EXCEPT ![s] =
       IF "runner" \in @ THEN @ \ {"runner"}
       ELSE IF "transport" \in @ THEN @ \ {"transport"} ELSE {}]
  /\ ses' = [ses EXCEPT ![s].pc = IF open'[s] = {} THEN "closed" ELSE @]
  /\ UNCHANGED <<queued, proc, results>>

-----------------------------------------------------------------------------
(* evaluate, evaluate_attempts and evaluate_request_local_episodes: the
   session must be active and the problem its own, else they raise.  Without
   a transport the problem itself goes to the worker. *)
Task(s, k) == [session |-> s, id |-> k]

EvaluateHere(s, k) ==
  /\ ses[s].entered /\ ses[s].pc = "ready"
  /\ ~ses[s].runner \/ "transport" \notin open[s]
  /\ k \notin ses[s].sent
  /\ ses' = [ses EXCEPT ![s].sent = @ \cup {k}]
  /\ results' = results \cup {[task |-> Task(s, k), problem |-> Bound[s]]}
  /\ UNCHANGED <<open, queued, proc>>

EvaluateRemotely(s, batch) ==
  /\ ses[s].entered /\ ses[s].pc = "ready" /\ ses[s].runner
  /\ "transport" \in open[s]
  /\ batch # {} /\ batch \cap ses[s].sent = {}
  /\ ses' = [ses EXCEPT ![s].pc = "evaluating", ![s].todo = batch,
                        ![s].sent = @ \cup batch]
  /\ queued' = queued \cup {Task(s, k) : k \in batch}
  /\ UNCHANGED <<open, proc, results>>

(* The runner returns all results. *)
EvaluateReturns(s) ==
  /\ ses[s].pc = "evaluating" /\ ses[s].todo = {}
  /\ ses' = [ses EXCEPT ![s].pc = "ready"]
  /\ UNCHANGED <<open, queued, proc, results>>

(* The runner raises, for a task that failed or an interrupt of the caller.
   What the processes have not taken is cancelled or not. *)
EvaluateRaises(s) ==
  /\ ses[s].pc = "evaluating"
  /\ ses' = [ses EXCEPT ![s].pc = "ready", ![s].todo = {}]
  /\ \E cancelled \in SUBSET {t \in queued : t.session = s} :
       queued' = queued \ cancelled
  /\ UNCHANGED <<open, proc, results>>

-----------------------------------------------------------------------------
Idle(w) == proc[w].task = {}

(* JoblibWorkerProblemRegistry.problem_for, for a token that is installed. *)
ProblemInstalled(w, task) ==
  /\ Idle(w) /\ task \in queued
  /\ proc[w].token = task.session
  /\ proc' = [proc EXCEPT ![w].task = {task}, ![w].with = proc[w].problem]
  /\ queued' = queued \ {task}
  /\ UNCHANGED <<ses, open, results>>

(* ... for another token: decode the snapshot of the task's session, if it is
   still there, and replace both. *)
ProblemDecoded(w, task) ==
  /\ Idle(w) /\ task \in queued
  /\ proc[w].token # task.session
  /\ "transport" \in open[task.session]
  /\ proc' = [proc EXCEPT ![w].token = task.session,
                          ![w].problem = Bound[task.session],
                          ![w].task = {task}, ![w].with = Bound[task.session]]
  /\ queued' = queued \ {task}
  /\ UNCHANGED <<ses, open, results>>

Mutant_TokenFirst(w, task) ==
  /\ Idle(w) /\ task \in queued
  /\ proc[w].token # task.session
  /\ proc' = [proc EXCEPT ![w].token = task.session]
  /\ queued' = queued \ {task}
  /\ UNCHANGED <<ses, open, results>>

(* ... which may fail, and leaves the registry as it is; the runner learns of
   the failed task. *)
DecodeFails(w, task) ==
  /\ Idle(w) /\ task \in queued
  /\ proc[w].token # task.session
  /\ queued' = queued \ {task}
  /\ UNCHANGED <<ses, open, proc, results>>

(* evaluate_worker_session_request*: the problem that problem_for returned. *)
RunTask(w, task) ==
  /\ proc[w].task = {task}
  /\ results' = results \cup {[task |-> task, problem |-> proc[w].with]}
  /\ proc' = [proc EXCEPT ![w].task = {}, ![w].with = NoToken]
  /\ ses' = [ses EXCEPT ![task.session].todo = @ \ {task.id}]
  /\ UNCHANGED <<open, queued>>

-----------------------------------------------------------------------------
OwnerOf(s) ==
  \/ Enter(s) \/ EnterSerial(s) \/ EnterFails(s) \/ Exit(s) \/ CloseResource(s)
  \/ \E n \in 1..3 : EnterContext(s, n)
  \/ \E k \in TaskIds : EvaluateHere(s, k)
  \/ \E batch \in SUBSET TaskIds : EvaluateRemotely(s, batch)
  \/ EvaluateReturns(s) \/ EvaluateRaises(s)

ProcessStep(w) ==
  \E s \in Sessions, k \in TaskIds :
    \/ ProblemInstalled(w, Task(s, k)) \/ ProblemDecoded(w, Task(s, k))
    \/ DecodeFails(w, Task(s, k)) \/ RunTask(w, Task(s, k))

WorkerNext ==
  \/ \E s \in Sessions : OwnerOf(s)
  \/ \E w \in Processes : ProcessStep(w)

WorkerSpec == WorkerInit /\ [][WorkerNext]_workerVars

-----------------------------------------------------------------------------
(* Every task is evaluated with the problem of the session that sent it, also
   by a process that served another session before, between two tasks of this
   one, or that failed to decode a snapshot.  Between two calls of its owner a
   session that is not entered has nothing open, whichever of its resources
   failed to open; and no runner is ever up without the snapshot its tasks
   read. *)
SessionsIsolated ==
  /\ \A r \in results : r.problem = Bound[r.task.session]
  /\ \A s \in Sessions :
       /\ ses[s].pc \in {"new", "closed"} => open[s] = {}
       /\ "runner" \in open[s] => \A n \in 1..2 :
            Needs(s, Resources[n]) => Resources[n] \in open[s]
=============================================================================
