# Verification of variopt

variopt is a black-box optimisation library: a *study* asks a *run method* (an
evolutionary algorithm, a search) for proposals, a *kernel* turns proposals into
evaluation requests, an *evaluator* evaluates them in processes, and the study
tells the run method the attempts that came back. This project models the parts
of that loop whose correctness depends on order: who takes which evaluation off
the budget and when, what a caller is told when something fails half-way, what
happens when several threads and processes work on one batch, and what a search
method makes of answers that come late, in pieces, or not at all.

Contents: [1 System](#1-the-system) · [2 Plan](#2-plan) ·
[3 Modules](#3-modules-and-the-code-they-model) · [4 Runs](#4-what-the-runs-check) ·
[5 Bounds](#5-bounds) · [6 Fairness](#6-fairness) · [7 Proofs](#7-what-is-proved) ·
[8 Findings](#8-findings) · [9 Limits](#9-what-is-only-checked-and-what-is-not-modelled)

Paths below are relative to `src/src/variopt/`.

## 1. The system

| Component | State it keeps | Operations | Hard because | Correct when |
|---|---|---|---|---|
| **AsyncJoblibEvaluator** (`evaluators/joblib/asynchronous.py`, data in `batches.py`) | dictionaries of active and suspended batches, sets of resuming and discarded-while-resuming ids, all under `_lifecycle_lock`; per batch the completed indices, retry count, generation, a bounded queue filled by a daemon drain thread | submit, poll, wait, cancel, suspend, resume, discard; retry after a pool failure | several client threads per batch, a drain worker per attempt, backend calls made outside the lock, queues replaced under a waiting thread | each request is reported at most once; a live batch has one home; retries stay within the budget; every call returns; drain workers end |
| **Exact-async steps** (`study/exact_async/`) over **batch sessions** (`evaluators/joblib/batches.py`) | per step the attempts collected so far and a lifecycle; per batch session a lifecycle and a completed count beside the evaluator's; no locks | open, poll, wait, suspend, resume, finish, cancel | three lifecycles describe one batch and move underneath each other; handles of two levels travel apart; tell may raise after the batch is over | attempts add up over every suspension; the step is told at most once and as a whole; nothing stays in the evaluator when the step is given up |
| **Joblib worker sessions** (`evaluators/joblib/session.py`, `worker_context.py`) | a transport file, a token, a runner; in each worker one (token, problem) | enter, dispatch, exit; look up by token | workers outlive sessions and serve two at a time; any resource may fail to open | no worker evaluates another session's problem; nothing leaks |
| **Artifacts** (`artifacts/`) | immutable attempts, records, reports; a memory of which candidates were compared | build, pickle, accept, materialise, replace, report, project, save, load | identity, `==` and the predicate of the space disagree, and a pickle changes two of them | what was accepted is reported, for its own request, with its own score and cost |
| **Study run loop** (`study/execution.py`, `assimilation.py`, `failures.py`, `execution.py`) | the evaluation ledger, the history, the run-method state, the latest checkpoint-safe cut | ask, evaluate through a kernel, settle costs, append, tell, roll back, report | user code may raise at every call, each time with something else already spent, appended or told | the ledger balances; the hard budget holds; reports cover what was spent; a checkpoint pairs a state with exactly the steps it was told; failures carry their reports |
| **Fused direct loop** (`_optimize_direct_scalar_sequential`) | the same, in a history of its own | the same without kernel and evaluator | a second implementation of every failure path | callers cannot tell it from the general loop |
| **Request-local episodes** (`evaluators/episodes.py`, `_max_min_evaluation_limits`, `EvaluationReservationBatch`) | per-request limits, a reservation, one bounded runner per episode | allocate, reserve, run, settle, forfeit | episodes end in any order and some outlive the failure of another | limits are shared fairly; no episode exceeds its limit; the ledger pays for calls made, or for all that was reserved |
| **Stale-async run loop** (`study/stale_async.py`) | open sessions, remaining budget, history, latest cut | submit, sweep, assimilate a group, refill, cancel all | groups of different sessions are told in completion order while newer asks have changed the state; costs turn out larger than charged after the budget went to refills | the budget covers everything in flight; nothing submitted is dropped; checkpoints are aligned; every way out closes all sessions |
| **CSA engine** (`algorithms/population/csa/`) | a bank, a reference bank or a refresh pool, pending proposals, a generation's queue and buffer, progression (cutoff, stages, masks, pending boundary action), seed status, clusters, growth, temperature | ask, tell, tell_attempts, save, restore | proposals settle in any order, a generation commits with its last one, indices into the bank are kept while the bank is replaced, cut, sorted and grown | nothing told is lost and ask can go on; marks follow their entries; the best is kept; what is saved resumes exactly |
| **CSA distance cache** (`banking/queries.py`) | rows of distances dated by revisions, a snapshot of neighbour counts | distance, crowding counts, rebase, seed, remove | lazily filled from both sides, partly carried over | it answers as a fresh one |
| **CSA proposal policy** (`generation/proposal/`) | provenance of outstanding proposals, discounted statistics of families, leaves and displacements | register, credit a generation, forget failures, hint a local search | touched lazily, credited in batches, shared between several causes | statistics are those of an eager ledger; local search is refused for failures alone |
| **Genetic algorithms, differential evolution** | population, queue of children, ordered buffer | ask and tell a generation in slices; survivor selection | slices cut the queue; four selections with elites, niches, seeds and backfill | children once and in order; nobody worth keeping is lost |
| **Structured local search, SciPy kernel** (`algorithms/local_search/`) | one episode: incumbent, stage, evaluations used | improve each proposal of a batch, or one request under a limit | budgets shared between proposals, limits computed in advance, failures one by one, exits through a library | a limit suffices for a whole search; each slot reports what was evaluated |
| **Permutation operators, spaces, randomness, manifests and traces** | little or none | pure, numerical or descriptive | boundaries | results stay in their space |

Interaction. `Study.run` calls `run`, `run_stale_async` or the exact-async
functions; these call the run method (ask, tell), the kernel, and through a batch
executor the evaluator. The evaluator calls back nothing: groups are polled. The
ledger `EvaluationBudget` is shared by the loop, the executor handed to a kernel
and a reservation. The async evaluator's dictionaries are the only state shared
between threads; joblib's worker processes share nothing but a transport file.

The hazards of this code, each at the line where it bites and with the
properties that would catch it, are listed in `PROJECT.json`. One of them, a
rounding error, no model of integers can show; section 9 describes it.

## 2. Plan

In order of importance. Stages 1 to 8 are done; what is left is proof.

1. `BatchContract`, `AsyncJoblib`: the concurrent core, its contract, safety and
   liveness; type correctness, exactly-once, one-home and refinement theorems.
2. `StudyRun`, `DirectScalarRun`: the synchronous loops; ledger, report and
   checkpoint theorems, refinement of the general loop by the fused one.
3. `EvaluationLimits`, `ReservationContract`, `EpisodeBatch`: what `StudyRun`
   abstracts to "a limit between the batch size and the budget".
4. `StaleAsyncRun`: overlapping sessions.
5. `ExactAsyncStep`, `WorkerSession`, `AttemptArtifacts`: what a study exchanges
   with an evaluator, over `BatchContract` where the evaluator is concerned.
6. `CsaProgress`, `CsaBank`, `CsaEngine`, `CsaCheckpoint`: the CSA engine as a
   run method, and its checkpoints; `DistanceWorkspace`: its cache;
   `ProposalAdaptation`: what its proposals teach it.
7. `GenerationalMethods`: genetic algorithms and differential evolution.
8. `StructuredSearch`, `ScipyEpisode`: local-search kernels; `LocalSearch`: both.
9. Proofs, module by module in the same order (section 7). Left:
   `AskAlwaysPossible` of the CSA engine, `ResumesExactly`, `EvaluationsSuffice`.

Composition. `EpisodeBatch` EXTENDS `EvaluationLimits`; `DirectScalarRun`
INSTANCEs `StudyRun`, `AsyncJoblib` INSTANCEs `BatchContract` and `EpisodeBatch`
INSTANCEs `ReservationContract`, each with a refinement mapping; `ExactAsyncStep`
runs on an INSTANCE of `BatchContract`, which `AsyncJoblib` is shown to
implement. `CsaCheckpoint` EXTENDS `CsaEngine`, `CsaBank`, `CsaProgress` in a
chain, `LocalSearch` puts the two backends of a local search side by side, and
`MCStudyRun`, `MCSessions` and `MCPopulation` other modules that share no state: a
behaviour is about one `part`, the others rest. Proof modules EXTEND the
module they are about; `SumTheorems`, the facts about sums over finite sets, serves
four of them. `SessionProofs`, `PopulationProofs`, `SearchMethodProofs` (the
kernels, then the generational methods), `BudgetProofs` (the stale-async loop, then a
batch of episodes) and `StudyRunProofs` (the run loop, then the attempts it is
handed) each hold the theorems of modules that share no state, and `MarksProofs`
EXTENDS `PopulationProofs`. No module declares a RECURSIVE operator.

## 3. Modules and the code they model

The exact lines of every definition are in `PROJECT.json` under `map`.
Definitions named `Mutant_...` are plausible bugs: variants of the definition
that follows them. Nothing uses them but the mutation of a run.

### AsyncJoblib

One logical batch. Every operation of the evaluator touches the entries of one
batch id only, so one batch is all the state its properties need. `active`,
`suspended`, `resuming`, `discarded` are the batch's entries in the four
collections; `obj` holds the fields of each `ActiveAsyncJoblibBatch` (a resume
makes a new one), `att` one attempt per object and generation (its inputs, the
requests the backend has not yielded, the abort event, the bounded queue, the
drain worker), `th` the local variables of each client thread. **A critical
section of `_lifecycle_lock` is one step; whatever the code does outside the lock
is a step of its own.** Hence a `poll` is Lookup, ReadQueue, TakeEvent (or
QueueEmpty), CheckEvent, then Deliver, RejectDuplicate, RaiseInactive, Retry,
RetryStartFails, RefuseRetry or FailBatch, and any thread may run in between.
The backend may break its pool, let the objective raise, be interrupted, end
early, repeat a request, or fail to start (`BackendFaults`). `Family` selects
outcome batches or native attempt batches, which differ in how they classify
failures. `BatchContract` is what a caller may rely on: new, running, parked,
then one terminal phase, each request delivered at most once while running.

### StudyRun and DirectScalarRun

`run()` as a sequential program: each point at which user code (ask, kernel,
evaluator, materializer, tell) may raise is an action, because what has been
charged, appended and told differs at each. The history is append-only, so a cut
is its lengths; a run-method state is what it was told plus the two predicates
the loop asks (`is_checkpoint_safe_state`, `is_exhausted`), which user code may
answer arbitrarily. `Kernel` chooses between one query for the whole batch
("direct"), queries in pieces ("search"), and reserved episodes ("episodes").
`CountCost` is `count_evaluation_cost`. A batch of episodes that fails forfeits its
reservation; most exceptions then end the call with `RunExecutionFailed`
(`EpisodesFail`), but an `EvaluationBudgetExhausted` that a runner raised and a kernel
let through ends it as if the run's own budget were used up (`EpisodesRefused`,
`EndExhausted`; section 8). `DirectScalarRun` translates the fused
loop line by line and is shown to implement `StudyRun` with the direct kernel;
its refinement mapping turns the batch in hand into the step in progress.

### EvaluationLimits, EpisodeBatch, ReservationContract

`EvaluationLimits` is `_max_min_evaluation_limits`: one step per iteration of the
water-filling loop. Its reference definition hands out evaluations one at a time
to the request that has least. `EpisodeBatch` runs the allocation, reserves the
sum, dispatches one episode per request to workers that call the objective
through a bounded runner, collects results in arrival order, then settles or
forfeits. Workers may still be calling when the batch fails.
`ReservationContract` says what the run's budget is promised meanwhile.

### StaleAsyncRun

`run_stale_async`. `sessions` counts, per open session, requests running and
requests completed but not polled; the evaluator completes any of them at any
time. `sweep` is the position in `for active_session in tuple(active_sessions)`
with the requests polled and not yet told; `StillActive` keeps the sessions that
have work left, in their order. A group is settled, appended, told,
and followed by a refill, each a step that may fail; sessions opened by refills
are polled in the next sweep. `Interrupt` is a `BaseException` anywhere in the
loop.

### ExactAsyncStep

One step of a study over one batch. `phase` and `delivered` are the evaluator's
batch, as `BatchContract` lets it move; `sessions` holds, for every session made
for the step, the lifecycle and count of the joblib session and the lifecycle and
attempts of the study session in front of it; `handles` the resume handles. None
of the two takes a lock, so every read of a lifecycle and every call into the
evaluator is a step (`call` says where each thread is). `Owner` polls, waits,
finishes, suspends and resumes, with any handle it was given; `Interrupter`
cancels any session of the step at any moment. The other `program` is
`evaluate_batch_exact_async`, the loop of `Study.step`. Two things are outside.
Several threads that *collect* from one session at a time lose updates of
`_completed_count` and, after a resume, take each other's groups; the code keeps
no lock there and is not meant for it. And a cancel that read "active" may reach
the evaluator while the batch is being resumed, which evaluators refuse: the
history variable `missed` excludes that case from `NothingLeftBehind`.

### WorkerSession

`JoblibWorkerSession` and the registry of each worker process. Opening a
configuration, a snapshot and a runner are steps that may fail, each followed by
closing what is open in the opposite order. A loky process takes tasks of two
sessions in any order, keeps the problem of one token, and decodes the snapshot
of another when a task carries its token, which fails when the snapshot is gone.

### AttemptArtifacts

The life of one batch of attempts as values. A candidate is an object and a
value, `[at, val]`, and is compared by identity, by `==`, or by the predicate of
the space, which takes two values for one. A success may be refined (its request
was changed before it was evaluated), may carry a record made for its own
request, a copy or another, and remembers in `aligned` and `sourced` which pairs
it has compared. `Evaluate`, `Deliver` (a pickle: numbers lose their identity,
the predicate is dropped), `Accept` against the requests, `Materialize`,
`Report`, `ProjectResult` / `ProjectSurface` and `SaveAndLoad` follow each other;
`MaterializeWrongly` is a materializer of the user. What workers may make of a batch
is the constant `Batches`; `BatchesAssumption` says of it what the code guarantees: an
object is one object wherever its identity is the same, an attempt keeps the number of
its request, and the requests of a batch bear distinct numbers, as those of every run
method of variopt do (`de-n`, `csa-n`, the generations of a genetic algorithm). The
number is optional for a run method of the user's; without one, two slots with equal
candidates could be exchanged and nothing in the code would notice.

### CsaProgress, CsaBank, CsaEngine, CsaCheckpoint

The engine state is one record, as the code keeps one immutable object and every
call returns the next. `CsaProgress` is the cutoff schedule, stages, masks, the
pending boundary action, and the status and choice of seeds; `CsaBank` the batch
update: admission, the local, cluster and far routes of replacement, growth, the
energy cut, clusters, the reference bank, the refresh pool. `CsaEngine` has one
action per call: `Ask` (samples until the bank is full or a refresh has its pool,
then children of a generation, crossing a due boundary first), `Tell` and
`TellAttempts` of any outstanding proposals in any grouping. A call that raises
leaves the old state in use, so it is no step. Candidates are points on a line
with a small table of values; a kernel may have moved a child anywhere before it
is told. Bank entries carry two marks that the code does not have, to compare
what is remembered by index with the entry it was meant for; `owed` likewise says
which evaluations were told and not applied. `CsaCheckpoint` translates the
`to_dict` and `from_dict` of every part and the checks of its constructors. A
boundary is crossed by the call that leaves nothing outstanding, so the pending
actions these can write are never met in a state that can be saved.

### DistanceWorkspace

`BankDistanceWorkspace` field by field: rows with revisions, the rule which of
two rows owns a distance, counts of neighbours updated from a snapshot and the
rows changed since. `made` names row objects, which the code compares with `is`.
The distance of two candidates is a constant, `Metric`: the theorem needs it
symmetric, the run takes points on a line.

### ProposalAdaptation

The CSA proposal policy. `learned` is `CSAProposalState` (statistics, update
index, pending provenance); `flow` is the generation it is credited by. Every
statistic is discounted when it is touched, by the updates since it was touched
last; `ledger` is what it would be if all were brought up to date at every
update, computed from what the proposals really were. Shares are exact integers
(section 9). `LocalSearch` is the hint a kernel gets for each proposal.

### GenerationalMethods

The queue and its index, the ordered buffer, and `_build_next_population` of five
methods (elitist, clearing, species-conserving and restricted-tournament genetic
algorithms, differential evolution). How children are bred is numerical: a child
may be anywhere.

### StructuredSearch and ScipyEpisode

A step of `StructuredSearch` is one evaluation or one decision between two. The
descents differ in their stages (leaf by leaf, pairs, a sampled neighborhood, a
sequence of these); the iterated kernel kicks and descends again. A job is a
batch under one budget, or a single episode whose limit was computed in advance
(`PreferredLimit` and its parts). `ScipyEpisode` is the SciPy kernel around a
minimizer that may ask for any coordinates and return any of them; `solution` is
how the minimization ended, which decides what the slot has to be about (`Named`).

## 4. What the runs check

Deadlock checking is off in every run: each model ends on purpose, with a call
that has returned, a batch that is over, or a bound on updates, revisions or
evaluations used up. Where the code must not stop earlier, a liveness property or
`AskAlwaysPossible` says so.

| Run | Question | Checked |
|---|---|---|
| `AsyncJoblib_faults` | does a batch keep one home, its retry budget and its results when pools break, objectives raise, attempts fail to start and two controllers cancel, suspend, resume and discard it? | OneHome, RetryBudget, WorkAccounted |
| `AsyncJoblib_two_waiters` | do two threads waiting on one handle keep the contract, and does a backend that repeats a request reach a caller? | CompletionsAccounted, ImplementsContract |
| `AsyncJoblib_live` | when objective calls return: does every call return through pool failures, raising objectives, interrupts and early ends, and does the drain worker of an abandoned attempt end with its queue full? And is a waiter released when its batch is taken away, though the objective hangs? | CallsReturn |
| `Sessions_protocol` | what a study exchanges with an evaluator: steps suspended, resumed, cancelled and told; worker sessions sharing a process; attempts through pickling, acceptance, reports and saving; and is the fused loop, which does without sessions, with its budget counted in attempt slots, indistinguishable from the general one? | StepAccounted, ToldOnce, StepCallsReturn; SessionsIsolated; ProvenanceKept, AcceptedIsReported; ImplementsStudyRun |
| `StudyRun_ledger` | does the ledger balance through episodes, queries in pieces, refunds and forfeits; what is returned or raised when any call fails; is the rollback to the latest aligned cut; does the loop end? And in a batch of episodes: does water filling equal handing out one by one, and is the budget then charged as promised, whatever order episodes end in and whatever kernels report? | LedgerBalanced, HardBudget, ReportCoversSpending, CheckpointAligned, RollbackIsLatest, FailuresCarryReports, Termination; AsIfOneByOne, NobodyStarves, EpisodesBounded, NoNeedlessForfeit, ChargesAsPromised |
| `StudyRun_lost_report` | do failures carry reports when the budget counts attempt slots? | FailuresCarryReports violated, see 8 |
| `StudyRun_refused_episode` | does a run raise when a batch of episodes ends unresolved? | UnresolvedBatchFails violated, see 8 |
| `StaleAsyncRun_cost` | do overlapping sessions stay within a budget of evaluations, are cuts and reports right, is nothing dropped or left running, and does the loop end? | SubmissionsAccounted, CheckpointAligned, CompletedRunsReport, Termination |
| `StaleAsyncRun_overrun` | does slot mode keep its budget? | violated, see 8 |
| `Population_search` | the search methods: CSA under every order of asks, answers and failures, its cache, its checkpoints, its proposal policy; the generational methods; the local-search kernels | AskAlwaysPossible, NothingToldIsLost, MarksFollowEntries, BestKept, ResumesExactly; AnswersAsFresh; AdaptationJustified; GenerationInOrder, SurvivorsKept; EvaluationsSuffice, EpisodesReported |
| `Scipy_undercount` | does every slot of the SciPy kernel count its calls? | CallsCounted violated, see 8 |
| `Csa_checkpoint` | can every state the CSA optimizer calls safe be saved? | violated, see 8 |

The other mode of accounting of `StudyRun` and `DirectScalarRun` (slots, or
evaluations) is covered by the theorems, which hold for both.

Some properties have several named parts. `WorkAccounted`: no result of a live
batch is lost, and no attempt runs for a batch that is not there. `CallsReturn`:
calls return, drain workers end, and a waiter that lost its batch is released
without any fairness of the backend. `StepAccounted`: attempts of the study's and
the evaluator's handles add up, and a step that is over leaves nothing behind.
`SubmissionsAccounted`: what is in flight is paid for (`WithinBudget`), and what
was asked for is somewhere or told, and cancelled when the call ends
(`NothingDropped`). `AdaptationJustified`: the statistics are those of the ledger
(`LearnedAsIfEager`), and a local search is refused only when every leaf a
proposal changed failed lately (`RefusedForFailures`). `EpisodesReported` has a half
for each backend: `EpisodeReported` and, for SciPy, `ScipyReported`, which says of a
success (`SuccessAccounts`) what it counts, which point it is about, which value it
must have then and otherwise, and which status; of a failure (`FailureAccounts`) that
it counts the failed calls and when there may be one; and of the calls that they keep
to the limits. `FailuresCarryReports` says that no failure of user code reaches the
caller bare, and that a refused evaluation does only if no cut was ever taken.

Each property of each passing run has a mutant in `PROJECT.json`: a plausible bug
in one definition under which TLC finds the property violated.

## 5. Bounds

- `AsyncJoblib`: two requests (three in the live run), one or two waiters, one or
  two controllers, at most one retry, two `ActiveAsyncJoblibBatch` objects
  (`MaxObjects`, so one resumption; one object in the live run), one worker. Two
  objects and two generations are what every stale-reference hazard needs. A
  queue then holds three events, and a stream of three requests has four, so the
  queue of an abandoned attempt does fill up. A backend that repeats results
  repeats one only when the earlier one has left the queue (`YieldAgain`): two
  copies in the queue are taken by the same steps. Threads and requests are
  interchangeable, so safety runs use symmetry (`MCAsyncJoblib`); liveness runs
  do not.
- `StudyRun`: a budget of 4, batches of 2, steps of at most 3 evaluations
  (`MaxStepCost`): three steps fit, the last ask is cut short by the budget, a
  step can cost more than was charged and more than is left, and a cut can lag by
  more than one step.
- `DirectScalarRun`: a budget of 6, batches of 3: partial batches and two full ones.
- `EvaluationLimits` and `EpisodeBatch`: three requests, preferred limits to 3,
  budgets to 7: refused, shared with every remainder, requests that retire below
  the water level, and preferred limits granted in full.
- `StaleAsyncRun`: a budget of 5, batches of 3, attempts costing up to 2
  (`MaxAttemptCost`): several sessions overlap, refills are cut by the
  budget, and a late cost can exceed what is left. The overrun run uses 3 and 2.
- `MCSessions`: two requests, three sessions of a step (two resumptions) and two
  tells (`MaxTells`): a handle can be used twice and an older session kept. Two
  loky sessions with two tasks each on one process, or one threading session.
  Batches of two or three attempts whose first relates request, record and
  refinement in every way and whose values 1 and 2 are one candidate to the space
  and two to `==`, and a batch whose scores have different dimensions.
- `MCPopulation`, CSA: three positions of which two are samples, at most two
  proposals outstanding, asked for or told at a time (`MaxPending`, `MaxBatch`),
  and five profiles: growth by stages with two seeds; adaptive refresh; growth of
  the bank with an energy cut and a fixed cutoff; clustering with a bank of three;
  a positive temperature with the local route, stagnation and cutoff recovery.
  Banks of two to four entries are replaced, cut, sorted, refreshed and staged.
  While the temperature is positive, evaluations told together have the same luck
  (`Lucks`); those told apart need not.
- Its other parts: four candidates, three entries and two revisions of the
  distance cache; generations of three or four children in slices of one and
  three; two proposals outstanding, three updates and two leaves for the proposal
  policy, with a cooldown, a threshold and a decay that are each reached; three
  leaves (one fixed), batches of up to three proposals and one failure per episode
  for local search; three coordinates for SciPy.

## 6. Fairness

- `AsyncJoblib`, `ThreadFairness`: a thread inside a call keeps running (weak
  fairness of its own steps); no thread has to make a call. `wait` polls its queue
  with a timeout, so its steps stay enabled. `BackendFairness`: objective calls
  return and daemon threads are scheduled; `HangingSpec` leaves it out, which is
  where a waiter must still be released.
- `StudyRun`: `run` is a sequential call; weak fairness of its next step.
- `StaleAsyncRun`, `FairSpec`: the loop goes on, and the evaluator completes what
  it was given. A sweep that finds nothing is a step of the loop, so without the
  second assumption the loop would spin, as the code does.
- `ExactAsyncStep`, `StepFairness`: threads inside a call are scheduled, and the
  evaluator answers (which `AsyncJoblib_live` shows of it). Nobody has to make a
  call. `MCPopulation` needs no fairness: what must be possible is stated as an
  invariant (`AskAlwaysPossible`), since nobody has to ask.

## 7. What is proved

By TLAPS, for every value of the constants that satisfies the named assumptions
of the modules (the parameter ranges the code validates).

| Theorem | States |
|---|---|
| `AsyncJoblibProofs!TypeCorrect` | types, and the bound of every hand-off queue |
| `!ReportedOnce` | ExactlyOnce, for any number of threads and any backend faults |
| `!Accounted`, `!Homed` | CompletionsAccounted, OneHome |
| `!RetriesBounded` | RetryBudget |
| `!WorkIsAccounted` | with one waiter, WorkAccounted |
| `!Refinement` | Spec => ImplementsContract |
| `StudyRunProofs!Ledger`, `!Budget` | LedgerBalanced, HardBudget |
| `!Reporting`, `!Alignment`, `!Rollback` | ReportCoversSpending, CheckpointAligned, RollbackIsLatest |
| `!Recovery` | with costs counted, FailuresCarryReports: of failures of user code and of refused evaluations, the run's and those of an episode |
| `!ArtifactsAreAligned`, `!ArtifactsAreReported` | ProvenanceKept, AcceptedIsReported, for every batch whose requests bear distinct numbers, of any length and whatever the workers made of it |
| `SessionProofs!Refinement` | Spec => ImplementsStudyRun of `DirectScalarRun`, so the theorems above hold of the fused loop |
| `BudgetProofs!Granting`, `!Fairness` | WithinPreferred, NobodyStarves |
| `!Sharing` | AsIfOneByOne: the rounds grant what handing out one by one would |
| `!Bounded`, `!Settles` | EpisodesBounded, NoNeedlessForfeit |
| `!Charging` | BatchSpec => ChargesAsPromised, the refinement of `ReservationContract` |
| `!Alignment`, `!Rollback` (stale-async run) | CheckpointAligned, RollbackIsLatest |
| `!Reporting` | with costs counted, CompletedRunsReport |
| `!Accounting` | SubmissionsAccounted |
| `SearchMethodProofs!EpisodesAreReported` | EpisodesReported: for all leaves, stages, steps, kicks, batches and budgets of the structured kernels (`SearchesAreReported`), and whatever SciPy asks for and returns (`ScipyIsReported`), with a failure of the SciPy kernel counting the failed calls |
| `!GenerationsInOrder` | GenerationInOrder, for the genetic algorithm and its niching variants, differential evolution, every size, profile and sequence of batch sizes |
| `SessionProofs!TasksSeeTheirProblem` | SessionsIsolated, for any number of sessions, tasks and processes |
| `!AttemptsAccounted`, `!ToldExactlyOnce` | StepAccounted, ToldOnce |
| `PopulationProofs!NothingIsLost` | NothingToldIsLost, for every profile of the CSA engine and whatever its bank does |
| `!BestIsKept` | BestKept, for every profile at zero temperature that replaces only the entry it compared with, through every growth, cut, stage and preserving refresh |
| `MarksProofs!MarksAreRight` | MarksFollowEntries, for every profile at zero temperature that replaces only the entry it compared with and takes every change for significant |
| `PopulationProofs!AnswersTrue` | AnswersAsFresh, for any number of entries and any symmetric distance |

`SumTheorems` holds facts about finite sums (adding an element, changing one
value, comparing two functions term by term, renaming the index set), about
places in an order and about repeating a step, on which `BudgetProofs`,
`SearchMethodProofs`, `StudyRunProofs` and `PopulationProofs` rest. Each would be an induction;
instead, among the finite sets (or numbers) for which the fact fails one takes a
smallest, and removes an element.

Arguments.

- *AsyncJoblib.* `ExactlyOnce` is not inductive: a delivery checks
  `completed_indices` of the object a thread looked up, not the history. `IInv`
  adds that the completed set that travels with the batch equals what was
  reported, wherever the batch is (`CompletionsAccounted`), that it is in one
  place (`OneHome`), that threads inside a call hold an object that exists
  (`ThreadInv`), that nothing exists before submission (`CreationInv`) and that a
  batch discarded during a resume has ended (`DiscardInv`). Each action disturbs
  one or two of these. The refinement uses `IInv` before and after a step.
- *Retries.* `BudgetInv` adds that the count which a suspended batch carries, or
  the thread resuming it, covers the generations of every object made so far, and
  that only the newest object is ever active: an older one starts nothing.
- *Work of an attempt.* `WorkInv` says where each request of the running attempt
  is (`Placement`: reported, with joblib, in the worker's hand, queued, or taken by
  the waiter, and in one place only) and of every other attempt that it is done,
  was told to stop, or that a thread is about to stop it (`AllStopped`). It assumes
  `OneWaiter`, and needs it: with two, one may hold the last result while the
  other takes the end of the stream for a failure and starts the request again;
  when the first then delivers it, the batch is over with an attempt still running.
  The run that checks `WorkAccounted` has one waiter for that reason.
- *StudyRun.* Every unit of the budget is left, in flight or in the history, with
  `InFlight` defined per program counter; `StepInv` relates the step in progress
  to what was left when it began, `ToldInv` makes cuts aligned, `CutInv` places
  the latest cut, `PerformedInv` bounds the evaluator's work by what was charged.
- *AttemptArtifacts.* Neither property is inductive. That a success was accepted says
  nothing of its next conversion: a pickle drops the predicate, so what it may compare
  again is less than what was compared. `ArtifactsGood` says instead, of each success
  at each stage, that it is `Sound` (its refinement and its record are alike what they
  have to be in the eyes of the space, whatever it has forgotten), that it is `Kept` (a
  comparison it may no longer make it remembers, and what it does not remember it may
  make, unless its record is of a copy that `==` takes for another), and that it
  `Answers` its request: each conversion keeps the score, the cost and, up to the
  predicate of the space, the candidates of what the evaluation made (`Keeps`). An
  evaluator that returns the slots in another order is refused by
  `validate_aligned_attempts`, and that is where the distinct numbers are needed
  (`AlignedIsOrdered`). From there on the batch is in order; a report carries its
  successes in that order (`Carried`: the k-th success stands at the k-th place that
  succeeded) and counts at least the cost of all attempts, split into successes and
  failures (`SumOfParts`); the chosen best and the frontier are those of equal scores
  (`Leads`, `NondominatedIs`). Each conversion refuses a sound success in one way only,
  and the invariant carries the reason to the stages "broken" and "lost"
  (`Forgivable`): a record for a request of its own, a record of a copy, or scores of
  several dimensions, which is what `AcceptedIsReported` exempts.
- *DirectScalarRun.* The two counts of the fused loop agree (`DInv`); with it
  every step of the loop maps to a step of `StudyRun` or to a stutter.
- *EpisodeBatch.* Requests at the water level are exactly the active ones and
  every retired one has what it prefers; the division that spreads the remainder
  gives each active request less than its next level (a lemma about `\div`). For
  `Sharing`, an allocation in progress has always handed out what it took from the
  budget (`Handout`); allocations that are fair, grant what is preferred at most
  and hand out the same sum are equal (`FairIsUnique`); and handing out one by one
  is fair after any number of steps (`HandedShares`). For `Settles`, no two results are of
  one request (`Reports`), so that when as many came in as there are requests none
  is missing. For `Charging`, the
  state of the contract is read off the episodes: calls made are the sum of what
  they consumed, which a call raises by one and limits bound; and no episode that
  could still call survives a settlement (`Closing`).
- *StaleAsyncRun.* Between groups the run method has been told what the history
  lists, and during a tell it is one group behind (`Told`); with costs counted the
  history counts exactly what its attempts cost (`Exact`). Asks change the state
  but not what it was told, which is why a cut taken while other sessions are
  running is still aligned. For `Accounting`, what is in flight is a sum over the
  sessions: opening one adds a term, a poll changes one, and the end of a sweep
  renumbers the sessions that remain, whose places in the order are a bijection
  onto the new positions; the ones dropped have nothing left (`Sweeping`).
- *WorkerSession.* What is open was opened after what it needs, in any stage
  (`OpenedInOrder`); a registry that has a token has the problem of that token's
  session, and a process runs each task with the problem of the task's session
  (`RegistriesTrue`).
- *ExactAsyncStep.* `StepInv` says what each lifecycle implies of the others while
  a call is between them: the batch of the evaluator (`BatchTrue`), the two
  sessions of a handle (`SessionsTrue`), every place a thread may be in a call
  (`CallsTrue`) and what was told (`TellsTrue`). The owner's calls and the
  interrupter's cancel each get a lemma that says what they leave alone.
- *CsaEngine.* That a told answer is in the buffer or gone with its generation is
  not inductive: a refresh or a due boundary that met a generation in progress
  would empty the buffer under it. `EngineInv` adds that what is owed is exactly
  what is buffered, that what was issued is pending and disjoint from it, and that
  neither a refresh nor a due boundary meets a generation in progress (`Waits`);
  and that every pending proposal has its reason on record, during an ask except
  for those not registered yet (`Attributed`). An ask registers, and a tell updates
  the bank, by a fold over a sequence. What each of its steps preserves the fold
  preserves (`FoldExists`, `FromBelow`: among the positions where it fails one would be
  the first). The bank is opaque but for one fact, that an update keeps
  the boundary action it is given (`Through`).
- *BestKept.* What is proved of a step is that the new bank is as good as the old
  one (`AsGood`: every old entry has an entry in the new bank that is no worse),
  which composes along a fold. The invariant `Good` adds what the steps lean on: the
  temperature is zero, entries have places, and what a refresh in progress preserves
  is as good as the bank it will replace. Sorting and cutting to the best are a
  bijection onto the ranks (`Ranks`, `Sorts`); a cut by energy takes no entry of
  rank 0 (`CutKeepsBest`). A refresh that is complete when it begins has preserved
  something, because the stage capacity is positive: this is where `CsaAssumption`,
  the positive capacities that `CSAOptimizer` and its profile validate, is needed. A
  refresh that preserves nothing is the one step that may lose the best.
- *MarksFollowEntries.* In the model an entry carries its marks itself (`seeded`,
  `kept`), which the code cannot do: it keeps a status and masks by index. The
  property relates the two, and `MarksProofs` shows of each operation that it
  changes both alike. An update of the bank is a fold that admits entries one by one;
  what it preserves (`Admits`) is that the entry at an index is the old one or a
  newcomer that is better, so that the indices found changed by comparing the banks
  are exactly those of newcomers (`ChangedAre`): a candidate as good as the entry it
  replaces would be missed, and `should_accept` takes none at zero temperature. The removal of
  entries renumbers the masks by the number of entries removed before, and that is the
  same as reading the mark of the entry that comes to stand there (`Removal`,
  `RestMatches`). Sorting moves entries and touches no mask. It is right only because
  nothing is marked then, and that is where the invariant `MarksHold` must be stronger:
  as long as the reference bank is not set, no entry is marked (`Running`); a full bank
  has its reference bank (`Synced`); masks of a stage exist only in the first round of
  a later stage (`StageIs`); a refresh in progress preserves as many entries as the
  stage masks cover (`Collecting`); and a boundary that begins a stage was due with a
  full bank. Without growth a bank has the capacity of its stage (`SizesAre`), which a
  legacy refresh leans on; the part of `CsaAssumption` that `CSAOptimizer` validates,
  a maximal capacity that is no smaller than the initial one and no growth besides
  that in stages, is needed for it.
- *DistanceWorkspace.* `WsInv` says that what a row answers for a pair is the
  distance of the pair (`RightRows`), that the snapshot knows every pair of its own
  entries and counted them (`SnapshotOk`), and that it shares with the rows in use
  those of the same name (`Shared`: the same revision, and no distance forgotten).
  A new row is younger than every row before it, so no old row answers for its
  pairs (`RebasedRight`, `SeededRight`). Counts brought up to date are the fresh
  ones because a pair whose rows did not change has the same neighbour status
  (`UnchangedPair`, `Recount`). The assumption is that the distance is symmetric, on
  which `seed_entry_distances` relies when one row answers for both entries.
- *Local search.* `SearchOK` says of a running descent that its candidate was
  evaluated and has the value it stands for, that the least value seen is that
  value or the better of it and the incumbent of the kicks (`DescentOK`, `KickOK`),
  and, in a scan of the whole neighborhood, that each neighbor is still to do, or
  is known and no better, or that some neighbor failed (`ScanOK`): so an empty rest
  of a scan is a local optimum. That a scan holds every neighbor needs what
  `FlattenSeq` returns (`FlattenIs`: all elements, nothing else), by the existence of
  the recursive function it stands for. `SearchAssumption` asks what the
  constructors of spaces and kernels check. The episode of SciPy keeps its calls
  equal to the points it has evaluated, and its calls within the limits
  (`EpisodeOK`); each way it ends then gives a slot about one point or none
  (`NamedIs`, `PointReported`, `BestOrFailureReported`).
- *GenerationalMethods.* `GenOK` says that a generation is never complete between
  two calls, that before the first population the counter is the number of children
  asked for (modulo the size, so that it is zero when the generation is full), and
  afterwards that what was told, what is pending and what is left of the queue are
  nothing or the children of the generation. The cases that matter are the cut of the
  queue, by which what is left stays the same though the index starts anew
  (`CutInTwo`, `SliceKeeps`), and the slice that completes a generation, which can
  only be the last of the queue because the numbers add up. The other half is that
  every method leaves a population as large as before (`PopulationsCount`), which
  is not one reason but five: elites and best offspring are as many as they must be;
  clearing fills up with others as long as there are any (`BackfillIs`); the species of
  a pool are disjoint and nobody is in one twice, so that the protected members are as
  many as the species have places (`IsSpecies`, `ConservedCount`); tournaments and trials
  replace one member each (`RestrictedCount`, `EvolvedCount`). Folds are treated as
  the functions they recurse along, whose existence is proved (`FoldFunctionExists`).
  `GenerationsAssumption` is what the optimizers and their profiles validate.

## 8. Findings

1. **A failed run loses its report** (`StudyRun_lost_report`). With
   `count_evaluation_cost=False` the partial report is built with a count of
   slots; when attempts cost more than one evaluation the report is rejected and
   the caller gets the bare exception, without partial or checkpoint state. The
   stale-async loop counts in the same way, so there even a run that completes
   cannot build its report; `BudgetProofs!Reporting` needs `CountCost`
   for that reason.
2. **A stale-async run returns more attempts than its budget**
   (`StaleAsyncRun_overrun`). In slot mode a refill is compared with a remainder
   that ignores what is in flight.
3. **A safe state that cannot be saved** (`Csa_checkpoint`). While a reference
   refresh collects its pool, between two asks, the CSA optimizer calls its state
   safe for a checkpoint, and `to_dict` of the same state raises. A run told to
   stop at a checkpoint boundary may stop there.
4. **An unresolved batch of episodes ends a run quietly**
   (`StudyRun_refused_episode`). `docs/reference/evaluator-contracts.md` promises
   `RunExecutionFailed` when an evaluator raises with a reservation unresolved. When
   what it raises is the refusal of an episode's own runner, `run` takes it for its own
   budget and returns the latest checkpoint as a normal result, or raises the bare
   exception, with evaluations left.
5. **A failed SciPy search leaves calls out** (`Scipy_undercount`). When the original
   candidate failed and no finite solution came back, the slot is a failure that
   counts the failed calls, though others succeeded. In a batch they are missing
   from the attempt; as a request-local episode the attempt is rejected, and with it
   the batch. A minimizer that starts from an infinite value may come back so.

## 9. What is only checked, and what is not modelled

Only model-checked:

- liveness (`CallsReturn`, `StepCallsReturn`, `Termination`), which is out of the
  prover's reach;
- what `Population_search` checks, except `NothingToldIsLost`, `BestKept`,
  `MarksFollowEntries`, `AnswersAsFresh`, `EpisodesReported` and
  `GenerationInOrder`. `SurvivorsKept` says what the folds of a generation compute, as
  opposed to what they preserve, which is an induction over data; the policy and the
  evaluation limits compare two computations of one value. Their instances cover every order of calls within the bounds of section 5.

The draining of workers is checked without repeated results: a completed batch
leaves the dictionary without aborting its attempt, so a backend that went on
repeating results after the last one would keep the drain worker waiting on a
full queue. With each request reported once the queue has room for the rest of
the stream or the attempt is aborted, and the worker ends.

What modelling the code showed besides the findings:

- *Retry without a failure.* With two waiters on one handle, one may hold the last
  result when the other reads the end of the stream; the end is taken for a
  failure and the request is started again. It is still delivered once.
- *Rounded shares.* `ProposalGenerationAdaptationEvidence` rejects leaf shares
  whose exact sum exceeds the number of evaluations
  (`generation/proposal/state/generation_evidence.py:193`). Shares are rounded
  quotients: three survivors of cost 1 that each name the same five leaves sum to
  3.0000000000000004, and `tell` raises although its evidence is in order. The
  model counts in exact units, and TLC has no numbers to show it.
- *CSA, too few partners.* After a stage or an adaptive refresh that leaves fewer
  unmasked entries than a crossover needs, or than the seeds of seed mode 2, `ask`
  raises; a profile with only initial-family operators that grows its bank has an
  empty pool then. `AskAlwaysPossible` is checked of profiles whose operators fit.
- *CSA, clustering.* At the first tell the cluster distance is derived from a bank
  that may be empty and stays 0 until a refresh; the "largest cluster" mode may
  replace the best entry, which `BestKept` excludes, as it does a positive
  temperature.
- *CSA, proposal policy.* A failure streak is documented to disable a leaf for a
  while (`generation/proposal/policy.py`). A leaf that never had a survivor stays
  disabled until a mutation of it survives; the cooldown begins with a single
  failure; and a successful move of a leaf by a local search renews the update at
  which its cooldown began while the streak of its mutations keeps it there.
- *Failed attempts.* Genetic algorithms and differential evolution inherit a
  `tell_attempts` that rejects failures; `GenerationalMethods` tells successes.
- *Limits of episodes.* Those of the iterated and variable-neighborhood kernels
  are upper bounds with slack; `EvaluationsSuffice` says they are bounds.
- *SciPy.* When SciPy returns a point that is not finite and the proposal itself
  failed, the slot reports the failure although other points succeeded; leaving
  through the budget reports the best point seen; and without a finite solution a
  proposal that succeeded is reported though a better point may be known.
  `EpisodesReported` says exactly when each happens.
- *Artifacts.* A success whose record is of a copy that only the space takes for
  the candidate cannot be unpickled, and one whose record is for a request of its
  own, or for the refined candidate where the original was asked for, cannot be
  materialised once numbers lost their identity (`artifacts/attempts.py:658`,
  `:909`); vectors of different lengths are reported and have no surface.
  `AcceptedIsReported` names the three. That a refined record may speak for the
  refined candidate, and that dimensions may differ, came up in the proof.
  Reports made from records count one evaluation for each.

Not modelled: the construction of candidates and every floating-point computation
(distances of real vectors, adaptive scoring, acceptance probabilities, covariance
sampling), which TLC cannot represent faithfully and for which the models choose
any result; SciPy and the MPI transport; spaces, projections, their
serialization, manifests and traces, which are immutable data; permutation
operators and random streams, pure functions of a generator; arrays as
candidates, whose `==` has no truth value ("owned" in `AttemptArtifacts` is that
case for opaque objects). Predicates that a run method answers (`is_exhausted`,
`is_checkpoint_safe_state`) are assumed not to raise in the study loops.
