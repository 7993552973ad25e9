-------------------------- MODULE StructuredSearch --------------------------
(* The local-search kernels for structured discrete spaces: hill climbing,
   the sampled (stochastic) and the scheduled neighborhoods, variable
   neighborhood descent and iterated local search.  They improve the proposals
   of a batch one after the other and draw every evaluation from one budget,
   or improve a single request as an episode with an evaluation limit of its
   own.

   The first four are one algorithm, a descent through a sequence of stages;
   hill climbing, sampling and scheduling are descents with one stage.  The
   iterated kernel restarts a descent with the leafwise stage from kicked
   candidates.  A step of the model is one evaluation, or one decision between
   two evaluations.

   A candidate is a sequence of leaf values, a leaf is integer or categorical
   and its values are low .. high.  The value of a candidate is decided when it
   is first evaluated and stays; any evaluation may fail. *)
EXTENDS Integers, Sequences, FiniteSets, SequencesExt

CONSTANTS
  Leaves,       \* the editable leaves, in the order of the space
  Kernels,      \* configured kernels [kind, steps, stages, kicks, kickLeaves],
                \* stages being those of a variable neighborhood
  Batches,      \* batches: sequences of proposals
                \* [start, enabled, steps, first, random]
  Spare,        \* bound: evaluations left beyond one for each proposal
  Levels,       \* values a candidate may have
  MaxFailures   \* bound: failed evaluations of one episode

Nil == -1
FailedValue == 0

(* What the constructors of spaces and kernels check: a leaf has a value, a
   kernel a stage of a known kind; the leaves that a context names are leaves;
   values are not the marks for none. *)
SearchAssumption ==
  /\ Len(Leaves) \in Nat /\ DOMAIN Leaves = 1 .. Len(Leaves)
  /\ \A l \in DOMAIN Leaves :
       Leaves[l].low \in Int /\ Leaves[l].high \in Int /\ Leaves[l].low <= Leaves[l].high
  /\ Levels \subseteq Int \ {Nil, FailedValue}
  /\ \A k \in Kernels :
       /\ k.kind \in {"hill", "scheduled", "stochastic", "vns", "iterated"} /\ k.most \in Nat
       /\ k.kind = "vns" =>
            /\ Len(k.stages) \in Nat \ {0}
            /\ \A i \in 1 .. Len(k.stages) :
                 /\ k.stages[i].kind \in {"leafwise", "pairs", "sampled"}
                 /\ k.stages[i].kind = "pairs" => k.stages[i].most \in Nat
  /\ \A b \in Batches :
       /\ Len(b) \in Nat \ {0}
       /\ \A i \in 1 .. Len(b) : b[i].first \in Seq(DOMAIN Leaves)

VARIABLES
  job,       \* the kernel, the batch, whether it runs as an episode, and the
             \* evaluations granted
  remaining, \* EvaluationBudget.remaining, or Nil
  known,     \* the values of the candidates evaluated so far
  ep,        \* the episode of the current proposal
  reported   \* outcomes of the proposals before it

searchVars == <<job, remaining, known, ep, reported>>

Least(S) == CHOOSE x \in S : \A y \in S : x <= y

(***************************************************************************)
(* Neighborhoods                                                           *)
(***************************************************************************)
(* The elements of a sequence that are in a set. *)
Only(s, S) == FlattenSeq([k \in DOMAIN s |-> IF s[k] \in S THEN <<s[k]>> ELSE << >>])

Alternatives(leaf, v) ==
  IF leaf.kind = "integer"
  THEN Only(<<v - 1, v + 1>>, leaf.low .. leaf.high)
  ELSE Only([k \in 1 .. leaf.high - leaf.low + 1 |-> leaf.low + k - 1], (leaf.low .. leaf.high) \ {v})

NeighborLimit(leaf) ==
  IF leaf.kind = "integer" THEN Least({2, leaf.high - leaf.low}) ELSE leaf.high - leaf.low

LeafOrder == [l \in DOMAIN Leaves |-> l]

(* The leaves named by the context come first. *)
Schedule(first) == first \o Only(LeafOrder, DOMAIN Leaves \ Range(first))

MovesOf(c, l) ==
  LET values == Alternatives(Leaves[l], c[l])
  IN  [k \in DOMAIN values |-> [c EXCEPT ![l] = values[k]]]

Singles(c, schedule) == FlattenSeq([k \in DOMAIN schedule |-> MovesOf(c, schedule[k])])

(* Pair moves of the first leaves of the schedule. *)
Prefix(schedule, limit) == SubSeq(schedule, 1, Least({limit, Len(schedule)}))

PairMoves(c, schedule) ==
  FlattenSeq([i \in DOMAIN schedule |->
    FlattenSeq([d \in 1 .. Len(schedule) - i |->
      LET moved == MovesOf(c, schedule[i])
      IN  FlattenSeq([k \in DOMAIN moved |-> MovesOf(moved[k], schedule[i + d])])])])

(* The choices of n elements of a sequence, in its order. *)
Draws(s, n) ==
  {LET at == SetToSortSeq(I, LAMBDA i, j : i < j) IN [k \in 1 .. n |-> s[at[k]]] :
     I \in kSubset(n, DOMAIN s)}

AtMost(s, n) == IF n = Nil \/ Len(s) <= n THEN {s} ELSE Draws(s, n)

LeafCap(stage, l) == IF Leaves[l].kind = "categorical" THEN stage.perLeaf ELSE Nil

(* sample_structured_discrete_neighborhood: of each leaf so many moves, and of
   these so many in all. *)
SampledMoves(c, schedule, stage) ==
  LET extend(sofar, l) == {s \o m : s \in sofar, m \in AtMost(MovesOf(c, l), LeafCap(stage, l))}
  IN  FoldLeft(extend, {<< >>}, schedule)

SampledScans(c, schedule, stage) ==
  UNION {{[moves |-> m, full |-> m = Singles(c, schedule)] : m \in AtMost(moves, stage.most)} :
           moves \in SampledMoves(c, schedule, stage)}

(* What one run of a stage scans, first to last, and whether that is the whole
   neighborhood. *)
ScanLeafwise(c, schedule) == {[moves |-> Singles(c, schedule), full |-> TRUE]}

ScanScheduled(c, schedule, stage) ==
  {[moves |-> Singles(c, schedule) \o PairMoves(c, Prefix(schedule, stage.most)), full |-> TRUE]}

Scans(c, schedule, stage) ==
  CASE stage.kind = "leafwise" -> ScanLeafwise(c, schedule)
    [] stage.kind = "pairs"    -> ScanScheduled(c, schedule, stage)
    [] stage.kind = "sampled"  -> SampledScans(c, schedule, stage)

(* sample_structured_kick_candidate: another value for so many leaves. *)
Kicks(c, count) ==
  LET eligible == {l \in DOMAIN Leaves : MovesOf(c, l) # << >>}
      values(l) == Range(Alternatives(Leaves[l], c[l]))
  IN  UNION {{[l \in DOMAIN c |-> IF l \in L THEN f[l] ELSE c[l]] :
                f \in {g \in [L -> UNION {values(l) : l \in L}] : \A l \in L : g[l] \in values(l)}} :
               L \in kSubset(count, eligible)}

(***************************************************************************)
(* Evaluation limits of episodes                                           *)
(***************************************************************************)
Sum(s) == FoldLeft(+, 0, s)

SingleScanLimit(schedule) == Sum([k \in DOMAIN schedule |-> NeighborLimit(Leaves[schedule[k]])])

PairScanLimit(schedule) ==
  Sum([i \in DOMAIN schedule |->
         NeighborLimit(Leaves[schedule[i]]) * SingleScanLimit(SubSeq(schedule, i + 1, Len(schedule)))])

StageLimit(stage, schedule) ==
  CASE stage.kind = "leafwise" -> SingleScanLimit(schedule)
    [] stage.kind = "pairs"    -> SingleScanLimit(schedule) + PairScanLimit(Prefix(schedule, stage.most))
    [] stage.kind = "sampled"  -> Least({stage.most, SingleScanLimit(schedule)})

MaxSteps(kernel, p) == IF p.steps = Nil THEN kernel.steps ELSE p.steps

(* Each of the _optimize_proposal methods of these kernels is one descent, the
   actions below, through these stages. *)
HillStages == <<[kind |-> "leafwise"]>>
ScheduledStages(most) == <<[kind |-> "pairs", most |-> most]>>
StochasticStages(most, perLeaf) == <<[kind |-> "sampled", most |-> most, perLeaf |-> perLeaf]>>

Stages(kernel) ==
  CASE kernel.kind \in {"hill", "iterated"} -> HillStages
    [] kernel.kind = "scheduled"  -> ScheduledStages(kernel.most)
    [] kernel.kind = "stochastic" -> StochasticStages(kernel.most, kernel.perLeaf)
    [] kernel.kind = "vns"        -> kernel.stages

IsRandom(kernel) ==
  kernel.kind = "iterated" \/ \E k \in DOMAIN Stages(kernel) : Stages(kernel)[k].kind = "sampled"

HillLimit(kernel, p) == 1 + MaxSteps(kernel, p) * SingleScanLimit(Schedule(p.first))

ScheduledLimit(kernel, p) ==
  1 + MaxSteps(kernel, p) * StageLimit(Stages(kernel)[1], Schedule(p.first))

StochasticLimit(kernel, p) == 1 + MaxSteps(kernel, p) * kernel.most

VariableLimit(kernel, p) ==
  LET cycle == [k \in DOMAIN Stages(kernel) |-> StageLimit(Stages(kernel)[k], Schedule(p.first))]
  IN  1 + (MaxSteps(kernel, p) + 1) * Sum(cycle)

Mutant_OneScanPerKick(kernel, p) == kernel.kicks + 1 + MaxSteps(kernel, p) * SingleScanLimit(Schedule(p.first))

IteratedLimit(kernel, p) ==
  kernel.kicks + 1 + (MaxSteps(kernel, p) + kernel.kicks + 1) * SingleScanLimit(Schedule(p.first))

(* preferred_request_local_evaluation_limit; Nil keeps the request out of
   episodes, which a random kernel needs a stream of its own for. *)
PreferredLimit(kernel, p) ==
  CASE ~p.enabled -> 1
    [] p.enabled /\ IsRandom(kernel) /\ ~p.random -> Nil
    [] OTHER ->
         CASE kernel.kind = "hill"       -> HillLimit(kernel, p)
           [] kernel.kind = "scheduled"  -> ScheduledLimit(kernel, p)
           [] kernel.kind = "stochastic" -> StochasticLimit(kernel, p)
           [] kernel.kind = "vns"        -> VariableLimit(kernel, p)
           [] kernel.kind = "iterated"   -> IteratedLimit(kernel, p)

(***************************************************************************)
(* Episodes                                                                *)
(***************************************************************************)
Proposal == job.batch[Len(reported) + 1]

ReservedCount == IF job.episode THEN 0 ELSE Len(job.batch) - Len(reported) - 1

CanEvaluate == remaining = Nil \/ remaining >= 1 + ReservedCount

NewEpisode(p) ==
  [pc |-> "first", at |-> p.start, value |-> Nil, stage |-> 1, steps |-> 0, todo |-> << >>,
   full |-> FALSE, failed |-> 0, missed |-> 0, kicks |-> 0, best |-> [at |-> p.start, value |-> Nil],
   count |-> 0, calls |-> 0, least |-> Nil, converged |-> FALSE, exhausted |-> FALSE]

(* One evaluation: the calls made and the best value seen are noted by the
   model and not by the code. *)
ValuesAt(c) ==
  (IF c \in DOMAIN known THEN {known[c]} ELSE Levels)
    \cup {x \in {FailedValue} : ep.failed < MaxFailures}

WithCall(e, v) ==
  [e EXCEPT !.calls = @ + 1,
            !.failed = @ + (IF v = FailedValue THEN 1 ELSE 0),
            !.least = IF v = FailedValue THEN @ ELSE IF @ = Nil THEN v ELSE Least({@, v})]

Evaluate(c, v) ==
  /\ v \in ValuesAt(c)
  /\ remaining' = IF remaining = Nil THEN Nil ELSE remaining - 1
  /\ known' = IF v = FailedValue \/ c \in DOMAIN known THEN known
              ELSE [x \in DOMAIN known \cup {c} |-> IF x = c THEN v ELSE known[x]]

(* The slot of the proposal, and the episode of the next one. *)
Report(e, ok) ==
  /\ reported' = Append(reported,
       [ok |-> ok, at |-> e.at, value |-> e.value, count |-> e.count, calls |-> e.calls,
        least |-> e.least, converged |-> e.converged, exhausted |-> e.exhausted, missed |-> e.missed])
  /\ ep' = IF Len(reported) + 1 < Len(job.batch) THEN NewEpisode(job.batch[Len(reported) + 2])
           ELSE [e EXCEPT !.pc = "returned"]

(* The local search is disabled for the proposal. *)
EvaluateOriginal ==
  /\ ep.pc = "first" /\ ~Proposal.enabled
  /\ remaining # 0
  /\ \E v \in ValuesAt(ep.at) :
       /\ Evaluate(ep.at, v)
       /\ Report([WithCall(ep, v) EXCEPT !.value = v, !.count = 1], v # FailedValue)
  /\ UNCHANGED job

(* The first evaluation is not guarded: without evaluations left it raises,
   and so does the whole run. *)
RunRaises ==
  /\ ep.pc = "first" /\ remaining = 0
  /\ ep' = [ep EXCEPT !.pc = "raised"]
  /\ UNCHANGED <<job, remaining, known, reported>>

EvaluateFirst ==
  /\ ep.pc = "first" /\ Proposal.enabled
  /\ remaining # 0
  /\ \E v \in ValuesAt(ep.at) :
       /\ Evaluate(ep.at, v)
       /\ LET e == [WithCall(ep, v) EXCEPT !.count = 1, !.value = v]
          IN  IF v = FailedValue THEN Report(e, FALSE)
              ELSE ep' = [e EXCEPT !.pc = "stage"] /\ UNCHANGED reported
  /\ UNCHANGED job

EnterStage ==
  /\ ep.pc = "stage" /\ ep.steps < MaxSteps(job.kernel, Proposal)
  /\ \E scan \in Scans(ep.at, Schedule(Proposal.first), Stages(job.kernel)[ep.stage]) :
       ep' = [ep EXCEPT !.pc = "scan", !.todo = scan.moves, !.full = scan.full, !.missed = 0]
  /\ UNCHANGED <<job, remaining, known, reported>>

Mutant_CountSuccesses(e, v) == [WithCall(e, v) EXCEPT !.count = IF v = FailedValue THEN @ ELSE @ + 1]

(* A neighbor's evaluation counts whether or not it fails. *)
Counted(e, v) == [WithCall(e, v) EXCEPT !.count = @ + 1]

Improves(v) == v # FailedValue /\ v < ep.value

EvaluateNeighbor ==
  /\ ep.pc = "scan" /\ ep.todo # << >> /\ CanEvaluate
  /\ LET c == Head(ep.todo)
     IN  \E v \in ValuesAt(c) :
           /\ Evaluate(c, v)
           /\ ep' = IF Improves(v)
                    THEN [Counted(ep, v) EXCEPT !.at = c, !.value = v, !.steps = @ + 1,
                                                !.stage = 1, !.pc = "stage", !.todo = << >>]
                    ELSE [Counted(ep, v) EXCEPT !.todo = Tail(@),
                                                !.missed = @ + (IF v = FailedValue THEN 1 ELSE 0)]
  /\ UNCHANGED <<job, reported>>

(* A descent ends, and with it the episode, or a round of kicks begins. *)
EndDescent(e) ==
  IF job.kernel.kind = "iterated"
  THEN /\ ep' = [e EXCEPT !.pc = "kick",
                          !.best = IF e.kicks = 0 \/ e.value < e.best.value
                                   THEN [at |-> e.at, value |-> e.value] ELSE @]
       /\ UNCHANGED reported
  ELSE Report(e, TRUE)

OutOfSteps ==
  /\ ep.pc = "stage" /\ ep.steps >= MaxSteps(job.kernel, Proposal)
  /\ EndDescent(ep)
  /\ UNCHANGED <<job, remaining, known>>

OutOfBudget ==
  /\ ep.pc = "scan" /\ ep.todo # << >> /\ ~CanEvaluate
  /\ EndDescent([ep EXCEPT !.exhausted = TRUE])
  /\ UNCHANGED <<job, remaining, known>>

NoImprovement ==
  /\ ep.pc = "scan" /\ ep.todo = << >>
  /\ IF ep.stage < Len(Stages(job.kernel))
     THEN ep' = [ep EXCEPT !.pc = "stage", !.stage = @ + 1] /\ UNCHANGED reported
     ELSE EndDescent([ep EXCEPT !.converged = @ \/ (ep.full /\ job.kernel.kind # "iterated")])
  /\ UNCHANGED <<job, remaining, known>>

(* The iterated kernel reports its incumbent and never calls it converged. *)
EndKicks(e) == Report([e EXCEPT !.at = e.best.at, !.value = e.best.value], TRUE)

MayKick ==
  /\ ~ep.exhausted
  /\ ep.steps < MaxSteps(job.kernel, Proposal)
  /\ ep.kicks < job.kernel.kicks
  /\ Kicks(ep.best.at, job.kernel.kickLeaves) # {}

StopKicking ==
  /\ ep.pc = "kick"
  /\ ~MayKick \/ ~CanEvaluate
  /\ EndKicks(IF MayKick THEN [ep EXCEPT !.exhausted = TRUE] ELSE ep)
  /\ UNCHANGED <<job, remaining, known>>

(* The kicked candidate is evaluated at once; if that fails, the kick is spent. *)
Kick ==
  /\ ep.pc = "kick" /\ MayKick /\ CanEvaluate
  /\ \E c \in Kicks(ep.best.at, job.kernel.kickLeaves) : \E v \in ValuesAt(c) :
       /\ Evaluate(c, v)
       /\ ep' = IF v = FailedValue
                THEN [Counted(ep, v) EXCEPT !.kicks = @ + 1, !.missed = @ + 1]
                ELSE [Counted(ep, v) EXCEPT !.kicks = @ + 1, !.at = c, !.value = v,
                                            !.stage = 1, !.pc = "stage"]
  /\ UNCHANGED <<job, reported>>

(* A batch with a budget of its own, one short at times, and an episode with
   the evaluations the kernel asks for. *)
BatchJobs ==
  {[kernel |-> k, batch |-> b, episode |-> FALSE, granted |-> Nil] : k \in Kernels, b \in Batches}
    \cup {[kernel |-> k, batch |-> b, episode |-> FALSE, granted |-> Len(b) + n] :
             k \in Kernels, b \in Batches, n \in {-1} \cup Spare}

EpisodeJobs ==
  {job_ \in {[kernel |-> k, batch |-> b, episode |-> TRUE, granted |-> PreferredLimit(k, b[1])] :
               k \in Kernels, b \in Batches} : Len(job_.batch) = 1 /\ job_.granted # Nil}

SearchInit ==
  /\ job \in BatchJobs \cup EpisodeJobs
  /\ remaining = job.granted
  /\ known = << >>
  /\ ep = NewEpisode(job.batch[1])
  /\ reported = << >>

SearchNext ==
  \/ EvaluateOriginal \/ EvaluateFirst \/ RunRaises
  \/ EnterStage \/ EvaluateNeighbor \/ OutOfSteps \/ OutOfBudget \/ NoImprovement
  \/ Kick \/ StopKicking

SearchSpec == SearchInit /\ [][SearchNext]_searchVars

(***************************************************************************)
(* Properties                                                              *)
(***************************************************************************)
(* An episode that gets the evaluations its kernel prefers is never cut short
   by them, whatever it finds and whatever fails; and a batch with an
   evaluation for every proposal evaluates every proposal, however many steps
   the earlier ones would like to take (preferred_request_local_evaluation_limit,
   can_evaluate and its reserved_count). *)
EvaluationsSuffice ==
  /\ job.episode => \A k \in DOMAIN reported : ~reported[k].exhausted
  /\ job.granted = Nil \/ job.granted >= Len(job.batch) => ep.pc # "raised"

(* What an episode reports is the best it has seen, at a candidate with that
   value; it counts every call it made; and it is called converged only when
   each neighbor by a single leaf was evaluated and none is better, a failed
   one aside (the _optimize_proposal methods). *)
EpisodeReported ==
  \A k \in DOMAIN reported :
    LET r == reported[k]
    IN  /\ r.count = r.calls
        /\ r.ok => r.value = r.least /\ known[r.at] = r.value
        /\ r.converged /\ r.missed = 0 =>
             \A l \in DOMAIN Leaves : \A c \in Range(MovesOf(r.at, l)) :
               c \in DOMAIN known /\ known[c] >= r.value
=============================================================================
