-------------------------- MODULE EvaluationLimits --------------------------
(***************************************************************************)
(* _max_min_evaluation_limits (study/execution.py): how a batch of         *)
(* request-local episodes shares the evaluations that are left.  The       *)
(* active requests, sorted by preferred limit, are raised to the smallest  *)
(* preferred limit among them together, which retires the requests that    *)
(* reach theirs; when the evaluations do not reach the next level, the     *)
(* last incomplete round goes to the first active requests.  One step is   *)
(* one iteration of the loop.  StudyRun abstracts the result to its sum.   *)
(***************************************************************************)
EXTENDS Integers, FiniteSets, Functions

CONSTANTS
  Requests,       \* requests in the batch
  MaxPreferred,   \* bound on a preferred limit
  MaxAvailable    \* bound on the evaluations available

ASSUME RequestsAssumption == Requests \in Nat \ {0}
ASSUME BoundsAssumption == MaxPreferred \in Nat \ {0} /\ MaxAvailable \in Nat

VARIABLES
  preferred,   \* preferred limit of each request
  available,   \* evaluations left in the budget
  limits,      \* the limits, as far as they are written
  active,      \* active_limits[active_start:], as a set of requests
  level,       \* water_level
  left,        \* remaining
  phase        \* "called", "raising", "granted" or "refused"

allocVars == <<preferred, available, limits, active, level, left, phase>>

Slots == 1..Requests
Nothing == [i \in Slots |-> 0]

AllocTypeOK ==
  /\ preferred \in [Slots -> 1..MaxPreferred]
  /\ available \in 0..MaxAvailable
  /\ limits \in [Slots -> Nat]
  /\ active \in SUBSET Slots
  /\ level \in Nat \ {0}
  /\ left \in Nat
  /\ phase \in {"called", "raising", "granted", "refused"}

AllocInit ==
  /\ preferred \in [Slots -> 1..MaxPreferred]
  /\ available \in 0..MaxAvailable
  /\ limits = Nothing
  /\ active = {}
  /\ level = 1
  /\ left = 0
  /\ phase = "called"

Enough == available >= SumFunction(preferred)

\* Fewer evaluations than requests: the batch is not dispatched as episodes.
Refuse ==
  /\ phase = "called"
  /\ available < Requests
  /\ phase' = "refused"
  /\ UNCHANGED <<preferred, available, limits, active, level, left>>

\* There is enough for every preferred limit.
GrantPreferred ==
  /\ phase = "called"
  /\ available >= Requests
  /\ Enough
  /\ limits' = preferred
  /\ phase' = "granted"
  /\ UNCHANGED <<preferred, available, active, level, left>>

\* One evaluation each; what is left is shared out by the loop.
GrantOneEach ==
  /\ phase = "called"
  /\ available >= Requests
  /\ ~Enough
  /\ limits' = [i \in Slots |-> 1]
  /\ left' = available - Requests
  /\ active' = {i \in Slots : preferred[i] > 1}
  /\ phase' = IF left' = 0 THEN "granted" ELSE "raising"
  /\ UNCHANGED <<preferred, available, level>>

\* The smallest preferred limit among the active requests, and what it costs
\* to raise all of them to it.
IsNextLimit(next) ==
  /\ \E i \in active : preferred[i] = next
  /\ \A i \in active : preferred[i] >= next
Cost(next) == (next - level) * Cardinality(active)

\* active_start moves past the requests that reach their preferred limit.
Unfilled(next) == {i \in active : preferred[i] # next}

\* Mutant: the limits are written only when a request retires.
Mutant_WriteRetired(next, i) == i \in active /\ preferred[i] = next

\* The limits an iteration writes: those of the requests that retire, and all
\* of them when nothing is left.
Writes(next, i) == i \in active /\ (preferred[i] = next \/ left = Cost(next))

\* Raise the active requests together.
RaiseTogether(next) ==
  /\ phase = "raising"
  /\ IsNextLimit(next)
  /\ left >= Cost(next)
  /\ left' = left - Cost(next)
  /\ level' = next
  /\ active' = Unfilled(next)
  /\ limits' = [i \in Slots |->
                  IF Writes(next, i) THEN next ELSE limits[i]]
  /\ phase' = IF left' = 0 THEN "granted" ELSE "raising"
  /\ UNCHANGED <<preferred, available>>

\* Complete rounds for every active request, then one more evaluation for the
\* first of them in request order.
Rounds == left \div Cardinality(active)
Remainder == left % Cardinality(active)

\* Mutant: the remainder is cut by request number, not by position among the
\* active requests.
Mutant_FirstByNumber(i) == i <= Remainder

Ahead(i) == {j \in active : j < i}
GetsRemainder(i) == Cardinality(Ahead(i)) < Remainder

Spread(next) ==
  /\ phase = "raising"
  /\ IsNextLimit(next)
  /\ left < Cost(next)
  /\ limits' = [i \in Slots |->
                  IF i \in active
                  THEN level + Rounds + IF GetsRemainder(i) THEN 1 ELSE 0
                  ELSE limits[i]]
  /\ left' = 0
  /\ phase' = "granted"
  /\ UNCHANGED <<preferred, available, active, level>>

Allocate ==
  \/ Refuse \/ GrantPreferred \/ GrantOneEach
  \/ \E next \in 1..MaxPreferred : RaiseTogether(next) \/ Spread(next)

-----------------------------------------------------------------------------
(***************************************************************************)
(* What the allocation promises (docs/reference/evaluator-contracts.md,    *)
(* lines 89-98), stated as the process it shortens: hand out one           *)
(* evaluation at a time to the request that has the least, the first of    *)
(* them in request order, among those below their preferred limit.         *)
(***************************************************************************)
NeedsLeast(f, i) ==
  /\ f[i] < preferred[i]
  /\ \A j \in Slots : f[j] < preferred[j] =>
       f[i] < f[j] \/ (f[i] = f[j] /\ i <= j)

Handed[n \in Nat] ==
  IF n = 0 THEN Nothing
  ELSE LET f == Handed[n - 1] IN
       IF \E i \in Slots : f[i] < preferred[i]
       THEN [f EXCEPT ![CHOOSE i \in Slots : NeedsLeast(f, i)] = @ + 1]
       ELSE f

\* Whatever the shortcuts of the loop, the limits granted are those of handing
\* the available evaluations out one by one.
AsIfOneByOne == phase = "granted" => limits = Handed[available]

\* No request gets less than one evaluation or more than it prefers.
WithinPreferred == phase = "granted" =>
  \A i \in Slots : limits[i] \in 1..preferred[i]

\* A request kept below its preferred limit is at most one evaluation behind
\* any other, and behind only requests that precede it.
NobodyStarves == phase = "granted" =>
  \A i, j \in Slots : limits[i] < preferred[i] /\ limits[i] < limits[j] =>
    limits[j] = limits[i] + 1 /\ j < i
=============================================================================
