---------------------------- MODULE ScipyEpisode ----------------------------
(* One local-search episode of the SciPy kernel (local_search/scipy).

   SciPy is outside: it asks for the objective at coordinates of its choice,
   the initial ones or others, as often as it likes, and ends with a solution
   that it has evaluated or not, finite or not.  The kernel keeps every attempt
   by its coordinates, answers a repeated question from there, and turns what
   is known at the end into one slot.  Raising through SciPy ends the
   minimization when the evaluations are used up. *)
EXTENDS Integers, FiniteSets, FiniteSetsExt

CONSTANTS
  Points,      \* coordinates
  Origin,      \* those of the proposal
  Scores,      \* values of the objective
  Limits,      \* max_evaluations, or NoLimit
  Grants       \* [granted, reserved]: the budget and what later proposals need

VARIABLES
  setup,       \* limit, granted, reserved, and whether the search is enabled
  attempts,    \* evaluated_attempts_by_coordinates: a value, or Failure
  calls,       \* calls of the evaluator
  solution,    \* how the minimization ended, if it did
  slot         \* what the kernel reports, or Pending

(* A limit is a number of calls, and a budget or a share one of evaluations. *)
NoLimit == -1

ScipyAssumption ==
  /\ Limits \subseteq Nat \cup {NoLimit}
  /\ \A g \in Grants : g.granted \in Nat \cup {NoLimit} /\ g.reserved \in Nat

scipyVars == <<setup, attempts, calls, solution, slot>>

Failure == 0
Pending == [kind |-> "pending"]

(* How the minimization ends: left by an exception, without a finite solution,
   or with a finite one at x. *)
Awaited   == [kind |-> "awaited"]
Exhausted == [kind |-> "exhausted"]
NotFinite == [kind |-> "not_finite"]
Finite(x) == [kind |-> "finite", at |-> x]

Successes == {x \in DOMAIN attempts : attempts[x] # Failure}
Failures  == DOMAIN attempts \ Successes
BestSeen  == Min({attempts[x] : x \in Successes})

(* Every coordinate is evaluated at most once, so the attempts are the calls. *)
TotalCount == Cardinality(Successes) + Cardinality(Failures)

MayEvaluate ==
  /\ setup.limit = NoLimit \/ TotalCount < setup.limit
  /\ setup.granted = NoLimit \/ setup.granted - calls >= 1 + setup.reserved

(* Slots of the report. *)
Success(value, status) ==
  [kind |-> "success", value |-> value, count |-> TotalCount, status |-> status]

(* The first failure stands for all, and carries what the failures cost; without
   any of them there is no slot. *)
TopLevelFailure ==
  [kind |-> IF Failures = {} THEN "empty" ELSE "failure", count |-> Cardinality(Failures)]

BestOrFailure(status) == IF Successes = {} THEN TopLevelFailure ELSE Success(BestSeen, status)

Record(x, v) ==
  /\ calls' = calls + 1
  /\ attempts' = [y \in DOMAIN attempts \cup {x} |-> IF y = x THEN v ELSE attempts[y]]

(* objective_in_coordinate_space *)
Objective(x, v) ==
  /\ slot = Pending /\ setup.enabled
  /\ x \notin DOMAIN attempts /\ MayEvaluate
  /\ Record(x, v)
  /\ UNCHANGED <<setup, solution, slot>>

BudgetExhausted ==
  /\ slot = Pending /\ setup.enabled
  /\ DOMAIN attempts # Points /\ ~MayEvaluate
  /\ solution' = Exhausted
  /\ slot' = IF attempts = << >> THEN [kind |-> "raised"] ELSE BestOrFailure("stopped")
  /\ UNCHANGED <<setup, attempts, calls>>

(* SciPy has asked at least once before it returns a solution. *)
Returns == slot = Pending /\ setup.enabled /\ attempts # << >>

(* Without a finite solution the original candidate is reported, evaluated now
   if it never was.  Its failure fails the slot. *)
NoFiniteSolution ==
  /\ Returns
  /\ solution' = NotFinite
  /\ \/ /\ Origin \in DOMAIN attempts
        /\ slot' = IF Origin \in Successes THEN Success(attempts[Origin], "stopped") ELSE TopLevelFailure
        /\ UNCHANGED <<attempts, calls>>
     \/ /\ Origin \notin DOMAIN attempts /\ ~MayEvaluate
        /\ slot' = BestOrFailure("stopped")
        /\ UNCHANGED <<attempts, calls>>
     \/ /\ Origin \notin DOMAIN attempts /\ MayEvaluate
        /\ \E v \in Scores \cup {Failure} :
             /\ Record(Origin, v)
             /\ slot' = IF v # Failure
                        THEN [kind |-> "success", value |-> v, count |-> TotalCount + 1, status |-> "stopped"]
                        ELSE [kind |-> "failure", count |-> Cardinality(Failures) + 1]
  /\ UNCHANGED setup

(* A finite solution is reported with its own value, evaluated now if SciPy
   moved to it without asking; if it fails, the best seen is.  It has converged
   when SciPy says so. *)
FiniteSolution(x) ==
  /\ Returns
  /\ solution' = Finite(x)
  /\ \/ /\ x \in Successes
        /\ slot' \in {Success(attempts[x], s) : s \in {"converged", "stopped"}}
        /\ UNCHANGED <<attempts, calls>>
     \/ /\ x \in Failures
        /\ slot' = BestOrFailure("failed")
        /\ UNCHANGED <<attempts, calls>>
     \/ /\ x \notin DOMAIN attempts /\ ~MayEvaluate
        /\ slot' = BestOrFailure("stopped")
        /\ UNCHANGED <<attempts, calls>>
     \/ /\ x \notin DOMAIN attempts /\ MayEvaluate
        /\ \E v \in Scores \cup {Failure}, s \in {"converged", "stopped"} :
             /\ Record(x, v)
             /\ slot' = IF v # Failure
                        THEN [kind |-> "success", value |-> v, count |-> TotalCount + 1, status |-> s]
                        ELSE IF Successes = {} THEN [kind |-> "failure", count |-> Cardinality(Failures) + 1]
                        ELSE [kind |-> "success", value |-> BestSeen, count |-> TotalCount + 1, status |-> "failed"]
  /\ UNCHANGED setup

(* The search is disabled for the proposal: one evaluation, or none left. *)
Original ==
  /\ slot = Pending /\ ~setup.enabled
  /\ IF setup.granted = 0
     THEN slot' = [kind |-> "raised"] /\ UNCHANGED <<attempts, calls>>
     ELSE \E v \in Scores \cup {Failure} :
            /\ Record(Origin, v)
            /\ slot' = IF v # Failure THEN [kind |-> "success", value |-> v, count |-> 1, status |-> "stopped"]
                       ELSE [kind |-> "failure", count |-> 1]
  /\ UNCHANGED <<setup, solution>>

ScipyInit ==
  /\ \E limit \in Limits, g \in Grants, enabled \in BOOLEAN :
       setup = [limit |-> limit, granted |-> g.granted, reserved |-> g.reserved, enabled |-> enabled]
  /\ attempts = << >> /\ calls = 0 /\ solution = Awaited /\ slot = Pending

ScipyNext ==
  \/ \E x \in Points, v \in Scores \cup {Failure} : Objective(x, v)
  \/ BudgetExhausted \/ NoFiniteSolution \/ Original
  \/ \E x \in Points : FiniteSolution(x)

ScipySpec == ScipyInit /\ [][ScipyNext]_scipyVars

(* The coordinates the slot is about: those of the solution, or the original
   ones when SciPy came back without any. *)
Named ==
  CASE solution.kind = "finite"    -> {solution.at}
    [] solution.kind = "exhausted" -> {}
    [] OTHER                       -> {Origin}

(* Whatever SciPy asks for and however it ends: a successful slot counts every
   call and has the value of the point it is about, or the best seen when that
   point did not succeed; a failed slot counts the failures, and there is one only
   when nothing succeeded or when no finite solution came back and the original
   candidate failed.  A slot is called converged only at a solution that was
   evaluated, and failed exactly when the solution was.  It is never dropped, and
   the calls keep to the limit and leave later proposals their share
   (ScipyMinimizeKernel._optimize_proposal). *)
SuccessAccounts ==
  /\ slot.count = calls
  /\ Named \cap Successes # {} => \A x \in Named : slot.value = attempts[x]
  /\ Named \cap Successes = {} => Successes # {} /\ slot.value = BestSeen
  /\ slot.status = "converged" => solution.kind = "finite" /\ Named \subseteq Successes
  /\ slot.status = "failed" <=> solution.kind = "finite" /\ Named \subseteq Failures

FailureAccounts ==
  /\ slot.count = Cardinality(Failures)
  /\ Successes = {} \/ (solution.kind = "not_finite" /\ Origin \in Failures)

WithinLimits ==
  setup.enabled => /\ setup.limit = NoLimit \/ calls <= setup.limit
                   /\ setup.granted = NoLimit \/ calls = 0 \/ setup.granted - calls >= setup.reserved

ScipyReported ==
  /\ slot.kind = "success" => SuccessAccounts
  /\ slot.kind = "failure" => FailureAccounts
  /\ slot.kind # "empty"
  /\ slot.kind = "raised" => calls = 0
  /\ WithinLimits

(* A slot reports every objective call of the search it stands for
   ("Its actual objective-call cost is reported through evaluation_count",
   docs/concepts/evaluator-owned-local-search.md:17-18). *)
CallsCounted == slot.kind \in {"success", "failure"} => slot.count = calls
=============================================================================
