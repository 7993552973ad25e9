------------------------- MODULE SearchMethodProofs -------------------------
(***************************************************************************)
(* What runs inside an episode: the SciPy kernel and the kernels for       *)
(* structured discrete spaces report what they have done and seen, for     *)
(* every space, kernel, batch and budget.                                  *)
(*                                                                         *)
(* And the methods that breed whole generations out of such episodes:      *)
(* however a generation is sliced, its children go out and come back in    *)
(* order, and the population keeps its size.                               *)
(***************************************************************************)
EXTENDS LocalSearch, GenerationalMethods,
        SumTheorems, FiniteSetTheorems, SequenceTheorems, TLAPS

(***************************************************************************)
(* The episode of the SciPy kernel                                         *)
(***************************************************************************)
\* The attempts are the calls, there is one for every coordinate asked for, and
\* the calls keep to the limits; a slot, once there is one, is what it should be.
SetupOK ==
  /\ setup.limit \in Nat \cup {NoLimit} /\ setup.granted \in Nat \cup {NoLimit}
  /\ setup.reserved \in Nat /\ setup.enabled \in BOOLEAN

AttemptsOK ==
  /\ attempts = << >> \/ DOMAIN attempts # {}
  /\ IsFiniteSet(DOMAIN attempts)
  /\ calls = Cardinality(DOMAIN attempts)

EpisodeOK ==
  /\ SetupOK /\ AttemptsOK
  /\ ~setup.enabled /\ slot = Pending => attempts = << >> /\ solution = Awaited
  /\ ScipyReported

\* The attempts that succeeded and those that failed are all of them.
LEMMA AttemptsCounted ==
  ASSUME AttemptsOK
  PROVE  /\ IsFiniteSet(Successes) /\ IsFiniteSet(Failures)
         /\ Cardinality(Successes) \in Nat /\ Cardinality(Failures) \in Nat /\ calls \in Nat
         /\ TotalCount = calls
         /\ Successes # {} => Cardinality(Successes) > 0
         /\ Failures # {} => Cardinality(Failures) > 0
<1>1. Successes \subseteq DOMAIN attempts /\ Failures \subseteq DOMAIN attempts
  BY DEF Successes, Failures
<1>2. IsFiniteSet(Successes) /\ IsFiniteSet(Failures)
  BY <1>1, FS_Subset DEF AttemptsOK
<1>3. Cardinality(Successes) \in Nat /\ Cardinality(Failures) \in Nat /\ calls \in Nat
  BY <1>2, FS_CardinalityType DEF AttemptsOK
<1>4. Successes \cup Failures = DOMAIN attempts /\ Successes \cap Failures = {}
  BY DEF Successes, Failures
<1>5. Cardinality(Successes \cap Failures) = 0
  BY <1>4, FS_EmptySet
<1>6. TotalCount = calls
  BY <1>2, <1>3, <1>4, <1>5, FS_Union DEF TotalCount, AttemptsOK
<1>7. (Successes # {} => Cardinality(Successes) # 0) /\ (Failures # {} => Cardinality(Failures) # 0)
  BY <1>2, FS_EmptySet
<1> QED BY <1>2, <1>3, <1>6, <1>7

\* A call at new coordinates is one attempt more, and the others stay.
LEMMA RecordCounts ==
  ASSUME AttemptsOK, NEW x, x \notin DOMAIN attempts, NEW v, Record(x, v)
  PROVE  /\ AttemptsOK' /\ calls' = calls + 1 /\ x \in DOMAIN attempts' /\ DOMAIN attempts' # {}
         /\ v # Failure => Successes' = Successes \cup {x} /\ Failures' = Failures
         /\ v = Failure => /\ Successes' = Successes /\ Failures' = Failures \cup {x}
                           /\ Cardinality(Failures') = Cardinality(Failures) + 1
                           /\ BestSeen' = BestSeen
<1>1. /\ DOMAIN attempts' = DOMAIN attempts \cup {x} /\ attempts'[x] = v
      /\ \A y \in DOMAIN attempts : attempts'[y] = attempts[y] /\ y # x
      /\ calls' = calls + 1
  BY DEF Record
<1>2. /\ IsFiniteSet(DOMAIN attempts \cup {x})
      /\ Cardinality(DOMAIN attempts \cup {x}) = Cardinality(DOMAIN attempts) + 1
  BY FS_AddElement DEF AttemptsOK
<1>3. AttemptsOK'
  BY <1>1, <1>2 DEF AttemptsOK
<1>4. v # Failure => Successes' = Successes \cup {x} /\ Failures' = Failures
  BY <1>1 DEF Successes, Failures
<1>5. ASSUME v = Failure
      PROVE  /\ Successes' = Successes /\ Failures' = Failures \cup {x}
             /\ Cardinality(Failures') = Cardinality(Failures) + 1
             /\ BestSeen' = BestSeen
  <2>1. Successes' = Successes /\ Failures' = Failures \cup {x}
    BY <1>1, <1>5 DEF Successes, Failures
  <2>2. Cardinality(Failures') = Cardinality(Failures) + 1
    BY <1>1, <2>1, AttemptsCounted, FS_AddElement DEF Failures
  <2>3. {attempts'[y] : y \in Successes'} = {attempts[y] : y \in Successes}
    BY <1>1, <2>1 DEF Successes
  <2> QED BY <2>1, <2>2, <2>3 DEF BestSeen
<1> QED BY <1>1, <1>3, <1>4, <1>5

\* An evaluation that is allowed keeps to the limit and to the share of later
\* proposals.
KeepsTo(n) ==
  setup.enabled => /\ setup.limit = NoLimit \/ n <= setup.limit
                   /\ setup.granted = NoLimit \/ n = 0 \/ setup.granted - n >= setup.reserved

LEMMA AllowedIsWithin ==
  ASSUME SetupOK, AttemptsOK, MayEvaluate
  PROVE  KeepsTo(calls + 1)
  BY AttemptsCounted DEF SetupOK, MayEvaluate, KeepsTo, NoLimit

\* What the slot is about, for each way the minimization ends.
LEMMA NamedIs ==
  /\ \A x : solution' = Finite(x) => solution'.kind = "finite" /\ Named' = {x}
  /\ solution' = NotFinite => solution'.kind = "not_finite" /\ Named' = {Origin}
  /\ solution' = Exhausted => solution'.kind = "exhausted" /\ Named' = {}
  /\ solution' = Awaited => solution'.kind = "awaited" /\ Named' = {Origin}
<1>1. ASSUME NEW x, solution' = Finite(x) PROVE solution'.kind = "finite" /\ Named' = {x}
  BY <1>1 DEF Finite, Named
<1>2. ASSUME solution' = NotFinite PROVE solution'.kind = "not_finite" /\ Named' = {Origin}
  BY <1>2 DEF NotFinite, Named
<1>3. ASSUME solution' = Exhausted PROVE solution'.kind = "exhausted" /\ Named' = {}
  BY <1>3 DEF Exhausted, Named
<1>4. ASSUME solution' = Awaited PROVE solution'.kind = "awaited" /\ Named' = {Origin}
  BY <1>4 DEF Awaited, Named
<1> QED BY <1>1, <1>2, <1>3, <1>4

\* The slots that end an episode, when the calls are within the limits.
LEMMA SuccessReported ==
  ASSUME KeepsTo(calls)', NEW value, NEW status,
         slot' = [kind |-> "success", value |-> value, count |-> calls', status |-> status],
         Named' \cap Successes' # {} => \A x \in Named' : value = attempts'[x],
         Named' \cap Successes' = {} => Successes' # {} /\ value = BestSeen',
         status = "converged" => solution'.kind = "finite" /\ Named' \subseteq Successes',
         status = "failed" <=> solution'.kind = "finite" /\ Named' \subseteq Failures'
  PROVE  ScipyReported'
<1>1. slot'.kind = "success" /\ slot'.count = calls' /\ slot'.status = status /\ slot'.value = value
  OBVIOUS
<1>2. SuccessAccounts'
  BY <1>1 DEF SuccessAccounts
<1> QED BY <1>1, <1>2 DEF ScipyReported, WithinLimits, KeepsTo

\* The value of the one point the slot is about, when that point succeeded.
LEMMA PointReported ==
  ASSUME KeepsTo(calls)', NEW x, Named' = {x}, x \in Successes', NEW value, value = attempts'[x], NEW status,
         slot' = [kind |-> "success", value |-> value, count |-> calls', status |-> status],
         status # "failed", status = "converged" => solution'.kind = "finite"
  PROVE  ScipyReported'
<1>1. Named' \cap Successes' # {} /\ Named' \subseteq Successes' /\ ~(Named' \subseteq Failures')
  BY DEF Failures
<1> QED BY <1>1, SuccessReported

LEMMA FailureReported ==
  ASSUME KeepsTo(calls)', slot' = [kind |-> "failure", count |-> Cardinality(Failures')],
         Successes' = {} \/ (solution'.kind = "not_finite" /\ Origin \in Failures')
  PROVE  ScipyReported'
<1>1. slot'.kind = "failure" /\ slot'.count = Cardinality(Failures')
  OBVIOUS
<1>2. FailureAccounts'
  BY <1>1 DEF FailureAccounts
<1> QED BY <1>1, <1>2 DEF ScipyReported, WithinLimits, KeepsTo

LEMMA RaisedReported ==
  ASSUME KeepsTo(calls)', calls' = 0, slot' = [kind |-> "raised"]
  PROVE  ScipyReported'
<1>1. slot'.kind = "raised"
  OBVIOUS
<1> QED BY <1>1 DEF ScipyReported, WithinLimits, KeepsTo

LEMMA PendingReported ==
  ASSUME KeepsTo(calls)', slot' = Pending
  PROVE  ScipyReported'
<1>1. slot'.kind = "pending"
  BY DEF Pending
<1> QED BY <1>1 DEF ScipyReported, WithinLimits, KeepsTo

\* The best seen, or the failure that stands for all, when something was tried.
LEMMA BestOrFailureReported ==
  ASSUME AttemptsOK, KeepsTo(calls), attempts # << >>, UNCHANGED <<setup, attempts, calls>>,
         NEW status, slot' = BestOrFailure(status),
         Named' \cap Successes = {}, status # "converged",
         status = "failed" <=> solution'.kind = "finite" /\ Named' \subseteq Failures
  PROVE  ScipyReported'
<1>1. KeepsTo(calls)'
  BY DEF KeepsTo
<1>2. /\ Successes' = Successes /\ Failures' = Failures /\ BestSeen' = BestSeen /\ calls' = calls
      /\ TotalCount = calls
  BY AttemptsCounted DEF Successes, Failures, BestSeen
<1>3. CASE Successes = {}
  <2>1. Failures # {}
    BY <1>3 DEF Failures, AttemptsOK
  <2>2. slot' = [kind |-> "failure", count |-> Cardinality(Failures')]
    BY <1>2, <1>3, <2>1 DEF BestOrFailure, TopLevelFailure
  <2> QED BY <1>1, <1>2, <1>3, <2>2, FailureReported
<1>4. CASE Successes # {}
  <2>1. slot' = [kind |-> "success", value |-> BestSeen', count |-> calls', status |-> status]
    BY <1>2, <1>4 DEF BestOrFailure, Success
  <2> QED BY <1>1, <1>2, <1>4, <2>1, SuccessReported
<1> QED BY <1>3, <1>4

\* The evaluation of a point that ends the episode.
LEMMA LastCallReported ==
  ASSUME AttemptsOK, NEW x, x \notin DOMAIN attempts, NEW v, Record(x, v), KeepsTo(calls + 1), setup' = setup
  PROVE  /\ AttemptsOK' /\ KeepsTo(calls)' /\ calls' = TotalCount + 1
         /\ v # Failure => x \in Successes' /\ attempts'[x] = v
         /\ /\ v = Failure /\ slot' = [kind |-> "failure", count |-> Cardinality(Failures) + 1]
            /\ Successes = {} \/ (solution'.kind = "not_finite" /\ x = Origin)
            => ScipyReported'
<1>1. AttemptsOK' /\ KeepsTo(calls)' /\ calls' = TotalCount + 1
  BY RecordCounts, AttemptsCounted DEF KeepsTo
<1>2. ASSUME v = Failure, slot' = [kind |-> "failure", count |-> Cardinality(Failures) + 1],
             Successes = {} \/ (solution'.kind = "not_finite" /\ x = Origin)
      PROVE  ScipyReported'
  <2>1. Cardinality(Failures') = Cardinality(Failures) + 1 /\ Successes' = Successes /\ x \in Failures'
    BY <1>2, RecordCounts
  <2> QED BY <1>1, <1>2, <2>1, FailureReported
<1>3. v # Failure => x \in Successes' /\ attempts'[x] = v
  BY RecordCounts DEF Record
<1> QED BY <1>1, <1>2, <1>3

LEMMA OriginalIsReported ==
  ASSUME EpisodeOK, Original
  PROVE  AttemptsOK' /\ ScipyReported'
<1>a. solution'.kind = "awaited" /\ Named' = {Origin}
  BY NamedIs DEF Original, EpisodeOK
<1>0. AttemptsOK /\ attempts = << >> /\ setup' = setup /\ ~setup.enabled
  BY DEF Original, EpisodeOK
<1>1. CASE setup.granted = 0
  <2>1. slot' = [kind |-> "raised"] /\ UNCHANGED <<attempts, calls>>
    BY <1>1 DEF Original
  <2>2. calls' = 0 /\ AttemptsOK' /\ KeepsTo(calls)'
    <3>1. calls = Cardinality(DOMAIN << >>)
      BY <1>0 DEF AttemptsOK
    <3>2. DOMAIN << >> = {}
      OBVIOUS
    <3> QED BY <1>0, <2>1, <3>1, <3>2, FS_EmptySet DEF AttemptsOK, KeepsTo
  <2> QED BY <2>1, <2>2, RaisedReported
<1>2. CASE setup.granted # 0
  <2>1. PICK v \in Scores \cup {Failure} :
          /\ Record(Origin, v)
          /\ slot' = IF v # Failure THEN [kind |-> "success", value |-> v, count |-> 1, status |-> "stopped"]
                     ELSE [kind |-> "failure", count |-> 1]
    BY <1>2 DEF Original
  <2>2. DOMAIN attempts = {} /\ Successes = {} /\ Failures = {}
    BY <1>0 DEF Successes, Failures
  <2>3. TotalCount = 0 /\ Cardinality(Failures) = 0
    BY <2>2, FS_EmptySet DEF TotalCount
  <2>4. KeepsTo(calls + 1)
    BY <1>0 DEF KeepsTo
  <2>5. /\ AttemptsOK' /\ KeepsTo(calls)' /\ calls' = 1
        /\ v # Failure => Origin \in Successes' /\ attempts'[Origin] = v
    BY <1>0, <2>1, <2>2, <2>3, <2>4, LastCallReported
  <2>6. CASE v = Failure
    BY <1>0, <2>1, <2>2, <2>3, <2>4, <2>5, <2>6, LastCallReported
  <2>7. CASE v # Failure
    BY <1>a, <2>1, <2>5, <2>7, PointReported
  <2> QED BY <2>5, <2>6, <2>7
<1> QED BY <1>1, <1>2

\* A slot about a point that has succeeded already.
LEMMA KnownIsReported ==
  ASSUME AttemptsOK, KeepsTo(calls), UNCHANGED <<setup, attempts, calls>>, NEW x \in Successes, NEW status,
         slot' = Success(attempts[x], status), Named' = {x},
         status # "failed", status = "converged" => solution'.kind = "finite"
  PROVE  ScipyReported'
<1>1. KeepsTo(calls)' /\ x \in Successes'
  BY DEF KeepsTo, Successes
<1>2. slot' = [kind |-> "success", value |-> attempts'[x], count |-> calls', status |-> status]
  BY AttemptsCounted DEF Success
<1> QED BY <1>1, <1>2, PointReported

LEMMA NoFiniteIsReported ==
  ASSUME EpisodeOK, NoFiniteSolution
  PROVE  AttemptsOK' /\ ScipyReported'
<1>0. AttemptsOK /\ SetupOK /\ KeepsTo(calls) /\ attempts # << >> /\ setup' = setup
  BY DEF NoFiniteSolution, Returns, EpisodeOK, ScipyReported, WithinLimits, KeepsTo
<1>a. solution'.kind = "not_finite" /\ Named' = {Origin}
  BY NamedIs DEF NoFiniteSolution
<1>1. CASE /\ Origin \in DOMAIN attempts
           /\ slot' = IF Origin \in Successes THEN Success(attempts[Origin], "stopped") ELSE TopLevelFailure
           /\ UNCHANGED <<attempts, calls>>
  <2>1. AttemptsOK'
    BY <1>0, <1>1 DEF AttemptsOK
  <2>2. CASE Origin \in Successes
    BY <1>0, <1>a, <1>1, <2>1, <2>2, KnownIsReported
  <2>3. CASE Origin \notin Successes
    <3>1. Origin \in Failures /\ slot' = [kind |-> "failure", count |-> Cardinality(Failures)]
      BY <1>1, <2>3 DEF TopLevelFailure, Failures
    <3>2. Successes' = Successes /\ Failures' = Failures
      BY <1>1 DEF Successes, Failures
    <3>3. KeepsTo(calls)'
      BY <1>0, <1>1 DEF KeepsTo
    <3> QED BY <1>a, <2>1, <3>1, <3>2, <3>3, FailureReported
  <2> QED BY <2>2, <2>3
<1>2. CASE Origin \notin DOMAIN attempts /\ slot' = BestOrFailure("stopped") /\ UNCHANGED <<attempts, calls>>
  <2>1. AttemptsOK' /\ Named' \cap Successes = {}
    BY <1>0, <1>a, <1>2 DEF AttemptsOK, Successes
  <2> QED BY <1>0, <1>a, <1>2, <2>1, BestOrFailureReported
<1>3. ASSUME Origin \notin DOMAIN attempts, MayEvaluate, NEW v, Record(Origin, v),
             slot' = IF v # Failure
                     THEN [kind |-> "success", value |-> v, count |-> TotalCount + 1, status |-> "stopped"]
                     ELSE [kind |-> "failure", count |-> Cardinality(Failures) + 1]
      PROVE  AttemptsOK' /\ ScipyReported'
  <2>1. KeepsTo(calls + 1)
    BY <1>0, <1>3, AllowedIsWithin
  <2>2. /\ AttemptsOK' /\ KeepsTo(calls)' /\ calls' = TotalCount + 1
        /\ v # Failure => Origin \in Successes' /\ attempts'[Origin] = v
    BY <1>0, <1>3, <2>1, LastCallReported
  <2>3. CASE v = Failure
    BY <1>0, <1>a, <1>3, <2>1, <2>2, <2>3, LastCallReported
  <2>4. CASE v # Failure
    BY <1>a, <1>3, <2>2, <2>4, PointReported
  <2> QED BY <2>2, <2>3, <2>4
<1> QED BY <1>1, <1>2, <1>3 DEF NoFiniteSolution

LEMMA FiniteIsReported ==
  ASSUME EpisodeOK, NEW x, FiniteSolution(x)
  PROVE  AttemptsOK' /\ ScipyReported'
<1>0. AttemptsOK /\ SetupOK /\ KeepsTo(calls) /\ attempts # << >> /\ setup' = setup
  BY DEF FiniteSolution, Returns, EpisodeOK, ScipyReported, WithinLimits, KeepsTo
<1>a. solution'.kind = "finite" /\ Named' = {x}
  BY NamedIs DEF FiniteSolution
<1>1. CASE /\ x \in Successes
           /\ slot' \in {Success(attempts[x], s) : s \in {"converged", "stopped"}} /\ UNCHANGED <<attempts, calls>>
  <2>1. AttemptsOK'
    BY <1>0, <1>1 DEF AttemptsOK
  <2>2. PICK s \in {"converged", "stopped"} : slot' = Success(attempts[x], s)
    BY <1>1
  <2> QED BY <1>0, <1>a, <1>1, <2>1, <2>2, KnownIsReported
<1>2. CASE /\ \/ x \in Failures /\ slot' = BestOrFailure("failed")
              \/ x \notin DOMAIN attempts /\ slot' = BestOrFailure("stopped")
           /\ UNCHANGED <<attempts, calls>>
  <2>1. AttemptsOK' /\ Named' \cap Successes = {}
    BY <1>0, <1>a, <1>2 DEF AttemptsOK, Successes, Failures
  <2>2. Named' \subseteq Failures <=> x \in Failures
    BY <1>a
  <2>3. x \notin DOMAIN attempts => x \notin Failures
    BY DEF Failures
  <2> QED BY <1>0, <1>a, <1>2, <2>1, <2>2, <2>3, BestOrFailureReported
<1>3. ASSUME x \notin DOMAIN attempts, MayEvaluate, NEW v, NEW s \in {"converged", "stopped"}, Record(x, v),
             slot' = IF v # Failure
                     THEN [kind |-> "success", value |-> v, count |-> TotalCount + 1, status |-> s]
                     ELSE IF Successes = {} THEN [kind |-> "failure", count |-> Cardinality(Failures) + 1]
                     ELSE [kind |-> "success", value |-> BestSeen, count |-> TotalCount + 1, status |-> "failed"]
      PROVE  AttemptsOK' /\ ScipyReported'
  <2>1. KeepsTo(calls + 1)
    BY <1>0, <1>3, AllowedIsWithin
  <2>2. /\ AttemptsOK' /\ KeepsTo(calls)' /\ calls' = TotalCount + 1
        /\ v # Failure => x \in Successes' /\ attempts'[x] = v
    BY <1>0, <1>3, <2>1, LastCallReported
  <2>3. CASE v = Failure /\ Successes = {}
    BY <1>0, <1>3, <2>1, <2>2, <2>3, LastCallReported
  <2>4. CASE v = Failure /\ Successes # {}
    <3>1. BestSeen' = BestSeen /\ Successes' = Successes /\ x \in Failures' /\ x \notin Successes
      BY <1>0, <1>3, <2>4, RecordCounts DEF Successes
    <3>2. Named' \subseteq Failures' /\ Named' \cap Successes' = {}
      BY <1>a, <3>1
    <3>3. slot' = [kind |-> "success", value |-> BestSeen', count |-> calls', status |-> "failed"]
      BY <1>3, <2>2, <2>4, <3>1
    <3> QED BY <1>a, <2>2, <2>4, <3>1, <3>2, <3>3, SuccessReported
  <2>5. CASE v # Failure
    BY <1>a, <1>3, <2>2, <2>5, PointReported
  <2> QED BY <2>2, <2>3, <2>4, <2>5
<1> QED BY <1>1, <1>2, <1>3 DEF FiniteSolution

LEMMA ObjectiveIsReported ==
  ASSUME EpisodeOK, NEW x, NEW v, Objective(x, v)
  PROVE  AttemptsOK' /\ ScipyReported'
<1>1. AttemptsOK /\ SetupOK /\ KeepsTo(calls + 1) /\ setup' = setup /\ slot' = Pending
  BY AllowedIsWithin DEF Objective, EpisodeOK
<1>2. AttemptsOK' /\ KeepsTo(calls)'
  BY <1>1, LastCallReported DEF Objective
<1> QED BY <1>1, <1>2, PendingReported

LEMMA ExhaustedIsReported ==
  ASSUME EpisodeOK, BudgetExhausted
  PROVE  AttemptsOK' /\ ScipyReported'
<1>1. AttemptsOK /\ KeepsTo(calls) /\ UNCHANGED <<setup, attempts, calls>>
  BY DEF BudgetExhausted, EpisodeOK, ScipyReported, WithinLimits, KeepsTo
<1>2. AttemptsOK' /\ KeepsTo(calls)'
  BY <1>1 DEF AttemptsOK, KeepsTo
<1>3. CASE attempts = << >>
  <2>1. calls = Cardinality(DOMAIN << >>)
    BY <1>1, <1>3 DEF AttemptsOK
  <2>2. DOMAIN << >> = {}
    OBVIOUS
  <2> QED BY <1>1, <1>2, <1>3, <2>1, <2>2, FS_EmptySet, RaisedReported DEF BudgetExhausted
<1>4. CASE attempts # << >>
  <2>1. solution'.kind = "exhausted" /\ Named' = {}
    BY NamedIs DEF BudgetExhausted
  <2> QED BY <1>1, <1>2, <1>4, <2>1, BestOrFailureReported DEF BudgetExhausted
<1> QED BY <1>3, <1>4

LEMMA EpisodeStep ==
  ASSUME EpisodeOK, [ScipyNext]_scipyVars
  PROVE  EpisodeOK'
<1>1. CASE UNCHANGED scipyVars
  BY <1>1 DEF scipyVars, EpisodeOK, SetupOK, AttemptsOK, ScipyReported, SuccessAccounts, FailureAccounts,
                 WithinLimits, Named, Successes, Failures, BestSeen
<1>2. ASSUME ScipyNext PROVE EpisodeOK'
  <2>1. AttemptsOK' /\ ScipyReported'
    BY <1>2, ObjectiveIsReported, ExhaustedIsReported, NoFiniteIsReported, OriginalIsReported, FiniteIsReported
    DEF ScipyNext
  <2>2. setup' = setup
    BY <1>2 DEF ScipyNext, Objective, BudgetExhausted, NoFiniteSolution, Original, FiniteSolution
  <2>3. setup.enabled \/ slot' # Pending
    <3>1. ASSUME ~setup.enabled, slot' = Pending PROVE FALSE
      <4>1. Original /\ slot'.kind = "pending"
        BY <1>2, <3>1 DEF ScipyNext, Objective, BudgetExhausted, NoFiniteSolution, FiniteSolution, Returns, Pending
      <4> QED BY <4>1 DEF Original
    <3> QED BY <3>1
  <2> QED BY <2>1, <2>2, <2>3 DEF EpisodeOK, SetupOK
<1> QED BY <1>1, <1>2

LEMMA EpisodeBegins ==
  ASSUME ScipyAssumption, ScipyInit
  PROVE  EpisodeOK
<1>1. SetupOK /\ attempts = << >> /\ calls = 0 /\ solution = Awaited /\ slot = Pending
  BY DEF ScipyInit, ScipyAssumption, SetupOK
<1>2. slot.kind = "pending"
  BY <1>1 DEF Pending
<1>3. DOMAIN << >> = {}
  OBVIOUS
<1>4. AttemptsOK
  BY <1>1, <1>3, FS_EmptySet DEF AttemptsOK
<1>5. ScipyReported
  BY <1>1, <1>2 DEF ScipyReported, WithinLimits, SetupOK
<1> QED BY <1>1, <1>4, <1>5 DEF EpisodeOK

\* Whatever SciPy asks for and however it ends, whatever the objective answers
\* and whatever the limit, the budget and the share of later proposals are: a
\* successful slot counts every call and has the value of the point it is about
\* or, when that point did not succeed, the best seen; a failed one counts the
\* failures, the only attempts unless the original candidate failed and no finite
\* solution came back.  No slot is dropped, and the calls keep to the limits
\* (ScipyMinimizeKernel._optimize_proposal).
THEOREM ScipyIsReported == ASSUME ScipyAssumption PROVE ScipySpec => []ScipyReported
<1>1. ScipyInit => EpisodeOK
  BY EpisodeBegins
<1>2. EpisodeOK /\ [ScipyNext]_scipyVars => EpisodeOK'
  BY EpisodeStep
<1>3. EpisodeOK => ScipyReported
  BY DEF EpisodeOK
<1> QED BY <1>1, <1>2, <1>3, PTL DEF ScipySpec

(***************************************************************************)
(* The kernels for structured discrete spaces                              *)
(***************************************************************************)
\* A sequence that is computed from another one element after the other: the
\* function a recursive definition stands for exists, on 0 .. n.
IsSteps(h, n, X, a, step) ==
  h \in [0 .. n -> X] /\ h[0] = a /\ \A i \in 1 .. n : h[i] = step[<<i, h[i - 1]>>]

LEMMA StepsExist ==
  \A n, X, a, step : n \in Nat /\ a \in X /\ step \in [(Nat \X X) -> X] => \E h : IsSteps(h, n, X, a, step)
<1> SUFFICES ASSUME NEW n \in Nat, NEW X, NEW a \in X, NEW step \in [(Nat \X X) -> X]
             PROVE  \E h : IsSteps(h, n, X, a, step)
  OBVIOUS
<1> DEFINE P == Nat \X X
           next == [p \in P |-> <<p[1] + 1, step[<<p[1] + 1, p[2]>>]>>]
<1>1. <<0, a>> \in P /\ next \in [P -> P]
  OBVIOUS
<1>2. PICK h : IsIteration(h, P, <<0, a>>, next)
  <2> HIDE DEF P, next
  <2> QED BY <1>1, Iterates
<1>3. h \in [Nat -> P] /\ h[0] = <<0, a>> /\ \A i \in Nat : h[i + 1] = next[h[i]]
  BY <1>2 DEF IsIteration
<1> DEFINE N == {i \in Nat : h[i][1] = i}
<1>4. \A i \in Nat : i \in N
  <2>1. 0 \in N
    BY <1>3
  <2>2. ASSUME NEW i \in Nat, i \in N PROVE i + 1 \in N
    <3>1. h[i] \in P /\ h[i][1] = i /\ h[i + 1] = next[h[i]]
      BY <1>3, <2>2
    <3>2. h[i + 1][1] = i + 1
      BY <3>1
    <3> QED BY <3>2
  <2> HIDE DEF N
  <2> QED BY <2>1, <2>2, AllNaturals
<1> DEFINE g == [i \in 0 .. n |-> h[i][2]]
<1>5. g \in [0 .. n -> X] /\ g[0] = a
  BY <1>3
<1>6. ASSUME NEW i \in 1 .. n PROVE g[i] = step[<<i, g[i - 1]>>]
  <2>1. i - 1 \in Nat /\ (i - 1) + 1 = i /\ i - 1 \in 0 .. n /\ i \in 0 .. n
    OBVIOUS
  <2>2. h[i] = next[h[i - 1]] /\ h[i - 1] \in P /\ h[i - 1][1] = i - 1
    BY <1>3, <1>4, <2>1
  <2>3. h[i][2] = step[<<i, h[i - 1][2]>>]
    BY <2>1, <2>2
  <2> QED BY <2>1, <2>3
<1>7. IsSteps(g, n, X, a, step)
  <2> HIDE DEF g
  <2> QED BY <1>5, <1>6 DEF IsSteps
<1> HIDE DEF g
<1> QED BY <1>7

\* The recursive function that FlattenSeq stands for, and what it returns.
IsFlatten(f, ss) ==
  f = [i \in 1 .. Len(ss) |-> IF i = 1 THEN ss[i] ELSE f[i - 1] \o ss[i]]

LEMMA FlattenExists ==
  ASSUME NEW Y, NEW ss \in Seq(Seq(Y)), ss # << >>
  PROVE  \E f : IsFlatten(f, ss)
<1> DEFINE n == Len(ss)
           X == Seq(Y)
           step == [p \in Nat \X X |-> IF p[1] = 1 THEN ss[1] ELSE IF p[1] \in 1 .. n THEN p[2] \o ss[p[1]] ELSE << >>]
<1>1. n \in Nat \ {0} /\ \A i \in 1 .. n : ss[i] \in X
  OBVIOUS
<1>2. step \in [(Nat \X X) -> X]
  BY <1>1
<1>3. PICK h : IsSteps(h, n, X, << >>, step)
  <2>1. << >> \in X
    OBVIOUS
  <2> HIDE DEF step, X, n
  <2> QED BY <1>1, <1>2, <2>1, StepsExist
<1> DEFINE f == [i \in 1 .. n |-> h[i]]
<1>6. h \in [0 .. n -> X] /\ \A i \in 1 .. n : h[i] = step[<<i, h[i - 1]>>]
  BY <1>3 DEF IsSteps
<1>4. ASSUME NEW i \in 1 .. n
      PROVE  f[i] = IF i = 1 THEN ss[i] ELSE f[i - 1] \o ss[i]
  <2>1. i - 1 \in 0 .. n /\ i \in Nat /\ h[i - 1] \in X /\ (i # 1 => i - 1 \in 1 .. n)
    <3> HIDE DEF X, n
    <3> QED BY <1>1, <1>6
  <2>2. h[i] = step[<<i, h[i - 1]>>]
    BY <1>6
  <2>3. h[i] = IF i = 1 THEN ss[1] ELSE h[i - 1] \o ss[i]
    BY <2>1, <2>2
  <2> QED BY <2>1, <2>3
<1>5. f = [i \in 1 .. n |-> IF i = 1 THEN ss[i] ELSE f[i - 1] \o ss[i]]
  <2> DEFINE g == [i \in 1 .. n |-> IF i = 1 THEN ss[i] ELSE f[i - 1] \o ss[i]]
  <2>1. DOMAIN f = 1 .. n /\ DOMAIN g = 1 .. n /\ f = [i \in DOMAIN f |-> f[i]] /\ g = [i \in DOMAIN g |-> g[i]]
    OBVIOUS
  <2>2. \A i \in 1 .. n : f[i] = g[i]
    BY <1>4
  <2>3. f = g
    <3> HIDE DEF f, g
    <3> QED BY <2>1, <2>2
  <2> HIDE DEF f
  <2> QED BY <2>3
<1> HIDE DEF f
<1> QED BY <1>5 DEF IsFlatten

\* Two sequences, one after the other.
LEMMA JoinedIs ==
  ASSUME NEW Y, NEW s \in Seq(Y), NEW t \in Seq(Y)
  PROVE  s \o t \in Seq(Y) /\ Range(s \o t) = Range(s) \cup Range(t)
<1>1. /\ s \o t \in Seq(Y) /\ Len(s \o t) = Len(s) + Len(t) /\ Len(s) \in Nat /\ Len(t) \in Nat
      /\ \A i \in 1 .. Len(s) : (s \o t)[i] = s[i]
      /\ \A i \in 1 .. Len(t) : (s \o t)[Len(s) + i] = t[i]
  OBVIOUS
<1>2. DOMAIN s = 1 .. Len(s) /\ DOMAIN t = 1 .. Len(t) /\ DOMAIN (s \o t) = 1 .. Len(s) + Len(t)
  BY <1>1
<1> DEFINE st == s \o t
<1> HIDE DEF st
<1>3. ASSUME NEW i \in DOMAIN s PROVE i \in DOMAIN st /\ st[i] = s[i]
  BY <1>1, <1>2 DEF st
<1>4. ASSUME NEW i \in DOMAIN t PROVE Len(s) + i \in DOMAIN st /\ st[Len(s) + i] = t[i]
  BY <1>1, <1>2 DEF st
<1>5. ASSUME NEW i \in DOMAIN st PROVE st[i] \in Range(s) \cup Range(t)
  <2>1. CASE i <= Len(s)
    BY <1>1, <1>2, <2>1 DEF st, Range
  <2>2. CASE ~(i <= Len(s))
    <3>1. i - Len(s) \in 1 .. Len(t) /\ Len(s) + (i - Len(s)) = i
      BY <1>1, <1>2, <2>2 DEF st
    <3>2. st[i] = t[i - Len(s)]
      BY <1>1, <3>1 DEF st
    <3> QED BY <1>2, <3>1, <3>2 DEF Range
  <2> QED BY <2>1, <2>2
<1>6. Range(st) = Range(s) \cup Range(t)
  BY <1>3, <1>4, <1>5 DEF Range
<1> QED BY <1>1, <1>6 DEF st

\* Joining all the sequences of a sequence leaves out nothing and adds nothing.
LEMMA FlattenIs ==
  ASSUME NEW Y, NEW ss \in Seq(Seq(Y))
  PROVE  FlattenSeq(ss) \in Seq(Y) /\ Range(FlattenSeq(ss)) = UNION {Range(ss[i]) : i \in DOMAIN ss}
<1>1. CASE ss = << >>
  <2>1. FlattenSeq(ss) = << >> /\ DOMAIN << >> = {} /\ << >> \in Seq(Y)
    BY <1>1 DEF FlattenSeq
  <2>2. Range(<< >>) = {} /\ {Range(ss[i]) : i \in DOMAIN ss} = {}
    BY <1>1, <2>1 DEF Range
  <2> QED BY <2>1, <2>2
<1>2. CASE ss # << >>
  <2> DEFINE n == Len(ss)
  <2>1. n \in Nat \ {0} /\ DOMAIN ss = 1 .. n /\ \A i \in 1 .. n : ss[i] \in Seq(Y)
    BY <1>2
  <2> DEFINE f == CHOOSE f : IsFlatten(f, ss)
  <2>2. FlattenSeq(ss) = f[n]
    BY <2>1 DEF FlattenSeq, IsFlatten
  <2>3. IsFlatten(f, ss)
    BY <1>2, FlattenExists
  <2> HIDE DEF f
  <2>4. \A i \in 1 .. n : f[i] = IF i = 1 THEN ss[i] ELSE f[i - 1] \o ss[i]
    BY <2>3 DEF IsFlatten
  <2> DEFINE N == {m \in Nat : m \in 1 .. n => /\ f[m] \in Seq(Y)
                                            /\ Range(f[m]) = UNION {Range(ss[i]) : i \in 1 .. m}}
  <2> HIDE DEF n
  <2>5. \A m \in Nat : m \in N
    <3>1. 0 \in N
      OBVIOUS
    <3>2. ASSUME NEW m \in Nat, m \in N PROVE m + 1 \in N
      <4> SUFFICES ASSUME m + 1 \in 1 .. n
                   PROVE  /\ f[m + 1] \in Seq(Y)
                          /\ Range(f[m + 1]) = UNION {Range(ss[i]) : i \in 1 .. m + 1}
        OBVIOUS
      <4>1. CASE m = 0
        <5>1. f[1] = ss[1] /\ 1 .. 1 = {1}
          BY <2>4, <4>1
        <5>2. UNION {Range(ss[i]) : i \in 1 .. 1} = Range(ss[1])
          BY <5>1
        <5> QED BY <2>1, <4>1, <5>1, <5>2
      <4>2. CASE m # 0
        <5>1. m \in 1 .. n /\ (m + 1) - 1 = m /\ m + 1 # 1
          BY <2>1, <4>2
        <5>2. f[m] \in Seq(Y) /\ Range(f[m]) = UNION {Range(ss[i]) : i \in 1 .. m}
          BY <3>2, <5>1
        <5>3. f[m + 1] = f[m] \o ss[m + 1]
          BY <2>4, <5>1
        <5>4. f[m + 1] \in Seq(Y) /\ Range(f[m + 1]) = Range(f[m]) \cup Range(ss[m + 1])
          BY <2>1, <5>2, <5>3, JoinedIs
        <5>5. 1 .. m + 1 = (1 .. m) \cup {m + 1}
          OBVIOUS
        <5>6. UNION {Range(ss[i]) : i \in 1 .. m + 1} = (UNION {Range(ss[i]) : i \in 1 .. m}) \cup Range(ss[m + 1])
          BY <5>5
        <5> QED BY <5>2, <5>4, <5>6
      <4> QED BY <4>1, <4>2
    <3> HIDE DEF N
    <3> QED BY <3>1, <3>2, AllNaturals
  <2>6. n \in 1 .. n
    BY <2>1
  <2> QED BY <2>1, <2>2, <2>5, <2>6
<1> QED BY <1>1, <1>2

\* A sequence, of whatever elements.
IsSeq(s) == s \in Seq(Range(s))

LEMMA SeqIs ==
  ASSUME NEW n \in Nat, NEW s, DOMAIN s = 1 .. n, s = [i \in DOMAIN s |-> s[i]]
  PROVE  IsSeq(s) /\ Len(s) = n
<1>1. \A i \in 1 .. n : s[i] \in Range(s)
  BY DEF Range
<1>2. s = [i \in 1 .. n |-> s[i]]
  OBVIOUS
<1>3. [i \in 1 .. n |-> s[i]] \in Seq(Range(s))
  BY <1>1
<1> QED BY <1>2, <1>3 DEF IsSeq

LEMMA AnySeq ==
  ASSUME NEW Y, NEW s \in Seq(Y)
  PROVE  IsSeq(s)
<1>1. Len(s) \in Nat /\ DOMAIN s = 1 .. Len(s) /\ s = [i \in DOMAIN s |-> s[i]]
  OBVIOUS
<1> QED BY <1>1, SeqIs

LEMMA SeqIn ==
  ASSUME NEW s, IsSeq(s), NEW Y, Range(s) \subseteq Y
  PROVE  s \in Seq(Y)
<1>1. Len(s) \in Nat /\ DOMAIN s = 1 .. Len(s) /\ s = [i \in 1 .. Len(s) |-> s[i]]
  BY DEF IsSeq
<1>2. \A i \in 1 .. Len(s) : s[i] \in Y
  BY <1>1 DEF Range
<1>3. [i \in 1 .. Len(s) |-> s[i]] \in Seq(Y)
  BY <1>1, <1>2
<1> QED BY <1>1, <1>3

LEMMA JoinTwo ==
  ASSUME NEW s, IsSeq(s), NEW t, IsSeq(t)
  PROVE  IsSeq(s \o t) /\ Range(s \o t) = Range(s) \cup Range(t)
<1> DEFINE Y == Range(s) \cup Range(t)
<1>1. s \in Seq(Y) /\ t \in Seq(Y)
  BY SeqIn
<1> HIDE DEF Y
<1>2. s \o t \in Seq(Y) /\ Range(s \o t) = Range(s) \cup Range(t)
  BY <1>1, JoinedIs
<1> QED BY <1>2, AnySeq

LEMMA JoinAll ==
  ASSUME NEW ss, IsSeq(ss), \A i \in DOMAIN ss : IsSeq(ss[i])
  PROVE  IsSeq(FlattenSeq(ss)) /\ Range(FlattenSeq(ss)) = UNION {Range(ss[i]) : i \in DOMAIN ss}
<1> DEFINE Y == UNION {Range(ss[i]) : i \in DOMAIN ss}
<1>1. \A i \in DOMAIN ss : ss[i] \in Seq(Y)
  <2> SUFFICES ASSUME NEW i \in DOMAIN ss PROVE ss[i] \in Seq(Y)
    OBVIOUS
  <2>1. Range(ss[i]) \subseteq Y
    OBVIOUS
  <2> HIDE DEF Y
  <2> QED BY <2>1, SeqIn
<1>2. Range(ss) \subseteq Seq(Y)
  <2> HIDE DEF Y
  <2> QED BY <1>1 DEF Range
<1>3. ss \in Seq(Seq(Y))
  <2> HIDE DEF Y
  <2> QED BY <1>2, SeqIn
<1>4. FlattenSeq(ss) \in Seq(Y) /\ Range(FlattenSeq(ss)) = Y
  BY <1>3, FlattenIs
<1> HIDE DEF Y
<1>5. IsSeq(FlattenSeq(ss))
  BY <1>4, AnySeq
<1> QED BY <1>4, <1>5 DEF Y

\* What is left of a sequence when only some of its elements are kept.
LEMMA OnlyIs ==
  ASSUME NEW s, Len(s) \in Nat, DOMAIN s = 1 .. Len(s), NEW S
  PROVE  IsSeq(Only(s, S)) /\ Range(Only(s, S)) = Range(s) \cap S
<1> DEFINE ss == [k \in DOMAIN s |-> IF s[k] \in S THEN <<s[k]>> ELSE << >>]
<1>1. DOMAIN ss = 1 .. Len(s) /\ ss = [k \in DOMAIN ss |-> ss[k]]
  OBVIOUS
<1>2. \A k \in DOMAIN s : IsSeq(ss[k]) /\ Range(ss[k]) = IF s[k] \in S THEN {s[k]} ELSE {}
  <2> SUFFICES ASSUME NEW k \in DOMAIN s
               PROVE  IsSeq(ss[k]) /\ Range(ss[k]) = IF s[k] \in S THEN {s[k]} ELSE {}
    OBVIOUS
  <2>1. CASE s[k] \in S
    <3>1. ss[k] = <<s[k]>> /\ <<s[k]>> \in Seq({s[k]}) /\ DOMAIN <<s[k]>> = {1}
      BY <2>1
    <3>2. Range(ss[k]) = {s[k]}
      BY <3>1 DEF Range
    <3> QED BY <2>1, <3>1, <3>2 DEF IsSeq
  <2>2. CASE s[k] \notin S
    <3>1. ss[k] = << >> /\ << >> \in Seq({}) /\ DOMAIN << >> = {}
      BY <2>2
    <3>2. Range(ss[k]) = {}
      BY <3>1 DEF Range
    <3> QED BY <2>2, <3>1, <3>2 DEF IsSeq
  <2> QED BY <2>1, <2>2
<1>3. IsSeq(ss)
  <2> HIDE DEF ss
  <2> QED BY <1>1, SeqIs
<1>4. IsSeq(FlattenSeq(ss)) /\ Range(FlattenSeq(ss)) = UNION {Range(ss[k]) : k \in DOMAIN ss}
  <2> HIDE DEF ss
  <2> QED BY <1>1, <1>2, <1>3, JoinAll
<1>5. \A x : x \in UNION {Range(ss[k]) : k \in DOMAIN ss} <=> x \in Range(s) /\ x \in S
  <2> HIDE DEF ss
  <2>1. ASSUME NEW x \in UNION {Range(ss[k]) : k \in DOMAIN ss} PROVE x \in Range(s) /\ x \in S
    <3>1. PICK k \in DOMAIN ss : x \in Range(ss[k])
      OBVIOUS
    <3>2. k \in DOMAIN s
      BY <1>1
    <3>3. s[k] \in S /\ x = s[k]
      BY <1>2, <3>1, <3>2
    <3> QED BY <3>2, <3>3 DEF Range
  <2>2. ASSUME NEW x \in S, x \in Range(s) PROVE x \in UNION {Range(ss[k]) : k \in DOMAIN ss}
    <3>1. PICK k \in DOMAIN s : x = s[k]
      BY <2>2 DEF Range
    <3>2. k \in DOMAIN ss /\ x \in Range(ss[k])
      BY <1>1, <1>2, <3>1
    <3> QED BY <3>2
  <2> QED BY <2>1, <2>2
<1>6. Only(s, S) = FlattenSeq(ss)
  BY DEF Only
<1> HIDE DEF ss
<1> QED BY <1>4, <1>5, <1>6

\* The moves by one leaf are a sequence of candidates.
LEMMA MovesAre ==
  ASSUME SearchAssumption, NEW c, NEW l \in DOMAIN Leaves
  PROVE  IsSeq(MovesOf(c, l))
<1> DEFINE values == Alternatives(Leaves[l], c[l])
<1>1. IsSeq(values)
  <2>1. CASE Leaves[l].kind = "integer"
    <3> DEFINE two == <<c[l] - 1, c[l] + 1>>
               S == Leaves[l].low .. Leaves[l].high
    <3>1. values = Only(two, S)
      BY <2>1 DEF Alternatives
    <3>2. Len(two) = 2 /\ DOMAIN two = 1 .. 2
      OBVIOUS
    <3> HIDE DEF two, S, values
    <3> QED BY <3>1, <3>2, OnlyIs
  <2>2. CASE Leaves[l].kind # "integer"
    <3> DEFINE low == Leaves[l].low
               high == Leaves[l].high
               n == high - low + 1
               all == [k \in 1 .. n |-> low + k - 1]
               S == (low .. high) \ {c[l]}
    <3>1. values = Only(all, S)
      BY <2>2 DEF Alternatives
    <3>2. n \in Nat
      BY DEF SearchAssumption
    <3>3. DOMAIN all = 1 .. n /\ all = [k \in DOMAIN all |-> all[k]]
      OBVIOUS
    <3> HIDE DEF n, all, S, values
    <3>4. Len(all) = n
      BY <3>2, <3>3, SeqIs
    <3> QED BY <3>1, <3>2, <3>3, <3>4, OnlyIs
  <2> QED BY <2>1, <2>2
<1> DEFINE moves == [k \in DOMAIN values |-> [c EXCEPT ![l] = values[k]]]
<1>2. MovesOf(c, l) = moves
  BY DEF MovesOf
<1>3. Len(values) \in Nat /\ DOMAIN values = 1 .. Len(values)
  <2> HIDE DEF values
  <2> QED BY <1>1 DEF IsSeq
<1>4. DOMAIN moves = 1 .. Len(values) /\ moves = [k \in DOMAIN moves |-> moves[k]]
  BY <1>3
<1> HIDE DEF moves
<1> QED BY <1>2, <1>3, <1>4, SeqIs

\* The neighbors of a candidate by a single leaf.
NeighborsOf(c) == UNION {Range(MovesOf(c, l)) : l \in DOMAIN Leaves}

LEMMA SinglesAre ==
  ASSUME SearchAssumption, NEW c, NEW schedule \in Seq(DOMAIN Leaves)
  PROVE  /\ IsSeq(Singles(c, schedule))
         /\ Range(Singles(c, schedule)) = UNION {Range(MovesOf(c, l)) : l \in Range(schedule)}
<1> DEFINE ss == [k \in DOMAIN schedule |-> MovesOf(c, schedule[k])]
<1>1. /\ Len(schedule) \in Nat /\ DOMAIN ss = 1 .. Len(schedule) /\ ss = [k \in DOMAIN ss |-> ss[k]]
      /\ DOMAIN schedule = 1 .. Len(schedule)
  OBVIOUS
<1>2. \A k \in DOMAIN schedule : ss[k] = MovesOf(c, schedule[k]) /\ schedule[k] \in DOMAIN Leaves
  OBVIOUS
<1>3. Singles(c, schedule) = FlattenSeq(ss)
  BY DEF Singles
<1> HIDE DEF ss
<1>4. IsSeq(ss)
  BY <1>1, SeqIs
<1>5. \A k \in DOMAIN ss : IsSeq(ss[k])
  BY <1>1, <1>2, MovesAre
<1>6. UNION {Range(ss[k]) : k \in DOMAIN ss} = UNION {Range(MovesOf(c, l)) : l \in Range(schedule)}
  <2>1. Range(schedule) = {schedule[k] : k \in DOMAIN ss}
    BY <1>1 DEF Range
  <2>2. \A k \in DOMAIN ss : ss[k] = MovesOf(c, schedule[k])
    BY <1>1, <1>2
  <2>3. {Range(ss[k]) : k \in DOMAIN ss} = {Range(MovesOf(c, l)) : l \in Range(schedule)}
    BY <2>1, <2>2
  <2> QED BY <2>3
<1> QED BY <1>3, <1>4, <1>5, <1>6, JoinAll

\* The moves by pairs of leaves.
LEMMA PairsAre ==
  ASSUME SearchAssumption, NEW c, NEW schedule \in Seq(DOMAIN Leaves)
  PROVE  IsSeq(PairMoves(c, schedule))
<1> DEFINE n == Len(schedule)
           pair(i, d, k) == MovesOf(MovesOf(c, schedule[i])[k], schedule[i + d])
           two(i, d) == [k \in DOMAIN MovesOf(c, schedule[i]) |-> pair(i, d, k)]
           from(i) == [d \in 1 .. n - i |-> FlattenSeq(two(i, d))]
           all == [i \in DOMAIN schedule |-> FlattenSeq(from(i))]
<1>1. n \in Nat /\ DOMAIN schedule = 1 .. n /\ \A i \in 1 .. n : schedule[i] \in DOMAIN Leaves
  OBVIOUS
<1>2. PairMoves(c, schedule) = FlattenSeq(all)
  BY DEF PairMoves
<1>3. ASSUME NEW i \in 1 .. n, NEW d \in 1 .. n - i PROVE IsSeq(FlattenSeq(two(i, d)))
  <2> DEFINE moved == MovesOf(c, schedule[i])
             ss == two(i, d)
  <2>1. i + d \in 1 .. n
    BY <1>1
  <2>2. IsSeq(moved) /\ \A k \in DOMAIN moved : IsSeq(pair(i, d, k))
    BY <1>1, <2>1, MovesAre
  <2>3. Len(moved) \in Nat /\ DOMAIN moved = 1 .. Len(moved)
    <3> HIDE DEF moved
    <3> QED BY <2>2 DEF IsSeq
  <2>4. DOMAIN ss = 1 .. Len(moved) /\ ss = [k \in DOMAIN ss |-> ss[k]] /\ \A k \in DOMAIN ss : ss[k] = pair(i, d, k)
    BY <2>3
  <2> HIDE DEF ss, moved, pair
  <2>5. IsSeq(ss)
    BY <2>3, <2>4, SeqIs
  <2>6. IsSeq(FlattenSeq(ss))
    BY <2>2, <2>3, <2>4, <2>5, JoinAll
  <2> QED BY <2>6 DEF ss, pair
<1>4. ASSUME NEW i \in 1 .. n PROVE IsSeq(FlattenSeq(from(i)))
  <2> DEFINE ss == from(i)
  <2>1. n - i \in Nat /\ DOMAIN ss = 1 .. n - i /\ ss = [d \in DOMAIN ss |-> ss[d]]
    BY <1>1
  <2>2. \A d \in DOMAIN ss : IsSeq(ss[d])
    BY <1>3, <2>1
  <2> HIDE DEF ss
  <2>3. IsSeq(ss)
    BY <2>1, SeqIs
  <2>4. IsSeq(FlattenSeq(ss))
    BY <2>2, <2>3, JoinAll
  <2> QED BY <2>4 DEF ss
<1>5. DOMAIN all = 1 .. n /\ all = [i \in DOMAIN all |-> all[i]] /\ \A i \in DOMAIN all : IsSeq(all[i])
  BY <1>1, <1>4
<1> HIDE DEF all
<1>6. IsSeq(all)
  <2> HIDE DEF n
  <2> QED BY <1>1, <1>5, SeqIs
<1> QED BY <1>2, <1>5, <1>6, JoinAll

\* Every leaf is in the schedule, whichever come first.
LEMMA ScheduleIs ==
  ASSUME SearchAssumption, NEW first \in Seq(DOMAIN Leaves)
  PROVE  Schedule(first) \in Seq(DOMAIN Leaves) /\ Range(Schedule(first)) = DOMAIN Leaves
<1> DEFINE n == Len(Leaves)
           rest == Only(LeafOrder, DOMAIN Leaves \ Range(first))
<1>1. n \in Nat /\ DOMAIN LeafOrder = 1 .. n /\ LeafOrder = [l \in DOMAIN LeafOrder |-> LeafOrder[l]]
      /\ Range(LeafOrder) = DOMAIN Leaves
  BY DEF SearchAssumption, LeafOrder, Range
<1>2. Len(LeafOrder) = n
  <2> HIDE DEF n
  <2> QED BY <1>1, SeqIs
<1>3. IsSeq(rest) /\ Range(rest) = Range(LeafOrder) \cap (DOMAIN Leaves \ Range(first))
  BY <1>1, <1>2, OnlyIs
<1>4. IsSeq(first) /\ Range(first) \subseteq DOMAIN Leaves
  <2>1. IsSeq(first)
    BY AnySeq
  <2>2. \A i \in DOMAIN first : first[i] \in DOMAIN Leaves
    OBVIOUS
  <2> QED BY <2>1, <2>2 DEF Range
<1> HIDE DEF rest
<1>5. IsSeq(first \o rest) /\ Range(first \o rest) = Range(first) \cup Range(rest)
  BY <1>3, <1>4, JoinTwo
<1>6. Range(first \o rest) = DOMAIN Leaves
  BY <1>1, <1>3, <1>4, <1>5
<1>7. first \o rest \in Seq(DOMAIN Leaves)
  BY <1>5, <1>6, SeqIn
<1> QED BY <1>6, <1>7 DEF Schedule, rest

LEMMA LeastOfTwo ==
  ASSUME NEW a \in Int, NEW b \in Int
  PROVE  Least({a, b}) = IF a <= b THEN a ELSE b
<1> DEFINE m == IF a <= b THEN a ELSE b
<1>1. m \in {a, b} /\ \A y \in {a, b} : m <= y
  OBVIOUS
<1>2. \A x \in {a, b} : (\A y \in {a, b} : x <= y) => x = m
  OBVIOUS
<1> HIDE DEF m
<1>3. Least({a, b}) = m
  BY <1>1, <1>2 DEF Least
<1> QED BY <1>3 DEF m

IsStage(stage) ==
  stage.kind \in {"leafwise", "pairs", "sampled"} /\ (stage.kind = "pairs" => stage.most \in Nat)

Covers(scan, c) == scan.full => IsSeq(scan.moves) /\ NeighborsOf(c) \subseteq Range(scan.moves)

\* A scan that covers the whole neighborhood has every neighbor by one leaf.
LEMMA ScansAre ==
  ASSUME SearchAssumption, NEW c, NEW first \in Seq(DOMAIN Leaves), NEW stage, IsStage(stage),
         NEW scan \in Scans(c, Schedule(first), stage)
  PROVE  Covers(scan, c)
<1> USE DEF Covers, IsStage
<1> DEFINE schedule == Schedule(first)
<1>1. schedule \in Seq(DOMAIN Leaves) /\ Range(schedule) = DOMAIN Leaves
  BY ScheduleIs
<1> HIDE DEF schedule
<1>2. IsSeq(Singles(c, schedule)) /\ Range(Singles(c, schedule)) = NeighborsOf(c)
  BY <1>1, SinglesAre DEF NeighborsOf
<1>3. CASE stage.kind = "leafwise"
  <2>1. scan = [moves |-> Singles(c, schedule), full |-> TRUE]
    BY <1>3 DEF Scans, ScanLeafwise, schedule
  <2> QED BY <1>2, <2>1
<1>4. CASE stage.kind = "pairs"
  <2> DEFINE pairs == PairMoves(c, Prefix(schedule, stage.most))
  <2>1. scan = [moves |-> Singles(c, schedule) \o pairs, full |-> TRUE]
    BY <1>4 DEF Scans, ScanScheduled, schedule
  <2>2. Prefix(schedule, stage.most) \in Seq(DOMAIN Leaves)
    <3>1. Len(schedule) \in Nat /\ stage.most \in Nat
      BY <1>1, <1>4
    <3>2. Least({stage.most, Len(schedule)}) \in Nat /\ Least({stage.most, Len(schedule)}) <= Len(schedule)
      BY <3>1, LeastOfTwo
    <3> DEFINE cut == Least({stage.most, Len(schedule)})
    <3>3. \A i \in 1 .. cut : schedule[i] \in DOMAIN Leaves
      <4> HIDE DEF cut
      <4> QED BY <1>1, <3>1, <3>2 DEF cut
    <3>4. cut \in Int
      BY <3>2
    <3> HIDE DEF cut
    <3>5. SubSeq(schedule, 1, cut) \in Seq(DOMAIN Leaves)
      BY <3>3, <3>4, SubSeqProperties
    <3> QED BY <3>5 DEF Prefix, cut
  <2>3. IsSeq(pairs)
    BY <2>2, PairsAre
  <2> HIDE DEF pairs
  <2>4. IsSeq(Singles(c, schedule) \o pairs)
        /\ Range(Singles(c, schedule) \o pairs) = Range(Singles(c, schedule)) \cup Range(pairs)
    BY <1>2, <2>3, JoinTwo
  <2> QED BY <1>2, <2>1, <2>4
<1>5. CASE stage.kind = "sampled"
  <2>1. \E m : scan = [moves |-> m, full |-> m = Singles(c, schedule)]
    <3>1. scan \in SampledScans(c, schedule, stage)
      BY <1>5 DEF Scans, schedule
    <3> QED BY <3>1 DEF SampledScans
  <2>2. PICK m : scan = [moves |-> m, full |-> m = Singles(c, schedule)]
    BY <2>1
  <2>3. ASSUME scan.full PROVE m = Singles(c, schedule) /\ scan.moves = m
    BY <2>2, <2>3
  <2> QED BY <1>2, <2>3
<1> QED BY <1>3, <1>4, <1>5


\* The invariant.
EpisodeFields ==
  {"pc", "at", "value", "stage", "steps", "todo", "full", "failed", "missed", "kicks", "best",
   "count", "calls", "least", "converged", "exhausted"}

\* A candidate was evaluated, with that value.
Known(c, v) == c \in DOMAIN known /\ known[c] = v /\ v \in Levels

\* No neighbor by a single leaf is better.
NoneBetter(c, v) == \A d \in NeighborsOf(c) : d \in DOMAIN known /\ known[d] >= v

JobOK ==
  /\ job.kernel \in Kernels /\ job.batch \in Batches
  /\ \A x \in DOMAIN known : known[x] \in Levels
  /\ ep.pc \notin {"returned", "raised"} =>
       DOMAIN ep = EpisodeFields /\ Len(reported) \in Nat /\ Len(reported) < Len(job.batch)

FirstOK ==
  ep.pc = "first" =>
    /\ ep.count = 0 /\ ep.calls = 0 /\ ep.least = Nil /\ ep.kicks = 0 /\ ep.converged = FALSE
    /\ ep.stage = 1

CountOK == ep.count = ep.calls /\ ep.count \in Int /\ ep.converged = FALSE /\ ep.kicks \in Nat

\* What a descent stands at is the best of the episode, or no worse than
\* anything but the incumbent of the kicks.
DescentOK ==
  ep.pc \in {"stage", "scan"} =>
    /\ CountOK
    /\ ep.stage \in 1 .. Len(Stages(job.kernel))
    /\ Known(ep.at, ep.value)
    /\ job.kernel.kind # "iterated" => ep.kicks = 0
    /\ ep.kicks = 0 => ep.least = ep.value
    /\ ep.kicks # 0 => Known(ep.best.at, ep.best.value) /\ ep.least = Least({ep.best.value, ep.value})

\* In a scan of the whole neighborhood a neighbor is still to do, or was no
\* better, or some neighbor failed.
ScanOK ==
  ep.pc = "scan" /\ ep.full =>
    /\ IsSeq(ep.todo) /\ ep.missed \in Nat
    /\ ep.missed = 0 => \A d \in NeighborsOf(ep.at) :
         d \in Range(ep.todo) \/ (d \in DOMAIN known /\ known[d] >= ep.value)

KickOK ==
  ep.pc = "kick" =>
    /\ CountOK /\ job.kernel.kind = "iterated"
    /\ Known(ep.best.at, ep.best.value) /\ ep.least = ep.best.value

ReportOK(r) ==
  /\ r.count = r.calls
  /\ r.ok => Known(r.at, r.value) /\ r.value = r.least
  /\ r.converged /\ r.missed = 0 => NoneBetter(r.at, r.value)

ReportsOK == \E S : reported \in Seq(S) /\ \A k \in 1 .. Len(reported) : ReportOK(reported[k])

SearchOK == JobOK /\ FirstOK /\ DescentOK /\ ScanOK /\ KickOK /\ ReportsOK

\* What is known stays known.
KnownGrows ==
  /\ \A x \in DOMAIN known : x \in DOMAIN known' /\ known'[x] = known[x]
  /\ \A x \in DOMAIN known' : known'[x] \in Levels

LEMMA StagesAre ==
  ASSUME SearchAssumption, NEW kernel \in Kernels
  PROVE  /\ Len(Stages(kernel)) \in Nat \ {0}
         /\ \A i \in 1 .. Len(Stages(kernel)) : IsStage(Stages(kernel)[i])
<1> USE DEF IsStage
<1>1. kernel.kind \in {"hill", "scheduled", "stochastic", "vns", "iterated"} /\ kernel.most \in Nat
  BY DEF SearchAssumption
<1>2. CASE kernel.kind \in {"hill", "iterated"}
  <2>1. Stages(kernel) = <<[kind |-> "leafwise"]>>
    BY <1>2 DEF Stages, HillStages
  <2> QED BY <2>1
<1>3. CASE kernel.kind = "scheduled"
  <2>1. Stages(kernel) = <<[kind |-> "pairs", most |-> kernel.most]>>
    BY <1>3 DEF Stages, ScheduledStages
  <2> QED BY <1>1, <2>1
<1>4. CASE kernel.kind = "stochastic"
  <2>1. Stages(kernel) = <<[kind |-> "sampled", most |-> kernel.most, perLeaf |-> kernel.perLeaf]>>
    BY <1>4 DEF Stages, StochasticStages
  <2> QED BY <2>1
<1>5. CASE kernel.kind = "vns"
  <2>1. Stages(kernel) = kernel.stages
    BY <1>5 DEF Stages
  <2> QED BY <1>5, <2>1 DEF SearchAssumption
<1> QED BY <1>1, <1>2, <1>3, <1>4, <1>5

LEMMA EvaluateIs ==
  ASSUME \A x \in DOMAIN known : known[x] \in Levels, NEW c, NEW v, Evaluate(c, v)
  PROVE  /\ KnownGrows /\ v \in Levels \cup {FailedValue}
         /\ v # FailedValue => Known(c, v)'
<1>1. v \in Levels \cup {FailedValue} /\ (c \in DOMAIN known => v = known[c] \/ v = FailedValue)
  BY DEF Evaluate, ValuesAt
<1>2. CASE v = FailedValue \/ c \in DOMAIN known
  <2>1. known' = known
    BY <1>2 DEF Evaluate
  <2> QED BY <1>1, <1>2, <2>1 DEF KnownGrows, Known
<1>3. CASE ~(v = FailedValue \/ c \in DOMAIN known)
  <2>1. known' = [x \in DOMAIN known \cup {c} |-> IF x = c THEN v ELSE known[x]]
    BY <1>3 DEF Evaluate
  <2> QED BY <1>1, <1>3, <2>1 DEF KnownGrows, Known
<1> QED BY <1>2, <1>3

LEMMA KnownStays ==
  ASSUME KnownGrows, NEW c, NEW v
  PROVE  (Known(c, v) => Known(c, v)') /\ (NoneBetter(c, v) => NoneBetter(c, v)')
BY DEF KnownGrows, Known, NoneBetter, NeighborsOf

LEMMA ReportsStay ==
  ASSUME KnownGrows, ReportsOK, UNCHANGED reported
  PROVE  ReportsOK'
<1>1. PICK S : reported \in Seq(S) /\ \A k \in 1 .. Len(reported) : ReportOK(reported[k])
  BY DEF ReportsOK
<1>2. \A k \in 1 .. Len(reported) : ReportOK(reported[k])'
  BY <1>1, KnownStays DEF ReportOK
<1> QED BY <1>1, <1>2 DEF ReportsOK

\* A slot is reported, and the next episode begins if there is one.
LEMMA ReportGood ==
  ASSUME SearchAssumption, JobOK, ReportsOK, KnownGrows, ep.pc \notin {"returned", "raised"}, UNCHANGED job,
         NEW e, NEW ok \in BOOLEAN, Report(e, ok), DOMAIN e = EpisodeFields, e.count = e.calls,
         NEW c, NEW v, e.at = c, e.value = v, ok => Known(c, v)' /\ v = e.least,
         e.converged /\ e.missed = 0 => NoneBetter(c, v)'
  PROVE  SearchOK'
<1> DEFINE r == [ok |-> ok, at |-> e.at, value |-> e.value, count |-> e.count, calls |-> e.calls,
                 least |-> e.least, converged |-> e.converged, exhausted |-> e.exhausted, missed |-> e.missed]
<1>1. reported' = Append(reported, r)
  BY DEF Report
<1>2. ReportOK(r)'
  BY DEF ReportOK
<1>3. PICK S : reported \in Seq(S) /\ \A k \in 1 .. Len(reported) : ReportOK(reported[k])
  BY DEF ReportsOK
<1> HIDE DEF r
<1>5. /\ reported' \in Seq(S \cup {r}) /\ Len(reported') = Len(reported) + 1 /\ Len(reported) \in Nat
      /\ \A k \in 1 .. Len(reported) : reported'[k] = reported[k]
      /\ reported'[Len(reported) + 1] = r
  <2>1. reported \in Seq(S \cup {r})
    BY <1>3
  <2> QED BY <1>1, <2>1
<1>6. ReportsOK'
  <2>1. \A k \in 1 .. Len(reported') : ReportOK(reported[k])'
    <3> SUFFICES ASSUME NEW k \in 1 .. Len(reported') PROVE ReportOK(reported[k])'
      OBVIOUS
    <3>1. CASE k = Len(reported) + 1
      BY <1>2, <1>5, <3>1 DEF ReportOK
    <3>2. CASE k # Len(reported) + 1
      <4>1. k \in 1 .. Len(reported) /\ reported'[k] = reported[k]
        BY <1>5, <3>2
      <4>2. PICK old : old = reported[k]
        OBVIOUS
      <4>3. ReportOK(old)
        BY <1>3, <4>1, <4>2
      <4>4. ReportOK(old)'
        BY <4>3, KnownStays DEF ReportOK
      <4> QED BY <4>1, <4>2, <4>4 DEF ReportOK
    <3> QED BY <3>1, <3>2
  <2> QED BY <1>5, <2>1 DEF ReportsOK
<1>7. CASE Len(reported) + 1 < Len(job.batch)
  <2>1. ep' = NewEpisode(job.batch[Len(reported) + 2])
    BY <1>7 DEF Report
  <2>2. DOMAIN ep' = EpisodeFields /\ ep'.pc = "first" /\ ep'.count = 0 /\ ep'.calls = 0
        /\ ep'.least = Nil /\ ep'.kicks = 0 /\ ep'.converged = FALSE /\ ep'.stage = 1
    BY <2>1 DEF NewEpisode, EpisodeFields
  <2> QED BY <1>5, <1>6, <1>7, <2>2 DEF SearchOK, JobOK, FirstOK, DescentOK, ScanOK, KickOK, KnownGrows
<1>8. CASE ~(Len(reported) + 1 < Len(job.batch))
  <2>1. ep' = [e EXCEPT !.pc = "returned"]
    BY <1>8 DEF Report
  <2>2. ep'.pc = "returned"
    BY <2>1 DEF EpisodeFields
  <2> QED BY <1>6, <2>2 DEF SearchOK, JobOK, FirstOK, DescentOK, ScanOK, KickOK, KnownGrows
<1> QED BY <1>7, <1>8

\* One evaluation, as the model notes it.
LEMMA NotedIs ==
  ASSUME NEW e, DOMAIN e = EpisodeFields, NEW v
  PROVE  /\ DOMAIN WithCall(e, v) = EpisodeFields
         /\ WithCall(e, v).pc = e.pc /\ WithCall(e, v).at = e.at /\ WithCall(e, v).value = e.value
         /\ WithCall(e, v).stage = e.stage /\ WithCall(e, v).steps = e.steps /\ WithCall(e, v).todo = e.todo
         /\ WithCall(e, v).full = e.full /\ WithCall(e, v).missed = e.missed /\ WithCall(e, v).kicks = e.kicks
         /\ WithCall(e, v).best = e.best /\ WithCall(e, v).count = e.count /\ WithCall(e, v).converged = e.converged
         /\ WithCall(e, v).exhausted = e.exhausted
         /\ WithCall(e, v).calls = e.calls + 1
         /\ WithCall(e, v).least = IF v = FailedValue THEN e.least
                                ELSE IF e.least = Nil THEN v ELSE Least({e.least, v})
  BY DEF WithCall, EpisodeFields

LEMMA CountedIs ==
  ASSUME NEW e, DOMAIN e = EpisodeFields, NEW v
  PROVE  /\ DOMAIN Counted(e, v) = EpisodeFields
         /\ Counted(e, v).pc = e.pc /\ Counted(e, v).at = e.at /\ Counted(e, v).value = e.value
         /\ Counted(e, v).stage = e.stage /\ Counted(e, v).steps = e.steps /\ Counted(e, v).todo = e.todo
         /\ Counted(e, v).full = e.full /\ Counted(e, v).missed = e.missed /\ Counted(e, v).kicks = e.kicks
         /\ Counted(e, v).best = e.best /\ Counted(e, v).converged = e.converged /\ Counted(e, v).exhausted = e.exhausted
         /\ Counted(e, v).calls = e.calls + 1 /\ Counted(e, v).count = e.count + 1
         /\ Counted(e, v).least = IF v = FailedValue THEN e.least
                                  ELSE IF e.least = Nil THEN v ELSE Least({e.least, v})
<1>1. Counted(e, v) = [WithCall(e, v) EXCEPT !.count = @ + 1]
  BY DEF Counted
<1> QED BY <1>1, NotedIs DEF EpisodeFields

FirstNoted(e, v) == [WithCall(e, v) EXCEPT !.count = 1, !.value = v]

LEMMA FirstEvaluated ==
  ASSUME SearchOK, ep.pc = "first", NEW v, NEW e, e = FirstNoted(ep, v)
  PROVE  /\ DOMAIN e = EpisodeFields /\ e.count = 1 /\ e.calls = 1 /\ e.value = v /\ e.converged = FALSE
         /\ e.kicks = 0 /\ e.stage = 1 /\ (v # FailedValue => e.least = v) /\ e.at = ep.at
<1>1. /\ DOMAIN ep = EpisodeFields /\ ep.calls = 0 /\ ep.least = Nil /\ ep.kicks = 0 /\ ep.converged = FALSE
      /\ ep.stage = 1
  BY DEF SearchOK, JobOK, FirstOK
<1> DEFINE n == WithCall(ep, v)
<1>2. /\ DOMAIN n = EpisodeFields /\ n.converged = ep.converged /\ n.kicks = ep.kicks /\ n.stage = ep.stage
      /\ n.at = ep.at
  BY Zenon, <1>1, NotedIs
<1>3. n.calls = ep.calls + 1
  BY <1>1, NotedIs
<1>4. v # FailedValue => n.least = v
  BY <1>1, NotedIs
<1>5. e = [n EXCEPT !.count = 1, !.value = v]
  BY DEF FirstNoted
<1> HIDE DEF n
<1> QED BY <1>1, <1>2, <1>3, <1>4, <1>5 DEF EpisodeFields

LEMMA FirstGood ==
  ASSUME SearchAssumption, SearchOK, EvaluateOriginal \/ EvaluateFirst
  PROVE  SearchOK'
<1>0. /\ ep.pc = "first" /\ JobOK /\ ReportsOK /\ UNCHANGED job /\ ep.pc \notin {"returned", "raised"}
      /\ \A x \in DOMAIN known : known[x] \in Levels
  BY DEF EvaluateOriginal, EvaluateFirst, SearchOK, JobOK
<1>c. PICK c : c = ep.at
  OBVIOUS
<1>1. ASSUME NEW v, Evaluate(c, v), NEW e, e = FirstNoted(ep, v),
             NEW ok \in BOOLEAN, ok => v # FailedValue, Report(e, ok)
      PROVE  SearchOK'
  <2>1. /\ DOMAIN e = EpisodeFields /\ e.count = 1 /\ e.calls = 1 /\ e.value = v /\ e.converged = FALSE
        /\ (v # FailedValue => e.least = v) /\ e.at = c
    <3>1. ep.pc = "first"
      BY <1>0
    <3>2. /\ DOMAIN e = EpisodeFields /\ e.count = 1 /\ e.calls = 1 /\ e.value = v /\ e.converged = FALSE
          /\ (v # FailedValue => e.least = v) /\ e.at = ep.at
      BY Zenon, <1>1, <3>1, FirstEvaluated
    <3> QED BY <1>c, <3>2
  <2>2. KnownGrows /\ (ok => Known(c, v)' /\ v = e.least)
    BY <1>0, <1>1, <2>1, EvaluateIs
  <2> QED BY <1>0, <1>1, <2>1, <2>2, ReportGood
<1>2. CASE EvaluateOriginal
  <2>1. PICK v \in ValuesAt(ep.at) :
          Evaluate(ep.at, v) /\ Report([WithCall(ep, v) EXCEPT !.value = v, !.count = 1], v # FailedValue)
    BY <1>2 DEF EvaluateOriginal
  <2>2. PICK e : e = FirstNoted(ep, v)
    OBVIOUS
  <2>3. [WithCall(ep, v) EXCEPT !.value = v, !.count = 1] = e
    <3>1. DOMAIN WithCall(ep, v) = EpisodeFields
      BY <1>0, NotedIs DEF JobOK
    <3> QED BY <2>2, <3>1 DEF FirstNoted, EpisodeFields
  <2>4. PICK ok \in BOOLEAN : ok = (v # FailedValue)
    OBVIOUS
  <2>5. Evaluate(c, v) /\ Report(e, ok) /\ (ok => v # FailedValue)
    BY <1>c, <2>1, <2>3, <2>4
  <2> QED BY <1>1, <2>2, <2>5
<1>3. CASE EvaluateFirst
  <2>1. PICK v \in ValuesAt(ep.at) :
          /\ Evaluate(ep.at, v)
          /\ LET e == [WithCall(ep, v) EXCEPT !.count = 1, !.value = v]
             IN  IF v = FailedValue THEN Report(e, FALSE)
                 ELSE ep' = [e EXCEPT !.pc = "stage"] /\ UNCHANGED reported
    BY Zenon, <1>3 DEF EvaluateFirst
  <2>2. PICK e : e = FirstNoted(ep, v)
    OBVIOUS
  <2>3. Evaluate(c, v)
    BY <1>c, <2>1
  <2>4. CASE v = FailedValue
    <3>1. Report(e, FALSE)
      BY <2>1, <2>2, <2>4 DEF FirstNoted
    <3> QED BY <1>1, <2>2, <2>3, <3>1
  <2>5. CASE v # FailedValue
    <3>1. ep' = [e EXCEPT !.pc = "stage"] /\ UNCHANGED reported
      BY <2>1, <2>2, <2>5 DEF FirstNoted
    <3>2. /\ DOMAIN e = EpisodeFields /\ e.count = 1 /\ e.calls = 1 /\ e.value = v /\ e.converged = FALSE
          /\ e.kicks = 0 /\ e.stage = 1 /\ e.least = v /\ e.at = c
      <4>1. ep.pc = "first"
        BY <1>0
      <4>2. /\ DOMAIN e = EpisodeFields /\ e.count = 1 /\ e.calls = 1 /\ e.value = v /\ e.converged = FALSE
            /\ e.kicks = 0 /\ e.stage = 1 /\ (v # FailedValue => e.least = v) /\ e.at = ep.at
        BY Zenon, <2>2, <4>1, FirstEvaluated
      <4> QED BY <1>c, <2>5, <4>2
    <3>3. KnownGrows /\ Known(c, v)'
      BY <1>0, <2>3, <2>5, EvaluateIs
    <3>4. /\ DOMAIN ep' = EpisodeFields /\ ep'.pc = "stage" /\ ep'.count = 1 /\ ep'.calls = 1 /\ ep'.at = c
          /\ ep'.value = v /\ ep'.converged = FALSE /\ ep'.kicks = 0 /\ ep'.least = v /\ ep'.stage = 1
      BY <3>1, <3>2 DEF EpisodeFields
    <3>5. 1 \in 1 .. Len(Stages(job.kernel))
      BY <1>0, StagesAre DEF JobOK
    <3>6. JobOK' /\ ReportsOK'
      BY <1>0, <3>1, <3>3, <3>4, ReportsStay DEF JobOK, KnownGrows
    <3>7. Known(ep.at, ep.value)'
      BY <3>3, <3>4 DEF Known
    <3> QED BY <1>0, <3>4, <3>5, <3>6, <3>7 DEF SearchOK, FirstOK, DescentOK, CountOK, ScanOK, KickOK
  <2> QED BY <2>4, <2>5
<1> QED BY <1>2, <1>3

LEMMA NothingKnown ==
  ASSUME JobOK, UNCHANGED known
  PROVE  KnownGrows
BY DEF JobOK, KnownGrows

LEMMA RaisesGood ==
  ASSUME SearchOK, RunRaises
  PROVE  SearchOK'
<1>1. ep.pc = "first" /\ ep' = [ep EXCEPT !.pc = "raised"] /\ UNCHANGED <<job, remaining, known, reported>>
  BY DEF RunRaises
<1>2. ep'.pc = "raised"
  BY <1>1 DEF SearchOK, JobOK, EpisodeFields
<1>3. KnownGrows
  BY <1>1, NothingKnown DEF SearchOK
<1>4. ReportsOK'
  BY <1>1, <1>3, ReportsStay DEF SearchOK
<1> QED BY <1>1, <1>2, <1>4 DEF SearchOK, JobOK, FirstOK, DescentOK, ScanOK, KickOK

\* What the fields of a running descent are.
LEMMA DescentIs ==
  ASSUME SearchAssumption, SearchOK, ep.pc \in {"stage", "scan"}
  PROVE  /\ DOMAIN ep = EpisodeFields /\ ep.value \in Int /\ ep.least \in Int /\ ep.least <= ep.value
         /\ ep.least # Nil /\ ep.value # Nil
         /\ ep.kicks # 0 => ep.best.value \in Int
<1>1. DOMAIN ep = EpisodeFields /\ Known(ep.at, ep.value) /\ Levels \subseteq Int \ {Nil, FailedValue}
  BY DEF SearchOK, JobOK, DescentOK, SearchAssumption
<1>2. ep.value \in Levels /\ ep.value \in Int /\ ep.value # Nil
  BY <1>1 DEF Known
<1>3. CASE ep.kicks = 0
  BY <1>1, <1>2, <1>3 DEF SearchOK, DescentOK
<1>4. CASE ep.kicks # 0
  <2>1. Known(ep.best.at, ep.best.value) /\ ep.least = Least({ep.best.value, ep.value})
    BY <1>4 DEF SearchOK, DescentOK
  <2>2. ep.best.value \in Int /\ ep.best.value # Nil
    BY <1>1, <2>1 DEF Known
  <2>3. ep.least = IF ep.best.value <= ep.value THEN ep.best.value ELSE ep.value
    BY <1>2, <2>1, <2>2, LeastOfTwo
  <2> QED BY <1>1, <1>2, <2>2, <2>3
<1> QED BY <1>3, <1>4

\* A scan of a stage begins.
LEMMA BeginStageGood ==
  ASSUME SearchAssumption, SearchOK, EnterStage
  PROVE  SearchOK'
<1>1. /\ ep.pc = "stage" /\ UNCHANGED <<job, remaining, known, reported>>
      /\ JobOK /\ DescentOK /\ ReportsOK /\ DOMAIN ep = EpisodeFields
  BY DEF EnterStage, SearchOK, JobOK
<1>2. PICK scan \in Scans(ep.at, Schedule(Proposal.first), Stages(job.kernel)[ep.stage]) :
        ep' = [ep EXCEPT !.pc = "scan", !.todo = scan.moves, !.full = scan.full, !.missed = 0]
  BY DEF EnterStage
<1>3. Proposal.first \in Seq(DOMAIN Leaves)
  <2> DEFINE i == Len(reported) + 1
  <2>1. job.batch \in Batches /\ Len(reported) \in Nat /\ Len(reported) < Len(job.batch)
    BY <1>1 DEF JobOK
  <2>2. Len(job.batch) \in Nat \ {0} /\ \A k \in 1 .. Len(job.batch) : job.batch[k].first \in Seq(DOMAIN Leaves)
    BY <2>1 DEF SearchAssumption
  <2>3. i \in 1 .. Len(job.batch)
    BY <2>1, <2>2
  <2> QED BY <2>2, <2>3 DEF Proposal
<1>4. PICK stage : stage = Stages(job.kernel)[ep.stage]
  OBVIOUS
<1>5. IsStage(stage)
  BY <1>1, <1>4, StagesAre DEF JobOK, DescentOK
<1>6. scan.full => IsSeq(scan.moves) /\ NeighborsOf(ep.at) \subseteq Range(scan.moves)
  <2>1. PICK at : at = ep.at
    OBVIOUS
  <2>2. PICK first \in Seq(DOMAIN Leaves) : first = Proposal.first
    BY <1>3
  <2>3. scan \in Scans(at, Schedule(first), stage)
    BY <1>2, <1>4, <2>1, <2>2
  <2>4. Covers(scan, at)
    BY <1>5, <2>3, ScansAre
  <2> QED BY <2>1, <2>4 DEF Covers
<1>7. /\ DOMAIN ep' = EpisodeFields /\ ep'.pc = "scan" /\ ep'.todo = scan.moves /\ ep'.full = scan.full
      /\ ep'.missed = 0 /\ ep'.at = ep.at /\ ep'.value = ep.value /\ ep'.count = ep.count /\ ep'.calls = ep.calls
      /\ ep'.converged = ep.converged /\ ep'.kicks = ep.kicks /\ ep'.stage = ep.stage /\ ep'.least = ep.least
      /\ ep'.best = ep.best
  BY <1>1, <1>2 DEF EpisodeFields
<1>8. ReportsOK'
  BY <1>1, NothingKnown, ReportsStay
<1>9. DescentOK'
  BY <1>1, <1>7 DEF DescentOK, CountOK, Known
<1>10. ScanOK'
  <2>1. PICK at : at = ep.at
    OBVIOUS
  <2>2. ep'.at = at /\ (scan.full => NeighborsOf(at) \subseteq Range(scan.moves))
    BY <1>6, <1>7, <2>1
  <2> QED BY <1>6, <1>7, <2>2 DEF ScanOK
<1>11. JobOK'
  BY <1>1, <1>7 DEF JobOK
<1> QED BY <1>7, <1>8, <1>9, <1>10, <1>11 DEF SearchOK, FirstOK, KickOK

\* Of two values the lesser is kept.
LEMMA BetterOfTwo ==
  ASSUME NEW a \in Int, NEW b \in Int
  PROVE  Least({a, b}) = Least({b, a}) /\ (b < a => Least({a, b}) = b) /\ (~(b < a) => Least({a, b}) = a)
BY LeastOfTwo

\* A descent ends where nothing was better, or was cut short.
LEMMA EndDescentGood ==
  ASSUME SearchAssumption, SearchOK, ep.pc \in {"stage", "scan"}, UNCHANGED <<job, known>>,
         NEW e, EndDescent(e), DOMAIN e = EpisodeFields,
         e.at = ep.at, e.value = ep.value, e.count = ep.count, e.calls = ep.calls, e.kicks = ep.kicks,
         e.best = ep.best, e.least = ep.least, e.missed = ep.missed, e.converged \in BOOLEAN,
         e.converged => job.kernel.kind # "iterated",
         e.converged /\ ep.missed = 0 => NoneBetter(ep.at, ep.value)
  PROVE  SearchOK'
<1>1. JobOK /\ DescentOK /\ ReportsOK /\ CountOK /\ Known(ep.at, ep.value) /\ ep.pc \notin {"returned", "raised"}
  BY DEF SearchOK, DescentOK
<1>2. KnownGrows
  BY <1>1, NothingKnown
<1>3. PICK c, v : c = ep.at /\ v = ep.value
  OBVIOUS
<1>4. Known(c, v) /\ Known(c, v)'
  BY <1>1, <1>2, <1>3, KnownStays
<1>5. CASE job.kernel.kind = "iterated"
  <2> DEFINE better == e.kicks = 0 \/ e.value < e.best.value
             best == IF better THEN [at |-> c, value |-> v] ELSE e.best
  <2>1. ep' = [e EXCEPT !.pc = "kick", !.best = best] /\ UNCHANGED reported
    BY <1>3, <1>5 DEF EndDescent
  <2>2. /\ DOMAIN ep' = EpisodeFields /\ ep'.pc = "kick" /\ ep'.best = best /\ ep'.least = ep.least
        /\ ep'.count = ep.count /\ ep'.calls = ep.calls /\ ep'.kicks = ep.kicks /\ ep'.converged = FALSE
    <3> HIDE DEF best
    <3> QED BY <1>5, <2>1 DEF EpisodeFields
  <2>3. Known(best.at, best.value)' /\ ep.least = best.value
    <3>1. CASE ep.kicks = 0
      <4>1. best = [at |-> c, value |-> v]
        BY <3>1
      <4>2. best.at = c /\ best.value = v /\ ep.least = v
        BY <1>1, <1>3, <3>1, <4>1 DEF DescentOK
      <4> HIDE DEF best
      <4> QED BY <1>4, <4>2 DEF Known
    <3>2. CASE ep.kicks # 0
      <4>1. Known(ep.best.at, ep.best.value) /\ ep.least = Least({ep.best.value, ep.value})
        BY <1>1, <3>2 DEF DescentOK
      <4>2. PICK b : b = ep.best
        OBVIOUS
      <4>3. Known(b.at, b.value)
        BY <4>1, <4>2
      <4>4. b.value \in Int /\ v \in Int
        BY <1>3, <3>2, <4>2, DescentIs
      <4>5. CASE v < b.value
        <5>1. best = [at |-> c, value |-> v]
          BY <1>3, <4>2, <4>5
        <5>2. best.at = c /\ best.value = v
          BY <5>1
        <5>3. ep.least = v
          BY <1>3, <4>1, <4>2, <4>4, <4>5, BetterOfTwo
        <5> HIDE DEF best
        <5> QED BY <1>4, <5>2, <5>3 DEF Known
      <4>6. CASE ~(v < b.value)
        <5>1. best = b
          BY <1>3, <3>2, <4>2, <4>6
        <5>2. ep.least = b.value
          BY <1>3, <4>1, <4>2, <4>4, <4>6, BetterOfTwo
        <5> HIDE DEF best
        <5> QED BY <1>2, <4>3, <5>1, <5>2 DEF Known, KnownGrows
      <4> QED BY <4>5, <4>6
    <3> QED BY <3>1, <3>2
  <2>4. ReportsOK'
    BY <1>1, <1>2, <2>1, ReportsStay
  <2>5. JobOK'
    BY <1>1, <1>2, <2>1, <2>2 DEF JobOK, KnownGrows
  <2>6. KickOK'
    <3> HIDE DEF best
    <3> QED BY <1>1, <1>5, <2>2, <2>3 DEF KickOK, CountOK, Known
  <2> HIDE DEF best
  <2> QED BY <2>2, <2>4, <2>5, <2>6 DEF SearchOK, FirstOK, DescentOK, ScanOK
<1>6. CASE job.kernel.kind # "iterated"
  <2>1. Report(e, TRUE)
    BY <1>6 DEF EndDescent
  <2>2. ep.least = ep.value
    BY <1>1, <1>6 DEF DescentOK
  <2>3. e.count = e.calls /\ e.at = c /\ e.value = v /\ v = e.least
    BY <1>1, <1>3, <2>2 DEF CountOK
  <2>4. e.converged /\ e.missed = 0 => NoneBetter(c, v)
    BY <1>3
  <2>5. e.converged /\ e.missed = 0 => NoneBetter(c, v)'
    BY <1>2, <2>4, KnownStays
  <2>6. TRUE \in BOOLEAN
    OBVIOUS
  <2> QED BY <1>1, <1>2, <1>4, <2>1, <2>3, <2>5, <2>6, ReportGood
<1> QED BY <1>5, <1>6

LEMMA OutOfStepsGood ==
  ASSUME SearchAssumption, SearchOK, OutOfSteps
  PROVE  SearchOK'
<1>1. /\ ep.pc = "stage" /\ EndDescent(ep) /\ UNCHANGED <<job, known>> /\ DOMAIN ep = EpisodeFields
      /\ ep.converged = FALSE
  BY DEF OutOfSteps, SearchOK, JobOK, DescentOK, CountOK
<1>2. PICK e : e = ep
  OBVIOUS
<1>3. EndDescent(e)
  BY <1>1, <1>2
<1> QED BY <1>1, <1>2, <1>3, EndDescentGood

LEMMA OutOfBudgetGood ==
  ASSUME SearchAssumption, SearchOK, OutOfBudget
  PROVE  SearchOK'
<1>1. /\ ep.pc = "scan" /\ EndDescent([ep EXCEPT !.exhausted = TRUE]) /\ UNCHANGED <<job, known>>
      /\ DOMAIN ep = EpisodeFields /\ ep.converged = FALSE
  BY DEF OutOfBudget, SearchOK, JobOK, DescentOK, CountOK
<1>2. PICK e : e = [ep EXCEPT !.exhausted = TRUE]
  OBVIOUS
<1>3. EndDescent(e)
  BY <1>1, <1>2
<1>4. /\ DOMAIN e = EpisodeFields /\ e.at = ep.at /\ e.value = ep.value /\ e.count = ep.count
      /\ e.calls = ep.calls /\ e.kicks = ep.kicks /\ e.best = ep.best /\ e.least = ep.least
      /\ e.missed = ep.missed /\ e.converged = FALSE
  BY <1>1, <1>2 DEF EpisodeFields
<1> QED BY <1>1, <1>3, <1>4, EndDescentGood

LEMMA NoImprovementGood ==
  ASSUME SearchAssumption, SearchOK, NoImprovement
  PROVE  SearchOK'
<1>1. /\ ep.pc = "scan" /\ ep.todo = << >> /\ UNCHANGED <<job, remaining, known>>
      /\ JobOK /\ DescentOK /\ ScanOK /\ ReportsOK /\ DOMAIN ep = EpisodeFields /\ ep.converged = FALSE
  BY DEF NoImprovement, SearchOK, JobOK, DescentOK, CountOK
<1>2. CASE ep.stage < Len(Stages(job.kernel))
  <2>1. ep' = [ep EXCEPT !.pc = "stage", !.stage = ep.stage + 1] /\ UNCHANGED reported
    BY <1>2 DEF NoImprovement
  <2>2. /\ DOMAIN ep' = EpisodeFields /\ ep'.pc = "stage" /\ ep'.at = ep.at /\ ep'.value = ep.value
        /\ ep'.count = ep.count /\ ep'.calls = ep.calls /\ ep'.converged = ep.converged
        /\ ep'.kicks = ep.kicks /\ ep'.stage = ep.stage + 1 /\ ep'.least = ep.least /\ ep'.best = ep.best
    BY <1>1, <2>1 DEF EpisodeFields
  <2>3. ep.stage + 1 \in 1 .. Len(Stages(job.kernel))
    <3>1. Len(Stages(job.kernel)) \in Nat /\ ep.stage \in 1 .. Len(Stages(job.kernel))
      BY <1>1, StagesAre DEF JobOK, DescentOK
    <3> QED BY <1>2, <3>1
  <2>4. ReportsOK'
    BY <1>1, <2>1, NothingKnown, ReportsStay
  <2>5. DescentOK'
    BY <1>1, <2>2, <2>3 DEF DescentOK, CountOK, Known
  <2>6. JobOK'
    BY <1>1, <2>1, <2>2 DEF JobOK
  <2> QED BY <2>2, <2>4, <2>5, <2>6 DEF SearchOK, FirstOK, ScanOK, KickOK
<1>3. CASE ~(ep.stage < Len(Stages(job.kernel)))
  <2>1. PICK w \in BOOLEAN : w = (ep.full /\ job.kernel.kind # "iterated")
    OBVIOUS
  <2>2. PICK e : e = [ep EXCEPT !.converged = @ \/ (ep.full /\ job.kernel.kind # "iterated")]
    OBVIOUS
  <2>3. EndDescent(e)
    BY <1>3, <2>2 DEF NoImprovement
  <2>4. e = [ep EXCEPT !.converged = w]
    BY <1>1, <2>1, <2>2
  <2>5. /\ DOMAIN e = EpisodeFields /\ e.at = ep.at /\ e.value = ep.value /\ e.count = ep.count
        /\ e.calls = ep.calls /\ e.kicks = ep.kicks /\ e.best = ep.best /\ e.least = ep.least
        /\ e.missed = ep.missed /\ e.converged = w
    BY <1>1, <2>4 DEF EpisodeFields
  <2>6. w /\ ep.missed = 0 => NoneBetter(ep.at, ep.value)
    <3>1. DOMAIN << >> = {} /\ Range(<< >>) = {}
      BY DEF Range
    <3> QED BY <1>1, <2>1, <3>1 DEF ScanOK, NoneBetter
  <2>7. w => job.kernel.kind # "iterated"
    BY <2>1
  <2> QED BY <1>1, <2>3, <2>5, <2>6, <2>7, EndDescentGood
<1> QED BY <1>2, <1>3

\* A scan goes on with the rest of its moves.
LEMMA TailIs ==
  ASSUME NEW s, IsSeq(s), s # << >>
  PROVE  IsSeq(Tail(s)) /\ Range(s) = {Head(s)} \cup Range(Tail(s))
<1> DEFINE Y == Range(s)
<1>1. s \in Seq(Y)
  BY DEF IsSeq
<1> HIDE DEF Y
<1>2. /\ Tail(s) \in Seq(Y) /\ Len(s) \in Nat \ {0} /\ DOMAIN s = 1 .. Len(s) /\ DOMAIN Tail(s) = 1 .. Len(s) - 1
      /\ Head(s) = s[1] /\ \A i \in 1 .. Len(s) - 1 : Tail(s)[i] = s[i + 1]
  BY <1>1
<1>3. IsSeq(Tail(s))
  BY <1>2, AnySeq
<1> DEFINE t == Tail(s)
<1> HIDE DEF t
<1>4. ASSUME NEW i \in DOMAIN s PROVE s[i] = Head(s) \/ s[i] \in Range(t)
  <2>1. CASE i = 1
    BY <1>2, <2>1
  <2>2. CASE i # 1
    <3>1. i - 1 \in 1 .. Len(s) - 1 /\ (i - 1) + 1 = i
      BY <1>2, <2>2
    <3>2. t[i - 1] = s[i] /\ i - 1 \in DOMAIN t
      BY <1>2, <3>1 DEF t
    <3> QED BY <3>2 DEF Range
  <2> QED BY <2>1, <2>2
<1>5. ASSUME NEW i \in DOMAIN t PROVE t[i] \in Range(s)
  <2>1. i + 1 \in DOMAIN s /\ t[i] = s[i + 1]
    BY <1>2 DEF t
  <2> QED BY <2>1 DEF Range
<1>6. Head(s) \in Range(s)
  BY <1>2 DEF Range
<1>7. Range(s) = {Head(s)} \cup Range(t)
  BY <1>4, <1>5, <1>6 DEF Range
<1> QED BY <1>3, <1>7 DEF t

\* The least value seen, after one more.
LEMMA LeastIs ==
  ASSUME SearchAssumption, SearchOK, ep.pc \in {"stage", "scan"}, NEW v \in Levels
  PROVE  /\ v < ep.value /\ ep.kicks = 0 => Least({ep.least, v}) = v
         /\ v < ep.value /\ ep.kicks # 0 => Least({ep.least, v}) = Least({ep.best.value, v})
         /\ ~(v < ep.value) => Least({ep.least, v}) = ep.least
<1>1. /\ ep.value \in Int /\ ep.least \in Int /\ ep.least <= ep.value /\ v \in Int
      /\ ep.kicks = 0 => ep.least = ep.value
      /\ ep.kicks # 0 => ep.best.value \in Int /\ ep.least = Least({ep.best.value, ep.value})
  BY DescentIs DEF SearchOK, DescentOK, SearchAssumption
<1>2. Least({ep.least, v}) = IF ep.least <= v THEN ep.least ELSE v
  BY <1>1, LeastOfTwo
<1>3. CASE ep.kicks = 0
  BY <1>1, <1>2, <1>3
<1>4. CASE ep.kicks # 0
  <2>1. ep.least = IF ep.best.value <= ep.value THEN ep.best.value ELSE ep.value
    BY <1>1, <1>4, LeastOfTwo
  <2>2. Least({ep.best.value, v}) = IF ep.best.value <= v THEN ep.best.value ELSE v
    BY <1>1, <1>4, LeastOfTwo
  <2> QED BY <1>1, <1>2, <1>4, <2>1, <2>2
<1> QED BY <1>3, <1>4

LEMMA EvaluateNeighborGood ==
  ASSUME SearchAssumption, SearchOK, EvaluateNeighbor
  PROVE  SearchOK'
<1>1. /\ ep.pc = "scan" /\ ep.todo # << >> /\ UNCHANGED <<job, reported>>
      /\ JobOK /\ DescentOK /\ ScanOK /\ ReportsOK /\ DOMAIN ep = EpisodeFields
      /\ \A x \in DOMAIN known : known[x] \in Levels
  BY DEF EvaluateNeighbor, SearchOK, JobOK
<1>2. PICK c : c = Head(ep.todo)
  OBVIOUS
<1>3. PICK v \in ValuesAt(c) :
        /\ Evaluate(c, v)
        /\ ep' = IF Improves(v)
                 THEN [Counted(ep, v) EXCEPT !.at = c, !.value = v, !.steps = @ + 1,
                                             !.stage = 1, !.pc = "stage", !.todo = << >>]
                 ELSE [Counted(ep, v) EXCEPT !.todo = Tail(@),
                                             !.missed = @ + (IF v = FailedValue THEN 1 ELSE 0)]
  BY <1>2 DEF EvaluateNeighbor
<1>4. KnownGrows /\ v \in Levels \cup {FailedValue} /\ (v # FailedValue => Known(c, v)')
  BY <1>1, <1>3, EvaluateIs
<1>5. PICK n : n = Counted(ep, v)
  OBVIOUS
<1>6. /\ DOMAIN n = EpisodeFields /\ n.pc = ep.pc /\ n.at = ep.at /\ n.value = ep.value /\ n.stage = ep.stage
      /\ n.todo = ep.todo /\ n.full = ep.full /\ n.missed = ep.missed /\ n.kicks = ep.kicks /\ n.best = ep.best
      /\ n.converged = ep.converged /\ n.calls = ep.calls + 1 /\ n.count = ep.count + 1
  <2>1. n.calls = ep.calls + 1 /\ n.count = ep.count + 1
    BY Zenon, <1>1, <1>5, CountedIs
  <2>2. /\ DOMAIN n = EpisodeFields /\ n.pc = ep.pc /\ n.at = ep.at /\ n.value = ep.value
        /\ n.stage = ep.stage /\ n.todo = ep.todo
    BY Zenon, <1>1, <1>5, CountedIs
  <2>3. /\ n.full = ep.full /\ n.missed = ep.missed /\ n.kicks = ep.kicks /\ n.best = ep.best
        /\ n.converged = ep.converged
    BY Zenon, <1>1, <1>5, CountedIs
  <2> QED BY <2>1, <2>2, <2>3
<1>7. n.least = IF v = FailedValue THEN ep.least ELSE Least({ep.least, v})
  <2>1. n.least = IF v = FailedValue THEN ep.least ELSE IF ep.least = Nil THEN v ELSE Least({ep.least, v})
    BY Zenon, <1>1, <1>5, CountedIs
  <2>2. ep.least # Nil
    BY <1>1, DescentIs
  <2> QED BY <2>1, <2>2
<1>8. ReportsOK'
  BY <1>1, <1>4, ReportsStay
<1>9. CASE Improves(v)
  <2>1. ep' = [n EXCEPT !.at = c, !.value = v, !.steps = @ + 1, !.stage = 1, !.pc = "stage", !.todo = << >>]
    BY <1>3, <1>5, <1>9
  <2>2. /\ DOMAIN ep' = EpisodeFields /\ ep'.pc = "stage" /\ ep'.at = c /\ ep'.value = v /\ ep'.stage = 1
        /\ ep'.kicks = ep.kicks /\ ep'.best = ep.best /\ ep'.converged = ep.converged
        /\ ep'.calls = ep.calls + 1 /\ ep'.count = ep.count + 1 /\ ep'.least = n.least
    BY <1>6, <2>1 DEF EpisodeFields
  <2>3. v # FailedValue /\ v < ep.value /\ v \in Levels
    BY <1>4, <1>9 DEF Improves
  <2>4. 1 \in 1 .. Len(Stages(job.kernel))
    BY <1>1, StagesAre DEF JobOK
  <2>5. Known(ep.at, ep.value)'
    BY <1>4, <2>2, <2>3 DEF Known
  <2>6. (ep.kicks = 0 => n.least = v) /\ (ep.kicks # 0 => n.least = Least({ep.best.value, v}))
    BY <1>1, <1>7, <2>3, LeastIs
  <2>7. ep.kicks # 0 => Known(ep.best.at, ep.best.value)'
    <3>1. PICK b : b = ep.best
      OBVIOUS
    <3>2. ep.kicks # 0 => Known(b.at, b.value)
      BY <1>1, <3>1 DEF DescentOK
    <3>3. ep'.best = b
      BY <2>2, <3>1
    <3> QED BY <1>4, <3>2, <3>3 DEF Known, KnownGrows
  <2>8. DescentOK'
    BY <1>1, <2>2, <2>4, <2>5, <2>6, <2>7 DEF DescentOK, CountOK
  <2>9. JobOK'
    BY <1>1, <1>4, <2>2 DEF JobOK, KnownGrows
  <2> QED BY <1>8, <2>2, <2>8, <2>9 DEF SearchOK, FirstOK, ScanOK, KickOK
<1>10. CASE ~Improves(v)
  <2>1. PICK more \in 0 .. 1 : more = IF v = FailedValue THEN 1 ELSE 0
    OBVIOUS
  <2>2. ep' = [n EXCEPT !.todo = Tail(ep.todo), !.missed = ep.missed + more]
    BY <1>3, <1>5, <1>6, <1>10, <2>1
  <2>3. /\ DOMAIN ep' = EpisodeFields /\ ep'.pc = "scan" /\ ep'.at = ep.at /\ ep'.value = ep.value
        /\ ep'.stage = ep.stage /\ ep'.kicks = ep.kicks /\ ep'.best = ep.best /\ ep'.converged = ep.converged
        /\ ep'.calls = ep.calls + 1 /\ ep'.count = ep.count + 1 /\ ep'.least = n.least
        /\ ep'.todo = Tail(ep.todo) /\ ep'.missed = ep.missed + more /\ ep'.full = ep.full
    BY <1>1, <1>6, <2>2 DEF EpisodeFields
  <2>4. n.least = ep.least
    BY <1>1, <1>4, <1>7, <1>10, LeastIs DEF Improves
  <2>5. PICK at, value, b : at = ep.at /\ value = ep.value /\ b = ep.best
    OBVIOUS
  <2>6. Known(at, value) /\ (ep.kicks # 0 => Known(b.at, b.value))
    BY <1>1, <2>5 DEF DescentOK
  <2>7. ep'.at = at /\ ep'.value = value /\ ep'.best = b
    BY <2>3, <2>5
  <2>8. Known(ep.at, ep.value)' /\ (ep.kicks # 0 => Known(ep.best.at, ep.best.value)')
    BY <1>4, <2>6, <2>7 DEF Known, KnownGrows
  <2>9. DescentOK'
    BY <1>1, <2>3, <2>4, <2>8 DEF DescentOK, CountOK
  <2>10. ScanOK'
    <3> SUFFICES ASSUME ep.full
                 PROVE  /\ IsSeq(Tail(ep.todo)) /\ ep.missed + more \in Nat
                        /\ ep.missed + more = 0 => \A d \in NeighborsOf(at) :
                             d \in Range(Tail(ep.todo)) \/ (d \in DOMAIN known' /\ known'[d] >= value)
      BY <2>3, <2>7 DEF ScanOK, NeighborsOf
    <3>1. /\ IsSeq(ep.todo) /\ ep.missed \in Nat
          /\ ep.missed = 0 => \A d \in NeighborsOf(at) :
               d \in Range(ep.todo) \/ (d \in DOMAIN known /\ known[d] >= value)
      BY <1>1, <2>5 DEF ScanOK
    <3>2. IsSeq(Tail(ep.todo)) /\ Range(ep.todo) = {c} \cup Range(Tail(ep.todo))
      BY <1>1, <1>2, <3>1, TailIs
    <3>3. ASSUME ep.missed + more = 0, NEW d \in NeighborsOf(at)
          PROVE  d \in Range(Tail(ep.todo)) \/ (d \in DOMAIN known' /\ known'[d] >= value)
      <4>1. ep.missed = 0 /\ v # FailedValue
        BY <2>1, <3>1, <3>3
      <4>2. CASE d = c
        <5>1. c \in DOMAIN known' /\ known'[c] = v
          BY <1>4, <4>1 DEF Known
        <5>2. ~(v < value) /\ v \in Int /\ value \in Int
          BY <1>1, <1>4, <1>10, <2>5, <4>1, DescentIs DEF Improves, SearchAssumption
        <5> QED BY <4>2, <5>1, <5>2
      <4>3. CASE d \in DOMAIN known /\ known[d] >= value
        BY <1>4, <4>3 DEF KnownGrows
      <4> QED BY <3>1, <3>2, <4>1, <4>2, <4>3
    <3> QED BY <2>1, <3>1, <3>2, <3>3
  <2>11. JobOK'
    BY <1>1, <1>4, <2>3 DEF JobOK, KnownGrows
  <2> QED BY <1>8, <2>3, <2>9, <2>10, <2>11 DEF SearchOK, FirstOK, KickOK
<1> QED BY <1>9, <1>10

LEMMA KickGood ==
  ASSUME SearchAssumption, SearchOK, Kick
  PROVE  SearchOK'
<1>1. /\ ep.pc = "kick" /\ UNCHANGED <<job, reported>>
      /\ JobOK /\ KickOK /\ CountOK /\ ReportsOK /\ DOMAIN ep = EpisodeFields
      /\ \A x \in DOMAIN known : known[x] \in Levels
  BY DEF Kick, SearchOK, JobOK, KickOK
<1>2. PICK c, v :
        /\ Evaluate(c, v)
        /\ ep' = IF v = FailedValue
                 THEN [Counted(ep, v) EXCEPT !.kicks = @ + 1, !.missed = @ + 1]
                 ELSE [Counted(ep, v) EXCEPT !.kicks = @ + 1, !.at = c, !.value = v,
                                             !.stage = 1, !.pc = "stage"]
  BY DEF Kick
<1>3. KnownGrows /\ v \in Levels \cup {FailedValue} /\ (v # FailedValue => Known(c, v)')
  BY <1>1, <1>2, EvaluateIs
<1>4. PICK n : n = Counted(ep, v)
  OBVIOUS
<1>5. /\ DOMAIN n = EpisodeFields /\ n.pc = ep.pc /\ n.kicks = ep.kicks /\ n.best = ep.best
      /\ n.converged = ep.converged /\ n.calls = ep.calls + 1 /\ n.count = ep.count + 1
  <2>1. n.calls = ep.calls + 1 /\ n.count = ep.count + 1
    BY <1>1, <1>4, CountedIs
  <2>2. /\ DOMAIN n = EpisodeFields /\ n.pc = ep.pc /\ n.kicks = ep.kicks /\ n.best = ep.best
        /\ n.converged = ep.converged
    BY <1>1, <1>4, CountedIs
  <2> QED BY <2>1, <2>2
<1>6. PICK b : b = ep.best
  OBVIOUS
<1>7. Known(b.at, b.value) /\ ep.least = b.value
  BY <1>1, <1>6 DEF KickOK
<1>8. n.least = IF v = FailedValue THEN ep.least ELSE Least({ep.least, v})
  <2>1. n.least = IF v = FailedValue THEN ep.least ELSE IF ep.least = Nil THEN v ELSE Least({ep.least, v})
    BY <1>1, <1>4, CountedIs
  <2>2. ep.least # Nil
    BY <1>7 DEF Known, SearchAssumption
  <2> QED BY <2>1, <2>2
<1>9. ReportsOK'
  BY <1>1, <1>3, ReportsStay
<1>10. CASE v = FailedValue
  <2>1. ep' = [n EXCEPT !.kicks = @ + 1, !.missed = @ + 1]
    BY <1>2, <1>4, <1>10
  <2>2. /\ DOMAIN ep' = EpisodeFields /\ ep'.pc = "kick" /\ ep'.kicks = ep.kicks + 1 /\ ep'.best = b
        /\ ep'.converged = ep.converged /\ ep'.calls = ep.calls + 1 /\ ep'.count = ep.count + 1
        /\ ep'.least = b.value
    BY <1>1, <1>5, <1>6, <1>7, <1>8, <1>10, <2>1 DEF EpisodeFields
  <2>3. Known(ep.best.at, ep.best.value)'
    BY <1>3, <1>7, <2>2 DEF Known, KnownGrows
  <2>4. KickOK'
    BY <1>1, <2>2, <2>3 DEF KickOK, CountOK
  <2>5. JobOK'
    BY <1>1, <1>3, <2>2 DEF JobOK, KnownGrows
  <2> QED BY <1>9, <2>2, <2>4, <2>5 DEF SearchOK, FirstOK, ScanOK, DescentOK
<1>11. CASE v # FailedValue
  <2>1. ep' = [n EXCEPT !.kicks = @ + 1, !.at = c, !.value = v, !.stage = 1, !.pc = "stage"]
    BY <1>2, <1>4, <1>11
  <2>2. /\ DOMAIN ep' = EpisodeFields /\ ep'.pc = "stage" /\ ep'.kicks = ep.kicks + 1 /\ ep'.best = b
        /\ ep'.converged = ep.converged /\ ep'.calls = ep.calls + 1 /\ ep'.count = ep.count + 1
        /\ ep'.least = n.least /\ ep'.at = c /\ ep'.value = v /\ ep'.stage = 1
    BY <1>1, <1>5, <1>6, <2>1 DEF EpisodeFields
  <2>3. Known(ep.best.at, ep.best.value)'
    BY <1>3, <1>7, <2>2 DEF Known, KnownGrows
  <2>4. Known(ep.at, ep.value)'
    BY <1>3, <1>11, <2>2 DEF Known
  <2>5. ep'.least = Least({b.value, v})
    BY <1>7, <1>8, <1>11, <2>2
  <2>6. 1 \in 1 .. Len(Stages(job.kernel))
    BY <1>1, StagesAre DEF JobOK
  <2>7. ep.kicks + 1 # 0 /\ ep.kicks + 1 \in Nat
    BY <1>1 DEF CountOK
  <2>8. DescentOK'
    BY <1>1, <2>2, <2>3, <2>4, <2>5, <2>6, <2>7 DEF DescentOK, CountOK, KickOK
  <2>9. JobOK'
    BY <1>1, <1>3, <2>2 DEF JobOK, KnownGrows
  <2> QED BY <1>9, <2>2, <2>8, <2>9 DEF SearchOK, FirstOK, ScanOK, KickOK
<1> QED BY <1>10, <1>11

LEMMA StopKickingGood ==
  ASSUME SearchAssumption, SearchOK, StopKicking
  PROVE  SearchOK'
<1>1. /\ ep.pc = "kick" /\ UNCHANGED <<job, remaining, known>>
      /\ JobOK /\ KickOK /\ CountOK /\ ReportsOK /\ DOMAIN ep = EpisodeFields /\ ep.pc \notin {"returned", "raised"}
  BY DEF StopKicking, SearchOK, JobOK, KickOK
<1>2. PICK p : p = IF MayKick THEN [ep EXCEPT !.exhausted = TRUE] ELSE ep
  OBVIOUS
<1>3. EndKicks(p)
  BY <1>2 DEF StopKicking
<1>4. /\ DOMAIN p = EpisodeFields /\ p.best = ep.best /\ p.count = ep.count /\ p.calls = ep.calls
      /\ p.least = ep.least /\ p.converged = FALSE
  <2>1. CASE MayKick
    <3>1. p = [ep EXCEPT !.exhausted = TRUE]
      BY <1>2, <2>1
    <3> QED BY <1>1, <3>1 DEF EpisodeFields, CountOK
  <2>2. CASE ~MayKick
    BY <1>1, <1>2, <2>2 DEF CountOK
  <2> QED BY <2>1, <2>2
<1>5. PICK c, v : c = p.best.at /\ v = p.best.value
  OBVIOUS
<1>6. PICK e : e = [p EXCEPT !.at = c, !.value = v]
  OBVIOUS
<1>7. Report(e, TRUE)
  BY <1>3, <1>5, <1>6 DEF EndKicks
<1>8. /\ DOMAIN e = EpisodeFields /\ e.at = c /\ e.value = v /\ e.count = ep.count /\ e.calls = ep.calls
      /\ e.least = ep.least /\ e.converged = FALSE
  BY <1>4, <1>6 DEF EpisodeFields
<1>9. e.count = e.calls /\ Known(c, v) /\ v = e.least
  BY <1>1, <1>4, <1>5, <1>8 DEF KickOK, CountOK
<1>10. KnownGrows
  BY <1>1, NothingKnown
<1>11. Known(c, v)'
  BY <1>9, <1>10, KnownStays
<1>12. TRUE \in BOOLEAN
  OBVIOUS
<1> QED BY <1>1, <1>7, <1>8, <1>9, <1>10, <1>11, <1>12, ReportGood

LEMMA SearchBegins ==
  ASSUME SearchAssumption, SearchInit
  PROVE  SearchOK
<1>1. job.kernel \in Kernels /\ job.batch \in Batches
  BY DEF SearchInit, BatchJobs, EpisodeJobs
<1>2. Len(job.batch) \in Nat \ {0}
  BY <1>1 DEF SearchAssumption
<1>3. ep = NewEpisode(job.batch[1]) /\ known = << >> /\ reported = << >>
  BY DEF SearchInit
<1>4. /\ DOMAIN ep = EpisodeFields /\ ep.pc = "first" /\ ep.count = 0 /\ ep.calls = 0
      /\ ep.least = Nil /\ ep.kicks = 0 /\ ep.converged = FALSE /\ ep.stage = 1
  BY <1>3 DEF NewEpisode, EpisodeFields
<1>5. DOMAIN known = {} /\ Len(reported) = 0 /\ reported \in Seq({})
  BY <1>3
<1>6. ReportsOK
  BY <1>5 DEF ReportsOK
<1> QED BY <1>1, <1>2, <1>4, <1>5, <1>6 DEF SearchOK, JobOK, FirstOK, DescentOK, ScanOK, KickOK

LEMMA SearchStands ==
  ASSUME SearchOK, UNCHANGED searchVars
  PROVE  SearchOK'
<1>1. job' = job /\ known' = known /\ ep' = ep /\ reported' = reported
  BY DEF searchVars
<1> QED BY <1>1 DEF SearchOK, JobOK, FirstOK, DescentOK, CountOK, ScanOK, KickOK, ReportsOK, ReportOK,
                    Known, NoneBetter, NeighborsOf

LEMMA ReportedWell ==
  ASSUME SearchOK
  PROVE  EpisodeReported
<1>1. PICK S : reported \in Seq(S) /\ \A k \in 1 .. Len(reported) : ReportOK(reported[k])
  BY DEF SearchOK, ReportsOK
<1> SUFFICES ASSUME NEW k \in DOMAIN reported
             PROVE  LET r == reported[k]
                    IN  /\ r.count = r.calls
                        /\ r.ok => r.value = r.least /\ known[r.at] = r.value
                        /\ r.converged /\ r.missed = 0 =>
                             \A l \in DOMAIN Leaves : \A c \in Range(MovesOf(r.at, l)) :
                               c \in DOMAIN known /\ known[c] >= r.value
  BY DEF EpisodeReported
<1>2. k \in 1 .. Len(reported)
  BY <1>1
<1>3. ReportOK(reported[k])
  BY <1>1, <1>2
<1> QED BY <1>3 DEF ReportOK, Known, NoneBetter, NeighborsOf

\* What an episode of a kernel reports is the best it has seen, at a candidate
\* with that value; it counts every call it made; and it is called converged
\* only when each neighbor by a single leaf was evaluated and none is better, a
\* failed one aside: whatever the leaves, the kernels, their stages, steps and
\* kicks, the batches, the evaluations granted and what the candidates are worth.
THEOREM SearchesAreReported ==
  ASSUME SearchAssumption
  PROVE  SearchSpec => []EpisodeReported
<1>1. SearchInit => SearchOK
  BY SearchBegins
<1>2. SearchOK /\ [SearchNext]_searchVars => SearchOK'
  <2> SUFFICES ASSUME SearchOK, [SearchNext]_searchVars PROVE SearchOK'
    OBVIOUS
  <2>1. CASE EvaluateOriginal \/ EvaluateFirst
    BY <2>1, FirstGood
  <2>2. CASE RunRaises
    BY <2>2, RaisesGood
  <2>3. CASE EnterStage
    BY <2>3, BeginStageGood
  <2>4. CASE EvaluateNeighbor
    BY <2>4, EvaluateNeighborGood
  <2>5. CASE OutOfSteps
    BY <2>5, OutOfStepsGood
  <2>6. CASE OutOfBudget
    BY <2>6, OutOfBudgetGood
  <2>7. CASE NoImprovement
    BY <2>7, NoImprovementGood
  <2>8. CASE Kick
    BY <2>8, KickGood
  <2>9. CASE StopKicking
    BY <2>9, StopKickingGood
  <2>10. CASE UNCHANGED searchVars
    BY <2>10, SearchStands
  <2> QED BY <2>1, <2>2, <2>3, <2>4, <2>5, <2>6, <2>7, <2>8, <2>9, <2>10 DEF SearchNext
<1>3. SearchOK => EpisodeReported
  BY ReportedWell
<1> QED BY <1>1, <1>2, <1>3, PTL DEF SearchSpec

\* Both at once: whichever of the backends a local search uses, and whatever it
\* meets, a slot is what its evaluations found.  It counts them all, except that a
\* failure of the SciPy kernel counts the failed ones (the _optimize_proposal
\* methods of all kernels).
THEOREM EpisodesAreReported ==
  ASSUME SearchAssumption, ScipyAssumption
  PROVE  SearchSpec /\ ScipySpec => []EpisodesReported
<1>1. SearchSpec => []EpisodeReported
  BY SearchesAreReported
<1>2. ScipySpec => []ScipyReported
  BY ScipyIsReported
<1>3. EpisodeReported /\ ScipyReported => EpisodesReported
  BY DEF EpisodesReported
<1> QED BY <1>1, <1>2, <1>3, PTL

(***************************************************************************)
(* The methods that breed whole generations                                *)
(***************************************************************************)
\* A fold over the indices of a sequence: highest index last.
LEMMA HighestOf ==
  ASSUME NEW n \in Nat, NEW s \in SUBSET (1 .. n), s # {}
  PROVE  Max(s) \in s /\ \A y \in s : Max(s) >= y
<1> DEFINE below == {n - k : k \in s}
<1>1. below \in SUBSET Nat /\ below # {}
  <2>1. \A k \in s : n - k \in Nat
    OBVIOUS
  <2>2. \E k \in s : TRUE
    OBVIOUS
  <2> QED BY <2>1, <2>2
<1>2. PICK m \in below : \A x \in below : m <= x
  <2> HIDE DEF below
  <2> QED BY <1>1, LeastNatural
<1>3. PICK k \in s : m = n - k
  BY <1>2
<1>4. ASSUME NEW j \in s
      PROVE  k >= j
  <2>1. n - j \in below
    OBVIOUS
  <2>2. m <= n - j
    BY <1>2, <2>1
  <2> QED BY <1>3, <2>2
<1>5. \E x \in s : \A y \in s : x >= y
  BY <1>4
<1> QED BY <1>5, Zenon DEF Max

\* The first k numbers: the highest is k, and without it they are k - 1.
LEMMA HighestIs ==
  ASSUME NEW n \in Nat, NEW k \in 1 .. n
  PROVE  Max(1 .. k) = k /\ (1 .. k) \ {k} = 1 .. (k - 1) /\ 1 .. k \in SUBSET (1 .. n) /\ 1 .. k # {}
<1>1. 1 .. k \in SUBSET (1 .. n) /\ 1 .. k # {} /\ k \in 1 .. k
  OBVIOUS
<1>2. Max(1 .. k) \in 1 .. k /\ Max(1 .. k) >= k
  BY <1>1, HighestOf
<1> QED BY <1>1, <1>2

FoldsTo(g, n, X, a, step) ==
  /\ g \in [SUBSET (1 .. n) -> X]
  /\ \A s \in SUBSET (1 .. n) : g[s] = IF s = {} THEN a ELSE step[<<g[s \ {Max(s)}], Max(s)>>]

\* The function a fold over the indices recurses along exists.
LEMMA FoldFunctionExists ==
  ASSUME NEW n \in Nat, NEW X, NEW a \in X, NEW step \in [X \X (1 .. n) -> X]
  PROVE  \E g : FoldsTo(g, n, X, a, step)
<1> DEFINE S == 1 .. n
           UpTo(m) == {s \in SUBSET S : Cardinality(s) <= m}
           Next(g, s) == IF s = {} THEN a ELSE step[<<g[s \ {Max(s)}], Max(s)>>]
           N == {m \in Nat : \E g : g \in [UpTo(m) -> X] /\ \A s \in UpTo(m) : g[s] = Next(g, s)}
<1>0. IsFiniteSet(S) /\ \A s \in SUBSET S : IsFiniteSet(s) /\ Cardinality(s) \in Nat
  <2>1. IsFiniteSet(S)
    BY FS_Interval
  <2> HIDE DEF S
  <2> QED BY <2>1, FS_Subset, FS_CardinalityType
<1>1. 0 \in N
  <2>1. \A s \in UpTo(0) : s = {}
    BY <1>0, FS_EmptySet
  <2> DEFINE g == [s \in UpTo(0) |-> a]
  <2>2. g \in [UpTo(0) -> X] /\ \A s \in UpTo(0) : g[s] = Next(g, s)
    BY <2>1
  <2> HIDE DEF g, UpTo, Next
  <2> QED BY <2>2
<1>2. ASSUME NEW m \in Nat, m \in N
      PROVE  m + 1 \in N
  <2>1. PICK g : g \in [UpTo(m) -> X] /\ \A s \in UpTo(m) : g[s] = Next(g, s)
    BY <1>2
  <2>2. ASSUME NEW s \in UpTo(m + 1), s # {}
        PROVE  s \ {Max(s)} \in UpTo(m) /\ Max(s) \in 1 .. n
    <3>1. Max(s) \in s
      BY <2>2, HighestOf
    <3>2. Cardinality(s \ {Max(s)}) = Cardinality(s) - 1
      BY <1>0, <3>1, FS_RemoveElement
    <3>3. s \ {Max(s)} \in SUBSET S /\ Cardinality(s) <= m + 1 /\ Cardinality(s) \in Nat
      BY <1>0
    <3>4. Cardinality(s \ {Max(s)}) <= m
      BY <3>2, <3>3
    <3> QED BY <3>1, <3>3, <3>4
  <2> DEFINE h == [s \in UpTo(m + 1) |-> Next(g, s)]
  <2>3. h \in [UpTo(m + 1) -> X]
    <3>1. \A s \in UpTo(m + 1) : Next(g, s) \in X
      <4> SUFFICES ASSUME NEW s \in UpTo(m + 1), s # {} PROVE Next(g, s) \in X
        OBVIOUS
      <4>1. g[s \ {Max(s)}] \in X /\ Max(s) \in 1 .. n
        BY <2>1, <2>2
      <4> HIDE DEF UpTo
      <4> QED BY <4>1
    <3> HIDE DEF Next, UpTo
    <3> QED BY <3>1
  <2>4. \A s \in UpTo(m) : s \in UpTo(m + 1)
    BY <1>0
  <2>5. \A s \in UpTo(m) : h[s] = g[s]
    <3> HIDE DEF UpTo, Next
    <3> QED BY <2>1, <2>4
  <2>6. ASSUME NEW s \in UpTo(m + 1) PROVE h[s] = Next(h, s)
    <3>1. h[s] = Next(g, s)
      OBVIOUS
    <3>2. s # {} => g[s \ {Max(s)}] = h[s \ {Max(s)}]
      <4> HIDE DEF h, UpTo
      <4> QED BY <2>2, <2>5
    <3> HIDE DEF h, UpTo
    <3> QED BY <3>1, <3>2
  <2> HIDE DEF h, Next, UpTo
  <2> QED BY <2>3, <2>6
<1>3. Cardinality(S) \in N
  <2> HIDE DEF N, S
  <2> QED BY <1>0, <1>1, <1>2, AllNaturals
<1>4. UpTo(Cardinality(S)) = SUBSET S
  <2> HIDE DEF S
  <2> QED BY <1>0, FS_Subset
<1>5. PICK g : g \in [UpTo(Cardinality(S)) -> X] /\ \A s \in UpTo(Cardinality(S)) : g[s] = Next(g, s)
  BY <1>3
<1>6. FoldsTo(g, n, X, a, step)
  <2> HIDE DEF UpTo
  <2> QED BY <1>4, <1>5 DEF FoldsTo
<1> QED BY <1>6

\* What holds of nothing, and of the first k indices when it holds of those
\* below, holds of all.
LEMMA Upwards ==
  ASSUME NEW n \in Nat, NEW P, 0 \in P, \A k \in 1 .. n : k - 1 \in P => k \in P
  PROVE  n \in P
<1> DEFINE N == {k \in Nat : k <= n => k \in P}
<1>1. 0 \in N
  OBVIOUS
<1>2. ASSUME NEW k \in Nat, k \in N PROVE k + 1 \in N
  <2> SUFFICES ASSUME k + 1 <= n PROVE k + 1 \in P
    OBVIOUS
  <2>1. k + 1 \in 1 .. n /\ (k + 1) - 1 = k /\ k \in P
    BY <1>2
  <2> QED BY <2>1
<1>3. n \in N
  <2> HIDE DEF N
  <2> QED BY <1>1, <1>2, AllNaturals
<1> QED BY <1>3

(* How many come before an element, in a strict order of a finite set. *)
StrictOrder(A, R) ==
  /\ \A i, j, k \in A : <<i, j>> \in R /\ <<j, k>> \in R => <<i, k>> \in R
  /\ \A i \in A : <<i, i>> \notin R
  /\ \A i, j \in A : i # j => <<i, j>> \in R \/ <<j, i>> \in R

Preceding(A, R, i) == {j \in A : <<j, i>> \in R}

\* Where a strict order stands an element is as many as come before it, and no two share a place.
LEMMA Places ==
  ASSUME NEW A, IsFiniteSet(A), NEW R, StrictOrder(A, R)
  PROVE  \A k \in 0 .. (Cardinality(A) - 1) : \E i \in A : Cardinality(Preceding(A, R, i)) = k
<1> DEFINE Rank(i) == Cardinality(Preceding(A, R, i))
<1>0. Cardinality(A) \in Nat /\ \A i \in A : IsFiniteSet(Preceding(A, R, i)) /\ Rank(i) \in Nat
  BY FS_CardinalityType, FS_Subset DEF Preceding
<1>1. ASSUME NEW i \in A, NEW j \in A, <<i, j>> \in R
      PROVE  Rank(i) < Rank(j)
  <2>1. Preceding(A, R, i) \cup {i} \in SUBSET Preceding(A, R, j) /\ i \notin Preceding(A, R, i)
    BY <1>1 DEF StrictOrder, Preceding
  <2>2. Cardinality(Preceding(A, R, i) \cup {i}) = Rank(i) + 1
    BY <1>0, <2>1, FS_AddElement
  <2>3. Cardinality(Preceding(A, R, i) \cup {i}) <= Rank(j)
    BY <1>0, <2>1, FS_Subset
  <2> QED BY <1>0, <2>2, <2>3
<1>2. ASSUME NEW i \in A
      PROVE  Rank(i) \in 0 .. (Cardinality(A) - 1)
  <2>1. Preceding(A, R, i) \in SUBSET (A \ {i})
    BY DEF Preceding, StrictOrder
  <2>2. IsFiniteSet(A \ {i}) /\ Cardinality(A \ {i}) = Cardinality(A) - 1
    BY FS_RemoveElement
  <2>3. Rank(i) <= Cardinality(A) - 1
    BY <2>1, <2>2, FS_Subset
  <2> QED BY <1>0, <2>3
<1>3. ASSUME NEW k \in 0 .. (Cardinality(A) - 1)
      PROVE  \E i \in A : Rank(i) = k
  <2> DEFINE K == 0 .. (Cardinality(A) - 1)
             r == [i \in A |-> Rank(i)]
  <2>1. IsFiniteSet(K) /\ Cardinality(K) = Cardinality(A)
    BY <1>0, <1>3, FS_Interval
  <2>2. r \in [A -> K]
    BY <1>2
  <2>3. \A i, j \in A : r[i] = r[j] => i = j
    <3> SUFFICES ASSUME NEW i \in A, NEW j \in A, i # j PROVE r[i] # r[j]
      OBVIOUS
    <3>1. <<i, j>> \in R \/ <<j, i>> \in R
      BY DEF StrictOrder
    <3>2. Rank(i) # Rank(j)
      BY <1>0, <1>1, <3>1
    <3> QED BY <3>2
  <2>4. r \in Injection(A, K)
    BY <2>2, <2>3 DEF Injection, IsInjective
  <2>5. r \in Surjection(A, K)
    <3> HIDE DEF r, K
    <3> QED BY <2>1, <2>4, FS_Injection
  <2> QED BY <2>5 DEF Surjection
<1> QED BY <1>3

\* Whoever has place k is the one a CHOOSE finds.
LEMMA Foremost ==
  ASSUME NEW A, IsFiniteSet(A), A # {}, NEW R, StrictOrder(A, R)
  PROVE  \E i \in A : \A j \in A : i = j \/ <<i, j>> \in R
<1>1. Cardinality(A) \in Nat /\ Cardinality(A) # 0
  BY FS_CardinalityType, FS_EmptySet
<1>2. PICK i \in A : Cardinality(Preceding(A, R, i)) = 0
  BY <1>1, Places
<1>3. Preceding(A, R, i) = {}
  <2>1. IsFiniteSet(Preceding(A, R, i))
    BY FS_Subset DEF Preceding
  <2> QED BY <1>2, <2>1, FS_EmptySet
<1> QED BY <1>3 DEF Preceding, StrictOrder

\* What a sequence is indexed by, and how many.
LEMMA IndicesAre ==
  ASSUME NEW Y, NEW s \in Seq(Y)
  PROVE  /\ DOMAIN s = 1 .. Len(s) /\ Len(s) \in Nat
         /\ IsFiniteSet(DOMAIN s) /\ Cardinality(DOMAIN s) = Len(s)
         /\ \A i \in DOMAIN s : s[i] \in Y /\ i \in Nat
         /\ \A S \in SUBSET (DOMAIN s) :
              IsFiniteSet(S) /\ Cardinality(S) \in Nat /\ Cardinality(S) <= Len(s)
<1>1. DOMAIN s = 1 .. Len(s) /\ Len(s) \in Nat /\ \A i \in 1 .. Len(s) : s[i] \in Y
  OBVIOUS
<1> DEFINE A == DOMAIN s
           n == Len(s)
<1>2. A = 1 .. n /\ n \in Nat
  BY <1>1
<1> HIDE DEF A, n
<1>3. IsFiniteSet(A) /\ Cardinality(A) = n
  BY <1>2, FS_Interval
<1>4. \A S \in SUBSET A : IsFiniteSet(S) /\ Cardinality(S) \in Nat /\ Cardinality(S) <= n
  BY <1>3, FS_Subset, FS_CardinalityType
<1> QED BY <1>1, <1>3, <1>4 DEF A, n

\* Where members may lie, and what they score there.
Terrain(Y) == Y \subseteq Int /\ \A p \in Y : Value[p] \in Int

\* Sorting keeps the members and how many they are.
LEMMA SortedIs ==
  ASSUME NEW Y, Terrain(Y), NEW ms \in Seq(Y)
  PROVE  Sorted(ms) \in Seq(Y) /\ Len(Sorted(ms)) = Len(ms)
<1> DEFINE A == DOMAIN ms
           R == {p \in A \X A : \/ Value[ms[p[1]]] < Value[ms[p[2]]]
                                \/ Value[ms[p[1]]] = Value[ms[p[2]]] /\ p[1] < p[2]}
<1>1. A = 1 .. Len(ms) /\ Len(ms) \in Nat /\ IsFiniteSet(A) /\ Cardinality(A) = Len(ms)
  <2>1. A = 1 .. Len(ms) /\ Len(ms) \in Nat
    OBVIOUS
  <2> HIDE DEF A
  <2> QED BY <2>1, FS_Interval
<1>2. \A i \in A : ms[i] \in Y /\ i \in Int /\ Value[ms[i]] \in Int
  <2>1. \A i \in 1 .. Len(ms) : ms[i] \in Y /\ i \in Int
    OBVIOUS
  <2>2. \A y \in Y : Value[y] \in Int
    BY DEF Terrain
  <2> HIDE DEF A, R
  <2> QED BY <1>1, <2>1, <2>2
<1>3. StrictOrder(A, R)
  <2> DEFINE w(i) == Value[ms[i]]
             Above(i, j) == w(i) < w(j) \/ (w(i) = w(j) /\ i < j)
  <2>1. \A i, j \in A : <<i, j>> \in R <=> Above(i, j)
    <3> HIDE DEF A
    <3> QED OBVIOUS
  <2>2. \A i \in A : i \in Int /\ w(i) \in Int
    BY <1>2
  <2> HIDE DEF A, R, w
  <2>3. ASSUME NEW i \in A, NEW j \in A, NEW k \in A, Above(i, j), Above(j, k)
        PROVE  Above(i, k)
    BY <2>2, <2>3
  <2>4. \A i \in A : ~Above(i, i)
    BY <2>2
  <2>5. \A i, j \in A : i # j => Above(i, j) \/ Above(j, i)
    BY <2>2
  <2> HIDE DEF Above
  <2> QED BY <2>1, <2>3, <2>4, <2>5 DEF StrictOrder
<1>4. \A i \in A : Standing(ms, i) = Cardinality(Preceding(A, R, i))
  <2> SUFFICES ASSUME NEW i \in A PROVE Standing(ms, i) = Cardinality(Preceding(A, R, i))
    OBVIOUS
  <2>1. Preceding(A, R, i) =
          {j \in A : Value[ms[j]] < Value[ms[i]] \/ (Value[ms[j]] = Value[ms[i]] /\ j < i)}
    <3> HIDE DEF A
    <3> QED BY DEF Preceding
  <2> HIDE DEF R
  <2> QED BY <2>1 DEF Standing
<1> HIDE DEF R
<1>5. ASSUME NEW k \in A
      PROVE  ms[CHOOSE i \in A : Standing(ms, i) = k - 1] \in Y
  <2>1. k - 1 \in 0 .. (Cardinality(A) - 1)
    BY <1>1
  <2>2. \E i \in A : Standing(ms, i) = k - 1
    <3> HIDE DEF A
    <3> QED BY <1>1, <1>3, <1>4, <2>1, Places
  <2> HIDE DEF A
  <2> QED BY <1>2, <2>2
<1>6. Sorted(ms) = [k \in 1 .. Len(ms) |-> ms[CHOOSE i \in A : Standing(ms, i) = k - 1]]
  BY <1>1 DEF Sorted
<1> HIDE DEF A
<1> QED BY <1>1, <1>5, <1>6

\* The members at some indices, in order: as many as the indices.
LEMMA AtIs ==
  ASSUME NEW Y, NEW ms \in Seq(Y), NEW I \in SUBSET (DOMAIN ms)
  PROVE  At(ms, I) \in Seq(Y) /\ Len(At(ms, I)) = Cardinality(I) /\ Cardinality(I) \in Nat
         /\ Cardinality(I) <= Len(ms) /\ IsFiniteSet(I)
<1>1. DOMAIN ms = 1 .. Len(ms) /\ Len(ms) \in Nat
  OBVIOUS
<1>2. IsFiniteSet(DOMAIN ms) /\ Cardinality(DOMAIN ms) = Len(ms)
  <2> DEFINE A == DOMAIN ms
  <2>1. A = 1 .. Len(ms) /\ Len(ms) \in Nat
    BY <1>1
  <2> HIDE DEF A
  <2>2. IsFiniteSet(A) /\ Cardinality(A) = Len(ms)
    BY <2>1, FS_Interval
  <2> QED BY <2>2 DEF A
<1>3. IsFiniteSet(I) /\ Cardinality(I) \in Nat /\ Cardinality(I) <= Len(ms)
  BY <1>2, FS_Subset, FS_CardinalityType
<1>4. I \in SUBSET Int
  BY <1>1
<1> DEFINE member(k) == ms[CHOOSE i \in I : Cardinality({j \in I : j < i}) = k - 1]
<1>5. ASSUME NEW k \in 1 .. Cardinality(I)
      PROVE  member(k) \in Y
  <2>1. k - 1 \in 0 .. (Cardinality(I) - 1)
    BY <1>3
  <2>2. \E i \in I : Cardinality({j \in I : j < i}) = k - 1
    BY <1>3, <1>4, <2>1, Ranking DEF Before
  <2>3. \A i \in I : ms[i] \in Y
    BY <1>1
  <2> QED BY <2>2, <2>3
<1>7. At(ms, I) = [k \in 1 .. Cardinality(I) |-> member(k)]
  BY DEF At
<1>6. At(ms, I) \in Seq(Y) /\ Len(At(ms, I)) = Cardinality(I)
  <2> HIDE DEF member
  <2> QED BY <1>3, <1>5, <1>7
<1> QED BY <1>3, <1>6

\* The first n, or as many as there are.
LEMMA FirstIs ==
  ASSUME NEW Y, NEW ms \in Seq(Y), NEW k \in Nat
  PROVE  First(ms, k) \in Seq(Y) /\ Len(First(ms, k)) = IF k < Len(ms) THEN k ELSE Len(ms)
BY DEF First

\* The elites and the best of the offspring are a population.
LEMMA ElitesCount ==
  ASSUME NEW Y, Terrain(Y), NEW m, m.size \in Nat, m.elite \in 0 .. m.size,
         NEW parents \in Seq(Y), Len(parents) = m.size, NEW offspring \in Seq(Y), Len(offspring) = m.size
  PROVE  /\ ElitesAndBest(m, parents, offspring) \in Seq(Y)
         /\ Len(ElitesAndBest(m, parents, offspring)) = m.size
<1> DEFINE p == First(Sorted(parents), m.elite)
           o == First(Sorted(offspring), m.size - m.elite)
<1>1. p \in Seq(Y) /\ Len(p) = m.elite
  BY SortedIs, FirstIs
<1>2. m.size - m.elite \in Nat /\ m.size - m.elite <= m.size
  OBVIOUS
<1>3. o \in Seq(Y) /\ Len(o) = m.size - m.elite
  <2>1. Sorted(offspring) \in Seq(Y) /\ Len(Sorted(offspring)) = m.size
    BY SortedIs
  <2> QED BY <1>2, <2>1, FirstIs
<1>4. p \o o \in Seq(Y) /\ Len(p \o o) = m.size
  <2> HIDE DEF p, o
  <2> QED BY <1>1, <1>3
<1> HIDE DEF p, o
<1>5. Sorted(p \o o) \in Seq(Y) /\ Len(Sorted(p \o o)) = m.size
  BY <1>4, SortedIs
<1> QED BY <1>5 DEF p, o, ElitesAndBest

(* Clearing: who wins, and who fills up. *)
Won(m, pool, won, i) ==
  IF Cardinality({w \in won : Apart(pool[i], pool[w]) < m.radius}) < m.niche THEN won \cup {i} ELSE won

\* The winners of a clearing are places of the pool.
LEMMA WinnersAre ==
  ASSUME NEW m, m.niche \in Nat \ {0}, NEW Y, NEW pool \in Seq(Y), pool # << >>
  PROVE  Winners(m, pool) \in SUBSET (DOMAIN pool) /\ Winners(m, pool) # {}
<1> DEFINE n == Len(pool)
           X == SUBSET (1 .. n)
           step == [p \in X \X (1 .. n) |-> Won(m, pool, p[1], p[2])]
           Folds(c) == c = [s \in SUBSET (DOMAIN pool) |->
                              IF s = {} THEN {}
                              ELSE Won(m, pool, c[s \ {Max(s)}], [i \in DOMAIN pool |-> i][Max(s)])]
           c == CHOOSE f : Folds(f)
<1>0. n \in Nat \ {0} /\ DOMAIN pool = 1 .. n
  OBVIOUS
<1>1. Winners(m, pool) = c[DOMAIN pool]
  BY DEF Winners, FoldLeft, MapThenFoldSet, Won
<1>2. step \in [X \X (1 .. n) -> X] /\ {} \in X
  BY DEF Won
<1>3. PICK g : FoldsTo(g, n, X, {}, step)
  <2> HIDE DEF step, X
  <2> QED BY <1>0, <1>2, FoldFunctionExists
<1>4. \A s \in SUBSET (1 .. n) : s # {} => Max(s) \in 1 .. n /\ s \ {Max(s)} \in SUBSET (1 .. n)
  <2> HIDE DEF n
  <2> QED BY <1>0, HighestOf
<1>5. Folds(g)
  <2>1. g \in [SUBSET (1 .. n) -> X]
        /\ \A s \in SUBSET (1 .. n) : g[s] = IF s = {} THEN {} ELSE step[<<g[s \ {Max(s)}], Max(s)>>]
    BY <1>3 DEF FoldsTo
  <2>2. ASSUME NEW s \in SUBSET (1 .. n), s # {}
        PROVE  g[s] = Won(m, pool, g[s \ {Max(s)}], [i \in 1 .. n |-> i][Max(s)])
    <3>1. Max(s) \in 1 .. n /\ g[s \ {Max(s)}] \in X
      <4> HIDE DEF X, step, n
      <4> QED BY <1>4, <2>1, <2>2
    <3>2. g[s] = step[<<g[s \ {Max(s)}], Max(s)>>]
      <4> HIDE DEF X, step, n
      <4> QED BY <2>1, <2>2
    <3>3. [i \in 1 .. n |-> i][Max(s)] = Max(s)
      BY <3>1
    <3> HIDE DEF X, n
    <3> QED BY <3>1, <3>2, <3>3
  <2>3. g = [s \in SUBSET (1 .. n) |->
               IF s = {} THEN {} ELSE Won(m, pool, g[s \ {Max(s)}], [i \in 1 .. n |-> i][Max(s)])]
    <3> HIDE DEF X, step, n
    <3> QED BY <2>1, <2>2
  <2> HIDE DEF step, X, n
  <2> QED BY <1>0, <2>3
<1>6. Folds(c)
  <2> HIDE DEF Folds
  <2> QED BY <1>5
<1> HIDE DEF c
<1>7. \A s \in SUBSET (1 .. n) :
        c[s] = IF s = {} THEN {} ELSE Won(m, pool, c[s \ {Max(s)}], [i \in 1 .. n |-> i][Max(s)])
  <2> HIDE DEF n
  <2> QED BY <1>0, <1>6
<1> HIDE DEF Folds, step, X
<1> DEFINE P == {k \in 0 .. n : c[1 .. k] \in SUBSET (1 .. n) /\ (k # 0 => c[1 .. k] # {})}
<1> HIDE DEF n
<1>8. 0 \in P
  <2>1. 1 .. 0 = {} /\ {} \in SUBSET (1 .. n) /\ 0 \in 0 .. n
    BY <1>0
  <2>2. c[{}] = {}
    BY <1>7, <2>1
  <2> QED BY <2>1, <2>2
<1>9. ASSUME NEW k \in 1 .. n, k - 1 \in P PROVE k \in P
  <2> DEFINE won == c[1 .. (k - 1)]
  <2>1. won \in SUBSET (1 .. n)
    BY <1>9
  <2>2. Max(1 .. k) = k /\ (1 .. k) \ {k} = 1 .. (k - 1) /\ 1 .. k \in SUBSET (1 .. n) /\ 1 .. k # {}
    BY <1>0, HighestIs
  <2>3. c[1 .. k] = Won(m, pool, won, [i \in 1 .. n |-> i][k])
    BY <1>7, <2>2
  <2>4. c[1 .. k] = Won(m, pool, won, k)
    BY <2>3
  <2> DEFINE next == c[1 .. k]
  <2> HIDE DEF won, next, P
  <2>5. next \in {won, won \cup {k}}
    BY <2>4 DEF Won, next
  <2>6. next # {}
    <3> SUFFICES ASSUME won = {} PROVE next = won \cup {k}
      BY <2>5
    <3>1. Cardinality({w \in won : Apart(pool[k], pool[w]) < m.radius}) = 0
      BY FS_EmptySet
    <3>2. 0 < m.niche
      OBVIOUS
    <3> QED BY <2>4, <3>1, <3>2 DEF Won, next
  <2>7. next \in SUBSET (1 .. n) /\ k \in 0 .. n
    BY <1>0, <2>1, <2>5
  <2> QED BY <2>6, <2>7 DEF P, next
<1>10. n \in P
  <2> HIDE DEF P
  <2> QED BY <1>0, <1>8, <1>9, Upwards
<1> QED BY <1>0, <1>1, <1>10

\* Distances are natural numbers.
LEMMA ApartIs == \A a, b \in Int : Apart(a, b) \in Nat
BY DEF Apart

\* The nearest of some chosen ones is a distance.
LEMMA NearestIs ==
  ASSUME NEW Y, Terrain(Y), NEW pool \in Seq(Y), NEW i \in DOMAIN pool,
         NEW chosen \in SUBSET (DOMAIN pool), chosen # {}
  PROVE  Closest(pool, i, chosen) \in Nat
<1> DEFINE D == {Apart(pool[i], pool[c]) : c \in chosen}
<1>1. \A j \in DOMAIN pool : pool[j] \in Int
  BY IndicesAre DEF Terrain
<1>2. D \in SUBSET Nat /\ D # {}
  BY <1>1, ApartIs
<1>3. PICK d \in D : \A x \in D : d <= x
  <2> HIDE DEF D
  <2> QED BY <1>2, LeastNatural
<1>4. \A c \in chosen : d <= Apart(pool[i], pool[c])
  BY <1>3
<1>5. Closest(pool, i, chosen) \in D
  <2> DEFINE Nears(x) == \A c \in chosen : x <= Apart(pool[i], pool[c])
  <2>1. \E x \in D : Nears(x)
    BY <1>4
  <2>2. Closest(pool, i, chosen) = CHOOSE x \in D : Nears(x)
    BY DEF Closest
  <2> HIDE DEF Nears, D
  <2> QED BY <2>1, <2>2
<1> HIDE DEF D
<1> QED BY <1>2, <1>5

\* The most diverse of the others is one of the others.
LEMMA NextDiverseIs ==
  ASSUME NEW Y, Terrain(Y), NEW pool \in Seq(Y),
         NEW chosen \in SUBSET (DOMAIN pool), chosen # {}, chosen # DOMAIN pool
  PROVE  NextDiverse(pool, chosen) \in DOMAIN pool \ chosen
<1> DEFINE rest == DOMAIN pool \ chosen
           near(i) == Closest(pool, i, chosen)
           less(i) == 0 - Value[pool[i]]
           Behind(j, i) == near(j) < near(i) \/ (near(j) = near(i) /\ less(j) < less(i))
           R == {p \in rest \X rest : \/ Behind(p[2], p[1])
                                      \/ near(p[1]) = near(p[2]) /\ less(p[1]) = less(p[2]) /\ p[1] < p[2]}
           Leads(i) == \A j \in rest : Behind(j, i) \/ (<<near(j), less(j)>> = <<near(i), less(i)>> /\ i <= j)
<1>1. IsFiniteSet(rest) /\ rest # {} /\ \A i \in rest : i \in Int
  <2>1. IsFiniteSet(DOMAIN pool) /\ \A i \in DOMAIN pool : i \in Nat
    BY IndicesAre
  <2>2. rest \in SUBSET (DOMAIN pool) /\ rest # {}
    OBVIOUS
  <2>3. IsFiniteSet(rest)
    BY <2>1, <2>2, FS_Subset
  <2>4. \A i \in rest : i \in Int
    BY <2>1
  <2> QED BY <2>2, <2>3, <2>4
<1>2. \A i \in rest : near(i) \in Int /\ less(i) \in Int
  <2> SUFFICES ASSUME NEW i \in rest PROVE near(i) \in Int /\ less(i) \in Int
    OBVIOUS
  <2>1. near(i) \in Nat
    BY NearestIs
  <2>2. pool[i] \in Y
    BY IndicesAre
  <2>3. Value[pool[i]] \in Int
    BY <2>2 DEF Terrain
  <2> QED BY <2>1, <2>3
<1> HIDE DEF near, less
<1>3. StrictOrder(rest, R)
  <2> HIDE DEF rest
  <2>1. \A i, j \in rest : <<i, j>> \in R <=>
          Behind(j, i) \/ (near(i) = near(j) /\ less(i) = less(j) /\ i < j)
    OBVIOUS
  <2> HIDE DEF R
  <2>2. ASSUME NEW i \in rest, NEW j \in rest, NEW k \in rest, <<i, j>> \in R, <<j, k>> \in R
        PROVE  <<i, k>> \in R
    <3>1. /\ near(i) \in Int /\ near(j) \in Int /\ near(k) \in Int
          /\ less(i) \in Int /\ less(j) \in Int /\ less(k) \in Int
          /\ i \in Int /\ j \in Int /\ k \in Int
      BY <1>1, <1>2
    <3>2. Behind(j, i) \/ (near(i) = near(j) /\ less(i) = less(j) /\ i < j)
      BY <2>1, <2>2
    <3>3. Behind(k, j) \/ (near(j) = near(k) /\ less(j) = less(k) /\ j < k)
      BY <2>1, <2>2
    <3>4. Behind(k, i) \/ (near(i) = near(k) /\ less(i) = less(k) /\ i < k)
      BY <3>1, <3>2, <3>3
    <3> QED BY <2>1, <3>4
  <2>3. \A i \in rest : <<i, i>> \notin R
    BY <1>1, <1>2, <2>1
  <2>4. \A i, j \in rest : i # j => <<i, j>> \in R \/ <<j, i>> \in R
    BY <1>1, <1>2, <2>1
  <2> QED BY <2>2, <2>3, <2>4 DEF StrictOrder
<1>4. PICK i \in rest : \A j \in rest : i = j \/ <<i, j>> \in R
  <2> HIDE DEF rest, R
  <2> QED BY <1>1, <1>3, Foremost
<1>5. Leads(i)
  <2> SUFFICES ASSUME NEW j \in rest
               PROVE  Behind(j, i) \/ (<<near(j), less(j)>> = <<near(i), less(i)>> /\ i <= j)
    OBVIOUS
  <2>1. i = j \/ Behind(j, i) \/ (near(i) = near(j) /\ less(i) = less(j) /\ i < j)
    BY <1>4
  <2> HIDE DEF rest
  <2> QED BY <1>1, <2>1
<1>6. NextDiverse(pool, chosen) = CHOOSE x \in rest : Leads(x)
  <2> USE DEF near, less
  <2> QED BY DEF NextDiverse
<1>7. (CHOOSE x \in rest : Leads(x)) \in rest
  <2> HIDE DEF Leads, rest
  <2> QED BY <1>5
<1> QED BY <1>6, <1>7

Filled(pool, chosen) == IF chosen = DOMAIN pool THEN chosen ELSE chosen \cup {NextDiverse(pool, chosen)}

\* Filling up adds as many as asked for, while there are others.
LEMMA BackfillIs ==
  ASSUME NEW Y, Terrain(Y), NEW pool \in Seq(Y), NEW won \in SUBSET (DOMAIN pool), won # {},
         NEW count \in Nat, Cardinality(won) + count <= Len(pool)
  PROVE  /\ DiverseBackfill(pool, won, count) \in SUBSET (DOMAIN pool)
         /\ Cardinality(DiverseBackfill(pool, won, count)) = Cardinality(won) + count
<1> DEFINE D == DOMAIN pool
           X == (SUBSET D) \ {{}}
           step == [p \in X \X (1 .. count) |-> Filled(pool, p[1])]
           Folds(c) == c = [s \in SUBSET (1 .. count) |->
                              IF s = {} THEN won ELSE Filled(pool, c[s \ {Max(s)}])]
           c == CHOOSE f : Folds(f)
<1>0. /\ IsFiniteSet(D) /\ Cardinality(D) = Len(pool)
      /\ \A S \in SUBSET D : IsFiniteSet(S) /\ Cardinality(S) \in Nat
  BY IndicesAre
<1>1. DiverseBackfill(pool, won, count) = c[1 .. count]
  BY DEF DiverseBackfill, FoldLeft, MapThenFoldSet, Filled
<1>2. \A S \in X : Filled(pool, S) \in X /\ (S # D => Cardinality(Filled(pool, S)) = Cardinality(S) + 1)
  <2> SUFFICES ASSUME NEW S \in X, S # D
               PROVE  Filled(pool, S) \in X /\ Cardinality(Filled(pool, S)) = Cardinality(S) + 1
    BY DEF Filled
  <2>1. NextDiverse(pool, S) \in D \ S
    BY NextDiverseIs
  <2>2. Filled(pool, S) = S \cup {NextDiverse(pool, S)}
    BY DEF Filled
  <2> HIDE DEF D
  <2> QED BY <1>0, <2>1, <2>2, FS_AddElement
<1>3. step \in [X \X (1 .. count) -> X] /\ won \in X
  BY <1>2
<1>4. PICK g : FoldsTo(g, count, X, won, step)
  <2> HIDE DEF step, X
  <2> QED BY <1>3, FoldFunctionExists
<1>5. Folds(g)
  <2>1. g \in [SUBSET (1 .. count) -> X]
        /\ \A s \in SUBSET (1 .. count) : g[s] = IF s = {} THEN won ELSE step[<<g[s \ {Max(s)}], Max(s)>>]
    BY <1>4 DEF FoldsTo
  <2>2. ASSUME NEW s \in SUBSET (1 .. count), s # {}
        PROVE  g[s] = Filled(pool, g[s \ {Max(s)}])
    <3>1. Max(s) \in 1 .. count /\ g[s \ {Max(s)}] \in X
      <4> HIDE DEF X, step
      <4> QED BY <2>1, <2>2, HighestOf
    <3>2. g[s] = step[<<g[s \ {Max(s)}], Max(s)>>]
      <4> HIDE DEF X, step
      <4> QED BY <2>1, <2>2
    <3> HIDE DEF X
    <3> QED BY <3>1, <3>2
  <2> HIDE DEF X, step
  <2> QED BY <2>1, <2>2
<1>6. Folds(c)
  <2> HIDE DEF Folds
  <2> QED BY <1>5
<1> HIDE DEF c
<1>7. \A s \in SUBSET (1 .. count) : c[s] = IF s = {} THEN won ELSE Filled(pool, c[s \ {Max(s)}])
  BY <1>6
<1> HIDE DEF Folds, step
<1> DEFINE P == {k \in 0 .. count : c[1 .. k] \in X /\ Cardinality(c[1 .. k]) = Cardinality(won) + k}
<1>8. 0 \in P
  <2>1. 1 .. 0 = {} /\ {} \in SUBSET (1 .. count) /\ 0 \in 0 .. count
    OBVIOUS
  <2>2. c[1 .. 0] = won
    BY <1>7, <2>1
  <2>3. Cardinality(won) = Cardinality(won) + 0
    BY <1>0
  <2> HIDE DEF X
  <2> QED BY <1>3, <2>1, <2>2, <2>3
<1>9. ASSUME NEW k \in 1 .. count, k - 1 \in P PROVE k \in P
  <2> DEFINE S == c[1 .. (k - 1)]
             next == c[1 .. k]
  <2>1. S \in X /\ Cardinality(S) = Cardinality(won) + (k - 1)
    BY <1>9
  <2>2. Max(1 .. k) = k /\ (1 .. k) \ {k} = 1 .. (k - 1) /\ 1 .. k \in SUBSET (1 .. count) /\ 1 .. k # {}
    BY HighestIs
  <2>3. next = Filled(pool, S)
    BY <1>7, <2>2
  <2> HIDE DEF S, next
  <2>4. S # D
    <3>1. Cardinality(S) < Len(pool)
      BY <1>0, <2>1
    <3> HIDE DEF D
    <3> QED BY <1>0, <3>1
  <2>5. next \in X /\ Cardinality(next) = Cardinality(S) + 1
    <3> HIDE DEF X, D
    <3> QED BY <1>2, <2>1, <2>3, <2>4
  <2>6. k \in 0 .. count /\ Cardinality(next) = Cardinality(won) + k
    <3>1. Cardinality(won) \in Nat
      BY <1>0
    <3> QED BY <2>1, <2>5, <3>1
  <2> HIDE DEF X
  <2> QED BY <2>5, <2>6 DEF next
<1>10. count \in P
  <2> HIDE DEF P
  <2> QED BY <1>8, <1>9, Upwards
<1> QED BY <1>1, <1>10

\* Clearing leaves a population as large as before.
LEMMA ClearedCount ==
  ASSUME NEW Y, Terrain(Y), NEW m, m.size \in Nat \ {0}, m.niche \in Nat \ {0},
         NEW parents \in Seq(Y), Len(parents) = m.size, NEW offspring \in Seq(Y), Len(offspring) = m.size
  PROVE  Cleared(m, parents, offspring) \in Seq(Y) /\ Len(Cleared(m, parents, offspring)) = m.size
<1> DEFINE pool == Sorted(parents \o offspring)
           won  == Winners(m, pool)
<1>1. pool \in Seq(Y) /\ Len(pool) = m.size + m.size
  <2>1. parents \o offspring \in Seq(Y) /\ Len(parents \o offspring) = m.size + m.size
    OBVIOUS
  <2> QED BY <2>1, SortedIs
<1> HIDE DEF pool
<1>2. won \in SUBSET (DOMAIN pool) /\ won # {}
  <2>1. pool # << >>
    BY <1>1
  <2> QED BY <1>1, <2>1, WinnersAre
<1> HIDE DEF won
<1>3. CASE Cardinality(won) >= m.size
  <2>1. Cleared(m, parents, offspring) = First(At(pool, won), m.size)
    BY <1>3 DEF Cleared, pool, won
  <2>2. At(pool, won) \in Seq(Y) /\ Len(At(pool, won)) = Cardinality(won) /\ Cardinality(won) \in Nat
    BY <1>1, <1>2, AtIs
  <2> DEFINE s == At(pool, won)
  <2> HIDE DEF s
  <2>3. First(s, m.size) \in Seq(Y) /\ Len(First(s, m.size)) = IF m.size < Len(s) THEN m.size ELSE Len(s)
    BY <2>2, FirstIs DEF s
  <2> QED BY <1>3, <2>1, <2>2, <2>3 DEF s
<1>4. CASE ~(Cardinality(won) >= m.size)
  <2> DEFINE count == m.size - Cardinality(won)
             S == DiverseBackfill(pool, won, count)
  <2>1. Cleared(m, parents, offspring) = Sorted(At(pool, S))
    BY <1>4 DEF Cleared, pool, won
  <2>2. Cardinality(won) \in Nat
    BY <1>1, <1>2, AtIs
  <2>3. count \in Nat /\ Cardinality(won) + count = m.size /\ m.size <= Len(pool)
    BY <1>1, <1>4, <2>2
  <2> HIDE DEF count
  <2>4. S \in SUBSET (DOMAIN pool) /\ Cardinality(S) = m.size
    <3>1. /\ pool \in Seq(Y) /\ won \in SUBSET (DOMAIN pool) /\ won # {} /\ count \in Nat
          /\ Cardinality(won) + count <= Len(pool)
      BY <1>1, <1>2, <2>3
    <3> HIDE DEF pool, won
    <3>2. S \in SUBSET (DOMAIN pool) /\ Cardinality(S) = Cardinality(won) + count
      BY Zenon, <3>1, BackfillIs
    <3> QED BY <2>3, <3>2
  <2> HIDE DEF S
  <2>5. At(pool, S) \in Seq(Y) /\ Len(At(pool, S)) = m.size
    BY <1>1, <2>4, AtIs
  <2> QED BY <2>1, <2>5, SortedIs
<1> QED BY <1>3, <1>4

(* Species conserving: who belongs to which species. *)
LEMMA FlattenCounts ==
  ASSUME NEW Y, NEW ss \in Seq(Seq(Y)), NEW parts, DOMAIN parts = DOMAIN ss,
         \A i \in DOMAIN ss : IsFiniteSet(parts[i]) /\ Cardinality(parts[i]) = Len(ss[i]),
         \A i, j \in DOMAIN ss : i # j => parts[i] \cap parts[j] = {}
  PROVE  Len(FlattenSeq(ss)) = Cardinality(UNION {parts[i] : i \in DOMAIN ss})
<1>1. CASE ss = << >>
  <2>1. FlattenSeq(ss) = << >> /\ DOMAIN ss = {}
    BY <1>1 DEF FlattenSeq
  <2>2. UNION {parts[i] : i \in DOMAIN ss} = {}
    BY <2>1
  <2> QED BY <2>1, <2>2, FS_EmptySet
<1>2. CASE ss # << >>
  <2> DEFINE n == Len(ss)
             f == CHOOSE f : IsFlatten(f, ss)
             U(k) == UNION {parts[i] : i \in 1 .. k}
  <2>1. n \in Nat \ {0} /\ DOMAIN ss = 1 .. n /\ \A i \in 1 .. n : ss[i] \in Seq(Y)
    BY <1>2
  <2>2. FlattenSeq(ss) = f[n]
    BY <2>1 DEF FlattenSeq, IsFlatten
  <2>3. IsFlatten(f, ss)
    BY <1>2, FlattenExists
  <2> HIDE DEF f
  <2>4. \A i \in 1 .. n : f[i] = IF i = 1 THEN ss[i] ELSE f[i - 1] \o ss[i]
    BY <2>3 DEF IsFlatten
  <2> HIDE DEF n
  <2> DEFINE P == {k \in 0 .. n : /\ IsFiniteSet(U(k))
                                  /\ k # 0 => f[k] \in Seq(Y) /\ Len(f[k]) = Cardinality(U(k))}
  <2>5. 0 \in P
    <3>1. U(0) = {} /\ 0 \in 0 .. n
      BY <2>1
    <3> HIDE DEF U
    <3> QED BY <3>1, FS_EmptySet
  <2>6. ASSUME NEW k \in 1 .. n, k - 1 \in P PROVE k \in P
    <3>1. U(k) = U(k - 1) \cup parts[k] /\ U(k - 1) \cap parts[k] = {}
      <4>1. 1 .. k = (1 .. (k - 1)) \cup {k} /\ k \notin 1 .. (k - 1) /\ 1 .. k \subseteq DOMAIN ss
        BY <2>1
      <4>2. \A i \in 1 .. (k - 1) : parts[i] \cap parts[k] = {}
        BY <4>1
      <4> QED BY <4>1, <4>2
    <3>2. IsFiniteSet(U(k - 1)) /\ IsFiniteSet(parts[k]) /\ Cardinality(parts[k]) = Len(ss[k]) /\ ss[k] \in Seq(Y)
      BY <2>1, <2>6
    <3>3. k = 1 => U(k - 1) = {}
      OBVIOUS
    <3>4. k # 1 => f[k - 1] \in Seq(Y) /\ Len(f[k - 1]) = Cardinality(U(k - 1))
      BY <2>6
    <3> HIDE DEF U, P
    <3>5. IsFiniteSet(U(k)) /\ Cardinality(U(k)) = Cardinality(U(k - 1)) + Cardinality(parts[k])
      <4>1. /\ IsFiniteSet(U(k - 1) \cup parts[k])
            /\ Cardinality(U(k - 1) \cup parts[k]) =
                 Cardinality(U(k - 1)) + Cardinality(parts[k]) - Cardinality(U(k - 1) \cap parts[k])
        BY <3>2, FS_Union
      <4>2. Cardinality(U(k - 1) \cap parts[k]) = 0
        BY <3>1, FS_EmptySet
      <4>3. Cardinality(U(k - 1)) \in Nat /\ Cardinality(parts[k]) \in Nat
        BY <3>2, FS_CardinalityType
      <4> QED BY <3>1, <4>1, <4>2, <4>3
    <3>6. f[k] = IF k = 1 THEN ss[k] ELSE f[k - 1] \o ss[k]
      BY <2>4
    <3>7. f[k] \in Seq(Y) /\ Len(f[k]) = Cardinality(U(k))
      <4>1. CASE k = 1
        <5>1. Cardinality(U(k - 1)) = 0 /\ Cardinality(parts[k]) \in Nat
          BY <3>2, <3>3, <4>1, FS_EmptySet, FS_CardinalityType
        <5> QED BY <3>2, <3>5, <3>6, <4>1, <5>1
      <4>2. CASE k # 1
        <5>1. f[k] = f[k - 1] \o ss[k] /\ f[k - 1] \in Seq(Y) /\ ss[k] \in Seq(Y)
          BY <3>2, <3>4, <3>6, <4>2
        <5>2. f[k - 1] \o ss[k] \in Seq(Y) /\ Len(f[k - 1] \o ss[k]) = Len(f[k - 1]) + Len(ss[k])
          BY <5>1
        <5> QED BY <3>2, <3>4, <3>5, <4>2, <5>1, <5>2
      <4> QED BY <4>1, <4>2
    <3> QED BY <2>1, <3>5, <3>7 DEF P
  <2>7. n \in P
    <3> HIDE DEF P
    <3> QED BY <2>1, <2>5, <2>6, Upwards
  <2> QED BY <2>1, <2>2, <2>7
<1> QED BY <1>1, <1>2

\* What is in a sequence with one more.
LEMMA AppendedRange ==
  \A Y : \A s \in Seq(Y), e \in Y :
    /\ Append(s, e) \in Seq(Y) /\ Len(Append(s, e)) = Len(s) + 1 /\ Append(s, e) # << >>
    /\ Range(Append(s, e)) = Range(s) \cup {e}
<1> SUFFICES ASSUME NEW Y, NEW s \in Seq(Y), NEW e \in Y
             PROVE  /\ Append(s, e) \in Seq(Y) /\ Len(Append(s, e)) = Len(s) + 1 /\ Append(s, e) # << >>
                    /\ Range(Append(s, e)) = Range(s) \cup {e}
  OBVIOUS
<1>1. /\ Append(s, e) = s \o <<e>> /\ <<e>> \in Seq(Y) /\ Append(s, e) \in Seq(Y)
      /\ Len(Append(s, e)) = Len(s) + 1 /\ Append(s, e) # << >>
  OBVIOUS
<1>2. Range(<<e>>) = {e}
  <2>1. DOMAIN <<e>> = {1} /\ <<e>>[1] = e
    OBVIOUS
  <2> QED BY <2>1 DEF Range
<1>3. Range(s \o <<e>>) = Range(s) \cup Range(<<e>>)
  <2>1. <<e>> \in Seq(Y)
    BY <1>1
  <2> QED BY Zenon, <2>1, JoinedIs
<1> QED BY Zenon, <1>1, <1>2, <1>3

\* The next index of a pool, appended to indices before it.
LEMMA AppendedIndex ==
  \A k \in Nat : \A q : q \in Seq(1 .. k) /\ k \in 1 .. k =>
    /\ Append(q, k) \in Seq(1 .. k) /\ Len(Append(q, k)) = Len(q) + 1 /\ Append(q, k) # << >>
    /\ Range(Append(q, k)) = Range(q) \cup {k}
<1> SUFFICES ASSUME NEW k \in Nat, NEW q, q \in Seq(1 .. k), k \in 1 .. k
             PROVE  /\ Append(q, k) \in Seq(1 .. k) /\ Len(Append(q, k)) = Len(q) + 1 /\ Append(q, k) # << >>
                    /\ Range(Append(q, k)) = Range(q) \cup {k}
  OBVIOUS
<1> DEFINE Z == 1 .. k
<1> HIDE DEF Z
<1>1. q \in Seq(Z) /\ k \in Z
  BY DEF Z
<1>2. /\ Append(q, k) \in Seq(Z) /\ Len(Append(q, k)) = Len(q) + 1 /\ Append(q, k) # << >>
      /\ Range(Append(q, k)) = Range(q) \cup {k}
  BY <1>1, AppendedRange
<1> QED BY <1>2 DEF Z

\* Species of the first k members: nobody is in two of them, or twice in one.
IsSpecies(found, k) ==
  /\ \A s \in DOMAIN found : /\ found[s] \in Seq(1 .. k) /\ found[s] # << >>
                             /\ IsFiniteSet(Range(found[s])) /\ Cardinality(Range(found[s])) = Len(found[s])
  /\ \A s, t \in DOMAIN found : s # t => Range(found[s]) \cap Range(found[t]) = {}

JoinedBy(m, pool, found, i) ==
  LET near == {s \in DOMAIN found : Apart(pool[i], pool[found[s][1]]) < m.radius}
      s    == CHOOSE x \in near : \A y \in near : x <= y
  IN  IF near = {} THEN Append(found, <<i>>)
      ELSE IF Len(found[s]) < m.niche THEN [found EXCEPT ![s] = Append(@, i)] ELSE found

\* A pool member founds a species, joins one, or is dropped.
Joins(found, i, joined) ==
  \/ joined = Append(found, <<i>>)
  \/ joined = found
  \/ \E s \in DOMAIN found : joined = [found EXCEPT ![s] = Append(@, i)]

\* One of the three, whoever is near.
LEMMA JoinCases ==
  ASSUME NEW m, NEW pool, NEW i, NEW Y, NEW found \in Seq(Y)
  PROVE  Joins(found, i, JoinedBy(m, pool, found, i))
<1> DEFINE near == {s \in DOMAIN found : Apart(pool[i], pool[found[s][1]]) < m.radius}
           s    == CHOOSE x \in near : \A y \in near : x <= y
<1>1. JoinedBy(m, pool, found, i) =
        IF near = {} THEN Append(found, <<i>>)
        ELSE IF Len(found[s]) < m.niche THEN [found EXCEPT ![s] = Append(@, i)] ELSE found
  BY DEF JoinedBy
<1>2. near \in SUBSET Nat /\ near \subseteq DOMAIN found
  BY IndicesAre
<1>3. near # {} => s \in near
  <2> HIDE DEF near
  <2>1. near # {} => \E x \in near : \A y \in near : x <= y
    BY <1>2, LeastNatural
  <2> QED BY <2>1
<1> HIDE DEF near, s
<1> QED BY <1>1, <1>2, <1>3 DEF Joins

\* And the species stay disjoint, with no member twice.
LEMMA JoinKeeps ==
  ASSUME NEW n \in Nat, NEW k \in 1 .. n, NEW m, NEW pool, NEW found \in Seq(Seq(1 .. n)), IsSpecies(found, k - 1)
  PROVE  IsSpecies(JoinedBy(m, pool, found, k), k)
<1>1. \A q \in Seq(1 .. (k - 1)) : q \in Seq(1 .. k) /\ k \notin Range(q) /\ Range(q) \subseteq 1 .. (k - 1)
  <2> SUFFICES ASSUME NEW q \in Seq(1 .. (k - 1))
               PROVE  q \in Seq(1 .. k) /\ k \notin Range(q) /\ Range(q) \subseteq 1 .. (k - 1)
    OBVIOUS
  <2>1. Range(q) \subseteq 1 .. (k - 1)
    BY IndicesAre DEF Range
  <2>2. k \notin 1 .. (k - 1) /\ 1 .. (k - 1) \subseteq 1 .. k
    OBVIOUS
  <2>3. q \in Seq(1 .. k)
    <3>1. IsSeq(q)
      BY AnySeq
    <3> QED BY <2>1, <2>2, <3>1, SeqIn
  <2> QED BY <2>1, <2>2, <2>3
<1>2. \A s \in DOMAIN found : found[s] \in Seq(1 .. (k - 1)) /\ found[s] \in Seq(1 .. k) /\ k \notin Range(found[s])
  BY <1>1 DEF IsSpecies
<1>3. IsSpecies(found, k)
  BY <1>2 DEF IsSpecies
<1>4. k \in 1 .. k
  OBVIOUS
<1>5. CASE JoinedBy(m, pool, found, k) = Append(found, <<k>>)
  <2> DEFINE g == Append(found, <<k>>)
  <2>1. /\ DOMAIN g = 1 .. Len(found) + 1 /\ DOMAIN found = 1 .. Len(found) /\ Len(found) \in Nat
        /\ g[Len(found) + 1] = <<k>>
        /\ \A s \in DOMAIN found : g[s] = found[s]
    OBVIOUS
  <2>2. Range(<<k>>) = {k} /\ <<k>> \in Seq(1 .. k) /\ <<k>> # << >> /\ Len(<<k>>) = 1
    <3>1. DOMAIN <<k>> = {1} /\ <<k>>[1] = k
      OBVIOUS
    <3> QED BY <1>4, <3>1 DEF Range
  <2>3. IsFiniteSet({k}) /\ Cardinality({k}) = 1
    BY FS_Singleton
  <2>4. \A s \in DOMAIN g : s \in DOMAIN found \/ s = Len(found) + 1
    BY <2>1
  <2> HIDE DEF g
  <2>5. ASSUME NEW s \in DOMAIN g
        PROVE  /\ g[s] \in Seq(1 .. k) /\ g[s] # << >>
               /\ IsFiniteSet(Range(g[s])) /\ Cardinality(Range(g[s])) = Len(g[s])
    <3>1. CASE s \in DOMAIN found
      BY <1>3, <2>1, <3>1 DEF IsSpecies
    <3>2. CASE s = Len(found) + 1
      BY <2>1, <2>2, <2>3, <3>2
    <3> QED BY <2>4, <3>1, <3>2
  <2>6. ASSUME NEW s \in DOMAIN g, NEW t \in DOMAIN g, s # t
        PROVE  Range(g[s]) \cap Range(g[t]) = {}
    <3>1. CASE s \in DOMAIN found /\ t \in DOMAIN found
      BY <1>3, <2>1, <2>6, <3>1 DEF IsSpecies
    <3>2. CASE s \in DOMAIN found /\ t = Len(found) + 1
      BY <1>2, <2>1, <2>2, <3>2
    <3>3. CASE s = Len(found) + 1 /\ t \in DOMAIN found
      BY <1>2, <2>1, <2>2, <3>3
    <3> QED BY <2>4, <2>6, <3>1, <3>2, <3>3
  <2>7. IsSpecies(g, k)
    BY <2>5, <2>6 DEF IsSpecies
  <2> QED BY <1>5, <2>7 DEF g
<1>6. CASE JoinedBy(m, pool, found, k) = found
  BY <1>3, <1>6
<1>7. ASSUME NEW x \in DOMAIN found, JoinedBy(m, pool, found, k) = [found EXCEPT ![x] = Append(@, k)]
      PROVE  IsSpecies(JoinedBy(m, pool, found, k), k)
  <2> DEFINE g == [found EXCEPT ![x] = Append(@, k)]
  <2>1. DOMAIN g = DOMAIN found /\ g[x] = Append(found[x], k) /\ \A s \in DOMAIN found : s # x => g[s] = found[s]
    OBVIOUS
  <2>2. /\ Append(found[x], k) \in Seq(1 .. k) /\ Len(Append(found[x], k)) = Len(found[x]) + 1
        /\ Append(found[x], k) # << >> /\ Range(Append(found[x], k)) = Range(found[x]) \cup {k}
    <3>1. k \in Nat /\ found[x] \in Seq(1 .. k)
      BY <1>2
    <3> QED BY Zenon, <1>4, <3>1, AppendedIndex
  <2>3. IsFiniteSet(Range(found[x]) \cup {k}) /\ Cardinality(Range(found[x]) \cup {k}) = Cardinality(Range(found[x])) + 1
    <3>1. IsFiniteSet(Range(found[x])) /\ k \notin Range(found[x])
      BY <1>2 DEF IsSpecies
    <3> QED BY <3>1, FS_AddElement
  <2> HIDE DEF g
  <2>5. ASSUME NEW s \in DOMAIN g
        PROVE  /\ g[s] \in Seq(1 .. k) /\ g[s] # << >>
               /\ IsFiniteSet(Range(g[s])) /\ Cardinality(Range(g[s])) = Len(g[s])
    <3>1. CASE s # x
      BY <1>3, <2>1, <3>1 DEF IsSpecies
    <3>2. CASE s = x
      <4>1. Cardinality(Range(found[x])) = Len(found[x])
        BY <1>3 DEF IsSpecies
      <4> QED BY <2>1, <2>2, <2>3, <3>2, <4>1
    <3> QED BY <3>1, <3>2
  <2>6. ASSUME NEW s \in DOMAIN g, NEW t \in DOMAIN g, s # t
        PROVE  Range(g[s]) \cap Range(g[t]) = {}
    <3>0. Range(found[s]) \cap Range(found[t]) = {} /\ k \notin Range(found[s]) /\ k \notin Range(found[t])
      BY <1>2, <1>3, <2>1, <2>6 DEF IsSpecies
    <3>1. Range(g[s]) \in {Range(found[s]), Range(found[s]) \cup {k}} /\ (s # x => Range(g[s]) = Range(found[s]))
      BY <2>1, <2>2
    <3>2. Range(g[t]) \in {Range(found[t]), Range(found[t]) \cup {k}} /\ (t # x => Range(g[t]) = Range(found[t]))
      BY <2>1, <2>2
    <3> QED BY <2>6, <3>0, <3>1, <3>2
  <2>7. IsSpecies(g, k)
    BY <2>5, <2>6 DEF IsSpecies
  <2> QED BY <1>7, <2>7 DEF g
<1>8. \/ JoinedBy(m, pool, found, k) = Append(found, <<k>>)
      \/ JoinedBy(m, pool, found, k) = found
      \/ \E s \in DOMAIN found : JoinedBy(m, pool, found, k) = [found EXCEPT ![s] = Append(@, k)]
  <2> DEFINE Y == Seq(1 .. n)
  <2>1. found \in Seq(Y)
    OBVIOUS
  <2> HIDE DEF Y
  <2>2. Joins(found, k, JoinedBy(m, pool, found, k))
    BY Zenon, <2>1, JoinCases
  <2> QED BY Zenon, <2>2 DEF Joins
<1> QED BY <1>5, <1>6, <1>7, <1>8

\* Joining is a function on families of species.
LEMMA JoinStays ==
  ASSUME NEW n \in Nat, NEW m, NEW pool, NEW found \in Seq(Seq(1 .. n)), NEW i \in 1 .. n
  PROVE  JoinedBy(m, pool, found, i) \in Seq(Seq(1 .. n))
<1> DEFINE Z == Seq(1 .. n)
<1>1. <<i>> \in Z /\ \A q \in Z : Append(q, i) \in Z
  OBVIOUS
<1>2. found \in Seq(Z)
  OBVIOUS
<1> HIDE DEF Z
<1>3. Append(found, <<i>>) \in Seq(Z)
  BY <1>1, <1>2
<1>4. \A s \in DOMAIN found : [found EXCEPT ![s] = Append(@, i)] \in Seq(Z)
  <2> SUFFICES ASSUME NEW s \in DOMAIN found PROVE [found EXCEPT ![s] = Append(@, i)] \in Seq(Z)
    OBVIOUS
  <2>1. found[s] \in Z
    BY <1>2, IndicesAre
  <2>2. Append(found[s], i) \in Z
    BY <1>1, <2>1
  <2> DEFINE e == Append(found[s], i)
  <2> HIDE DEF e
  <2>3. [found EXCEPT ![s] = e] \in Seq(Z)
    BY <1>2, <2>2 DEF e
  <2> QED BY <2>3 DEF e
<1>5. \/ JoinedBy(m, pool, found, i) = Append(found, <<i>>)
      \/ JoinedBy(m, pool, found, i) = found
      \/ \E s \in DOMAIN found : JoinedBy(m, pool, found, i) = [found EXCEPT ![s] = Append(@, i)]
  <2>1. Joins(found, i, JoinedBy(m, pool, found, i))
    BY Zenon, <1>2, JoinCases
  <2> QED BY Zenon, <2>1 DEF Joins
<1> QED BY <1>2, <1>3, <1>4, <1>5 DEF Z

\* So the species of a pool are disjoint.
LEMMA SpeciesAre ==
  ASSUME NEW m, NEW Y, NEW pool \in Seq(Y), NEW n, n = Len(pool)
  PROVE  n \in Nat /\ SpeciesOf(m, pool) \in Seq(Seq(1 .. n)) /\ IsSpecies(SpeciesOf(m, pool), n)
<1> DEFINE X == Seq(Seq(1 .. n))
           step == [p \in X \X (1 .. n) |-> JoinedBy(m, pool, p[1], p[2])]
           Folds(c) == c = [s \in SUBSET (DOMAIN pool) |->
                              IF s = {} THEN << >>
                              ELSE JoinedBy(m, pool, c[s \ {Max(s)}], [i \in DOMAIN pool |-> i][Max(s)])]
           c == CHOOSE f : Folds(f)
<1>0. n \in Nat /\ DOMAIN pool = 1 .. n
  OBVIOUS
<1>1. SpeciesOf(m, pool) = c[DOMAIN pool]
  BY Zenon DEF SpeciesOf, FoldLeft, MapThenFoldSet, JoinedBy
<1>2. step \in [X \X (1 .. n) -> X] /\ << >> \in X
  <2>1. \A found \in X, i \in 1 .. n : JoinedBy(m, pool, found, i) \in X
    BY <1>0, JoinStays
  <2>2. << >> \in X
    OBVIOUS
  <2> HIDE DEF X
  <2> QED BY <2>1, <2>2
<1>3. PICK g : FoldsTo(g, n, X, << >>, step)
  <2> HIDE DEF step, X
  <2> QED BY <1>0, <1>2, FoldFunctionExists
<1> HIDE DEF X
<1>5. Folds(g)
  <2>1. g \in [SUBSET (1 .. n) -> X]
        /\ \A s \in SUBSET (1 .. n) : g[s] = IF s = {} THEN << >> ELSE step[<<g[s \ {Max(s)}], Max(s)>>]
    BY <1>3 DEF FoldsTo
  <2>2. ASSUME NEW s \in SUBSET (1 .. n), s # {}
        PROVE  g[s] = JoinedBy(m, pool, g[s \ {Max(s)}], [i \in 1 .. n |-> i][Max(s)])
    <3>1. Max(s) \in 1 .. n /\ g[s \ {Max(s)}] \in X
      <4> HIDE DEF step
      <4> QED BY <1>0, <2>1, <2>2, HighestOf
    <3>2. g[s] = step[<<g[s \ {Max(s)}], Max(s)>>]
      <4> HIDE DEF step
      <4> QED BY <2>1, <2>2
    <3>3. [i \in 1 .. n |-> i][Max(s)] = Max(s)
      BY <3>1
    <3> QED BY <3>1, <3>2, <3>3
  <2>3. g = [s \in SUBSET (1 .. n) |->
               IF s = {} THEN << >> ELSE JoinedBy(m, pool, g[s \ {Max(s)}], [i \in 1 .. n |-> i][Max(s)])]
    <3> HIDE DEF step
    <3> QED BY <2>1, <2>2
  <2> QED BY <1>0, <2>3
<1>6. Folds(c)
  <2> HIDE DEF Folds
  <2> QED BY <1>5
<1> HIDE DEF c
<1>7. \A s \in SUBSET (1 .. n) :
        c[s] = IF s = {} THEN << >> ELSE JoinedBy(m, pool, c[s \ {Max(s)}], [i \in 1 .. n |-> i][Max(s)])
  BY <1>0, <1>6
<1> HIDE DEF Folds, step
<1> DEFINE P == {k \in 0 .. n : c[1 .. k] \in X /\ IsSpecies(c[1 .. k], k)}
<1>8. 0 \in P
  <2>1. 1 .. 0 = {} /\ {} \in SUBSET (1 .. n) /\ 0 \in 0 .. n
    BY <1>0
  <2>2. c[1 .. 0] = << >>
    BY <1>7, <2>1
  <2>3. IsSpecies(<< >>, 0)
    <3>1. DOMAIN << >> = {}
      OBVIOUS
    <3> QED BY <3>1 DEF IsSpecies
  <2> QED BY <1>2, <2>1, <2>2, <2>3
<1>9. ASSUME NEW k \in 1 .. n, k - 1 \in P PROVE k \in P
  <2> DEFINE found == c[1 .. (k - 1)]
             next == c[1 .. k]
  <2>1. found \in X /\ IsSpecies(found, k - 1)
    BY <1>9
  <2>2. Max(1 .. k) = k /\ (1 .. k) \ {k} = 1 .. (k - 1) /\ 1 .. k \in SUBSET (1 .. n) /\ 1 .. k # {}
    BY <1>0, HighestIs
  <2>3. next = JoinedBy(m, pool, found, [i \in 1 .. n |-> i][k])
    BY <1>7, <2>2
  <2>4. next = JoinedBy(m, pool, found, k)
    BY <2>3
  <2> HIDE DEF found, next
  <2>5. next \in X
    BY <1>0, <2>1, <2>4, JoinStays DEF X
  <2>6. IsSpecies(next, k)
    BY <1>0, <2>1, <2>4, JoinKeeps DEF X
  <2>7. k \in 0 .. n
    BY <1>0
  <2> QED BY <2>5, <2>6, <2>7 DEF next
<1>10. n \in P
  <2> HIDE DEF P
  <2> QED BY <1>0, <1>8, <1>9, Upwards
<1>11. SpeciesOf(m, pool) \in X /\ IsSpecies(SpeciesOf(m, pool), n)
  BY <1>0, <1>1, <1>10
<1> QED BY <1>0, <1>11 DEF X

\* Species conserving leaves a population as large as before.
LEMMA ConservedCount ==
  ASSUME NEW Y, Terrain(Y), NEW m, m.size \in Nat \ {0},
         NEW parents \in Seq(Y), Len(parents) = m.size, NEW offspring \in Seq(Y), Len(offspring) = m.size
  PROVE  Conserved(m, parents, offspring) \in Seq(Y) /\ Len(Conserved(m, parents, offspring)) = m.size
<1> DEFINE pool      == Sorted(parents \o offspring)
           n         == Len(pool)
           species   == SpeciesOf(m, pool)
           seeds     == {species[s][1] : s \in DOMAIN species}
           protected == UNION {Range(species[s]) : s \in DOMAIN species}
           ranked    == At(pool, seeds) \o At(pool, protected \ seeds)
           members   == [s \in DOMAIN species |-> [k \in DOMAIN species[s] |-> pool[species[s][k]]]]
           rest      == DOMAIN pool \ protected
<1>1. pool \in Seq(Y) /\ n = m.size + m.size
  <2>1. parents \o offspring \in Seq(Y) /\ Len(parents \o offspring) = m.size + m.size
    OBVIOUS
  <2> QED BY <2>1, SortedIs
<1>a. Conserved(m, parents, offspring) =
        IF Cardinality(protected) >= m.size THEN Sorted(First(ranked, m.size))
        ELSE Sorted(FlattenSeq(members) \o First(At(pool, rest), m.size - Cardinality(protected)))
  BY DEF Conserved
<1> HIDE DEF pool
<1>2. DOMAIN pool = 1 .. n /\ n \in Nat /\ \A i \in 1 .. n : pool[i] \in Y
  BY <1>1, IndicesAre
<1>3. species \in Seq(Seq(1 .. n)) /\ IsSpecies(species, n)
  BY <1>1, SpeciesAre
<1> HIDE DEF n, species
<1>4. \A s \in DOMAIN species : /\ species[s] \in Seq(1 .. n) /\ species[s] # << >>
                                /\ species[s][1] \in Range(species[s]) /\ Range(species[s]) \subseteq 1 .. n
  <2> SUFFICES ASSUME NEW s \in DOMAIN species
               PROVE  /\ species[s] \in Seq(1 .. n) /\ species[s] # << >>
                      /\ species[s][1] \in Range(species[s]) /\ Range(species[s]) \subseteq 1 .. n
    OBVIOUS
  <2> DEFINE q == species[s]
             Z == 1 .. n
  <2>1. q \in Seq(Z) /\ q # << >>
    BY <1>3 DEF IsSpecies
  <2> HIDE DEF q, Z
  <2>2. 1 \in DOMAIN q
    BY <2>1
  <2>3. \A i \in DOMAIN q : q[i] \in Z
    BY <2>1, IndicesAre
  <2>4. q[1] \in Range(q) /\ Range(q) \subseteq Z
    BY <2>2, <2>3 DEF Range
  <2> QED BY <2>1, <2>4 DEF q, Z
<1>5. seeds \subseteq protected /\ protected \in SUBSET (DOMAIN pool)
  <2>1. seeds \subseteq protected
    BY <1>4
  <2>2. protected \subseteq 1 .. n
    BY <1>4
  <2> HIDE DEF seeds, protected
  <2> QED BY <1>2, <2>1, <2>2
<1>6. Len(FlattenSeq(members)) = Cardinality(protected) /\ FlattenSeq(members) \in Seq(Y)
  <2>1. DOMAIN members = DOMAIN species
    OBVIOUS
  <2>2. \A s \in DOMAIN species : members[s] \in Seq(Y) /\ Len(members[s]) = Len(species[s])
    <3> SUFFICES ASSUME NEW s \in DOMAIN species
                 PROVE  members[s] \in Seq(Y) /\ Len(members[s]) = Len(species[s])
      OBVIOUS
    <3> DEFINE q == species[s]
    <3>1. members[s] = [k \in DOMAIN q |-> pool[q[k]]]
      OBVIOUS
    <3>2. q \in Seq(1 .. n)
      BY <1>4
    <3> HIDE DEF q, members
    <3>3. DOMAIN q = 1 .. Len(q) /\ Len(q) \in Nat /\ \A k \in 1 .. Len(q) : pool[q[k]] \in Y
      BY <1>2, <3>2
    <3> DEFINE f(k) == pool[q[k]]
    <3>4. members[s] = [k \in 1 .. Len(q) |-> f(k)]
      BY <3>1, <3>3
    <3>5. \A k \in 1 .. Len(q) : f(k) \in Y
      BY <3>3
    <3> HIDE DEF f
    <3>6. members[s] \in Seq(Y) /\ Len(members[s]) = Len(q)
      BY <3>3, <3>4, <3>5
    <3> QED BY <3>6 DEF q
  <2>3. members \in Seq(Seq(Y))
    <3> DEFINE Z == Seq(Y)
               W == Seq(1 .. n)
    <3>1. species \in Seq(W)
      BY <1>3
    <3>2. \A s \in DOMAIN species : members[s] \in Z
      BY <2>2
    <3>3. members = [s \in DOMAIN species |-> members[s]]
      OBVIOUS
    <3> HIDE DEF members, Z, W
    <3>4. DOMAIN species = 1 .. Len(species) /\ Len(species) \in Nat
      BY <3>1
    <3>5. members \in Seq(Z)
      BY <3>2, <3>3, <3>4
    <3> QED BY <3>5 DEF Z
  <2> DEFINE parts == [s \in DOMAIN species |-> Range(species[s])]
  <2>4. DOMAIN parts = DOMAIN members
    OBVIOUS
  <2>5. \A s \in DOMAIN members : IsFiniteSet(parts[s]) /\ Cardinality(parts[s]) = Len(members[s])
    BY <1>3, <2>1, <2>2 DEF IsSpecies
  <2>6. \A s, t \in DOMAIN members : s # t => parts[s] \cap parts[t] = {}
    BY <1>3, <2>1 DEF IsSpecies
  <2>7. UNION {parts[s] : s \in DOMAIN members} = protected
    BY <2>1
  <2> HIDE DEF members, parts, protected
  <2>8. Len(FlattenSeq(members)) = Cardinality(UNION {parts[s] : s \in DOMAIN members})
    BY <2>3, <2>4, <2>5, <2>6, FlattenCounts
  <2>9. FlattenSeq(members) \in Seq(Y)
    BY <2>3, FlattenIs
  <2> QED BY <2>7, <2>8, <2>9
<1> HIDE DEF members, protected, seeds
<1>7. /\ IsFiniteSet(protected) /\ Cardinality(protected) \in Nat
      /\ At(pool, seeds) \in Seq(Y) /\ Len(At(pool, seeds)) = Cardinality(seeds)
      /\ At(pool, protected \ seeds) \in Seq(Y) /\ Len(At(pool, protected \ seeds)) = Cardinality(protected \ seeds)
      /\ At(pool, rest) \in Seq(Y) /\ Len(At(pool, rest)) = Cardinality(rest)
  <2>1. seeds \in SUBSET (DOMAIN pool) /\ protected \ seeds \in SUBSET (DOMAIN pool) /\ rest \in SUBSET (DOMAIN pool)
    BY <1>5
  <2> HIDE DEF rest
  <2> QED BY <1>1, <1>5, <2>1, AtIs
<1>8. CASE Cardinality(protected) >= m.size
  <2>1. Cardinality(seeds) \in Nat /\ Cardinality(protected \ seeds) = Cardinality(protected) - Cardinality(seeds)
    <3>1. protected \cap seeds = seeds /\ seeds \in SUBSET protected
      BY <1>5
    <3>2. Cardinality(protected \ seeds) = Cardinality(protected) - Cardinality(protected \cap seeds)
      BY <1>7, FS_Difference
    <3>3. Cardinality(seeds) \in Nat
      BY <1>7, <3>1, FS_Subset, FS_CardinalityType
    <3> QED BY <3>1, <3>2, <3>3
  <2>2. ranked \in Seq(Y) /\ Len(ranked) = Cardinality(protected)
    <3> DEFINE p == At(pool, seeds)
               q == At(pool, protected \ seeds)
    <3>1. p \in Seq(Y) /\ q \in Seq(Y) /\ Len(p) + Len(q) = Cardinality(protected)
      BY <1>7, <2>1
    <3> HIDE DEF p, q
    <3>2. p \o q \in Seq(Y) /\ Len(p \o q) = Cardinality(protected)
      BY <3>1
    <3> QED BY <3>2 DEF p, q
  <2> HIDE DEF ranked
  <2>3. First(ranked, m.size) \in Seq(Y) /\ Len(First(ranked, m.size)) = m.size
    BY <1>7, <1>8, <2>2, FirstIs
  <2>4. Conserved(m, parents, offspring) = Sorted(First(ranked, m.size))
    BY <1>a, <1>8
  <2> QED BY <2>3, <2>4, SortedIs
<1>9. CASE ~(Cardinality(protected) >= m.size)
  <2> DEFINE remains == m.size - Cardinality(protected)
             p == FlattenSeq(members)
             r == At(pool, rest)
  <2>1. Conserved(m, parents, offspring) = Sorted(p \o First(r, remains))
    BY <1>a, <1>9
  <2>2. remains \in Nat /\ Cardinality(protected) + remains = m.size
    BY <1>7, <1>9
  <2>3. Cardinality(rest) = n - Cardinality(protected) /\ Cardinality(rest) \in Nat
    <3>1. IsFiniteSet(DOMAIN pool) /\ Cardinality(DOMAIN pool) = n
      BY <1>1, IndicesAre DEF n
    <3>2. Cardinality(DOMAIN pool \ protected) = n - Cardinality((DOMAIN pool) \cap protected)
          /\ Cardinality(DOMAIN pool \ protected) \in Nat
      BY <3>1, FS_Difference, FS_CardinalityType
    <3>3. (DOMAIN pool) \cap protected = protected
      BY <1>5
    <3> QED BY <3>2, <3>3
  <2>4. r \in Seq(Y) /\ Len(r) = Cardinality(rest) /\ p \in Seq(Y) /\ Len(p) = Cardinality(protected)
    BY <1>6, <1>7
  <2> HIDE DEF p, r, remains, rest
  <2>5. First(r, remains) \in Seq(Y) /\ Len(First(r, remains)) = IF remains < Len(r) THEN remains ELSE Len(r)
    BY <2>2, <2>4, FirstIs
  <2>6. Len(First(r, remains)) = remains
    <3> DEFINE a == Cardinality(protected)
               b == Cardinality(rest)
    <3>1. /\ b = n - a /\ n = m.size + m.size /\ a + remains = m.size /\ Len(r) = b
          /\ n \in Nat /\ a \in Nat /\ remains \in Nat
      <4>1. b = n - a /\ Len(r) = b
        BY Zenon, <2>3, <2>4
      <4>2. n = m.size + m.size /\ n \in Nat
        BY Zenon, <1>1, <1>2
      <4>3. a + remains = m.size /\ remains \in Nat /\ a \in Nat
        BY Zenon, <1>7, <2>2
      <4> QED BY Zenon, <4>1, <4>2, <4>3
    <3> HIDE DEF a, b
    <3>2. remains <= Len(r) /\ Len(r) \in Int
      BY <3>1
    <3> QED BY <2>5, <3>1, <3>2
  <2> DEFINE o == First(r, remains)
  <2> HIDE DEF o
  <2>9. o \in Seq(Y) /\ Len(o) = remains
    BY Zenon, <2>5, <2>6 DEF o
  <2>7. p \o o \in Seq(Y) /\ Len(p \o o) = m.size
    BY <2>2, <2>4, <2>9
  <2>8. Sorted(p \o o) \in Seq(Y) /\ Len(Sorted(p \o o)) = m.size
    BY <2>7, SortedIs
  <2> QED BY <2>1, <2>8 DEF o
<1> QED BY <1>8, <1>9

(* Replacement one by one: tournaments and targets. *)
LEMMA FixedLength ==
  ASSUME NEW Y, NEW n \in Nat, NEW p
  PROVE  p \in [1 .. n -> Y] <=> p \in Seq(Y) /\ Len(p) = n
<1>1. p \in [1 .. n -> Y] => p \in Seq(Y) /\ Len(p) = n
  OBVIOUS
<1>2. p \in Seq(Y) /\ Len(p) = n => p \in [1 .. n -> Y]
  OBVIOUS
<1> QED BY <1>1, <1>2

Met(m, ps, child) == UNION {AfterTournament(m, p, child) : p \in ps}

\* A tournament replaces one member at most.
LEMMA TournamentStays ==
  ASSUME NEW m, NEW Y, NEW D, NEW p \in [D -> Y], NEW child \in Y
  PROVE  AfterTournament(m, p, child) \subseteq [D -> Y]
<1>1. \A c : [p EXCEPT ![c] = child] \in [D -> Y]
  OBVIOUS
<1>2. ASSUME NEW q \in AfterTournament(m, p, child)
      PROVE  q = p \/ \E c : q = [p EXCEPT ![c] = child]
  BY DEF AfterTournament
<1> QED BY <1>1, <1>2

\* Restricted tournaments leave a population as large as before.
LEMMA RestrictedCount ==
  ASSUME NEW Y, Terrain(Y), NEW m, NEW size \in Nat,
         NEW parents \in Seq(Y), Len(parents) = size, NEW offspring \in Seq(Y),
         NEW population \in Restricted(m, parents, offspring)
  PROVE  population \in Seq(Y) /\ Len(population) = size
<1> DEFINE n == Len(offspring)
           B == [1 .. size -> Y]
           X == SUBSET B
           start == {Sorted(parents)}
           step == [p \in X \X (1 .. n) |-> Met(m, p[1], offspring[p[2]])]
           Folds(c) == c = [s \in SUBSET (DOMAIN offspring) |->
                              IF s = {} THEN start ELSE Met(m, c[s \ {Max(s)}], offspring[Max(s)])]
           c == CHOOSE f : Folds(f)
<1>0. n \in Nat /\ DOMAIN offspring = 1 .. n /\ \A i \in 1 .. n : offspring[i] \in Y
  OBVIOUS
<1>1. Restricted(m, parents, offspring) = {Sorted(p) : p \in c[DOMAIN offspring]}
  BY DEF Restricted, FoldLeft, MapThenFoldSet, Met
<1> HIDE DEF n
<1>2. \A ps \in X, i \in 1 .. n : Met(m, ps, offspring[i]) \in X
  <2> SUFFICES ASSUME NEW ps \in X, NEW i \in 1 .. n PROVE Met(m, ps, offspring[i]) \subseteq B
    OBVIOUS
  <2>1. \A p \in ps : AfterTournament(m, p, offspring[i]) \subseteq B
    BY <1>0, TournamentStays
  <2> QED BY <2>1 DEF Met
<1>3. start \in X
  <2>1. Sorted(parents) \in Seq(Y) /\ Len(Sorted(parents)) = size
    BY SortedIs
  <2>2. Sorted(parents) \in B
    BY <2>1, FixedLength
  <2> QED BY <2>2
<1> HIDE DEF start
<1>4. step \in [X \X (1 .. n) -> X]
  <2> HIDE DEF X
  <2> QED BY <1>2
<1>5. PICK g : FoldsTo(g, n, X, start, step)
  <2> HIDE DEF step, X
  <2> QED BY <1>0, <1>3, <1>4, FoldFunctionExists
<1> HIDE DEF X
<1>6. Folds(g)
  <2>1. g \in [SUBSET (1 .. n) -> X]
        /\ \A s \in SUBSET (1 .. n) : g[s] = IF s = {} THEN start ELSE step[<<g[s \ {Max(s)}], Max(s)>>]
    BY <1>5 DEF FoldsTo
  <2>2. ASSUME NEW s \in SUBSET (1 .. n), s # {}
        PROVE  g[s] = Met(m, g[s \ {Max(s)}], offspring[Max(s)])
    <3>1. Max(s) \in 1 .. n /\ g[s \ {Max(s)}] \in X
      <4> HIDE DEF step
      <4> QED BY <1>0, <2>1, <2>2, HighestOf
    <3>2. g[s] = step[<<g[s \ {Max(s)}], Max(s)>>]
      <4> HIDE DEF step
      <4> QED BY <2>1, <2>2
    <3> QED BY <3>1, <3>2
  <2>3. g = [s \in SUBSET (1 .. n) |-> IF s = {} THEN start ELSE Met(m, g[s \ {Max(s)}], offspring[Max(s)])]
    <3> HIDE DEF step
    <3> QED BY <2>1, <2>2
  <2> QED BY <1>0, <2>3
<1>7. Folds(c)
  <2> HIDE DEF Folds
  <2> QED BY <1>6
<1> HIDE DEF c
<1>8. \A s \in SUBSET (1 .. n) : c[s] = IF s = {} THEN start ELSE Met(m, c[s \ {Max(s)}], offspring[Max(s)])
  BY <1>0, <1>7
<1> HIDE DEF Folds, step
<1> DEFINE P == {k \in 0 .. n : c[1 .. k] \in X}
<1>9. 0 \in P
  <2>1. 1 .. 0 = {} /\ {} \in SUBSET (1 .. n) /\ 0 \in 0 .. n
    BY <1>0
  <2> QED BY <1>3, <1>8, <2>1
<1>10. ASSUME NEW k \in 1 .. n, k - 1 \in P PROVE k \in P
  <2>1. Max(1 .. k) = k /\ (1 .. k) \ {k} = 1 .. (k - 1) /\ 1 .. k \in SUBSET (1 .. n) /\ 1 .. k # {}
    BY <1>0, HighestIs
  <2>2. c[1 .. k] = Met(m, c[1 .. (k - 1)], offspring[k])
    BY <1>8, <2>1
  <2>3. k \in 0 .. n /\ c[1 .. (k - 1)] \in X
    BY <1>0, <1>10
  <2> QED BY <1>2, <2>2, <2>3
<1>11. n \in P
  <2> HIDE DEF P
  <2> QED BY <1>0, <1>9, <1>10, Upwards
<1>12. PICK p \in B : population = Sorted(p)
  <2>1. c[DOMAIN offspring] \subseteq B
    BY <1>0, <1>11 DEF X
  <2> QED BY <1>1, <2>1
<1>13. p \in Seq(Y) /\ Len(p) = size
  BY FixedLength
<1> QED BY <1>12, <1>13, SortedIs

Dueled(p, t) == IF Value[t.at] <= Value[p[t.id]] THEN [p EXCEPT ![t.id] = t.at] ELSE p

\* Trials that replace their targets leave it as large as before.
LEMMA EvolvedCount ==
  ASSUME NEW Y, NEW size \in Nat, NEW parents \in Seq(Y), Len(parents) = size,
         NEW T, NEW trials \in Seq(T), \A t \in T : t.at \in Y
  PROVE  Evolved(parents, trials) \in Seq(Y) /\ Len(Evolved(parents, trials)) = size
<1> DEFINE n == Len(trials)
           X == [1 .. size -> Y]
           step == [p \in X \X (1 .. n) |-> Dueled(p[1], trials[p[2]])]
           Folds(c) == c = [s \in SUBSET (DOMAIN trials) |->
                              IF s = {} THEN parents ELSE Dueled(c[s \ {Max(s)}], trials[Max(s)])]
           c == CHOOSE f : Folds(f)
<1>0. n \in Nat /\ DOMAIN trials = 1 .. n /\ \A i \in 1 .. n : trials[i] \in T
  OBVIOUS
<1>1. Evolved(parents, trials) = c[DOMAIN trials]
  BY DEF Evolved, FoldLeft, MapThenFoldSet, Dueled
<1> HIDE DEF n
<1>2. \A p \in X, i \in 1 .. n : Dueled(p, trials[i]) \in X
  <2> SUFFICES ASSUME NEW p \in X, NEW i \in 1 .. n PROVE Dueled(p, trials[i]) \in X
    OBVIOUS
  <2> DEFINE t == trials[i]
  <2>1. t.at \in Y
    BY <1>0
  <2> HIDE DEF t
  <2>2. [p EXCEPT ![t.id] = t.at] \in X
    BY <2>1
  <2> HIDE DEF X
  <2>3. Dueled(p, t) \in X
    BY <2>2 DEF Dueled
  <2> QED BY <2>3 DEF t
<1>3. parents \in X
  BY FixedLength
<1>4. step \in [X \X (1 .. n) -> X]
  <2> HIDE DEF X
  <2> QED BY <1>2
<1>5. PICK g : FoldsTo(g, n, X, parents, step)
  <2> HIDE DEF step, X
  <2> QED BY <1>0, <1>3, <1>4, FoldFunctionExists
<1> HIDE DEF X
<1>6. Folds(g)
  <2>1. g \in [SUBSET (1 .. n) -> X]
        /\ \A s \in SUBSET (1 .. n) : g[s] = IF s = {} THEN parents ELSE step[<<g[s \ {Max(s)}], Max(s)>>]
    BY <1>5 DEF FoldsTo
  <2>2. ASSUME NEW s \in SUBSET (1 .. n), s # {}
        PROVE  g[s] = Dueled(g[s \ {Max(s)}], trials[Max(s)])
    <3>1. Max(s) \in 1 .. n /\ g[s \ {Max(s)}] \in X
      <4> HIDE DEF step
      <4> QED BY <1>0, <2>1, <2>2, HighestOf
    <3>2. g[s] = step[<<g[s \ {Max(s)}], Max(s)>>]
      <4> HIDE DEF step
      <4> QED BY <2>1, <2>2
    <3> QED BY <3>1, <3>2
  <2>3. g = [s \in SUBSET (1 .. n) |-> IF s = {} THEN parents ELSE Dueled(g[s \ {Max(s)}], trials[Max(s)])]
    <3> HIDE DEF step
    <3> QED BY <2>1, <2>2
  <2> QED BY <1>0, <2>3
<1>7. Folds(c)
  <2> HIDE DEF Folds
  <2> QED BY <1>6
<1> HIDE DEF c
<1>8. \A s \in SUBSET (1 .. n) : c[s] = IF s = {} THEN parents ELSE Dueled(c[s \ {Max(s)}], trials[Max(s)])
  BY <1>0, <1>7
<1> HIDE DEF Folds, step
<1> DEFINE P == {k \in 0 .. n : c[1 .. k] \in X}
<1>9. 0 \in P
  <2>1. 1 .. 0 = {} /\ {} \in SUBSET (1 .. n) /\ 0 \in 0 .. n
    BY <1>0
  <2> QED BY <1>3, <1>8, <2>1
<1>10. ASSUME NEW k \in 1 .. n, k - 1 \in P PROVE k \in P
  <2>1. Max(1 .. k) = k /\ (1 .. k) \ {k} = 1 .. (k - 1) /\ 1 .. k \in SUBSET (1 .. n) /\ 1 .. k # {}
    BY <1>0, HighestIs
  <2>2. c[1 .. k] = Dueled(c[1 .. (k - 1)], trials[k])
    BY <1>8, <2>1
  <2>3. k \in 0 .. n /\ c[1 .. (k - 1)] \in X
    BY <1>0, <1>10
  <2> QED BY <1>2, <2>2, <2>3
<1>11. n \in P
  <2> HIDE DEF P
  <2> QED BY <1>0, <1>9, <1>10, Upwards
<1>12. Evolved(parents, trials) \in X
  BY <1>0, <1>1, <1>11
<1> QED BY <1>12, FixedLength DEF X

\* A child that is told: its number, and where it lies.
Child(Y) == [id : Nat, at : Y]

\* Whatever the method, a population is as large as the one before.
LEMMA PopulationsCount ==
  ASSUME GenerationsAssumption, NEW m \in Methods, NEW parents \in Seq(m.places), Len(parents) = m.size,
         NEW told \in Seq(Child(m.places)), Len(told) = m.size,
         NEW population \in NextPopulations(m, parents, told)
  PROVE  population \in Seq(m.places) /\ Len(population) = m.size
<1> DEFINE Y == m.places
           offspring == [k \in DOMAIN told |-> told[k].at]
<1>1. /\ m.variant \in {"ga", "clearing", "species", "restricted", "de"}
      /\ m.size \in Nat \ {0} /\ m.elite \in 0 .. m.size /\ m.niche \in Nat \ {0} /\ Terrain(Y)
  BY DEF GenerationsAssumption, Terrain
<1>2. offspring \in Seq(Y) /\ Len(offspring) = m.size
  <2>1. DOMAIN told = 1 .. m.size /\ \A k \in 1 .. m.size : told[k].at \in Y
    <3> DEFINE T == Child(m.places)
    <3>1. \A t \in T : t.at \in Y
      BY DEF Child
    <3>2. told \in Seq(T)
      OBVIOUS
    <3> HIDE DEF T, Y
    <3>3. DOMAIN told = 1 .. m.size /\ \A k \in DOMAIN told : told[k] \in T
      BY <3>2, IndicesAre
    <3> QED BY <3>1, <3>3
  <2>2. offspring \in [1 .. m.size -> Y]
    BY <2>1
  <2>3. m.size \in Nat
    BY <1>1
  <2> HIDE DEF offspring, Y
  <2> QED BY Zenon, <2>2, <2>3, FixedLength
<1>3. NextPopulations(m, parents, told) =
        CASE m.variant = "ga"         -> {ElitesAndBest(m, parents, offspring)}
          [] m.variant = "clearing"   -> {Cleared(m, parents, offspring)}
          [] m.variant = "species"    -> {Conserved(m, parents, offspring)}
          [] m.variant = "restricted" -> Restricted(m, parents, offspring)
          [] m.variant = "de"         -> {Evolved(parents, told)}
  BY DEF NextPopulations
<1> HIDE DEF offspring
<1>9. parents \in Seq(Y)
  OBVIOUS
<1> HIDE DEF Y
<1>4. CASE m.variant = "ga"
  <2>1. population = ElitesAndBest(m, parents, offspring)
    BY <1>3, <1>4
  <2>2. /\ ElitesAndBest(m, parents, offspring) \in Seq(Y)
        /\ Len(ElitesAndBest(m, parents, offspring)) = m.size
    BY <1>1, <1>2, <1>9, ElitesCount
  <2> QED BY <2>1, <2>2 DEF Y
<1>5. CASE m.variant = "clearing"
  <2>1. population = Cleared(m, parents, offspring)
    BY <1>3, <1>5
  <2>2. Cleared(m, parents, offspring) \in Seq(Y) /\ Len(Cleared(m, parents, offspring)) = m.size
    BY <1>1, <1>2, <1>9, ClearedCount
  <2> QED BY <2>1, <2>2 DEF Y
<1>6. CASE m.variant = "species"
  <2>1. population = Conserved(m, parents, offspring)
    BY <1>3, <1>6
  <2>2. Conserved(m, parents, offspring) \in Seq(Y) /\ Len(Conserved(m, parents, offspring)) = m.size
    BY <1>1, <1>2, <1>9, ConservedCount
  <2> QED BY <2>1, <2>2 DEF Y
<1>7. CASE m.variant = "restricted"
  <2>1. population \in Restricted(m, parents, offspring)
    BY <1>3, <1>7
  <2>2. population \in Seq(Y) /\ Len(population) = m.size
    BY <1>1, <1>2, <1>9, <2>1, RestrictedCount
  <2> QED BY <2>2 DEF Y
<1>8. CASE m.variant = "de"
  <2>1. population = Evolved(parents, told)
    BY <1>3, <1>8
  <2>2. \A t \in Child(Y) : t.at \in Y
    BY DEF Child
  <2>3. told \in Seq(Child(Y))
    BY DEF Y
  <2>4. Evolved(parents, told) \in Seq(Y) /\ Len(Evolved(parents, told)) = m.size
    BY <1>1, <1>9, <2>2, <2>3, EvolvedCount
  <2> QED BY <2>1, <2>4 DEF Y
<1> QED BY <1>1, <1>4, <1>5, <1>6, <1>7, <1>8

(* Slices of a generation. *)
LEMMA FlattenLast ==
  ASSUME NEW T, NEW ss \in Seq(Seq(T)), NEW t \in Seq(T)
  PROVE  FlattenSeq(Append(ss, t)) = FlattenSeq(ss) \o t /\ FlattenSeq(ss) \in Seq(T)
<1> DEFINE n  == Len(ss)
           Y  == Seq(T)
           tt == Append(ss, t)
<1>1. /\ n \in Nat /\ DOMAIN ss = 1 .. n /\ \A i \in 1 .. n : ss[i] \in Y
      /\ tt \in Seq(Y) /\ Len(tt) = n + 1 /\ tt[n + 1] = t /\ \A i \in 1 .. n : tt[i] = ss[i]
  <2>1. ss \in Seq(Y) /\ t \in Y
    OBVIOUS
  <2> HIDE DEF Y
  <2> QED BY <2>1
<1>2. FlattenSeq(ss) \in Seq(T)
  BY FlattenIs
<1>3. PICK f : IsFlatten(f, tt) /\ FlattenSeq(tt) = f[n + 1]
  <2> DEFINE f == CHOOSE f : IsFlatten(f, tt)
  <2> HIDE DEF tt
  <2>1. FlattenSeq(tt) = f[n + 1]
    BY <1>1 DEF FlattenSeq, IsFlatten
  <2>2. tt # << >> /\ tt \in Seq(Seq(T))
    BY <1>1
  <2>3. IsFlatten(f, tt)
    BY <2>2, FlattenExists
  <2> HIDE DEF f
  <2> QED BY <2>1, <2>3
<1>4. \A i \in 1 .. n + 1 : f[i] = IF i = 1 THEN tt[i] ELSE f[i - 1] \o tt[i]
  BY <1>1, <1>3 DEF IsFlatten
<1>5. CASE n = 0
  <2>1. ss = << >> /\ FlattenSeq(ss) = << >>
    BY <1>5 DEF FlattenSeq
  <2>2. f[n + 1] = t
    BY <1>1, <1>4, <1>5
  <2>3. << >> \o t = t
    OBVIOUS
  <2> HIDE DEF tt
  <2>4. FlattenSeq(tt) = FlattenSeq(ss) \o t
    BY <1>3, <2>1, <2>2, <2>3
  <2> QED BY <1>2, <2>4 DEF tt
<1>6. CASE n # 0
  <2>1. PICK g : IsFlatten(g, ss) /\ FlattenSeq(ss) = g[n]
    <3> DEFINE g == CHOOSE g : IsFlatten(g, ss)
    <3>1. FlattenSeq(ss) = g[n]
      BY <1>1, <1>6 DEF FlattenSeq, IsFlatten
    <3>2. IsFlatten(g, ss)
      <4>1. ss # << >>
        BY <1>6
      <4> QED BY <4>1, FlattenExists
    <3> HIDE DEF g
    <3> QED BY <3>1, <3>2
  <2>2. \A i \in 1 .. n : g[i] = IF i = 1 THEN ss[i] ELSE g[i - 1] \o ss[i]
    BY <1>1, <2>1 DEF IsFlatten
  <2> HIDE DEF n, tt
  <2> DEFINE P == {k \in 0 .. n : k # 0 => f[k] = g[k]}
  <2>3. 0 \in P
    BY <1>1
  <2>4. ASSUME NEW k \in 1 .. n, k - 1 \in P PROVE k \in P
    <3>1. k \in 1 .. n + 1 /\ tt[k] = ss[k] /\ k \in 0 .. n
      BY <1>1
    <3>2. k # 1 => f[k - 1] = g[k - 1]
      BY <2>4
    <3>3. f[k] = g[k]
      BY <1>4, <2>2, <3>1, <3>2
    <3> QED BY <3>1, <3>3
  <2>5. n \in P
    <3> HIDE DEF P
    <3> QED BY <1>1, <2>3, <2>4, Upwards
  <2>6. f[n + 1] = g[n] \o t
    <3>1. n + 1 \in 1 .. n + 1 /\ n + 1 # 1 /\ (n + 1) - 1 = n
      BY <1>1, <1>6
    <3>2. f[n] = g[n]
      BY <1>6, <2>5
    <3> QED BY <1>1, <1>4, <3>1, <3>2
  <2> QED BY <1>2, <1>3, <2>1, <2>6 DEF tt
<1> QED BY <1>5, <1>6

\* Reversing what was prepended appends.
LEMMA ReversedPrepend ==
  ASSUME NEW Y, NEW b \in Seq(Y), NEW t \in Y
  PROVE  Reverse(<<t>> \o b) = Append(Reverse(b), t) /\ Reverse(b) \in Seq(Y)
<1> DEFINE n == Len(b)
           l == <<t>> \o b
<1>1. /\ n \in Nat /\ l \in Seq(Y) /\ Len(l) = n + 1 /\ l[1] = t /\ \A i \in 1 .. n : l[i + 1] = b[i] /\ b[i] \in Y
  OBVIOUS
<1> HIDE DEF l
<1>2. Reverse(b) = [i \in 1 .. n |-> b[(n - i) + 1]] /\ Reverse(l) = [i \in 1 .. (n + 1) |-> l[((n + 1) - i) + 1]]
  BY <1>1 DEF Reverse
<1>3. Reverse(b) \in Seq(Y) /\ Len(Reverse(b)) = n
  <2> HIDE DEF n
  <2>1. \A i \in 1 .. n : b[(n - i) + 1] \in Y
    BY <1>1
  <2> QED BY <1>1, <1>2, <2>1
<1> DEFINE a == Append(Reverse(b), t)
           r == Reverse(l)
<1>4. a \in Seq(Y) /\ Len(a) = n + 1 /\ a[n + 1] = t /\ \A i \in 1 .. n : a[i] = Reverse(b)[i]
  BY <1>3
<1> HIDE DEF n
<1>5. \A i \in 1 .. (n + 1) : r[i] = a[i]
  <2> SUFFICES ASSUME NEW i \in 1 .. (n + 1) PROVE r[i] = a[i]
    OBVIOUS
  <2>1. r[i] = l[((n + 1) - i) + 1]
    BY <1>2
  <2>2. CASE i = n + 1
    BY <1>1, <1>4, <2>1, <2>2
  <2>3. CASE i # n + 1
    <3>1. i \in 1 .. n /\ (n - i) + 1 \in 1 .. n /\ ((n + 1) - i) + 1 = ((n - i) + 1) + 1
      BY <1>1, <2>3
    <3>2. l[((n + 1) - i) + 1] = b[(n - i) + 1]
      BY <1>1, <3>1
    <3> QED BY <1>2, <1>4, <2>1, <3>1, <3>2
  <2> QED BY <2>2, <2>3
<1>6. r = a
  <2>1. r = [i \in 1 .. (n + 1) |-> r[i]]
    BY <1>2
  <2> HIDE DEF a, r
  <2>2. a = [i \in 1 .. (n + 1) |-> a[i]]
    BY <1>4
  <2> QED BY <1>5, <2>1, <2>2
<1> QED BY <1>3, <1>6 DEF l

\* A batch prepended to the buffer is read last.
LEMMA BufferedAppends ==
  ASSUME NEW T, NEW g, g.buffer \in Seq(Seq(T)), NEW t \in Seq(T), NEW h, h.buffer = <<t>> \o g.buffer
  PROVE  InBuffer(h) = InBuffer(g) \o t /\ InBuffer(g) \in Seq(T) /\ h.buffer \in Seq(Seq(T))
<1> DEFINE Y == Seq(T)
           b == g.buffer
<1>1. b \in Seq(Y) /\ t \in Y
  OBVIOUS
<1> HIDE DEF b, Y
<1>2. Reverse(<<t>> \o b) = Append(Reverse(b), t) /\ Reverse(b) \in Seq(Y) /\ <<t>> \o b \in Seq(Y)
  BY <1>1, ReversedPrepend
<1>3. FlattenSeq(Append(Reverse(b), t)) = FlattenSeq(Reverse(b)) \o t /\ FlattenSeq(Reverse(b)) \in Seq(T)
  BY <1>1, <1>2, FlattenLast DEF Y
<1> QED BY <1>2, <1>3 DEF InBuffer, b, Y

\* When a sequence is two others joined.
LEMMA JoinedWhen ==
  ASSUME NEW x \in Seq(Nat), NEW y \in Seq(Nat), NEW z \in Seq(Nat), Len(z) = Len(x) + Len(y),
         \A k \in 1 .. Len(x) : z[k] = x[k], \A k \in 1 .. Len(y) : z[Len(x) + k] = y[k]
  PROVE  z = x \o y
<1> DEFINE w == x \o y
           m == Len(x)
           n == Len(y)
<1>1. /\ m \in Nat /\ n \in Nat /\ w \in Seq(Nat) /\ Len(w) = m + n
      /\ \A k \in 1 .. m : w[k] = x[k]
      /\ \A k \in 1 .. n : w[m + k] = y[k]
  OBVIOUS
<1>2. Len(z) = m + n /\ \A k \in 1 .. m : z[k] = x[k]
  OBVIOUS
<1>3. \A k \in 1 .. n : z[m + k] = y[k]
  OBVIOUS
<1> HIDE DEF w, m, n
<1>4. ASSUME NEW k \in 1 .. m + n PROVE z[k] = w[k]
  <2>1. CASE k <= m
    BY <1>1, <1>2, <2>1
  <2>2. CASE ~(k <= m)
    <3>1. k - m \in 1 .. n /\ m + (k - m) = k
      BY <1>1, <2>2
    <3> QED BY <1>1, <1>3, <3>1
  <2> QED BY <2>1, <2>2
<1>5. z = [k \in 1 .. m + n |-> z[k]] /\ w = [k \in 1 .. m + n |-> w[k]]
  BY <1>1, <1>2
<1>6. z = w
  BY <1>4, <1>5
<1> QED BY <1>6 DEF w

\* The numbers of the children a batch of observations is about.
Numbered(told) == [k \in DOMAIN told |-> told[k].id]

\* Numbers of joined batches are joined.
LEMMA NumberedJoins ==
  ASSUME NEW Y, NEW s \in Seq(Child(Y)), NEW t \in Seq(Child(Y))
  PROVE  /\ Numbered(s \o t) = Numbered(s) \o Numbered(t)
         /\ Numbered(s) \in Seq(Nat) /\ Len(Numbered(s)) = Len(s)
<1> DEFINE T == Child(Y)
<1>1. s \in Seq(T) /\ t \in Seq(T) /\ \A x \in T : x.id \in Nat
  BY DEF Child
<1> HIDE DEF T
<1>2. \A u \in Seq(T) : /\ Numbered(u) \in Seq(Nat) /\ Len(Numbered(u)) = Len(u)
                        /\ \A k \in 1 .. Len(u) : Numbered(u)[k] = u[k].id
  <2> SUFFICES ASSUME NEW u \in Seq(T)
               PROVE  /\ Numbered(u) \in Seq(Nat) /\ Len(Numbered(u)) = Len(u)
                      /\ \A k \in 1 .. Len(u) : Numbered(u)[k] = u[k].id
    OBVIOUS
  <2>1. Len(u) \in Nat /\ DOMAIN u = 1 .. Len(u) /\ \A k \in 1 .. Len(u) : u[k].id \in Nat
    BY <1>1
  <2>2. Numbered(u) \in [1 .. Len(u) -> Nat] /\ \A k \in 1 .. Len(u) : Numbered(u)[k] = u[k].id
    BY <2>1 DEF Numbered
  <2> QED BY <2>1, <2>2, FixedLength
<1> DEFINE a == Numbered(s \o t)
           x == Numbered(s)
           y == Numbered(t)
<1>3. /\ s \o t \in Seq(T) /\ Len(s \o t) = Len(s) + Len(t) /\ Len(s) \in Nat /\ Len(t) \in Nat
      /\ \A k \in 1 .. Len(s) : (s \o t)[k] = s[k]
      /\ \A k \in 1 .. Len(t) : (s \o t)[Len(s) + k] = t[k]
  BY <1>1
<1>4. /\ a \in Seq(Nat) /\ Len(a) = Len(s) + Len(t) /\ x \in Seq(Nat) /\ Len(x) = Len(s)
      /\ y \in Seq(Nat) /\ Len(y) = Len(t)
      /\ \A k \in 1 .. Len(s) : a[k] = x[k]
      /\ \A k \in 1 .. Len(t) : a[Len(s) + k] = y[k]
  <2>1. /\ a \in Seq(Nat) /\ Len(a) = Len(s) + Len(t) /\ x \in Seq(Nat) /\ Len(x) = Len(s)
        /\ y \in Seq(Nat) /\ Len(y) = Len(t)
    BY <1>1, <1>2, <1>3
  <2>2. ASSUME NEW k \in 1 .. Len(s) PROVE a[k] = x[k]
    <3>1. k \in 1 .. Len(s \o t)
      BY <1>3
    <3> QED BY <1>1, <1>2, <1>3, <3>1
  <2>3. ASSUME NEW k \in 1 .. Len(t) PROVE a[Len(s) + k] = y[k]
    <3>1. Len(s) + k \in 1 .. Len(s \o t)
      BY <1>3
    <3> QED BY <1>1, <1>2, <1>3, <3>1
  <2> QED BY <2>1, <2>2, <2>3
<1> HIDE DEF a, x, y
<1>5. /\ Len(a) = Len(x) + Len(y)
      /\ \A k \in 1 .. Len(x) : a[k] = x[k]
      /\ \A k \in 1 .. Len(y) : a[Len(x) + k] = y[k]
  BY <1>4
<1>6. a = x \o y
  BY <1>4, <1>5, JoinedWhen
<1> QED BY <1>4, <1>6 DEF a, x, y

\* Numbers that count on.
LEMMA IdsAre ==
  ASSUME NEW a \in Nat, NEW n \in Nat
  PROVE  Ids(a, n) \in Seq(Nat) /\ Len(Ids(a, n)) = n /\ \A k \in 1 .. n : Ids(a, n)[k] = a + k
<1>1. Ids(a, n) \in [1 .. n -> Nat] /\ \A k \in 1 .. n : Ids(a, n)[k] = a + k
  BY DEF Ids
<1> QED BY <1>1, FixedLength

\* Counting on from where one stopped.
LEMMA IdsContinue ==
  ASSUME NEW a \in Nat, NEW n \in Nat
  PROVE  Ids(0, a) \o Ids(a, n) = Ids(0, a + n)
<1> DEFINE x == Ids(0, a)
           y == Ids(a, n)
           z == Ids(0, a + n)
<1>1. x \in Seq(Nat) /\ Len(x) = a /\ \A k \in 1 .. a : x[k] = 0 + k
  <2>1. 0 \in Nat
    OBVIOUS
  <2> QED BY <2>1, IdsAre
<1>2. y \in Seq(Nat) /\ Len(y) = n /\ \A k \in 1 .. n : y[k] = a + k
  BY IdsAre
<1>3. z \in Seq(Nat) /\ Len(z) = a + n /\ \A k \in 1 .. a + n : z[k] = 0 + k
  <2>1. 0 \in Nat /\ a + n \in Nat
    OBVIOUS
  <2> QED BY <2>1, IdsAre
<1> HIDE DEF x, y, z
<1>4. \A k \in 1 .. Len(x) : z[k] = x[k]
  BY <1>1, <1>3
<1>5. \A k \in 1 .. Len(y) : z[Len(x) + k] = y[k]
  BY <1>1, <1>2, <1>3
<1>6. z = x \o y
  BY <1>1, <1>2, <1>3, <1>4, <1>5, JoinedWhen
<1> QED BY <1>6 DEF x, y, z

\* What is read of a queue and what is left make what there was.
LEMMA CutInTwo ==
  ASSUME NEW q \in Seq(Nat), NEW h \in Nat, NEW stop \in Nat, h <= stop, stop <= Len(q)
  PROVE  /\ SubSeq(q, h + 1, stop) \o SubSeq(q, stop + 1, Len(q)) = SubSeq(q, h + 1, Len(q))
         /\ SubSeq(q, h + 1, stop) \in Seq(Nat) /\ SubSeq(q, stop + 1, Len(q)) \in Seq(Nat)
<1> DEFINE x == SubSeq(q, h + 1, stop)
           y == SubSeq(q, stop + 1, Len(q))
           z == SubSeq(q, h + 1, Len(q))
           l == Len(q)
<1>1. l \in Nat /\ stop <= l
  OBVIOUS
<1>2. /\ x \in Seq(Nat) /\ Len(x) = stop - h /\ \A k \in 1 .. stop - h : x[k] = q[h + k]
      /\ y \in Seq(Nat) /\ Len(y) = l - stop /\ \A k \in 1 .. l - stop : y[k] = q[stop + k]
      /\ z \in Seq(Nat) /\ Len(z) = l - h /\ \A k \in 1 .. l - h : z[k] = q[h + k]
  <2>1. x \in Seq(Nat) /\ Len(x) = stop - h /\ \A k \in 1 .. stop - h : x[k] = q[h + k]
    OBVIOUS
  <2>2. y \in Seq(Nat) /\ Len(y) = l - stop /\ \A k \in 1 .. l - stop : y[k] = q[stop + k]
    OBVIOUS
  <2>3. z \in Seq(Nat) /\ Len(z) = l - h /\ \A k \in 1 .. l - h : z[k] = q[h + k]
    OBVIOUS
  <2> QED BY <2>1, <2>2, <2>3
<1> HIDE DEF x, y, z, l
<1>3. x \o y = z
  <2>1. Len(z) = Len(x) + Len(y) /\ \A k \in 1 .. Len(x) : z[k] = x[k]
    BY <1>1, <1>2
  <2>2. ASSUME NEW k \in 1 .. Len(y) PROVE z[Len(x) + k] = y[k]
    <3>1. (stop - h) + k \in 1 .. l - h /\ h + ((stop - h) + k) = stop + k /\ k \in 1 .. l - stop
      BY <1>1, <1>2
    <3> QED BY <1>2, <3>1
  <2> QED BY <1>2, <2>1, <2>2, JoinedWhen
<1> QED BY <1>2, <1>3 DEF x, y, z, l

(* The invariant: between calls a generation is never complete, and the queue
   is read up to where the pending slice ends. *)
Typed ==
  /\ method \in Methods
  /\ gen \in [population : Seq(method.places), queue : Seq(Nat), head : Nat, pending : Seq(Nat),
              buffer : Seq(Seq(Child(method.places))), next : Nat]
  /\ gen.head <= Len(gen.queue)
  /\ InBuffer(gen) \in Seq(Child(method.places))
  /\ BufferCount(gen) < method.size

ToldNumbers(g) == Numbered(InBuffer(g))
Left(g) == SubSeq(g.queue, g.head + 1, Len(g.queue))

First0(g) ==
  LET so == Len(ToldNumbers(g)) + Len(g.pending)
  IN  /\ g.queue = << >> /\ g.head = 0
      /\ ToldNumbers(g) \o g.pending = Ids(0, so)
      /\ so <= method.size /\ g.next = so % method.size

Later(g) ==
  /\ g.next = 0 /\ Len(g.population) = method.size
  /\ (ToldNumbers(g) \o g.pending) \o Left(g) \in {<< >>, Ids(0, method.size)}

GenOK == Typed /\ IF gen.population = << >> THEN First0(gen) ELSE Later(gen)

\* Counting modulo the size of a generation.
LEMMA Wraps == \A n \in Nat \ {0} : n % n = 0 /\ \A k \in 0 .. n - 1 : k % n = k
OBVIOUS

\* The optimizer of a run is one a constructor accepts.
LEMMA MethodIs ==
  ASSUME GenerationsAssumption, Typed
  PROVE  method.size \in Nat \ {0} /\ Terrain(method.places)
BY DEF GenerationsAssumption, Typed, Terrain

\* Joining nothing.
LEMMA NothingIs == \A s \in Seq(Nat) : s \o << >> = s /\ << >> \o s = s /\ (Len(s) = 0 => s = << >>)
OBVIOUS

\* The invariant holds at the start.
LEMMA GenBegins == ASSUME GenerationsAssumption, GenInit PROVE GenOK
<1>1. method \in Methods /\ gen = NewGeneration
  BY DEF GenInit
<1>2. /\ gen.population = << >> /\ gen.queue = << >> /\ gen.head = 0 /\ gen.pending = << >>
      /\ gen.buffer = << >> /\ gen.next = 0
  BY <1>1 DEF NewGeneration
<1>3. method.size \in Nat \ {0}
  BY <1>1 DEF GenerationsAssumption
<1>4. Reverse(<< >>) = << >> /\ FlattenSeq(<< >>) = << >>
  BY DEF Reverse, FlattenSeq
<1>5. InBuffer(gen) = << >>
  BY <1>2, <1>4 DEF InBuffer
<1>6. Typed
  BY <1>1, <1>3, <1>5 DEF Typed, NewGeneration, BufferCount
<1>7. ToldNumbers(gen) = << >>
  BY <1>5 DEF ToldNumbers, Numbered
<1>8. Ids(0, 0) = << >>
  BY DEF Ids
<1>9. First0(gen)
  BY <1>2, <1>3, <1>7, <1>8, Wraps DEF First0
<1> QED BY <1>2, <1>6, <1>9 DEF GenOK

\* What is told, pending and left are numbers.
LEMMA Counts ==
  ASSUME GenerationsAssumption, Typed
  PROVE  /\ ToldNumbers(gen) \in Seq(Nat) /\ Len(ToldNumbers(gen)) = BufferCount(gen)
         /\ BufferCount(gen) \in Nat /\ gen.pending \in Seq(Nat) /\ Left(gen) \in Seq(Nat)
<1> DEFINE T == Child(method.places)
           b == InBuffer(gen)
<1>1. b \in Seq(T)
  BY DEF Typed
<1>2. Numbered(b) \in Seq(Nat) /\ Len(Numbered(b)) = Len(b)
  <2> HIDE DEF b
  <2> QED BY <1>1, NumberedJoins
<1>3. Len(b) \in Nat
  <2> HIDE DEF b, T
  <2> QED BY <1>1
<1>4. gen.pending \in Seq(Nat) /\ gen.queue \in Seq(Nat) /\ gen.head \in Nat /\ gen.head <= Len(gen.queue)
  BY DEF Typed
<1>5. Left(gen) \in Seq(Nat)
  <2> DEFINE q == gen.queue
             h == gen.head
  <2>1. q \in Seq(Nat) /\ h \in Nat
    BY <1>4
  <2> HIDE DEF q, h
  <2>2. SubSeq(q, h + 1, Len(q)) \in Seq(Nat)
    BY <2>1
  <2> QED BY <2>2 DEF Left, q, h
<1> QED BY <1>2, <1>3, <1>4, <1>5 DEF ToldNumbers, BufferCount

\* Asking for part of the first population keeps it.
LEMMA AskInitialKeeps == ASSUME GenerationsAssumption, GenOK, AskInitial PROVE GenOK'
<1> DEFINE u == ToldNumbers(gen)
           c == BufferCount(gen)
           n == method.size
<1>0. Typed /\ First0(gen) /\ gen.population = << >> /\ gen.pending = << >>
  BY DEF GenOK, AskInitial
<1>1. /\ u \in Seq(Nat) /\ Len(u) = c /\ c \in Nat /\ c < n /\ n \in Nat \ {0}
  BY <1>0, Counts, MethodIs DEF Typed
<1>2. PICK batch \in Slices :
        LET remains  == n - c
            count == IF batch < remains THEN batch ELSE remains
        IN  gen' = [gen EXCEPT !.pending = Ids(gen.next, count), !.next = (@ + count) % n]
  BY DEF AskInitial
<1> DEFINE count == IF batch < n - c THEN batch ELSE n - c
<1>3. batch \in Nat \ {0}
  BY DEF GenerationsAssumption
<1>4. count \in Nat /\ c + count <= n
  BY <1>1, <1>3
<1>5. gen.next = c /\ u = Ids(0, c) /\ gen.queue = << >> /\ gen.head = 0
  <2>1. /\ u \o gen.pending = Ids(0, Len(u) + Len(gen.pending))
        /\ gen.next = (Len(u) + Len(gen.pending)) % n /\ gen.queue = << >> /\ gen.head = 0
    BY <1>0 DEF First0
  <2>2. u \o gen.pending = u /\ Len(gen.pending) = 0
    BY <1>0, <1>1, NothingIs
  <2>3. Len(u) + Len(gen.pending) = c
    BY <1>1, <2>2
  <2>4. c % n = c
    BY <1>1, Wraps
  <2> QED BY <2>1, <2>2, <2>3, <2>4
<1>6. gen' = [gen EXCEPT !.pending = Ids(c, count), !.next = (c + count) % n] /\ method' = method
  BY <1>2, <1>5 DEF AskInitial
<1> HIDE DEF count
<1>7. Ids(c, count) \in Seq(Nat) /\ Len(Ids(c, count)) = count /\ Ids(0, c) \o Ids(c, count) = Ids(0, c + count)
  BY <1>1, <1>4, IdsAre, IdsContinue
<1>8. (c + count) % n \in Nat
  BY <1>1, <1>4
<1>9. gen \in [population : Seq(method.places), queue : Seq(Nat), head : Nat, pending : Seq(Nat),
               buffer : Seq(Seq(Child(method.places))), next : Nat]
  BY <1>0 DEF Typed
<1>10. /\ gen'.population = gen.population /\ gen'.queue = gen.queue /\ gen'.head = gen.head
       /\ gen'.buffer = gen.buffer /\ gen'.pending = Ids(c, count) /\ gen'.next = (c + count) % n
  BY <1>6, <1>9
<1>11. InBuffer(gen)' = InBuffer(gen)
  BY <1>10 DEF InBuffer
<1>12. Typed'
  <2>1. (gen \in [population : Seq(method.places), queue : Seq(Nat), head : Nat, pending : Seq(Nat),
                  buffer : Seq(Seq(Child(method.places))), next : Nat])'
    BY <1>6, <1>7, <1>8, <1>9
  <2> QED BY <1>0, <1>6, <1>10, <1>11, <2>1 DEF Typed, BufferCount
<1>13. ToldNumbers(gen)' = u
  BY <1>11 DEF ToldNumbers
<1>14. First0(gen)'
  <2>1. Len(u) + Len(gen'.pending) = c + count
    BY <1>1, <1>7, <1>10
  <2> QED BY <1>4, <1>5, <1>6, <1>7, <1>10, <1>13, <2>1 DEF First0
<1> QED BY <1>0, <1>10, <1>12, <1>14 DEF GenOK

\* Joining is associative, and lengths add.
LEMMA Concatenates ==
  \A x, y, z \in Seq(Nat) :
     /\ (x \o y) \o z = x \o (y \o z) /\ x \o y \in Seq(Nat) /\ Len(x \o y) = Len(x) + Len(y)
     /\ Len(x) \in Nat
OBVIOUS

\* A slice is cut from what is left: it joins what was told, and the rest stays.
LEMMA SliceKeeps ==
  ASSUME NEW u \in Seq(Nat), NEW q \in Seq(Nat), NEW h \in Nat, NEW stop \in Nat, h <= stop, stop <= Len(q)
  PROVE  (u \o SubSeq(q, h + 1, stop)) \o SubSeq(q, stop + 1, Len(q)) = u \o SubSeq(q, h + 1, Len(q))
<1> DEFINE x == SubSeq(q, h + 1, stop)
           y == SubSeq(q, stop + 1, Len(q))
<1>1. x \o y = SubSeq(q, h + 1, Len(q)) /\ x \in Seq(Nat) /\ y \in Seq(Nat)
  BY CutInTwo
<1> HIDE DEF x, y
<1>2. (u \o x) \o y = u \o (x \o y)
  BY <1>1, Concatenates
<1> QED BY <1>1, <1>2 DEF x, y

\* All of a sequence, and what is after its end.
LEMMA WholeSeq == \A s \in Seq(Nat) : /\ SubSeq(s, 1, Len(s)) = s /\ Len(s) \in Nat
                                      /\ SubSeq(s, Len(s) + 1, Len(s)) = << >>
OBVIOUS

\* Asking for a slice of a later generation keeps the invariant, whether or not the queue is cut.
LEMMA AskGenerationKeeps == ASSUME GenerationsAssumption, GenOK, AskGeneration PROVE GenOK'
<1> DEFINE u == ToldNumbers(gen)
           n == method.size
           R == [population : Seq(method.places), queue : Seq(Nat), head : Nat, pending : Seq(Nat),
                 buffer : Seq(Seq(Child(method.places))), next : Nat]
           w == WithQueue(gen)
           q == w.queue
           h == w.head
<1>0. /\ Typed /\ Later(gen) /\ gen.population # << >> /\ gen.pending = << >>
      /\ gen \in R /\ method' = method
  BY DEF GenOK, AskGeneration, Typed
<1>1. u \in Seq(Nat) /\ Len(u) < n /\ n \in Nat \ {0} /\ Left(gen) \in Seq(Nat)
  BY <1>0, Counts, MethodIs DEF Typed
<1>2. gen.next = 0 /\ Len(gen.population) = n /\ u \o Left(gen) \in {<< >>, Ids(0, n)}
  <2>1. u \o gen.pending = u
    BY <1>0, <1>1, NothingIs
  <2> QED BY <1>0, <2>1 DEF Later
<1>3. Ids(0, n) \in Seq(Nat) /\ Len(Ids(0, n)) = n
  BY <1>1, IdsAre
<1>4. /\ w \in R /\ w.buffer = gen.buffer /\ w.population = gen.population /\ w.next = gen.next
      /\ h <= Len(q) /\ u \o SubSeq(q, h + 1, Len(q)) \in {<< >>, Ids(0, n)}
  <2>1. CASE gen.head # Len(gen.queue)
    <3>1. w = gen
      BY <2>1 DEF WithQueue
    <3> QED BY <1>0, <1>2, <3>1 DEF Left, Typed
  <2>2. CASE gen.head = Len(gen.queue)
    <3>1. w = [gen EXCEPT !.queue = Ids(0, n), !.head = 0]
      BY <1>2, <2>2 DEF WithQueue
    <3>2. w \in R /\ w.queue = Ids(0, n) /\ w.head = 0 /\ w.buffer = gen.buffer
          /\ w.population = gen.population /\ w.next = gen.next
      <4> DEFINE i == Ids(0, n)
      <4>1. i \in Seq(Nat) /\ 0 \in Nat /\ gen \in R
        BY <1>0, <1>3
      <4>2. w = [gen EXCEPT !.queue = i, !.head = 0]
        BY <3>1
      <4> HIDE DEF i, w
      <4>3. w \in R /\ w.queue = i /\ w.head = 0 /\ w.buffer = gen.buffer
            /\ w.population = gen.population /\ w.next = gen.next
        BY <4>1, <4>2
      <4> QED BY <4>3 DEF i
    <3>3. Left(gen) = << >>
      <4> DEFINE g == gen.queue
      <4>1. g \in Seq(Nat)
        BY <1>0
      <4> HIDE DEF g
      <4>2. SubSeq(g, Len(g) + 1, Len(g)) = << >>
        BY <4>1, WholeSeq
      <4> QED BY <2>2, <4>2 DEF Left, g
    <3>4. u = << >>
      <4>1. u \in {<< >>, Ids(0, n)}
        BY <1>1, <1>2, <3>3, NothingIs
      <4> QED BY <1>1, <1>3, <4>1
    <3>5. 0 + 1 = 1 /\ 0 <= Len(q)
      BY <1>3, <3>2
    <3>6. u \o SubSeq(q, h + 1, Len(q)) = Ids(0, n)
      BY <1>3, <3>2, <3>4, <3>5, WholeSeq, NothingIs
    <3> QED BY <3>2, <3>5, <3>6
  <2> QED BY <2>1, <2>2
<1>5. PICK batch \in Slices :
        LET stop == IF h + batch < Len(q) THEN h + batch ELSE Len(q)
        IN  gen' = [ReadUpTo(w, stop) EXCEPT !.pending = SubSeq(q, h + 1, stop)]
  BY DEF AskGeneration
<1> DEFINE stop == IF h + batch < Len(q) THEN h + batch ELSE Len(q)
           p == SubSeq(q, h + 1, stop)
           r == ReadUpTo(w, stop)
<1>6. gen' = [r EXCEPT !.pending = p]
  BY <1>5
<1>7. q \in Seq(Nat) /\ h \in Nat /\ Len(q) \in Nat /\ batch \in Nat
  BY <1>4 DEF GenerationsAssumption
<1> HIDE DEF w, h, q
<1>8. stop \in Nat /\ h <= stop /\ stop <= Len(q)
  BY <1>4, <1>7
<1> HIDE DEF stop
<1>9. p \in Seq(Nat) /\ SubSeq(q, stop + 1, Len(q)) \in Seq(Nat)
  BY <1>7, <1>8, CutInTwo
<1>10. (u \o p) \o SubSeq(q, stop + 1, Len(q)) = u \o SubSeq(q, h + 1, Len(q))
  <2> HIDE DEF u
  <2>1. u \in Seq(Nat) /\ q \in Seq(Nat) /\ h \in Nat
    BY <1>1, <1>7 DEF u
  <2> QED BY Zenon, <1>8, <2>1, SliceKeeps
<1> HIDE DEF p
<1>11. /\ r \in R /\ r.buffer = gen.buffer /\ r.population = gen.population /\ r.next = gen.next
       /\ r.head <= Len(r.queue)
       /\ SubSeq(r.queue, r.head + 1, Len(r.queue)) = SubSeq(q, stop + 1, Len(q))
  <2> DEFINE y == SubSeq(q, stop + 1, Len(q))
  <2>1. CASE r = [w EXCEPT !.queue = y, !.head = 0]
    <3> HIDE DEF y, r
    <3>1. y \in Seq(Nat)
      BY <1>9 DEF y
    <3>2. r \in R /\ r.buffer = gen.buffer /\ r.population = gen.population /\ r.next = gen.next
          /\ r.head = 0 /\ r.queue = y
      BY <1>4, <2>1, <3>1
    <3>3. SubSeq(y, 0 + 1, Len(y)) = y /\ 0 <= Len(y)
      BY <3>1, WholeSeq
    <3> QED BY <3>2, <3>3 DEF y
  <2>2. CASE r = [w EXCEPT !.head = stop]
    <3> HIDE DEF r
    <3>1. r \in R /\ r.buffer = gen.buffer /\ r.population = gen.population /\ r.next = gen.next
          /\ r.head = stop /\ r.queue = q
      BY <1>4, <1>8, <2>2 DEF q
    <3> QED BY <1>8, <3>1
  <2>3. r = [w EXCEPT !.queue = y, !.head = 0] \/ r = [w EXCEPT !.head = stop]
    <3>1. r = IF method.variant = "de" \/ stop = Len(q) \/ 2 * stop >= Len(q)
              THEN [w EXCEPT !.queue = SubSeq(@, stop + 1, Len(@)), !.head = 0]
              ELSE [w EXCEPT !.head = stop]
      BY DEF ReadUpTo, q
    <3>2. [w EXCEPT !.queue = SubSeq(@, stop + 1, Len(@)), !.head = 0] = [w EXCEPT !.queue = y, !.head = 0]
      BY DEF q
    <3> QED BY <3>1, <3>2
  <2> QED BY <2>1, <2>2, <2>3
<1> HIDE DEF r
<1>12. /\ gen' \in R /\ gen'.buffer = gen.buffer /\ gen'.population = gen.population
       /\ gen'.next = gen.next /\ gen'.head <= Len(gen'.queue) /\ gen'.pending = p
       /\ Left(gen)' = SubSeq(q, stop + 1, Len(q))
  <2>1. /\ gen' \in R /\ gen'.buffer = r.buffer /\ gen'.population = r.population
        /\ gen'.next = r.next /\ gen'.head = r.head /\ gen'.queue = r.queue /\ gen'.pending = p
    BY <1>6, <1>9, <1>11
  <2> QED BY <1>11, <2>1 DEF Left
<1>13. InBuffer(gen)' = InBuffer(gen)
  BY <1>12 DEF InBuffer
<1>14. Typed'
  <2>1. (gen \in R)'
    BY <1>0, <1>12
  <2> QED BY <1>0, <1>12, <1>13, <2>1 DEF Typed, BufferCount
<1>15. Later(gen)'
  <2>1. ToldNumbers(gen)' = u
    BY <1>13 DEF ToldNumbers
  <2>2. (ToldNumbers(gen)' \o gen'.pending) \o Left(gen)' \in {<< >>, Ids(0, n)}
    BY <1>4, <1>10, <1>12, <2>1
  <2> QED BY <1>0, <1>2, <1>12, <2>2 DEF Later
<1> QED BY <1>0, <1>12, <1>14, <1>15 DEF GenOK

\* What a slice is told is children, numbered as they were asked for.
LEMMA SliceTold ==
  ASSUME NEW Y, NEW p \in Seq(Nat), NEW at \in [DOMAIN p -> Y]
  PROVE  LET told == [k \in DOMAIN p |-> [id |-> p[k], at |-> at[k]]]
         IN  told \in Seq(Child(Y)) /\ Numbered(told) = p
<1> DEFINE told == [k \in DOMAIN p |-> [id |-> p[k], at |-> at[k]]]
           l == Len(p)
<1>1. l \in Nat /\ DOMAIN p = 1 .. l /\ \A k \in 1 .. l : p[k] \in Nat
  BY IndicesAre
<1>2. p = [k \in 1 .. l |-> p[k]]
  OBVIOUS
<1> HIDE DEF l
<1>3. \A k \in 1 .. l : [id |-> p[k], at |-> at[k]] \in Child(Y)
  BY <1>1 DEF Child
<1>4. told \in [1 .. l -> Child(Y)] /\ DOMAIN told = 1 .. l /\ \A k \in 1 .. l : told[k].id = p[k]
  BY <1>1, <1>3
<1> HIDE DEF told
<1>5. told \in Seq(Child(Y))
  BY <1>1, <1>4, FixedLength
<1>6. Numbered(told) = p
  BY <1>2, <1>4 DEF Numbered
<1> QED BY <1>5, <1>6 DEF told

\* Where they lie.
LEMMA MembersAre ==
  ASSUME NEW Y, NEW told \in Seq(Child(Y))
  PROVE  LET members == [k \in DOMAIN told |-> told[k].at]
         IN  members \in Seq(Y) /\ Len(members) = Len(told)
<1> DEFINE members == [k \in DOMAIN told |-> told[k].at]
           T == Child(Y)
<1>1. told \in Seq(T) /\ \A t \in T : t.at \in Y
  BY DEF Child
<1> HIDE DEF T
<1>2. Len(told) \in Nat /\ DOMAIN told = 1 .. Len(told) /\ \A k \in 1 .. Len(told) : told[k].at \in Y
  BY <1>1
<1>3. members \in [1 .. Len(told) -> Y]
  BY <1>2
<1> HIDE DEF members
<1> QED BY <1>2, <1>3, FixedLength DEF members

\* Telling a slice keeps it, whether or not the slice completes the generation.
LEMMA TellKeeps == ASSUME GenerationsAssumption, GenOK, TellChildren PROVE GenOK'
<1> DEFINE Y == method.places
           T == Child(Y)
           u == ToldNumbers(gen)
           n == method.size
           R == [population : Seq(Y), queue : Seq(Nat), head : Nat, pending : Seq(Nat),
                 buffer : Seq(Seq(T)), next : Nat]
<1>0. Typed /\ gen \in R /\ method' = method /\ method \in Methods /\ gen.head <= Len(gen.queue)
  BY Zenon DEF GenOK, TellChildren, Typed
<1>1. /\ u \in Seq(Nat) /\ Len(u) = BufferCount(gen) /\ BufferCount(gen) \in Nat
      /\ gen.pending \in Seq(Nat) /\ Left(gen) \in Seq(Nat) /\ n \in Nat \ {0} /\ Terrain(Y)
  <2>1. Typed
    BY <1>0
  <2>2. /\ u \in Seq(Nat) /\ Len(u) = BufferCount(gen) /\ BufferCount(gen) \in Nat
        /\ gen.pending \in Seq(Nat) /\ Left(gen) \in Seq(Nat)
    BY Zenon, <2>1, Counts
  <2>3. n \in Nat \ {0} /\ Terrain(Y)
    BY Zenon, <2>1, MethodIs
  <2> QED BY <2>2, <2>3
<1>2. PICK at \in [DOMAIN gen.pending -> Y] :
        LET told == [k \in DOMAIN gen.pending |-> [id |-> gen.pending[k], at |-> at[k]]]
            g    == [gen EXCEPT !.pending = << >>, !.buffer = << told >> \o @]
            all  == InBuffer(g)
        IN  IF Len(all) < n THEN gen' = g
            ELSE LET members == [k \in DOMAIN all |-> all[k].at]
                 IN  \E population \in
                         IF gen.population = << >>
                         THEN {IF method.variant = "de" THEN members ELSE Sorted(members)}
                         ELSE NextPopulations(method, gen.population, all) :
                       gen' = [g EXCEPT !.population = population, !.buffer = << >>]
  BY Zenon DEF TellChildren
<1> DEFINE told == [k \in DOMAIN gen.pending |-> [id |-> gen.pending[k], at |-> at[k]]]
           g    == [gen EXCEPT !.pending = << >>, !.buffer = << told >> \o @]
           all  == InBuffer(g)
           members == [k \in DOMAIN all |-> all[k].at]
<1>3. told \in Seq(T) /\ Numbered(told) = gen.pending
  BY <1>1, SliceTold
<1> HIDE DEF told
<1>4. /\ g.pending = << >> /\ g.buffer = <<told>> \o gen.buffer /\ g.population = gen.population
      /\ g.queue = gen.queue /\ g.head = gen.head /\ g.next = gen.next
  BY <1>0
<1>5. gen.buffer \in Seq(Seq(T))
  BY <1>0
<1>6. all = InBuffer(gen) \o told /\ InBuffer(gen) \in Seq(T) /\ g.buffer \in Seq(Seq(T))
  <2> HIDE DEF T, g
  <2> QED BY <1>3, <1>4, <1>5, BufferedAppends
<1>7. << >> \in Seq(Nat)
  OBVIOUS
<1>8. g \in R
  <2> DEFINE b == <<told>> \o gen.buffer
  <2>1. b \in Seq(Seq(T)) /\ g = [gen EXCEPT !.pending = << >>, !.buffer = b]
    BY <1>4, <1>6
  <2> HIDE DEF b, g
  <2> QED BY <1>0, <1>7, <2>1
<1>9. /\ Numbered(all) = u \o gen.pending /\ all \in Seq(T) /\ Len(all) \in Nat
      /\ Len(all) = Len(u) + Len(gen.pending)
  <2>1. Numbered(all) = Numbered(InBuffer(gen)) \o Numbered(told) /\ Numbered(InBuffer(gen)) = u
    BY <1>3, <1>6, NumberedJoins DEF ToldNumbers
  <2>2. all \in Seq(T)
    <3> HIDE DEF T, all
    <3> QED BY <1>3, <1>6
  <2>3. Len(Numbered(all)) = Len(all)
    <3> HIDE DEF all
    <3> QED BY <2>2, NumberedJoins
  <2>4. Len(u \o gen.pending) = Len(u) + Len(gen.pending) /\ Len(u \o gen.pending) \in Nat
    BY <1>1, Concatenates
  <2> HIDE DEF all, u
  <2> QED BY <1>3, <2>1, <2>2, <2>3, <2>4
<1>10. CASE Len(all) < n
  <2>1. gen' = g
    BY <1>2, <1>10 DEF told
  <2>2. InBuffer(gen)' = all
    BY <2>1
  <2> HIDE DEF g, all, u, R
  <2>3. gen' \in R /\ gen'.pending = << >> /\ gen'.population = gen.population
        /\ gen'.queue = gen.queue /\ gen'.head = gen.head /\ gen'.next = gen.next
    BY <1>4, <1>8, <2>1
  <2>4. Typed'
    <3>1. (gen \in R)'
      BY <1>0, <2>3 DEF R
    <3> QED BY <1>0, <1>9, <1>10, <2>2, <2>3, <3>1 DEF Typed, BufferCount, R
  <2>5. ToldNumbers(gen)' = u \o gen.pending /\ u \o gen.pending \in Seq(Nat)
        /\ Len(u \o gen.pending) = Len(u) + Len(gen.pending)
    BY <1>1, <1>9, <2>2, Concatenates DEF ToldNumbers
  <2>6. (u \o gen.pending) \o << >> = u \o gen.pending
    BY <2>5, NothingIs
  <2>7. CASE gen.population = << >>
    <3>1. First0(gen)
      BY <2>7 DEF GenOK
    <3>2. Len(u \o gen.pending) + Len(<< >>) = Len(u) + Len(gen.pending)
      BY <1>9, <2>5
    <3>3. First0(gen)'
      BY <1>0, <2>3, <2>5, <2>6, <3>1, <3>2 DEF First0, u
    <3> QED BY <2>3, <2>4, <2>7, <3>3 DEF GenOK
  <2>8. CASE gen.population # << >>
    <3>1. Later(gen)
      BY <2>8 DEF GenOK
    <3>2. Later(gen)'
      BY Zenon, <1>0, <2>3, <2>5, <2>6, <3>1 DEF Later, Left, u
    <3> QED BY <2>3, <2>4, <2>8, <3>2 DEF GenOK
  <2> QED BY <2>7, <2>8
<1>11. CASE ~(Len(all) < n)
  <2>1. PICK population \in IF gen.population = << >>
                            THEN {IF method.variant = "de" THEN members ELSE Sorted(members)}
                            ELSE NextPopulations(method, gen.population, all) :
          gen' = [g EXCEPT !.population = population, !.buffer = << >>]
    BY Zenon, <1>2, <1>11 DEF told
  <2>2. ASSUME gen.population = << >>
        PROVE  gen.next = 0 /\ Left(gen) = << >> /\ population \in Seq(Y) /\ Len(population) = n
    <3>1. /\ First0(gen) /\ Len(u) + Len(gen.pending) <= n /\ gen.queue = << >> /\ gen.head = 0
          /\ gen.next = (Len(u) + Len(gen.pending)) % n
      BY <2>2 DEF GenOK, First0
    <3>2. Len(all) = n
      BY <1>1, <1>9, <1>11, <3>1
    <3>3. gen.next = 0
      BY <1>1, <1>9, <3>1, <3>2, Wraps
    <3>4. members \in Seq(Y) /\ Len(members) = n
      <4> HIDE DEF all
      <4> QED BY <1>9, <3>2, MembersAre
    <3>5. Sorted(members) \in Seq(Y) /\ Len(Sorted(members)) = n
      BY <1>1, <3>4, SortedIs
    <3>6. population \in Seq(Y) /\ Len(population) = n
      BY <2>1, <2>2, <3>4, <3>5
    <3>7. Left(gen) = << >>
      <4>1. SubSeq(<< >>, 0 + 1, Len(<< >>)) = << >>
        BY <1>7, WholeSeq
      <4> QED BY <3>1, <4>1 DEF Left
    <3> QED BY <3>2, <3>3, <3>6, <3>7
  <2>3. ASSUME gen.population # << >>
        PROVE  gen.next = 0 /\ Left(gen) = << >> /\ population \in Seq(Y) /\ Len(population) = n
    <3>1. /\ gen.next = 0 /\ Len(gen.population) = n /\ gen.population \in Seq(Y)
          /\ (u \o gen.pending) \o Left(gen) \in {<< >>, Ids(0, n)}
      BY <1>0, <2>3 DEF GenOK, Later
    <3> DEFINE a == u \o gen.pending
    <3>2. /\ a \in Seq(Nat) /\ Len(a) = Len(all) /\ Len(a \o Left(gen)) = Len(a) + Len(Left(gen))
          /\ Len(Left(gen)) \in Nat
      BY <1>1, <1>9, Concatenates
    <3>3. Len(Ids(0, n)) = n
      BY <1>1, IdsAre
    <3> HIDE DEF a, all
    <3>4. a \o Left(gen) \in {<< >>, Ids(0, n)}
      BY <3>1 DEF a
    <3>5. Len(all) = n /\ Len(Left(gen)) = 0
      <4> DEFINE l  == Left(gen)
                 ids == Ids(0, n)
                 c  == a \o l
      <4>1. /\ c = << >> \/ c = ids
            /\ Len(c) = Len(all) + Len(l) /\ Len(ids) = n /\ Len(all) \in Nat /\ Len(l) \in Nat
        BY <1>9, <3>2, <3>3, <3>4
      <4> HIDE DEF l, ids, c
      <4>2. Len(all) = n /\ Len(l) = 0
        BY <1>1, <1>11, <4>1
      <4> QED BY <4>2 DEF l
    <3>6. Left(gen) = << >>
      BY <1>1, <3>5, NothingIs
    <3>7. population \in NextPopulations(method, gen.population, all)
      BY <2>1, <2>3
    <3>8. population \in Seq(Y) /\ Len(population) = n
      BY <1>0, <1>9, <3>1, <3>5, <3>7, PopulationsCount
    <3> QED BY <3>1, <3>5, <3>6, <3>8
  <2>4. /\ gen.next = 0 /\ Left(gen) = << >> /\ population \in Seq(Y) /\ Len(population) = n
    BY <2>2, <2>3
  <2>5. << >> \in Seq(Seq(T)) /\ Reverse(<< >>) = << >> /\ FlattenSeq(<< >>) = << >>
    BY DEF Reverse, FlattenSeq
  <2> HIDE DEF g
  <2>6. /\ gen' \in R /\ gen'.pending = << >> /\ gen'.population = population /\ gen'.buffer = << >>
        /\ gen'.queue = gen.queue /\ gen'.head = gen.head /\ gen'.next = 0
    <3>1. g \in R /\ population \in Seq(Y) /\ << >> \in Seq(Seq(T))
      BY <1>8, <2>4, <2>5
    <3> HIDE DEF Y, T
    <3>2. gen' \in R /\ gen'.pending = g.pending /\ gen'.population = population /\ gen'.buffer = << >>
          /\ gen'.queue = g.queue /\ gen'.head = g.head /\ gen'.next = g.next
      BY <2>1, <3>1
    <3> QED BY <1>4, <2>4, <3>2
  <2>7. InBuffer(gen)' = << >>
    BY <2>5, <2>6 DEF InBuffer
  <2>8. ToldNumbers(gen)' = << >>
    BY <2>7 DEF ToldNumbers, Numbered
  <2>9. Left(gen)' = << >>
    BY <2>4, <2>6 DEF Left
  <2> HIDE DEF R
  <2>10. Typed'
    <3>1. (gen \in R)'
      BY <1>0, <2>6 DEF R
    <3>2. << >> \in Seq(T) /\ Len(<< >>) < n
      BY <1>1
    <3> QED BY <1>0, <2>6, <2>7, <3>1, <3>2 DEF Typed, BufferCount, R
  <2>11. Later(gen)'
    <3>1. (<< >> \o << >>) \o << >> = << >>
      BY <1>7, NothingIs
    <3> QED BY <1>0, <2>4, <2>6, <2>8, <2>9, <3>1 DEF Later
  <2>12. population # << >>
    BY <1>1, <2>4
  <2> QED BY <2>6, <2>10, <2>11, <2>12 DEF GenOK
<1> QED BY Zenon, <1>10, <1>11

\* A step that changes nothing keeps it.
LEMMA GenStuttersKeep == ASSUME GenOK, UNCHANGED genVars PROVE GenOK'
<1>1. gen' = gen /\ method' = method
  BY DEF genVars
<1>2. InBuffer(gen)' = InBuffer(gen)
  BY <1>1 DEF InBuffer
<1>3. Typed' = Typed
  BY <1>1, <1>2 DEF Typed, BufferCount
<1>4. ToldNumbers(gen)' = ToldNumbers(gen) /\ Left(gen)' = Left(gen)
  BY <1>1, <1>2 DEF ToldNumbers, Left
<1> QED BY <1>1, <1>3, <1>4 DEF GenOK, First0, Later

\* What is told, pending and left is read off the invariant.
LEMMA GenOrders == ASSUME GenOK PROVE GenerationInOrder
<1>1. ToldNumbers(gen) = [k \in DOMAIN InBuffer(gen) |-> InBuffer(gen)[k].id]
  BY DEF ToldNumbers, Numbered
<1>2. Left(gen) = SubSeq(gen.queue, gen.head + 1, Len(gen.queue))
  BY DEF Left
<1> DEFINE told == [k \in DOMAIN InBuffer(gen) |-> InBuffer(gen)[k].id]
           remains == SubSeq(gen.queue, gen.head + 1, Len(gen.queue))
<1>3. CASE gen.population = << >>
  <2>1. told \o gen.pending = Ids(0, Len(told) + Len(gen.pending))
    BY <1>1, <1>3 DEF GenOK, First0
  <2> QED BY <1>3, <2>1 DEF GenerationInOrder
<1>4. CASE gen.population # << >>
  <2>1. /\ (told \o gen.pending) \o remains \in {<< >>, Ids(0, method.size)}
        /\ Len(gen.population) = method.size
    BY <1>1, <1>2, <1>4 DEF GenOK, Later
  <2> QED BY <1>4, <2>1 DEF GenerationInOrder
<1> QED BY <1>3, <1>4

(* However a generation is sliced, its children are asked for and told once
   each and in their order, and the population keeps its size
   (ask_generational_ga, tell_generational_ga): for every method, size, number
   of elites, window, niche and radius, and for every sequence of batch sizes. *)
THEOREM GenerationsInOrder == ASSUME GenerationsAssumption PROVE GenSpec => []GenerationInOrder
<1>1. GenInit => GenOK
  BY GenBegins
<1>2. GenOK /\ [GenNext]_genVars => GenOK'
  BY AskInitialKeeps, AskGenerationKeeps, TellKeeps, GenStuttersKeep DEF GenNext
<1>3. GenOK => GenerationInOrder
  BY GenOrders
<1> QED BY <1>1, <1>2, <1>3, PTL DEF GenSpec
=============================================================================
