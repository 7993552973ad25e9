-------------------------- MODULE AttemptArtifacts --------------------------
(* The artifacts a batch of evaluations becomes: an attempt per request, made
   by a worker, sent to the study, accepted against the requests, materialised
   as the records a run method is told, reported, projected to a scalar result
   or a nondominated surface, saved and loaded.

   A candidate is an object and a value, [at, val].  Whether two candidates are
   the same is asked in three ways: by identity, by the `==` of their class and
   by the predicate of the space.  A pickle keeps the identity of objects but
   not that of numbers, and drops the predicate; a success therefore carries
   what it has already compared, and what it would have to compare again. *)
EXTENDS Integers, Sequences, FiniteSets, SequencesExt, FiniteSetsExt

CONSTANTS Class,     \* Class[v]: what the space takes the value v for
          Batches,   \* sequences of [request, made]: what was asked, what the worker made of it
          Extras     \* evaluations a study counted beyond those of its attempts

(* `raw` of a space: "scalar" when `==` of candidates compares their values,
   "owned" when it has no truth value and only the space can compare them. *)
VARIABLES raw, exchange, slots, stage, report

artifactVars == <<raw, exchange, slots, stage, report>>

NotCompared == <<0, 0>>
NoReport == [kind |-> "none", successes |-> << >>, failures |-> << >>, count |-> 0,
             best |-> 0, frontier |-> << >>]

Same(a, b) == a.at = b.at
Equal(equality, a, b) ==
  IF equality THEN Class[a.val] = Class[b.val] ELSE raw = "scalar" /\ a.val = b.val
Compares(equality, a, b) == equality \/ raw = "scalar" \/ Same(a, b)

(* The k-th of some places of a sequence, and what is at them, in their order. *)
PlaceAt(places, k) == CHOOSE i \in places : Cardinality({j \in places : j < i}) = k - 1
PickedAt(places, seq) == [k \in 1 .. Cardinality(places) |-> seq[PlaceAt(places, k)]]

SuccessPlaces(attempts) == {i \in DOMAIN attempts : attempts[i].ok}

Successes(attempts) == PickedAt(SuccessPlaces(attempts), attempts)
Failures(attempts)  == PickedAt(DOMAIN attempts \ SuccessPlaces(attempts), attempts)

SumOf(attempts) == SumFunction([i \in DOMAIN attempts |-> attempts[i].count])

-----------------------------------------------------------------------------
(* A success and what its constructor accepts.  `ref` holds at most one
   refinement [source, refined]; `record` of the payload at most one record
   [request, cand] around the value. *)

Failure(request, count) == [ok |-> FALSE, request |-> request, count |-> count]

Success(request, payload, count, ref, equality) ==
  [ok |-> TRUE, request |-> request, payload |-> payload, count |-> count, ref |-> ref,
   equality |-> equality, required |-> equality, aligned |-> NotCompared, sourced |-> NotCompared]

AlignmentCompared(s) == s.aligned = <<s.request.cand.at, s.ref[1].refined.at>>
SourceCompared(s, r) == s.sourced = <<r.request.cand.at, s.ref[1].source.at>>

MayCompare(s) == s.equality \/ ~s.required

RefinementAccepted(s) ==
  \/ s.ref = << >>
  \/ AlignmentCompared(s)
  \/ MayCompare(s) /\ Equal(s.equality, s.request.cand, s.ref[1].refined)

SourceAccepted(s, r) ==
  \/ s.ref = << >>
  \/ SourceCompared(s, r)
  \/ MayCompare(s) /\ Equal(s.equality, s.ref[1].source, r.request.cand)

RecordAccepted(s, r) ==
  /\ Same(r.cand, s.request.cand) \/ Equal(s.equality, r.cand, s.request.cand)
  /\ \/ r.request.at = s.request.at
     \/ r.request.id = s.request.id /\ SourceAccepted(s, r)

Accepted(s) ==
  /\ s.count >= 0
  /\ RefinementAccepted(s)
  /\ \A r \in ToSet(s.payload.record) : RecordAccepted(s, r)

(* What an accepted success remembers to have compared. *)
Remembered(s) ==
  [s EXCEPT
     !.aligned = IF s.ref = << >> THEN NotCompared ELSE <<s.request.cand.at, s.ref[1].refined.at>>,
     !.sourced = IF \/ s.ref = << >> \/ s.payload.record = << >>
                    \/ s.payload.record[1].request.at = s.request.at THEN NotCompared
                 ELSE <<s.payload.record[1].request.cand.at, s.ref[1].source.at>>]

(* The same success with another payload, keeping what it remembers. *)
WithPayload(s, payload, equality) ==
  [s EXCEPT !.payload = payload, !.equality = @ \/ equality, !.required = @ \/ equality]

(* The same success made again under a predicate, comparing everything. *)
MadeAgain(s, equality) == Success(s.request, s.payload, s.count, s.ref, equality)

-----------------------------------------------------------------------------
(* What may be asked and what may be made of it.  A candidate, a request is one
   object wherever its identity is the same; every run method of variopt numbers
   its proposals, and what is made of a request keeps its number. *)
Objects     == [at : Nat \ {0}, val : DOMAIN Class]
Requested   == [at : Nat \ {0}, cand : Objects, id : Nat]
Payloads    == [kind : {"value", "vector", "custom"}, score : Seq(Int) \ {<< >>},
                record : Seq([request : Requested, cand : Objects])]
Failed      == [ok : {FALSE}, request : Requested, count : Nat]
Successful  == [ok : {TRUE}, request : Requested, payload : Payloads, count : Int,
                ref : Seq([source : Objects, refined : Objects]),
                equality : BOOLEAN, required : BOOLEAN, aligned : Nat \X Nat, sourced : Nat \X Nat]

ObjectsOf(s) == {s.request.cand} \cup (UNION {{r.source, r.refined} : r \in ToSet(s.ref)})
                  \cup (UNION {{r.cand, r.request.cand} : r \in ToSet(s.payload.record)})

Coherent(s) ==
  /\ Len(s.ref) <= 1 /\ Len(s.payload.record) <= 1
  /\ \A a, b \in ObjectsOf(s) : Same(a, b) => a = b
  /\ \A r \in ToSet(s.payload.record) : r.request.at = s.request.at => r.request = s.request

NotYetCompared(s) == s.required = s.equality /\ s.aligned = NotCompared /\ s.sourced = NotCompared

BatchesAssumption ==
  /\ Batches \subseteq Seq([request : Requested, made : Failed \cup Successful])
  /\ \A asked \in Batches : \A i, j \in DOMAIN asked :
       /\ asked[i].made.request.id = asked[i].request.id
       /\ asked[i].made.ok => Coherent(asked[i].made) /\ NotYetCompared(asked[i].made)
       /\ asked[i].request.id = asked[j].request.id => i = j
       /\ asked[i].made.request.at = asked[j].made.request.at => asked[i].made.request = asked[j].made.request

ASSUME ArtifactsAssumption == BatchesAssumption /\ Extras \subseteq Nat

-----------------------------------------------------------------------------
(* Crossing a process or a file.  Requests, refinements and records arrive as
   the objects they were to each other; numbers arrive as new objects, unless
   the interpreter shares them. *)

Moved(c, at, shared) == IF shared THEN c ELSE [c EXCEPT !.at = at]

MovedRecord(s, r, shared) ==
  [request |-> [r.request EXCEPT !.cand = Moved(@, IF r.request.at = s.request.at THEN 11 ELSE 14, shared)],
   cand |-> Moved(r.cand, 15, shared)]

Pickled(s) ==
  [alignment |-> s.ref # << >> /\ AlignmentCompared(s),
   source |-> s.ref # << >> /\ s.payload.record # << >> /\ SourceCompared(s, s.payload.record[1])]

Restored(s, shared) ==
  LET seen == Pickled(s)
      request == [s.request EXCEPT !.cand = Moved(@, 11, shared)]
      ref == [i \in DOMAIN s.ref |-> [source |-> Moved(s.ref[i].source, 12, shared),
                                      refined |-> Moved(s.ref[i].refined, 13, shared)]]
      record == [i \in DOMAIN s.payload.record |-> MovedRecord(s, s.payload.record[i], shared)]
  IN [s EXCEPT !.request = request, !.ref = ref, !.payload.record = record, !.equality = FALSE,
               !.aligned = IF seen.alignment THEN <<request.cand.at, ref[1].refined.at>> ELSE NotCompared,
               !.sourced = IF seen.source THEN <<record[1].request.cand.at, ref[1].source.at>>
                           ELSE NotCompared]

RestoredAll(attempts, shared) == [i \in DOMAIN attempts |-> IF attempts[i].ok THEN Restored(attempts[i], shared)
                                                             ELSE attempts[i]]
AllAccepted(attempts) == \A a \in ToSet(attempts) : a.ok => Accepted(a)
AllRemembered(attempts) == [i \in DOMAIN attempts |-> IF attempts[i].ok THEN Remembered(attempts[i])
                                                      ELSE attempts[i]]
SharedOptions == IF raw = "owned" THEN {TRUE} ELSE BOOLEAN

-----------------------------------------------------------------------------
(* Accepting a batch against the requests it answers. *)

RequestsMatch(a, request) == a.request.id = request.id /\ Equal(TRUE, a.request.cand, request.cand)

SuccessMatches(s, request) ==
  \/ RequestsMatch(s, request)
  \/ /\ s.ref # << >> /\ s.request.id = request.id
     /\ Equal(TRUE, s.ref[1].source, request.cand)
     /\ Equal(TRUE, s.request.cand, s.ref[1].refined)

(* Mutants: the slots are counted and not compared; what the worker compared
   is trusted and the predicate it dropped is not given back. *)
Mutant_CountOnly(attempts, requests) == Len(attempts) = Len(requests)
Mutant_TrustTheWorker(s) == s

AlignedWith(attempts, requests) ==
  /\ Len(attempts) = Len(requests)
  /\ \A i \in DOMAIN requests :
       IF attempts[i].ok THEN SuccessMatches(attempts[i], requests[i]) /\ Accepted(MadeAgain(attempts[i], TRUE))
       ELSE RequestsMatch(attempts[i], requests[i])

Rebound(s) == WithPayload(s, s.payload, TRUE)

-----------------------------------------------------------------------------
(* The record of a success: the one it carries when that speaks of the same
   request, otherwise one made of its value. *)

Projected(s) ==
  [request |-> [at |-> s.request.at + 100, id |-> s.request.id,
                cand |-> IF s.ref = << >> THEN s.request.cand ELSE s.ref[1].source],
   cand |-> s.request.cand]

CanMaterialize(s, r) ==
  /\ Same(r.cand, s.request.cand) \/ Equal(s.equality, r.cand, s.request.cand)
  /\ r.request.at = s.request.at \/ r.request.id = s.request.id
  /\ IF s.ref = << >> THEN Same(r.request.cand, s.request.cand)
     ELSE \/ Same(r.request.cand, s.ref[1].source) \/ SourceCompared(s, r)
          \/ Equal(s.equality, r.request.cand, s.ref[1].source)

(* The comparisons above raise on candidates that only the space can compare. *)
Materializable(s) ==
  \A r \in ToSet(s.payload.record) :
    /\ Compares(s.equality, r.cand, s.request.cand)
    /\ s.ref # << >> => SourceCompared(s, r) \/ Compares(s.equality, r.request.cand, s.ref[1].source)
    /\ s.payload.kind = "custom" => CanMaterialize(s, r)

Materialized(s) ==
  WithPayload(s, [s.payload EXCEPT !.record = IF @ # << >> /\ CanMaterialize(s, @[1]) THEN @
                                              ELSE <<Projected(s)>>], FALSE)

(* What a study checks of the materialised batch, whoever materialised it. *)
SlotKept(source, result) ==
  /\ result.ok = source.ok /\ result.request.at = source.request.at /\ result.count = source.count
  /\ source.ok => /\ result.ref = source.ref /\ result.payload.record # << >>
                  /\ Accepted(MadeAgain(result, TRUE))

-----------------------------------------------------------------------------
(* Reports and the surfaces made of them. *)

Enough(rep) == rep.count >= SumOf(rep.successes) + SumOf(rep.failures)

Dominates(a, b) == /\ \A k \in DOMAIN a : a[k] <= b[k]
                   /\ \E k \in DOMAIN a : a[k] < b[k]

Score(s) == s.payload.score

Nondominated(successes) ==
  PickedAt({i \in DOMAIN successes : \A j \in DOMAIN successes : ~Dominates(Score(successes[j]), Score(successes[i]))},
           [i \in DOMAIN successes |-> i])

FirstBest(successes) ==
  IF successes = << >> THEN 0
  ELSE CHOOSE i \in DOMAIN successes :
         /\ \A j \in DOMAIN successes : Score(successes[i])[1] <= Score(successes[j])[1]
         /\ \A j \in 1 .. (i - 1) : Score(successes[i])[1] < Score(successes[j])[1]

BestHolds(rep) ==
  /\ (rep.best = 0) = (rep.successes = << >>)
  /\ rep.best # 0 => \A s \in ToSet(rep.successes) : Score(s)[1] >= Score(rep.successes[rep.best])[1]

OneDimension(successes) == Cardinality({Len(Score(s)) : s \in ToSet(successes)}) <= 1

SurfaceHolds(rep) ==
  /\ Enough(rep)
  /\ AllAccepted(rep.successes)
  /\ rep.kind = "result" => BestHolds(rep)
  /\ rep.kind = "surface" => OneDimension(rep.successes) /\ rep.frontier = Nondominated(rep.successes)

WithoutRecord(s) == [s.payload EXCEPT !.record = << >>]

ScalarSuccess(s, equality) == Success(s.request, WithoutRecord(s), s.count, s.ref, equality)

(* The request a record speaks for, when its candidate was refined. *)
RecordRequestKnown(s, equality) ==
  LET r == s.payload.record[1]
  IN \/ Same(r.request.cand, r.cand)
     \/ Compares(equality, r.request.cand, r.cand) /\ (Equal(equality, r.request.cand, r.cand) \/ s.ref # << >>)

RecordRequest(s) ==
  LET r == s.payload.record[1]
  IN IF Same(r.request.cand, r.cand) THEN r.request
     ELSE [r.request EXCEPT !.at = @ + 100, !.cand = r.cand]

VectorSuccess(s, equality) == Success(RecordRequest(s), WithoutRecord(s), s.count, s.ref, equality)

-----------------------------------------------------------------------------
ArtifactInit ==
  /\ raw \in {"scalar", "owned"} /\ exchange \in Batches
  /\ slots = << >> /\ stage = "asked" /\ report = NoReport

RequestsSent == [i \in DOMAIN exchange |-> exchange[i].request]

(* A worker evaluates each request; what its protocol or its kernel returns may
   be refused by the constructor. *)
Evaluate ==
  /\ stage = "asked"
  /\ LET made == [i \in DOMAIN exchange |-> exchange[i].made]
     IN IF AllAccepted(made) THEN slots' = AllRemembered(made) /\ stage' = "made"
        ELSE UNCHANGED slots /\ stage' = "refused"
  /\ UNCHANGED <<raw, exchange, report>>

(* The attempts of the single requests travel one by one and are merged in
   the order of the requests, or in another one when the evaluator errs. *)
Deliver ==
  /\ stage = "made"
  /\ \E shared \in SharedOptions, order \in {slots, Reverse(slots)} :
       LET arrived == RestoredAll(order, shared)
       IN IF AllAccepted(arrived) THEN slots' = AllRemembered(arrived) /\ stage' = "delivered"
          ELSE slots' = arrived /\ stage' = "lost"
  /\ UNCHANGED <<raw, exchange, report>>

DeliverInProcess == stage = "made" /\ stage' = "delivered" /\ UNCHANGED <<raw, exchange, slots, report>>

(* The attempts of episodes are bound to the predicate of the space again; those
   of a kernel in the study's process still are, and those of single requests
   are not. *)
Accept ==
  /\ stage = "delivered"
  /\ \E bind \in IF \A s \in ToSet(Successes(slots)) : s.ref # << >> => s.equality THEN BOOLEAN ELSE {TRUE} :
       LET bound == [i \in DOMAIN slots |-> IF slots[i].ok /\ bind THEN Rebound(slots[i]) ELSE slots[i]]
       IN CASE ~AlignedWith(slots, RequestsSent) -> stage' = "refused" /\ UNCHANGED slots
            [] AlignedWith(slots, RequestsSent) /\ AllAccepted(bound) ->
                 stage' = "accepted" /\ slots' = AllRemembered(bound)
            [] OTHER -> stage' = "broken" /\ UNCHANGED slots
  /\ UNCHANGED <<raw, exchange, report>>

Materialize ==
  /\ stage = "accepted"
  /\ LET told == [i \in DOMAIN slots |-> IF slots[i].ok THEN Materialized(slots[i]) ELSE slots[i]]
     IN IF /\ \A s \in ToSet(slots) : s.ok => Materializable(s)
           /\ AllAccepted(told)
           /\ \A i \in DOMAIN slots : SlotKept(slots[i], told[i])
        THEN slots' = AllRemembered(told) /\ stage' = "told"
        ELSE stage' = "broken" /\ UNCHANGED slots
  /\ UNCHANGED <<raw, exchange, report>>

(* A materialiser of the user's: it returns the slots in another order or with
   another cost. *)
MaterializeWrongly ==
  /\ stage = "accepted"
  /\ \E wrong \in {Reverse(slots), [i \in DOMAIN slots |-> [slots[i] EXCEPT !.count = @ + 1]]} :
       LET told == [i \in DOMAIN wrong |-> IF wrong[i].ok THEN Materialized(wrong[i]) ELSE wrong[i]]
       IN /\ wrong # slots
          /\ IF \A i \in DOMAIN slots : SlotKept(slots[i], told[i])
             THEN slots' = AllRemembered(told) /\ stage' = "told"
             ELSE stage' = "refused" /\ UNCHANGED slots
  /\ UNCHANGED <<raw, exchange, report>>

Report ==
  /\ stage = "told"
  /\ \E extra \in Extras :
       LET again == [i \in DOMAIN Successes(slots) |-> MadeAgain(Successes(slots)[i], TRUE)]
           rep == [NoReport EXCEPT !.kind = "report", !.successes = AllRemembered(again),
                                   !.failures = Failures(slots), !.count = SumOf(slots) + extra]
       IN IF AllAccepted(again) /\ Enough(rep) THEN report' = rep /\ stage' = "reported"
          ELSE UNCHANGED report /\ stage' = "broken"
  /\ UNCHANGED <<raw, exchange, slots>>

Surfaced(rep, equality) ==
  IF SurfaceHolds(rep) THEN report' = [rep EXCEPT !.successes = AllRemembered(@)] /\ stage' = "surfaced"
  ELSE UNCHANGED report /\ stage' = IF equality THEN "broken" ELSE "refused"

ProjectResult ==
  /\ stage = "reported" /\ \A s \in ToSet(report.successes) : s.payload.kind = "value"
  /\ \E equality \in BOOLEAN :
       LET ss == [i \in DOMAIN report.successes |-> ScalarSuccess(report.successes[i], equality)]
       IN Surfaced([report EXCEPT !.kind = "result", !.successes = ss, !.best = FirstBest(ss)], equality)
  /\ UNCHANGED <<raw, exchange, slots>>

ProjectSurface ==
  /\ stage = "reported" /\ \A s \in ToSet(report.successes) : s.payload.kind = "vector"
  /\ \E equality \in BOOLEAN :
       LET ss == [i \in DOMAIN report.successes |-> VectorSuccess(report.successes[i], equality)]
       IN IF /\ \A s \in ToSet(report.successes) : RecordRequestKnown(s, equality)
             /\ OneDimension(ss)
          THEN Surfaced([report EXCEPT !.kind = "surface", !.successes = ss,
                                       !.frontier = Nondominated(ss)], equality)
          ELSE UNCHANGED report /\ stage' = IF equality THEN "broken" ELSE "refused"
  /\ UNCHANGED <<raw, exchange, slots>>

(* A report or a surface is saved and loaded: its caches and what was known of
   its frontier are dropped, and everything is checked again. *)
SaveAndLoad ==
  /\ stage \in {"reported", "surfaced"}
  /\ \E shared \in SharedOptions :
       LET loaded == [report EXCEPT !.successes = RestoredAll(@, shared)]
       IN IF SurfaceHolds(loaded)
          THEN report' = [loaded EXCEPT !.successes = AllRemembered(@)] /\ UNCHANGED stage
          ELSE UNCHANGED report /\ stage' = "broken"
  /\ UNCHANGED <<raw, exchange, slots>>

ArtifactNext ==
  \/ Evaluate \/ Deliver \/ DeliverInProcess \/ Accept \/ Materialize \/ MaterializeWrongly
  \/ Report \/ ProjectResult \/ ProjectSurface \/ SaveAndLoad

ArtifactSpec == ArtifactInit /\ [][ArtifactNext]_artifactVars

-----------------------------------------------------------------------------
Held == IF report.kind = "none" THEN Successes(slots) ELSE report.successes

(* Whatever a success remembers instead of comparing, and wherever it was
   pickled: its refinement ends at the candidate it reports and begins at the
   candidate its record was asked for, in the eyes of the space
   (artifacts/attempts.py: EvaluationSuccess._validate). *)
Provenance ==
  \A s \in ToSet(Held) :
    /\ s.ref # << >> => Equal(TRUE, s.ref[1].refined, s.request.cand)
    /\ \A r \in ToSet(s.payload.record) :
         /\ Equal(TRUE, r.cand, s.request.cand)
         /\ s.ref # << >> /\ r.request.at # s.request.at => Equal(TRUE, r.request.cand, s.ref[1].source)

(* Once a batch is accepted, the answers a study tells, reports, projects and
   loads are those of its requests: one per request and in their order, each
   with the score and the cost its evaluation had, the best one the first of
   the best and the frontier everything that is not dominated
   (artifacts/alignment.py, artifacts/terminal.py). *)
HistoryKept ==
  stage \in {"accepted", "told", "reported", "surfaced"} =>
    LET made == PickedAt({i \in DOMAIN exchange : exchange[i].made.ok}, exchange)
    IN /\ Len(Held) = Len(made)
       /\ \A i \in DOMAIN made :
            /\ Held[i].payload.score = made[i].made.payload.score
            /\ Held[i].count = made[i].made.count
            /\ SuccessMatches(Held[i], made[i].request)
       /\ report.kind # "none" => report.count >= SumOf([i \in DOMAIN exchange |-> exchange[i].made])
       /\ report.kind = "result" /\ made # << >> =>
            \A i \in DOMAIN made : \/ Score(made[i].made)[1] > Score(made[report.best].made)[1]
                                   \/ Score(made[i].made)[1] = Score(made[report.best].made)[1] /\ i >= report.best
       /\ report.kind = "surface" =>
            {i \in DOMAIN made : \A j \in DOMAIN made : ~Dominates(Score(made[j].made), Score(made[i].made))}
              = ToSet(report.frontier)

(* The two together: what may be said of an answer, and that it is this answer. *)
ProvenanceKept == Provenance /\ HistoryKept

(* Records a protocol made its own way: for a request of its own, for the refined
   candidate where the original one was asked for, or of a copy that only the
   space takes for the candidate.  The constructor accepts all three. *)
OwnRequest(s) == \E r \in ToSet(s.payload.record) :
                   /\ s.payload.kind = "custom"
                   /\ IF s.ref = << >> THEN r.request.at # s.request.at
                      ELSE r.request.at = s.request.at /\ ~Equal(TRUE, s.request.cand, s.ref[1].source)
OwnCopy(s) == \E r \in ToSet(s.payload.record) :
                ~Same(r.cand, s.request.cand) /\ ~Equal(FALSE, r.cand, s.request.cand)

(* An accepted batch is not lost afterwards to the predicate that a pickle
   dropped: it is told, reported, projected under the predicate of the space
   and loaded, and nothing a worker made is lost on its way, unless a protocol
   made its records its own way or its scores of several dimensions
   (study/execution.py: _rebind_attempt_candidate_equality). *)
AcceptedIsReported ==
  /\ stage = "broken" => \/ \E s \in ToSet(Successes(slots)) : OwnRequest(s) \/ OwnCopy(s)
                         \/ ~OneDimension(Successes(slots))
  /\ stage = "lost" => \E s \in ToSet(Successes(slots)) : OwnCopy(s)
=============================================================================
