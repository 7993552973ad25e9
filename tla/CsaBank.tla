------------------------------ MODULE CsaBank ------------------------------
(* The bank of the CSA engine and the batch update that evaluated candidates
   go through: admission and replacement, growth and the energy cut, the
   clusters, the reference bank and the refresh pool.

   A candidate is a position on a line, Score gives its value and Unit the
   distance of neighbours.  An entry is
     [at, new, seeded, kept]
   where `new` is the proposal id while the batch that admits the entry is
   applied and 0 afterwards: ids never recur, so an entry of an earlier batch
   differs from every entry of this one, and nothing else asks for the id.
   `seeded` and `kept` are not state of the code: they travel with the entry
   and say that it was a seed, and that it sits out until the newcomers of a
   stage or of a refresh had their turn, where the code keeps marks by index
   (CsaEngine compares the two).

   The scoring of potentials is left out: shaped and real scores are the
   value.  Distances, cutoffs and scores are integers, rounded down. *)
EXTENDS CsaProgress

CONSTANTS Score, Unit

Distance(a, b) == Unit * (IF a >= b THEN a - b ELSE b - a)

Entry(at, id) == [at |-> at, new |-> id, seeded |-> FALSE, kept |-> "no"]

ValueOf(e) == Score[e.at]
Between(e, f) == Distance(e.at, f.at)
Values(entries) == {ValueOf(entries[i]) : i \in DOMAIN entries}

IsFull(b) == Len(b.entries) >= b.capacity

ScoreGap(entries) ==
  IF entries = << >> THEN None ELSE LargestOf(Values(entries)) - SmallestOf(Values(entries))

Pairs(entries) == {ij \in (DOMAIN entries) \X (DOMAIN entries) : ij[1] < ij[2]}

AverageDistance(entries) ==
  IF Len(entries) < 2 THEN 0
  ELSE MapThenSumSet(LAMBDA ij : Between(entries[ij[1]], entries[ij[2]]), Pairs(entries))
         \div Cardinality(Pairs(entries))

MinimumPairwiseDistance(entries) ==
  IF Len(entries) < 2 THEN 0
  ELSE SmallestOf({Between(entries[ij[1]], entries[ij[2]]) : ij \in Pairs(entries)})

(* The position of index i when the entries are sorted by value, stably. *)
Rank(entries, i) ==
  Cardinality({j \in DOMAIN entries :
                 \/ ValueOf(entries[j]) < ValueOf(entries[i])
                 \/ ValueOf(entries[j]) = ValueOf(entries[i]) /\ j < i})

SortedByValue(entries) ==
  LET order == [k \in DOMAIN entries |-> CHOOSE i \in DOMAIN entries : Rank(entries, i) = k - 1]
  IN  [k \in DOMAIN entries |-> entries[order[k]]]

(***************************************************************************)
(* Crowding                                                                *)
(***************************************************************************)
Neighbours(entries, i, cutoff) ==
  {j \in DOMAIN entries \ {i} : Between(entries[i], entries[j]) < cutoff}

CrowdingCount(entries, i, cutoff) == Cardinality(Neighbours(entries, i, cutoff))

(* mean_niche_scores and best_mean_niche_scores, times 12 and 24. *)
NicheScore(entries, i, cutoff, mode) ==
  LET niche == {i} \cup Neighbours(entries, i, cutoff)
      mean  == (12 * MapThenSumSet(LAMBDA j : ValueOf(entries[j]), niche)) \div Cardinality(niche)
  IN  IF mode = "mean" THEN mean
      ELSE mean + 12 * SmallestOf({ValueOf(entries[j]) : j \in niche})

(* crowding_aware_scores, all multiplied by the same positive number: the
   value, a penalty of three quarters of the span for the most crowded entry,
   and as much again for a crowded entry in a poor niche. *)
RemovalScore(entries, i, cutoff, mode) ==
  LET most    == LargestOf({CrowdingCount(entries, j, cutoff) : j \in DOMAIN entries})
      count   == CrowdingCount(entries, i, cutoff)
      scale   == LargestOf({1, ScoreGap(entries)})
      niches  == {NicheScore(entries, j, cutoff, mode) : j \in DOMAIN entries}
      lowest  == SmallestOf(niches)
      span    == LargestOf(niches) - lowest
      value   == ValueOf(entries[i])
      crowded == 4 * most * value + 3 * scale * count
  IN  CASE most = 0                         -> value
        [] mode = "disabled" \/ span = 0    -> crowded
        [] OTHER -> span * crowded
                      + 4 * scale * count * (NicheScore(entries, i, cutoff, mode) - lowest)

(* The entry that a far candidate would replace. *)
FarVictim(entries, cutoff, pol) ==
  LET crowded == {i \in DOMAIN entries : CrowdingCount(entries, i, cutoff) > 0}
      value(i) == ValueOf(entries[i])
      removal(i) == RemovalScore(entries, i, cutoff, pol.niche)
  IN  CASE pol.far = "crowding_aware"                   -> ArgMax(DOMAIN entries, removal)
        [] pol.far = "crowded_worst" /\ crowded # {}    -> ArgMax(crowded, value)
        [] OTHER                                        -> ArgMax(DOMAIN entries, value)

(***************************************************************************)
(* Clusters                                                                *)
(***************************************************************************)
NoClusters == [distance |-> None, labels |-> << >>]

(* Single linkage on the line: two entries belong together when no gap wider
   than the cluster distance lies between them. *)
Linked(entries, i, j, width) ==
  LET At   == {entries[k].at : k \in DOMAIN entries}
      low  == SmallestOf({entries[i].at, entries[j].at})
      high == LargestOf({entries[i].at, entries[j].at})
  IN  \A p \in At : low <= p /\ p < high => \E q \in At : q > p /\ Distance(p, q) <= width

ClusterLabels(entries, width) ==
  [i \in DOMAIN entries |-> SmallestOf({j \in DOMAIN entries : Linked(entries, i, j, width)})]

NeedsClusters(cl, entries, pol) ==
  pol.clustering # "off" /\ ~(cl.distance # None /\ Len(cl.labels) = Len(entries))

(* ensure_initialized, with the ratio of one and a half *)
EnsureClusters(cl, entries, pol) ==
  IF ~NeedsClusters(cl, entries, pol) THEN cl
  ELSE LET width == (2 * AverageDistance(entries)) \div 3
       IN  [distance |-> width, labels |-> ClusterLabels(entries, width)]

Reclustered(cl, entries) ==
  IF cl.distance = None THEN cl
  ELSE [cl EXCEPT !.labels = ClusterLabels(entries, cl.distance)]

RegisterAdmission(cl, index, nearest, distance) ==
  IF cl.distance = None THEN cl
  ELSE LET label == IF distance > cl.distance
                    THEN LargestOf({0} \cup Range(cl.labels)) + 1 ELSE cl.labels[nearest]
       IN  [cl EXCEPT !.labels = [i \in 1 .. LargestOf({Len(@), index}) |->
                                    IF i = index THEN label ELSE @[i]]]

(* select_cluster_update: the worst entry of the candidate's cluster is what
   it is compared with; the worst of the largest cluster is what goes. *)
WorstOfCluster(cl, entries, i) ==
  ArgMax({j \in DOMAIN entries : cl.labels[j] = cl.labels[i]}, LAMBDA j : ValueOf(entries[j]))

LargestCluster(cl) ==
  ArgMax(DOMAIN cl.labels,
         LAMBDA i : Cardinality({j \in DOMAIN cl.labels : cl.labels[j] = cl.labels[i]}))

ClusterVictim(cl, entries, nearest, pol) ==
  WorstOfCluster(cl, entries, IF pol.clustering = "largest" THEN LargestCluster(cl) ELSE nearest)

RemoveTopCutoff(cutoff, pol) == IF pol.clustering = "off" THEN cutoff ELSE 3 * cutoff

(***************************************************************************)
(* One observation against a full bank                                     *)
(***************************************************************************)
(* CSAAcceptanceState.should_accept: a better candidate always; while the
   temperature is positive an equal one always, and any by luck. *)
ShouldAccept(trial, reference, hot, lucky) ==
  trial < reference \/ (hot /\ (trial = reference \/ lucky))

EnergyCut(g, entries) == SmallestOf(Values(entries)) + g.gap

(* s is the shadow state of a batch: bank, progress, clusters, growth, and how
   many observations took a route of a full bank, and of these the local. *)
ActiveCutoff(s) == IF CutoffIsInitialized(s.progress) THEN s.progress.cutoff ELSE 0

Replaced(s, index, entry, nearest, distance) ==
  [s EXCEPT !.bank.entries[index] = entry,
            !.clusters = RegisterAdmission(@, index, nearest, distance)]

CanGrow(s, trial, distance, pol) ==
  LET entries == s.bank.entries
  IN  /\ pol.growth # "off"
      /\ Len(entries) < pol.growthCapacity
      /\ s.growth.count < pol.growthPerGeneration
      /\ pol.growthAnywhere \/ distance >= ActiveCutoff(s)
      /\ trial <= EnergyCut(s.growth, entries)
      /\ LargestOf(Values(entries)) >= trial

Appended(s, entry, nearest, distance) ==
  LET entries == Append(s.bank.entries, entry)
  IN  [s EXCEPT !.bank = [capacity |-> Len(entries), entries |-> entries],
                !.growth.count = @ + 1,
                !.clusters = RegisterAdmission(@, Len(entries), nearest, distance)]

(* should_attempt_remove_top *)
MayRemoveTop(s, trial, distance, pol) ==
  LET entries == s.bank.entries
  IN  IF distance >= RemoveTopCutoff(ActiveCutoff(s), pol)
      THEN LargestOf(Values(entries)) >= trial
      ELSE /\ pol.growth # "off" /\ Len(entries) > pol.capacity
           /\ trial <= EnergyCut(s.growth, entries)

Nearest(s, entry) ==
  ArgMin(DOMAIN s.bank.entries, LAMBDA i : Between(entry, s.bank.entries[i]))

LocalUpdate(s, entry, hot, lucky, pol) ==
  LET entries == s.bank.entries
      nearest == Nearest(s, entry)
  IN  /\ pol.localUpdate
      /\ Between(entry, entries[nearest]) < ActiveCutoff(s)
      /\ LargestOf(Values(entries)) >= ValueOf(entry)
      /\ ShouldAccept(ValueOf(entry), ValueOf(entries[nearest]), hot, "local" \in lucky)

ClusterUpdate(s, entry, hot, lucky, pol) ==
  LET entries  == s.bank.entries
      nearest  == Nearest(s, entry)
      distance == Between(entry, entries[nearest])
  IN  /\ pol.clustering # "off" /\ s.clusters.distance # None
      /\ ActiveCutoff(s) <= distance
      /\ distance < RemoveTopCutoff(ActiveCutoff(s), pol)
      /\ ShouldAccept(ValueOf(entry), ValueOf(entries[WorstOfCluster(s.clusters, entries, nearest)]),
                      hot, "cluster" \in lucky)

(* admit_full_bank_observation: the routes in their order; a rejected one
   falls through to the next, and the last rejection names the route that the
   transition record carries.  `lucky` holds the routes on which a worse
   candidate would be accepted by chance. *)
FarUpdate(s, victim, entry, nearest, distance, accepts) ==
  IF accepts[victim] THEN Replaced(s, victim, entry, nearest, distance) ELSE s

AdmitFull(s, entry, hot, lucky, pol) ==
  LET entries  == s.bank.entries
      nearest  == Nearest(s, entry)
      distance == Between(entry, entries[nearest])
      trial    == ValueOf(entry)
      met      == [s EXCEPT !.met = @ + 1]
  IN  IF LocalUpdate(s, entry, hot, lucky, pol)
      THEN [Replaced(met, nearest, entry, nearest, distance) EXCEPT !.local = @ + 1]
      ELSE IF CanGrow(s, trial, distance, pol) THEN Appended(s, entry, nearest, distance)
      ELSE IF ClusterUpdate(s, entry, hot, lucky, pol)
      THEN Replaced(met, ClusterVictim(s.clusters, entries, nearest, pol), entry, nearest, distance)
      ELSE IF ~MayRemoveTop(s, trial, distance, pol)
      THEN [met EXCEPT !.local = @ + (IF distance < ActiveCutoff(s) THEN 1 ELSE 0)]
      ELSE FarUpdate(met, FarVictim(entries, ActiveCutoff(s), pol), entry, nearest, distance,
                     [i \in DOMAIN entries |-> ShouldAccept(trial, ValueOf(entries[i]), hot, "far" \in lucky)])

(***************************************************************************)
(* The batch                                                               *)
(***************************************************************************)
(* initialize_cutoff_if_needed *)
WithCutoff(s, pol) ==
  IF CutoffIsInitialized(s.progress) \/ ~IsFull(s.bank) THEN s
  ELSE [s EXCEPT !.progress = InitializeCutoff(@, pol, AverageDistance(s.bank.entries),
                                               ScoreGap(s.bank.entries))]

AdmitOne(s, observation, hot, pol) ==
  LET entry == Entry(observation.at, observation.id)
  IN  IF ~IsFull(s.bank) THEN WithCutoff([s EXCEPT !.bank.entries = Append(@, entry)], pol)
      ELSE AdmitFull(WithCutoff([s EXCEPT !.clusters = EnsureClusters(@, s.bank.entries, pol)], pol),
                     entry, hot, observation.lucky, pol)

(* changed_indices and significant_update_indices: an entry of this batch
   differs from every older one.  An update counts as significant when it
   moved the value by more than the given share of the score span. *)
ChangedIndices(before, after) ==
  {i \in DOMAIN after : i > Len(before) \/ after[i].new # 0}

SignificantIndices(before, after, pol) ==
  LET Span(entries) == IF entries = << >> THEN 0 ELSE ScoreGap(entries)
      span  == LargestOf({Span(before), Span(after)})
      delta(i) == LET d == ValueOf(before[i]) - ValueOf(after[i]) IN IF d < 0 THEN -d ELSE d
  IN  {i \in ChangedIndices(before, after) :
         i > Len(before) \/ 100 * delta(i) > pol.significantPercent * span}

(* reduce_bank_by_energy_cut *)
AboveCut(g, entries, pol) ==
  LET cut == IF pol.growth = "ratio" THEN LargestOf(Values(entries)) ELSE EnergyCut(g, entries)
  IN  IF pol.growth = "off" \/ Len(entries) <= pol.capacity THEN {}
      ELSE {i \in DOMAIN entries : Rank(entries, i) >= pol.capacity /\ ValueOf(entries[i]) > cut}

Without(entries, removed) ==
  LET stays  == DOMAIN entries \ removed
      nth(k) == CHOOSE i \in stays : Cardinality({j \in stays : j < i}) = k - 1
  IN  [k \in 1 .. Cardinality(stays) |-> entries[nth(k)]]

(* apply_bank_update_batch: the shadow state after every observation and the
   energy cut, with the index sets that the marks are corrected by. *)
CutBatch(before, full, removed, pol) ==
  LET after   == full.bank.entries
      rest    == Without(after, removed)
      changed == ChangedIndices(before, after)
  IN  [shadow |-> [full EXCEPT
                     !.bank = IF removed = {} THEN @
                              ELSE [capacity |-> Len(rest), entries |-> rest],
                     !.clusters = IF changed \cup removed = {} THEN @ ELSE Reclustered(@, rest)],
       grownTo     |-> Len(after),
       changed     |-> changed,
       significant |-> SignificantIndices(before, after, pol),
       removed     |-> removed]

AdmitAll(s, observations, hot, pol) ==
  FoldLeft(LAMBDA t, o : AdmitOne(t, o, hot, pol),
           [s EXCEPT !.clusters = EnsureClusters(@, s.bank.entries, pol)], observations)

WithCut(before, full, pol) == CutBatch(before, full, AboveCut(full.growth, full.bank.entries, pol), pol)

UpdateBatch(s, observations, hot, pol) ==
  WithCut(s.bank.entries, AdmitAll(s, observations, hot, pol), pol)

(* advance_growth_state *)
AdvanceGrowth(g, entries, progress, pol) ==
  [count |-> 0,
   gap   |-> CASE pol.growth = "ratio" -> ScoreGap(entries) \div 2
               [] pol.growth = "decay" /\ progress.minimum # None
                  /\ MinimumPairwiseDistance(entries) > progress.minimum -> g.gap \div 2
               [] OTHER -> IF pol.growth = "fixed" THEN pol.energyGap ELSE g.gap]

InitialGrowth(pol) == [count |-> 0, gap |-> IF pol.growth = "off" THEN 0 ELSE pol.energyGap]

(***************************************************************************)
(* Reference bank and refresh                                              *)
(***************************************************************************)
(* A reference bank is initialized exactly when it is full. *)
EmptyBank(capacity) == [capacity |-> capacity, entries |-> << >>]

Mutant_FirstOf(entries, count) == SubSeq(entries, 1, count)

(* begin_refresh and the stage that grows: what survives, best first. *)
BestOf(entries, count) == SubSeq(SortedByValue(entries), 1, count)

RefreshOf(target, bankEntries, referenceEntries) ==
  [target |-> target, bank |-> bankEntries, reference |-> referenceEntries, pool |-> << >>]

RequiredPool(r)      == r.target - Len(r.reference)
HasEnoughEntries(r)  == Len(r.pool) >= RequiredPool(r)

RefreshedReference(r) ==
  [capacity |-> r.target, entries |-> r.reference \o BestOf(r.pool, RequiredPool(r))]

RefreshedBank(r) ==
  [capacity |-> r.target, entries |-> r.bank \o BestOf(r.pool, RequiredPool(r))]
=============================================================================
