---------------------------- MODULE CsaProgress ----------------------------
(* How far a run of the conformational space annealing (CSA) engine has come,
   and which bank entries it turns to next:

     - the distance cutoff, its reduction and recovery, and the cycles counted
       at its minimum;                             (progression/cutoff)
     - the stages that grow the bank, the pending boundary action, and the
       masks of entries that wait for their newcomers; (progression)
     - the status of every entry as a seed, and the choice of seeds and
       partners.                                   (selection)

   Everything is a pure operator over records; CsaEngine holds the state.
   Indices count from 1.  `pol` is the profile of the optimizer.

   A progress record:
     cutoff, minimum, recoverLimit, scoreGap   the cutoff schedule (None: unset)
     cycle        cycles completed, counted up to one past the limit
     refreshing   refresh_in_progress
     index, round the stage
     seedMask, partnerMask                     the masks of the stage
     refreshMask  entries kept by a refresh that sit out the first round
     action       pending boundary action: "none", "refresh" or "stage"
     exhausted    is_exhausted
   The counters of iterations, refreshes and stage transitions decide nothing
   and are left out. *)
EXTENDS Integers, Sequences, FiniteSets, SequencesExt

None == -1

SmallestOf(S) == CHOOSE x \in S : \A y \in S : x <= y
LargestOf(S)  == CHOOSE x \in S : \A y \in S : x >= y

(* The first index of a maximal (minimal) key, as max(..., key=...) picks it. *)
ArgMax(S, key(_)) ==
  CHOOSE i \in S : \A j \in S : key(j) < key(i) \/ (key(j) = key(i) /\ i <= j)
ArgMin(S, key(_)) ==
  CHOOSE i \in S : \A j \in S : key(i) < key(j) \/ (key(j) = key(i) /\ i <= j)

(***************************************************************************)
(* Indices after a removal                                                 *)
(***************************************************************************)
(* remap_indices_after_removal: the marks that stay, moved down to where
   their entries are now. *)
Remapped(marks, removed, entryCount) ==
  {i \in {j - Cardinality({r \in removed : r < j}) : j \in marks \ removed} :
     1 <= i /\ i <= entryCount}

(***************************************************************************)
(* The cutoff schedule                                                     *)
(***************************************************************************)
CutoffIsInitialized(p) == p.cutoff # None

(* CSACutoffSchedule.resolve_initial_cutoffs *)
InitialCutoffs(pol, averageDistance) ==
  LET wanted == IF pol.fixedCutoff # None THEN pol.fixedCutoff
                ELSE averageDistance \div 2
      least  == IF pol.fixedMinimum # None THEN pol.fixedMinimum
                ELSE IF pol.fixedCutoff # None THEN pol.fixedCutoff
                ELSE averageDistance \div 5
  IN  [cutoff |-> IF wanted < least THEN least ELSE wanted, minimum |-> least]

InitializeCutoff(p, pol, averageDistance, gap) ==
  LET initial == InitialCutoffs(pol, averageDistance)
  IN  [p EXCEPT !.cutoff = initial.cutoff, !.minimum = initial.minimum,
                !.recoverLimit = initial.cutoff, !.refreshing = FALSE,
                !.scoreGap = IF pol.recover = "none" THEN None ELSE gap]

(* The share of a committed batch that took the local route speeds the
   reduction up or slows it down: factor^speed, with a factor of one half, a
   response of two and a target share of one quarter. *)
Reduced(cutoff, local, full, pol) ==
  IF ~pol.localRoute \/ full = 0 THEN cutoff \div 2
  ELSE IF local = 0 THEN (2 * cutoff) \div 3
  ELSE IF local = full THEN cutoff \div 16
  ELSE cutoff \div 3

ShouldRecover(p, pol, gap) ==
  /\ pol.recover # "none"
  /\ p.scoreGap # None
  /\ IF pol.recover = "increase" THEN gap > p.scoreGap ELSE gap < p.scoreGap

(* advance_cutoff_state: returns the next progress and whether a cycle ended. *)
AdvanceCutoff(p, pol, gap, unused, local, full) ==
  LET reduced == LargestOf({p.minimum, Reduced(p.cutoff, local, full, pol)})
      recover == ShouldRecover(p, pol, gap) /\ p.recoverLimit >= p.cutoff
      wanted  == IF recover THEN 2 * p.cutoff ELSE reduced
      bottom  == wanted <= p.minimum
      ended   == unused <= pol.stagnation /\ (bottom \/ ~pol.cycleAtMinimum)
      limit   == IF bottom THEN p.minimum
                 ELSE IF recover THEN p.cutoff ELSE p.recoverLimit
  IN  [ended |-> ended,
       progress |->
         [p EXCEPT
           !.cutoff = IF bottom THEN p.minimum ELSE wanted,
           !.recoverLimit = limit,
           !.scoreGap = IF pol.recover = "none" THEN None ELSE gap,
           !.cycle = IF ended THEN SmallestOf({p.cycle + 1, pol.cycleLimit + 1})
                     ELSE @,
           !.refreshing = FALSE]]

(***************************************************************************)
(* Stages and boundary actions                                             *)
(***************************************************************************)
StageCapacity(pol, index) == SmallestOf({pol.maxCapacity, pol.capacity * (index + 1)})

InitialProgress(pol) ==
  LET initial == InitialCutoffs(pol, 0)
      fixed   == pol.fixedCutoff # None
  IN  [cutoff |-> IF fixed THEN initial.cutoff ELSE None,
       minimum |-> IF fixed THEN initial.minimum ELSE None,
       recoverLimit |-> IF fixed THEN initial.cutoff ELSE None,
       scoreGap |-> None, cycle |-> 0, refreshing |-> FALSE,
       index |-> 0, round |-> 0, seedMask |-> {}, partnerMask |-> {},
       refreshMask |-> {}, action |-> "none", exhausted |-> FALSE]

SeedMask(p)    == p.seedMask \cup p.refreshMask
PartnerMask(p) == p.partnerMask \cup p.refreshMask

CurrentCycleLimit(p, pol) == IF p.index > 0 /\ p.round = 0 THEN 0 ELSE pol.cycleLimit

(* CSAStageState.next_transition: the next stage, or the same record when
   there is none. *)
Grown(p, pol, index) ==
  LET before == 1 .. StageCapacity(pol, p.index)
  IN  [p EXCEPT !.index = index, !.round = 0, !.seedMask = before, !.partnerMask = before]

StagesLeft(p, pol) ==
  /\ pol.maxCapacity > pol.capacity
  /\ p.round = 0 \/ StageCapacity(pol, p.index) < pol.maxCapacity

GrowsNext(p, pol) ==
  /\ StageCapacity(pol, p.index) < pol.maxCapacity
  /\ p.index = 0 \/ p.round = 1

NextStage(p, pol) ==
  IF GrowsNext(p, pol) THEN Grown(p, pol, p.index + 1)
  ELSE [p EXCEPT !.round = 1, !.seedMask = {}, !.partnerMask = {}]

(* request_boundary *)
RequestBoundary(p, pol) ==
  IF p.action # "none" \/ p.exhausted \/ p.cycle <= CurrentCycleLimit(p, pol) THEN p
  ELSE IF StagesLeft(p, pol) THEN [p EXCEPT !.action = "stage"]
  ELSE IF pol.restart THEN [p EXCEPT !.action = "refresh"]
  ELSE [p EXCEPT !.exhausted = TRUE]

ProgressBeginRefresh(p) ==
  [p EXCEPT !.cutoff = None, !.minimum = None, !.recoverLimit = None,
            !.scoreGap = None, !.refreshing = TRUE, !.refreshMask = {}]

ProgressCompleteRefresh(p, pol, averageDistance, gap) ==
  [InitializeCutoff(p, pol, averageDistance, gap) EXCEPT !.cycle = 0, !.refreshMask = {}]

(* without_updated_seed_mask: an entry that was replaced is a newcomer again.
   The partner mask of the stage stays. *)
Unmasked(p, updated) ==
  [p EXCEPT !.seedMask = @ \ updated, !.refreshMask = @ \ updated]

ProgressRemove(p, removed, entryCount) ==
  [p EXCEPT !.seedMask = Remapped(@, removed, entryCount),
            !.partnerMask = Remapped(@, removed, entryCount),
            !.refreshMask = Remapped(@, removed, entryCount)]

(* CSARefreshPolicy.resolve_preserved_entry_count *)
PreservedCount(pol, entryCount, target) ==
  IF pol.refresh = "legacy" \/ entryCount <= 1 \/ target <= 1 \/ pol.preservePercent = 0 THEN 0
  ELSE SmallestOf({entryCount - 1, target - 1,
                   LargestOf({1, (entryCount * pol.preservePercent) \div 100})})

(***************************************************************************)
(* Seed selection                                                          *)
(***************************************************************************)
(* The status says of every entry whether it was a seed already.  It is kept
   by index and grows and shrinks with the bank. *)
NoSeedUsed == << >>

Resized(status, entryCount) ==
  [i \in 1 .. entryCount |-> i <= Len(status) /\ status[i]]

UnusedCount(status, entryCount, ignored) ==
  Cardinality({i \in 1 .. entryCount : i \notin ignored /\ ~Resized(status, entryCount)[i]})

(* invalidate_for_bank_update *)
Invalidated(status, updated, entryCount) ==
  [i \in 1 .. entryCount |-> Resized(status, entryCount)[i] /\ i \notin updated]

Mutant_TruncateStatus(status, removed, entryCount) == Resized(status, entryCount)

(* SeedSelectionState.remove_indices *)
StatusRemove(status, removed, entryCount) ==
  LET before == Resized(status, entryCount + Cardinality(removed))
      stays  == {i \in DOMAIN before : i \notin removed}
      nth(k) == CHOOSE i \in stays : Cardinality({j \in stays : j < i}) = k - 1
  IN  IF removed = {} THEN status ELSE [k \in 1 .. entryCount |-> before[nth(k)]]

Marked(status, selected) == [i \in DOMAIN status |-> status[i] \/ i \in selected]

(* pick_diverse_low_value_seed: the best entry among those that are, in the
   sum, no closer to the selected ones than the average. *)
DiverseLowValue(selected, remaining, value, dist) ==
  LET apart(i)  == MapThenSumSet(LAMBDA s : dist[s, i], selected)
      total     == MapThenSumSet(apart, remaining)
      eligible  == {i \in remaining : apart(i) * Cardinality(remaining) >= total}
  IN  ArgMin(eligible, LAMBDA i : value[i])

(* pick_next_seed_index *)
NextSeeds(mode, selected, remaining, value, dist) ==
  CASE mode = 1 -> remaining
    [] mode = 3 -> {ArgMin(remaining, LAMBDA i : value[i])}
    [] mode = 0 /\ selected = {} -> remaining
    [] OTHER -> {DiverseLowValue(selected, remaining, value, dist)}

(* prepare_seed_batch: every outcome [seeds, status] of the random choices.
   Used entries come again only after all others; when none is left, the
   status of all entries is cleared.  Mode 2 ignores the status. *)
SeedBatches(pol, status, entryCount, masked, value, dist) ==
  LET target    == SmallestOf({pol.seedCount, entryCount})
      unmasked  == 1 .. entryCount \ masked
      fresh     == {i \in unmasked : ~Resized(status, entryCount)[i]}
      cleared   == fresh = {}
      available == IF cleared THEN unmasked ELSE fresh
      base      == IF cleared THEN [i \in 1 .. entryCount |-> FALSE]
                   ELSE Resized(status, entryCount)
      few       == Cardinality(available) <= target
      pool      == IF few THEN unmasked ELSE available
      Extend(chosen, k) ==
        UNION {IF Cardinality(sel) < target /\ pool # sel
               THEN {sel \cup {i} : i \in NextSeeds(pol.seedMode, sel, pool \ sel, value, dist)}
               ELSE {sel} : sel \in chosen}
      initial   == IF few THEN {available} ELSE {{}}
  IN  IF pol.seedMode = 2
      THEN {[seeds |-> sel, status |-> Marked(Resized(status, entryCount), sel)] :
              sel \in kSubset(target, unmasked)}
      ELSE {[seeds |-> sel, status |-> Marked(base, sel)] :
              sel \in FoldLeft(Extend, initial, [k \in 1 .. target |-> k])}
=============================================================================
