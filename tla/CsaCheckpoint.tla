--------------------------- MODULE CsaCheckpoint ---------------------------
(* Checkpoints of the CSA engine: the mapping that every part of the state is
   saved as, and what is built from it when a run is resumed.

   A saved record has the keys that the to_dict of its class writes.  Sets are
   saved as lists, null is None, and what the policies of the optimizer decide
   is not saved but taken from them again.  The constructors check what they
   are given; they run for every state the engine goes through, restored or
   not.  Random streams, counters and the statistics of the proposal policy are
   saved as they are and left out, and so are the marks that the model adds to
   bank entries. *)
EXTENDS CsaEngine

Listed(S) == SetToSortSeq(S, <)

(***************************************************************************)
(* The checks of the constructors                                          *)
(***************************************************************************)
ValidCutoff(p) ==
  /\ (p.cutoff = None) = (p.minimum = None)
  /\ p.cutoff = None => p.recoverLimit = None /\ p.scoreGap = None
  /\ p.refreshing => p.cutoff = None
  /\ p.cutoff # None => 0 <= p.minimum /\ p.minimum <= p.cutoff /\ p.recoverLimit >= 0
  /\ p.scoreGap # None => p.scoreGap >= 0

ValidStage(p, pol) ==
  /\ p.index >= 0 /\ p.round \in {0, 1}
  /\ StageCapacity(pol, p.index) <= pol.maxCapacity

ValidProgress(p, pol) ==
  /\ ValidCutoff(p) /\ ValidStage(p, pol)
  /\ \A i \in p.refreshMask : i >= 1
  /\ ~(p.action # "none" /\ p.exhausted)

ValidBank(b) == b.capacity > 0 /\ Len(b.entries) <= b.capacity

ValidReference(b, initialized) == ValidBank(b) /\ (initialized => IsFull(b))

ValidRefresh(r) ==
  /\ r.target > 0
  /\ Len(r.bank) = Len(r.reference) /\ Len(r.bank) <= r.target

ValidGrowth(g) == g.gap >= 0 /\ g.count >= 0

ValidClusters(c, pol) ==
  /\ pol.clustering = "off" => c = NoClusters
  /\ c.distance = None => c.labels = << >>
  /\ c.distance # None => c.distance >= 0 /\ \A i \in DOMAIN c.labels : c.labels[i] >= 1

ValidEngine(e, pol) ==
  /\ ValidProgress(e.progress, pol)
  /\ ValidBank(e.bank) /\ ValidBank(e.reference)
  /\ Refreshing(e) => ValidRefresh(e.refresh)
  /\ ValidGrowth(e.growth) /\ ValidClusters(e.clusters, pol)

(***************************************************************************)
(* Saving                                                                  *)
(***************************************************************************)
SavedEntries(entries) ==
  [i \in DOMAIN entries |-> [candidate |-> entries[i].at, value |-> ValueOf(entries[i])]]

SavedBank(b) == [capacity |-> b.capacity, entries |-> SavedEntries(b.entries)]

SavedReference(b) ==
  [capacity |-> b.capacity, entries |-> SavedEntries(b.entries), initialized |-> IsFull(b)]

SavedGrowth(g) == [active_energy_gap_limit |-> g.gap, generation_growth_count |-> g.count]

SavedClusters(c) == [cluster_distance |-> c.distance, cluster_labels |-> c.labels]

SavedCutoff(p) ==
  [distance_cutoff |-> p.cutoff, minimum_distance_cutoff |-> p.minimum,
   cutoff_recover_limit |-> p.recoverLimit, previous_score_gap |-> p.scoreGap,
   cycle_count |-> p.cycle, refresh_in_progress |-> p.refreshing]

SavedStage(p, pol) ==
  [base_capacity |-> pol.capacity, max_capacity |-> pol.maxCapacity,
   stage_index |-> p.index, stage_round |-> p.round,
   seed_mask |-> Listed(p.seedMask), partner_mask |-> Listed(p.partnerMask)]

(* A stage transition carries the stage it leads to. *)
SavedAction(p, pol) ==
  IF p.action = "stage"
  THEN [kind |-> "stage_transition",
        stage_transition |-> <<SavedStage(NextStage(p, pol), pol), GrowsNext(p, pol)>>]
  ELSE [kind |-> p.action, stage_transition |-> << >>]

SavedProgress(p, pol) ==
  [cutoff_state |-> SavedCutoff(p), stage_state |-> SavedStage(p, pol),
   base_cycle_limit |-> pol.cycleLimit, restart_lite |-> pol.restart,
   pending_action |-> SavedAction(p, pol), is_exhausted |-> p.exhausted,
   refresh_mask |-> Listed(p.refreshMask)]

Mutant_SelectionNotKept(status) == [bank_status |-> NoSeedUsed]

SavedSelection(status) == [bank_status |-> status]

SavedScoring(e) == [temperature |-> IF e.hot THEN 1 ELSE 0]

SavedBanking(e) ==
  [bank |-> SavedBank(e.bank), reference_bank |-> SavedReference(e.reference),
   growth_state |-> SavedGrowth(e.growth), clustering_state |-> SavedClusters(e.clusters)]

Saved(e, pol) ==
  [banking_state |-> SavedBanking(e), progression_state |-> SavedProgress(e.progress, pol),
   selection_state |-> SavedSelection(e.status), scoring_state |-> SavedScoring(e)]

(***************************************************************************)
(* Restoring                                                               *)
(***************************************************************************)
RestoredEntries(list) == [i \in DOMAIN list |-> Entry(list[i].candidate, 0)]

RestoredBank(d) == [capacity |-> d.capacity, entries |-> RestoredEntries(d.entries)]

RestoredGrowth(d) == [count |-> d.generation_growth_count, gap |-> d.active_energy_gap_limit]

RestoredClusters(d) == [distance |-> d.cluster_distance, labels |-> d.cluster_labels]

RestoredAction(d) == IF d.kind = "stage_transition" THEN "stage" ELSE d.kind

RestoredStage(d) ==
  [index |-> d.stage_index, round |-> d.stage_round,
   seedMask |-> Range(d.seed_mask), partnerMask |-> Range(d.partner_mask)]

RestoredCutoff(d) ==
  [cutoff |-> d.distance_cutoff, minimum |-> d.minimum_distance_cutoff,
   recoverLimit |-> d.cutoff_recover_limit, scoreGap |-> d.previous_score_gap,
   cycle |-> d.cycle_count, refreshing |-> d.refresh_in_progress]

RestoredProgress(d) ==
  RestoredCutoff(d.cutoff_state) @@ RestoredStage(d.stage_state)
    @@ [refreshMask |-> Range(d.refresh_mask), action |-> RestoredAction(d.pending_action),
        exhausted |-> d.is_exhausted]

(* An engine with nothing outstanding: the generation is idle, no refresh is
   running and the proposal policy remembers nobody. *)
Restored(d, pol) ==
  [NewEngine(pol) EXCEPT
    !.bank      = RestoredBank(d.banking_state.bank),
    !.reference = RestoredBank(d.banking_state.reference_bank),
    !.growth    = RestoredGrowth(d.banking_state.growth_state),
    !.clusters  = RestoredClusters(d.banking_state.clustering_state),
    !.progress  = RestoredProgress(d.progression_state),
    !.status    = d.selection_state.bank_status,
    !.hot       = d.scoring_state.temperature > 0]

(***************************************************************************)
(* Properties                                                              *)
(***************************************************************************)
Unmarked(entries) == [i \in DOMAIN entries |-> Entry(entries[i].at, 0)]

(* Every state of the engine passes the checks of its constructors, whose
   failure would make tell raise or a checkpoint unreadable; and where the
   state can be saved, the engine restored from it goes on exactly where it was
   saved: no mask, cutoff, cluster or status is lost.  No checkpoint waits at a
   boundary either: the tell that settles the last outstanding proposal, or
   consumes its failure, crosses it (CSAEngineState.to_dict and from_dict, the
   __post_init__ of its parts, apply_tell). *)
ResumesExactly ==
  /\ ValidEngine(eng, prof)
  /\ Serializes(eng) =>
       LET d        == Saved(eng, prof)
           restored == Restored(d, prof)
       IN  /\ ValidReference(eng.reference, d.banking_state.reference_bank.initialized)
           /\ restored = [eng EXCEPT !.bank.entries = Unmarked(@), !.reference.entries = Unmarked(@)]
           /\ d.progression_state.pending_action.kind = "none"
=============================================================================
