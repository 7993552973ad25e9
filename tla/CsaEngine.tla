----------------------------- MODULE CsaEngine -----------------------------
(* The CSA engine as a run method: ask hands out proposals, tell and
   tell_attempts bring back evaluated and failed ones, in any number and
   order.

   The code keeps one immutable engine state and every call returns the next;
   a call that raises leaves the old one in use.  So the state is one record:
     bank, reference, refresh   the banks and the refresh in progress, if any
     growth, clusters           runtime of the growth and clustering policies
     progress, status           see CsaProgress
     queue                      children of the generation not yet issued
     issued                     generation.pending_proposal_ids
     buffer                     buffered evaluations [id, at]
     pending                    ids of the outstanding proposals
     attribution                what the proposal policy remembers of an id
     hot                        whether the temperature is positive
     owed                       ids told and not yet applied (a record of the
                                model, not of the code)
   A child is told at a position of its own, since a kernel may have moved it,
   so candidates of outstanding proposals are not kept.  Ids of proposals are
   used again once they are forgotten everywhere. *)
EXTENDS CsaBank

CONSTANTS
  Profiles,      \* the resolved profiles an optimizer may be built with
  Positions,     \* candidates
  Samples,       \* bound: the candidates that are drawn from the space
  MaxPending,    \* bound: proposals outstanding at a time
  MaxBatch       \* bound: proposals asked for, or told, in one call

(* The capacities and the share of a profile that are checked when it is made,
   and by CSAOptimizer; a bank that grows in stages grows in no other way. *)
ASSUME CsaAssumption ==
  /\ Score \in [Positions -> Int]
  /\ \A pol \in Profiles :
       /\ pol.capacity \in Nat \ {0} /\ pol.maxCapacity \in Nat \ {0}
       /\ pol.capacity <= pol.maxCapacity
       /\ pol.growth # "off" => pol.maxCapacity = pol.capacity
       /\ pol.preservePercent \in Nat

VARIABLES eng, prof

csaVars == <<eng, prof>>

NoRefresh == [target |-> 0]
Routes == {"local", "cluster", "far"}

(***************************************************************************)
(* The engine state                                                        *)
(***************************************************************************)
NewEngine(pol) ==
  [bank |-> EmptyBank(pol.capacity), reference |-> EmptyBank(pol.capacity),
   refresh |-> NoRefresh, growth |-> InitialGrowth(pol), clusters |-> NoClusters,
   progress |-> InitialProgress(pol), status |-> NoSeedUsed,
   queue |-> 0, issued |-> {}, buffer |-> << >>,
   pending |-> {}, attribution |-> << >>, hot |-> pol.hot = "always", owed |-> {}]

Buffered(e)     == {e.buffer[i].id : i \in DOMAIN e.buffer}
IsActive(e)     == e.queue > 0 \/ e.issued # {} \/ e.buffer # << >>
ReadyToCommit(e) == e.queue = 0 /\ e.issued = {} /\ e.buffer # << >>
Refreshing(e)   == e.refresh # NoRefresh
HasAction(e)    == e.progress.action # "none"

FreshId(e) ==
  LET live == e.pending \cup Buffered(e)
  IN  SmallestOf((1 .. (Cardinality(live) + 1)) \ live)

Forget(attribution, ids) == Restrict(attribution, DOMAIN attribution \ ids)
Noted(reasons, id, reason) == [k \in {id} \cup DOMAIN reasons |-> IF k = id THEN reason ELSE reasons[k]]
Merged(newer, older) ==
  [id \in DOMAIN newer \cup DOMAIN older |-> IF id \in DOMAIN newer THEN newer[id] ELSE older[id]]

(* A new selection state and an idle generation. *)
Unseeded(entries) == [i \in DOMAIN entries |-> [entries[i] EXCEPT !.seeded = FALSE]]
Idle(e) == [e EXCEPT !.status = NoSeedUsed, !.queue = 0, !.issued = {}, !.buffer = << >>,
                     !.bank.entries = Unseeded(@)]

KeptFirst(entries, count, kind) ==
  [i \in DOMAIN entries |-> [entries[i] EXCEPT !.kept = IF i <= count THEN kind ELSE "no"]]
KeptAs(entries, kind) == KeptFirst(entries, Len(entries), kind)

(***************************************************************************)
(* Boundary actions                                                        *)
(***************************************************************************)
(* build_refresh_state *)
RefreshStateOf(e, pol, preserveExisting) ==
  LET target  == StageCapacity(pol, e.progress.index)
      entries == e.bank.entries
      best    == BestOf(entries, PreservedCount(pol, Len(entries), target))
  IN  IF pol.refresh = "adaptive_refresh" THEN RefreshOf(target, best, best)
      ELSE IF preserveExisting THEN RefreshOf(target, entries, e.reference.entries)
      ELSE RefreshOf(target, << >>, << >>)

BeginRefresh(e, pol) ==
  [Idle(e) EXCEPT !.refresh = RefreshStateOf(e, pol, FALSE),
                  !.clusters = NoClusters,
                  !.progress = ProgressBeginRefresh(@)]

(* complete_refresh: preserved entries wait for the newcomers when the stage
   masks say so, or the refresh policy. *)
MasksStage(progress) == progress.seedMask # {} \/ progress.partnerMask # {}

MaskedFor(progress, preserved, pol) ==
  CASE pol.refresh = "legacy" -> progress
    [] pol.refresh # "legacy" /\ MasksStage(progress) ->
         [progress EXCEPT !.seedMask = preserved, !.partnerMask = preserved]
    [] pol.refresh # "legacy" /\ ~MasksStage(progress) ->
         [progress EXCEPT !.refreshMask = IF pol.newcomerFirst THEN preserved ELSE {}]

Refreshed(e, reference, bank, progress, pol) ==
  LET r     == e.refresh
      kind  == IF MasksStage(progress) THEN "stage"
               ELSE IF pol.refresh # "legacy" /\ pol.newcomerFirst THEN "refresh" ELSE "no"
      width == (2 * AverageDistance(reference.entries)) \div 3
  IN  Idle([e EXCEPT
        !.bank      = [bank EXCEPT !.entries = KeptFirst(@, Len(r.bank), kind)],
        !.reference = reference,
        !.refresh   = NoRefresh,
        !.clusters  = IF NeedsClusters(@, bank.entries, pol)
                      THEN [distance |-> width, labels |-> ClusterLabels(bank.entries, width)] ELSE @,
        !.progress  = MaskedFor(progress, 1 .. Len(r.bank), pol)])

CompleteRefresh(e, pol) ==
  LET reference == RefreshedReference(e.refresh)
      bank      == RefreshedBank(e.refresh)
  IN  Refreshed(e, reference, bank,
                ProgressCompleteRefresh(e.progress, pol, AverageDistance(reference.entries),
                                        ScoreGap(bank.entries)), pol)

(* begin_stage_transition, and the refresh that completes with it when the
   preserved entries fill the target. *)
CompletedIfEnough(e, pol) == IF HasEnoughEntries(e.refresh) THEN CompleteRefresh(e, pol) ELSE e

Staged(e, pol) ==
  [Idle(e) EXCEPT !.progress = [NextStage(@, pol) EXCEPT !.refreshMask = {}],
                  !.bank.entries = KeptAs(@, "no")]

BeginStage(e, pol) ==
  LET staged == Staged(e, pol)
  IN  IF ~GrowsNext(e.progress, pol) THEN staged
      ELSE CompletedIfEnough([staged EXCEPT !.refresh = RefreshStateOf(staged, pol, TRUE),
                                            !.progress = ProgressBeginRefresh(@)], pol)

(* apply_pending_boundary_action *)
ApplyAction(e, pol) ==
  LET consumed == [e EXCEPT !.progress.action = "none"]
  IN  IF e.progress.action = "refresh" THEN BeginRefresh(consumed, pol) ELSE BeginStage(consumed, pol)

(***************************************************************************)
(* ask                                                                     *)
(***************************************************************************)
Reseeded(entries, seeds, cleared) ==
  [i \in DOMAIN entries |-> [entries[i] EXCEPT !.seeded = i \in seeds \/ (@ /\ ~cleared)]]

(* materialize_generation: the seeds of the batch and how many children they
   have.  A seed needs partners among the entries that no mask holds back. *)
HasPartners(e, seed, pol) ==
  Cardinality((1 .. Len(e.bank.entries)) \ (PartnerMask(e.progress) \cup {seed})) >= pol.arity - 1

ChildrenPerSeed(e, pol) ==
  pol.regular + pol.mutation
    + (IF Len(e.reference.entries) = Len(e.bank.entries) /\ IsFull(e.reference) THEN pol.initial ELSE 0)

SeedChoices(e, pol) ==
  LET entries == e.bank.entries
      batches == SeedBatches(pol, e.status, Len(entries), SeedMask(e.progress),
                             [i \in DOMAIN entries |-> ValueOf(entries[i])],
                             [i, j \in DOMAIN entries |-> Between(entries[i], entries[j])])
  IN  {c \in batches : /\ \A i \in c.seeds : HasPartners(e, i, pol)
                       /\ Cardinality(c.seeds) * ChildrenPerSeed(e, pol) > 0}

StatusCleared(e, pol) ==
  /\ pol.seedMode # 2
  /\ \A i \in DOMAIN e.bank.entries :
       i \in SeedMask(e.progress) \/ Resized(e.status, Len(e.bank.entries))[i]

WithSeeds(e, batch, pol) ==
  [e EXCEPT !.status = batch.status,
            !.queue = Cardinality(batch.seeds) * ChildrenPerSeed(e, pol),
            !.bank.entries = Reseeded(@, batch.seeds, StatusCleared(e, pol))]

Materialized(e, pol) == {WithSeeds(e, b, pol) : b \in SeedChoices(e, pol)}

(* emit_proposal: every outcome of one call; none where it raises. *)
Sampled(e, reason) ==
  LET id == FreshId(e)
  IN  [eng |-> [e EXCEPT !.pending = @ \cup {id}], id |-> id, reason |-> reason, tracks |-> FALSE]

Issued(e) ==
  LET id == FreshId(e)
  IN  [eng |-> [e EXCEPT !.pending = @ \cup {id}, !.issued = @ \cup {id}, !.queue = @ - 1],
       id |-> id, reason |-> "generated", tracks |-> TRUE]

NextProposals(e, pol) ==
  IF Refreshing(e)
  THEN IF HasEnoughEntries(e.refresh) /\ e.pending # {} THEN {} ELSE {Sampled(e, "refresh_sample")}
  ELSE IF ~IsFull(e.bank) THEN {Sampled(e, "space_sample")}
  ELSE IF e.queue > 0 THEN {Issued(e)}
  ELSE IF IsActive(e) THEN {}
  ELSE {Issued(m) : m \in Materialized(e, pol)}

Emitted(e, pol) ==
  IF e.progress.exhausted \/ (HasAction(e) /\ e.pending # {}) THEN {}
  ELSE NextProposals(IF HasAction(e) THEN ApplyAction(e, pol) ELSE e, pol)

(* ask: up to `count` proposals; a generation that runs out ends the call.
   The attributions are registered at the end.  Where one proposal raises
   there is no result of the call. *)
AskStep(results, pol) ==
  UNION {IF r.ended THEN {r}
         ELSE {[eng |-> m.eng, reasons |-> Noted(r.reasons, m.id, m.reason),
                ended |-> m.tracks /\ m.eng.queue = 0] : m \in Emitted(r.eng, pol)}
         : r \in results}

Asked(e, count, pol) ==
  {IF pol.adaptive THEN [r.eng EXCEPT !.attribution = Merged(r.reasons, @)] ELSE r.eng :
     r \in FoldLeft(LAMBDA rs, k : AskStep(rs, pol),
                    {[eng |-> e, reasons |-> << >>, ended |-> FALSE]}, [k \in 1 .. count |-> k])}

(***************************************************************************)
(* tell                                                                    *)
(***************************************************************************)
IdsOf(evaluations) == {evaluations[i].id : i \in DOMAIN evaluations}

(* apply_refresh_tell: the observations join the pool, and the refresh
   completes when it has enough and nothing is outstanding. *)
RefreshTold(e, told, pol) ==
  LET pool  == [i \in DOMAIN told |-> Entry(told[i].at, 0)]
      after == [e EXCEPT !.refresh.pool = @ \o pool,
                         !.pending = @ \ IdsOf(told),
                         !.attribution = Forget(@, IdsOf(told)),
                         !.owed = @ \ IdsOf(told)]
  IN  IF HasEnoughEntries(after.refresh) /\ after.pending = {}
      THEN CompleteRefresh(after, pol) ELSE after

Aged(entry) == [entry EXCEPT !.new = 0]

(* The bank update of a tell with everything that is kept by index corrected
   after it, and the evidence of the proposals collected. *)
Corrected(e, ids, batch) ==
  LET after   == batch.shadow
      count   == Len(after.bank.entries)
      free    == Unmasked(after.progress, batch.changed)
      valid   == IF batch.significant = {} THEN e.status
                 ELSE Invalidated(e.status, batch.significant, batch.grownTo)
  IN  [met |-> after.met, local |-> after.local,
       eng |-> [e EXCEPT
         !.bank = [after.bank EXCEPT !.entries = [i \in DOMAIN @ |-> Aged(after.bank.entries[i])]],
         !.clusters = after.clusters,
         !.growth = after.growth,
         !.progress = IF batch.removed = {} THEN free ELSE ProgressRemove(free, batch.removed, count),
         !.status = StatusRemove(valid, batch.removed, count),
         !.attribution = Forget(@, ids),
         !.owed = @ \ ids]]

Updated(e, evaluations, lucks, pol) ==
  Corrected(e, IdsOf(evaluations),
            UpdateBatch([bank |-> e.bank, progress |-> e.progress, clusters |-> e.clusters,
                         growth |-> e.growth, met |-> 0, local |-> 0],
                        [i \in DOMAIN evaluations |->
                           [at |-> evaluations[i].at, id |-> evaluations[i].id, lucky |-> lucks[i]]],
                        e.hot, pol))

(* sync_reference_bank_if_uninitialized *)
WithReference(e, pol) ==
  LET sorted == SortedByValue(e.bank.entries)
  IN  IF ~IsFull(e.bank) \/ IsFull(e.reference) THEN e
      ELSE [e EXCEPT !.bank.entries = sorted,
                     !.reference = [capacity |-> e.bank.capacity,
                                    entries |-> KeptAs(Unseeded(sorted), "no")],
                     !.clusters = EnsureClusters(@, sorted, pol)]

Released(entries) ==
  [i \in DOMAIN entries |->
     [entries[i] EXCEPT !.seeded = FALSE, !.kept = IF @ = "refresh" THEN "no" ELSE @]]

(* The end of a cycle: every entry may be a seed again, the entries that sat
   out a refresh take part, and a boundary may be due. *)
Crossed(e, pol) == IF HasAction(e) /\ e.pending = {} THEN ApplyAction(e, pol) ELSE e

CycleEnded(e, pol) ==
  Crossed([e EXCEPT
             !.status = [i \in 1 .. Len(e.bank.entries) |-> FALSE],
             !.bank.entries = Released(@),
             !.progress = RequestBoundary([@ EXCEPT !.refreshMask = {}], pol)], pol)

Advanced(e, met, local, pol) ==
  LET unused == UnusedCount(e.status, Len(e.bank.entries), SeedMask(e.progress))
      next   == AdvanceCutoff(e.progress, pol, ScoreGap(e.bank.entries), unused, local, met)
      moved  == [e EXCEPT !.progress = next.progress]
  IN  IF next.ended THEN CycleEnded(moved, pol) ELSE moved

Cooled(e, pol) == [e EXCEPT !.hot = @ \/ pol.hot = "later"]

(* The batch of a tell: the evaluations of a whole generation (`committed`),
   or what was told outside of one. *)
WithGrowth(e, pol) == [e EXCEPT !.growth = AdvanceGrowth(@, e.bank.entries, e.progress, pol)]

Moved(e, batch, advances, pol) ==
  IF advances /\ CutoffIsInitialized(e.progress) THEN Advanced(e, batch.met, batch.local, pol) ELSE e

Settled(e, batch, committed, advances, pol) ==
  IF HasAction(e) THEN Crossed(e, pol)
  ELSE IF committed THEN Cooled(Moved(e, batch, advances, pol), pol) ELSE Moved(e, batch, advances, pol)

Reconciled(batch, updated, committed, advances, pol) ==
  LET synced == WithReference(batch.eng, pol)
  IN  Settled(IF updated THEN WithGrowth(synced, pol) ELSE synced, batch, committed, advances, pol)

Committed(e, evaluations, committed, advances, lucks, pol) ==
  Reconciled(Updated(e, evaluations, lucks, pol), evaluations # << >>, committed, advances, pol)

(* apply_tell *)
Told(e, told, lucks, pol) ==
  LET wasFull == IsFull(e.bank) /\ CutoffIsInitialized(e.progress)
      seen    == [e EXCEPT !.pending = @ \ IdsOf(told), !.owed = @ \cup IdsOf(told)]
      kept    == [seen EXCEPT !.issued = @ \ IdsOf(told), !.buffer = @ \o told]
      free    == [kept EXCEPT !.buffer = << >>]
      active  == IsActive(e)
  IN  IF Refreshing(e) THEN RefreshTold(e, told, pol)
      ELSE IF active /\ ~ReadyToCommit(kept) THEN kept
      ELSE Committed(IF active THEN free ELSE seen, IF active THEN kept.buffer ELSE told, active,
                     wasFull /\ told # << >>, lucks, pol)

Mutant_StillIssued(e, ids) == [e EXCEPT !.pending = @ \ ids, !.attribution = Forget(@, ids)]

(* consume_failed_pending_proposals *)
Failed(e, ids) ==
  [e EXCEPT !.pending = @ \ ids, !.issued = @ \ ids, !.attribution = Forget(@, ids)]

Mutant_FailuresOnlyConsumed(e, told, failures, lucks, pol) ==
  IF told = << >> THEN Failed(e, failures) ELSE Told(Failed(e, failures), told, lucks, pol)

(* tell_attempts: with no success left to tell, a generation that only waited
   for the failed proposals commits, and a boundary that did is crossed. *)
ToldAttempts(e, told, failures, lucks, pol) ==
  LET rest == Failed(e, failures)
  IN  IF \/ told # << >> \/ ReadyToCommit(rest)
         \/ rest.pending = {} /\ (HasAction(rest) \/ Refreshing(rest))
      THEN Told(rest, told, lucks, pol)
      ELSE rest

(***************************************************************************)
(* Behaviour                                                               *)
(***************************************************************************)
(* Luck matters only while the temperature is positive, of evaluations that
   may be admitted to the bank.  Bound: those told together have the same. *)
Lucks(e, told) ==
  {[i \in 1 .. (Len(e.buffer) + Len(told)) |-> luck] :
     luck \in IF e.hot /\ e.queue = 0 /\ ~Refreshing(e) THEN {{}, Routes} ELSE {{}}}

(* Evaluations of a set of proposals in some order: a child may be anywhere. *)
Evaluations(e, ids) ==
  {told \in [1 .. Cardinality(ids) -> [id : ids, at : Positions]] :
     /\ IdsOf(told) = ids
     /\ \A i \in DOMAIN told : told[i].id \in e.issued \/ told[i].at \in Samples}

CsaInit == prof \in Profiles /\ eng = NewEngine(prof)

Ask ==
  \E count \in 1 .. MaxBatch :
    /\ Cardinality(eng.pending) + count <= MaxPending
    /\ \E next \in Asked(eng, count, prof) : eng' = next
    /\ UNCHANGED prof

Tell ==
  \E ids \in SUBSET eng.pending :
    /\ 1 <= Cardinality(ids) /\ Cardinality(ids) <= MaxBatch
    /\ \E told \in Evaluations(eng, ids) : \E lucks \in Lucks(eng, told) :
         eng' = Told(eng, told, lucks, prof)
    /\ UNCHANGED prof

TellAttempts ==
  \E failures \in SUBSET eng.pending \ {{}} :
    \E ids \in SUBSET (eng.pending \ failures) :
      /\ Cardinality(ids) + Cardinality(failures) <= MaxBatch
      /\ \E told \in Evaluations(eng, ids) : \E lucks \in Lucks(eng, told) :
           eng' = ToldAttempts(eng, told, failures, lucks, prof)
      /\ UNCHANGED prof

CsaNext == Ask \/ Tell \/ TellAttempts

CsaSpec == CsaInit /\ [][CsaNext]_csaVars

(***************************************************************************)
(* Properties                                                              *)
(***************************************************************************)
(* With nothing outstanding, ask raises nothing unless the search is
   exhausted: whatever was told and whatever failed before, a generation that
   is complete was committed and a boundary that was due was crossed
   (CSAOptimizer.emit_proposal, plan_next_ask, tell_attempts). *)
AskAlwaysPossible ==
  eng.pending = {} /\ ~eng.progress.exhausted => Emitted(eng, prof) # {}

(* Every evaluation that was told was applied to the bank or the refresh pool
   or waits in the buffer of a generation; the generation waits only for
   outstanding proposals; and the proposal policy remembers exactly the
   proposals that are outstanding or buffered, during a refresh samples of
   that refresh alone (apply_tell, begin_refresh, consume_failed_pending_proposals). *)
NothingToldIsLost ==
  /\ eng.owed = Buffered(eng)
  /\ eng.issued \subseteq eng.pending
  /\ eng.pending \cap Buffered(eng) = {}
  /\ prof.adaptive => DOMAIN eng.attribution = eng.pending \cup Buffered(eng)
  /\ Refreshing(eng) => Range(eng.attribution) \subseteq {"refresh_sample"}

(* While the temperature is zero and only the compared entry is replaced, the
   best value in the bank never gets worse, over replacement, growth, the
   energy cut, sorting and stages; only a refresh that preserves nothing may
   lose it. *)
BestKept ==
  [][prof.hot = "never" /\ prof.clustering # "largest"
     /\ eng.bank.entries # << >> /\ ~(Refreshing(eng) /\ eng.refresh.bank = << >>)
     => /\ eng'.bank.entries # << >>
        /\ SmallestOf(Values(eng'.bank.entries)) <= SmallestOf(Values(eng.bank.entries))]_csaVars

(* What the engine remembers of entries by their index is true of the entries
   at these indices: which were seeds in this cycle and which sit out until
   the newcomers had their turn, across replacement, growth, removal by the
   energy cut, sorting, and every reset (without_updated_seed_mask,
   invalidate_for_bank_update, both remove_indices). *)
MarksFollowEntries ==
  LET entries == eng.bank.entries
  IN  ~Refreshing(eng) /\ prof.hot = "never" /\ prof.clustering # "largest"
      /\ prof.significantPercent = 0 =>
        /\ Len(eng.status) <= Len(entries)
        /\ \A i \in DOMAIN entries : Resized(eng.status, Len(entries))[i] = entries[i].seeded
        /\ eng.progress.seedMask = {i \in DOMAIN entries : entries[i].kept = "stage"}
        /\ eng.progress.refreshMask = {i \in DOMAIN entries : entries[i].kept = "refresh"}
        /\ eng.progress.partnerMask \subseteq DOMAIN entries

(* is_checkpoint_safe_state, which a run that stops at a checkpoint boundary
   asks, and what CSAEngineState.to_dict can write. *)
IsCheckpointSafe(e) == e.pending = {} /\ ~IsActive(e)

Serializes(e) == e.pending = {} /\ ~IsActive(e) /\ ~Refreshing(e) /\ DOMAIN e.attribution = {}

(* A state that the optimizer calls safe for a checkpoint can be written. *)
SafeStatesSerialize == IsCheckpointSafe(eng) => Serializes(eng)
=============================================================================
