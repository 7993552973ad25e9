------------------------ MODULE ProposalAdaptation ------------------------
(* How the CSA optimizer learns which mutations pay.  Every proposal is issued
   with its provenance: what made it and which leaves of the candidate that
   changed.  A generation is told in slices and credited at once, when it is
   complete: a mutation that survives in the bank earns 1 / cost, shared among
   the leaves it changed and the leaves a local search moved afterwards.  The
   statistics per mutation family and per leaf are discounted by the updates
   that went by, lazily, and only when they are touched; they decide how much
   local search the next proposals get and where it begins.

   Efficiencies are counted in units of 1 / Whole and weights in units of
   1 / Scale, so that every share and every discount is exact.  Only the order
   of leaf weights matters here: each is positive, so that whatever may be
   drawn uniformly may be drawn with them too, and the same goes for the
   candidates that the covariance proposes.  The policy is enabled; a disabled
   one registers nothing and learns nothing.  The seed of every child is the
   origin, all leaves are active and numeric, and ids are used again once they
   are forgotten everywhere. *)
EXTENDS Integers, Sequences, FiniteSets, SequencesExt

CONSTANTS
  Policies,      \* proposal policies, with the schedule of families they are used with:
                 \* families[f] is the kind of operator of mutation family f, one child
                 \* per seed, regular is the number of other children, and selections are
                 \* what a structured operator may do: <<leaves selected, leaves changed>>
  Leaves,        \* the leaf paths, in the order of the space: 1 .. n
  Outcomes,      \* what an evaluation may bring: [moved, declared, cost, lives]
  MaxOut,        \* bound: proposals outstanding at a time
  MaxUpdates,    \* bound: updates of the statistics
  MaxTold        \* bound: evaluations told before the last generation begins

VARIABLES policy, learned, flow, ledger

adaptVars == <<policy, learned, flow, ledger>>

Scale == 2 ^ MaxUpdates
Whole  == 12 * Scale

Bigger(a, b) == IF a >= b THEN a ELSE b

(***************************************************************************)
(* Provenance and evidence                                                 *)
(***************************************************************************)
Center == [l \in Leaves |-> 0]
Flip(candidate, paths) == [l \in Leaves |-> IF l \in paths THEN 1 - candidate[l] ELSE candidate[l]]

NonAdaptive(reason) == [reason |-> reason, family |-> 0, mutated |-> {}, source |-> << >>]
Mutation(f, paths, source) == [reason |-> "adaptive", family |-> f, mutated |-> paths, source |-> source]

Child(plan, candidate) == [plan |-> plan, candidate |-> candidate]

(* emit_structured_mutation_candidate names the leaves it selected, also when
   their values stay as they were; any other operator names none. *)
Mutants(f) ==
  IF policy.families[f] = "structured"
  THEN {Child(Mutation(f, s[1], IF policy.covariance THEN Center ELSE << >>), Flip(Center, s[2])) : s \in policy.selections}
  ELSE {Child(Mutation(f, {}, << >>), Flip(Center, Leaves))}

(* Evidence is what the policy remembers of a proposal with what was told. *)
Evidence(remembered, told) ==
  [k \in DOMAIN told |-> [plan |-> remembered[told[k].id], told |-> told[k]]]

Efficiency(e) == IF e.told.lives THEN Whole \div Bigger(1, e.told.cost) ELSE 0

(* The leaves that the local search moved: those it declares, if it does. *)
Displaced(e) ==
  IF e.told.declared # << >> THEN Range(e.told.declared)
  ELSE {l \in Leaves : e.told.child.candidate[l] # e.told.seen[l]}

Associations(e) == Cardinality(e.plan.mutated) + Cardinality(Displaced(e))
Share(e)        == Efficiency(e) \div Associations(e)

FamilyOf(e)  == {e.plan.family}
MutatedBy(e) == e.plan.mutated

(* What a generation says of each family, or leaf, that it observed. *)
Each(evidence, Of(_)) == [i \in DOMAIN evidence |-> Of(evidence[i])]

Summaries(keys, credits) ==
  [k \in UNION Range(keys) |->
     LET about == {i \in DOMAIN keys : k \in keys[i]}
     IN  [count |-> Cardinality(about), total |-> MapThenSumSet(LAMBDA i : credits[i], about)]]

(***************************************************************************)
(* Statistics                                                              *)
(***************************************************************************)
NewStat(now) == [count |-> 0, eff |-> 0, weight |-> 0, last |-> now, streak |-> 0]
StatOf(stats, key) == IF key \in DOMAIN stats THEN stats[key] ELSE NewStat(0)

\* Mutant: an observation is discounted once, however many updates went by.
Mutant_DiscountOnce(amount, since, now) == IF now = since THEN amount ELSE amount \div policy.decay

(* adaptation_decay ** elapsed_updates: the decay is 1 / policy.decay. *)
Discounted(amount, since, now) == amount \div (policy.decay ^ (now - since))

Effective(stat, now) ==
  [stat EXCEPT !.eff = Discounted(@, stat.last, now), !.weight = Discounted(@, stat.last, now), !.last = now]

(* record_generation.  Families keep no streak, and nobody asks for theirs. *)
Recorded(stat, summary, now) ==
  [Effective(stat, now) EXCEPT
     !.count  = @ + summary.count,
     !.eff    = @ + summary.total,
     !.weight = @ + Scale * summary.count,
     !.streak = IF summary.total > 0 THEN 0 ELSE @ + 1]

RecordedAll(stats, summaries, now) ==
  [k \in DOMAIN stats \cup DOMAIN summaries |->
     IF k \in DOMAIN summaries
     THEN Recorded(IF k \in DOMAIN stats THEN stats[k] ELSE NewStat(now), summaries[k], now)
     ELSE stats[k]]

(* The moments of successful displacements, one after the other. *)
NoMoments(now) == [count |-> 0, weight |-> 0, last |-> now, sum |-> Center,
                   outer |-> [p \in Leaves \X Leaves |-> 0]]

Displacement(e) == [l \in Leaves |-> e.told.seen[l] - e.plan.source[l]]

EffectiveMoments(m, now) ==
  [m EXCEPT !.weight = Discounted(@, m.last, now), !.last = now,
            !.sum    = [l \in Leaves |-> Discounted(@[l], m.last, now)],
            !.outer  = [p \in Leaves \X Leaves |-> Discounted(@[p], m.last, now)]]

(* record_successful_displacement *)
WithDisplacement(m, e, now) ==
  LET d == Displacement(e)
  IN  [EffectiveMoments(m, now) EXCEPT
         !.count  = @ + 1,
         !.weight = @ + Efficiency(e),
         !.sum    = [l \in Leaves |-> @[l] + Efficiency(e) * d[l]],
         !.outer  = [p \in Leaves \X Leaves |-> @[p] + Efficiency(e) * (d[p[1]] * d[p[2]])]]

Displacing(e) == e.plan.source # << >> /\ Efficiency(e) > 0

(* record_generation_evidence *)
WithEvidence(a, evidence) ==
  LET now == a.update + 1
  IN  IF evidence = << >> THEN a
      ELSE [a EXCEPT
             !.update   = now,
             !.family   = RecordedAll(@, Summaries(Each(evidence, FamilyOf), Each(evidence, Efficiency)), now),
             !.mutation = RecordedAll(@, Summaries(Each(evidence, MutatedBy), Each(evidence, Share)), now),
             !.local    = RecordedAll(@, Summaries(Each(evidence, Displaced), Each(evidence, Share)), now),
             !.moments  = FoldLeft(LAMBDA m, e : WithDisplacement(IF m.count = 0 THEN NoMoments(now) ELSE m, e, now),
                                   @, SelectSeq(evidence, Displacing))]

(* collect_proposal_outcome_evidence and update_proposal_state: provenance is
   consumed for all evaluations or, if one has none, tell raises; what was not
   adaptive gives no evidence. *)
Remembers(a, told) == \A k \in DOMAIN told : told[k].id \in DOMAIN a.pending
Forgetting(a, ids) == [a EXCEPT !.pending = Restrict(@, DOMAIN @ \ ids)]

Credited(a, told) ==
  LET adaptive(t) == a.pending[t.id].reason = "adaptive"
      ids         == {told[k].id : k \in DOMAIN told}
  IN  WithEvidence(Forgetting(a, ids), Evidence(a.pending, SelectSeq(told, adaptive)))

(***************************************************************************)
(* Local search of the next proposals                                      *)
(***************************************************************************)
(* _leaf_local_search_signals *)
Streak(a, l)     == Bigger(StatOf(a.mutation, l).streak, StatOf(a.local, l).streak)
LastUpdate(a, l) == Bigger(StatOf(a.mutation, l).last, StatOf(a.local, l).last)
HasSurvived(a, l) == StatOf(a.mutation, l).eff + StatOf(a.local, l).eff > 0

InCooldown(a, l) ==
  Streak(a, l) > 0 /\ policy.cooldown > 0 /\ a.update - LastUpdate(a, l) < policy.cooldown

(* effective_survival_efficiency: both are discounted alike, so it is a ratio
   <<efficiency, weight>> of what is stored. *)
RateOf(stat) == IF stat.weight = 0 THEN <<0, 1>> ELSE <<stat.eff, stat.weight>>

(* mutation_leaf_weights, up to the constant that all leaves share. *)
LeafWeight(a, l) ==
  LET m == RateOf(StatOf(a.mutation, l))
      d == RateOf(StatOf(a.local, l))
  IN  <<policy.leafBias * m[1] * d[2] + policy.localBias * d[1] * m[2], m[2] * d[2]>>

Heavier(a, l, m) ==
  LET v == LeafWeight(a, l)
      w == LeafWeight(a, m)
  IN  v[1] * w[2] > w[1] * v[2]

(* The orders of the leaves that were mutated and of the others. *)
ByStreak(a, l, m) == Streak(a, l) < Streak(a, m)
ByWeight(a, l, m) == Heavier(a, l, m)
Before(a, l, m, byStreak) ==
  LET First(x, y)  == IF byStreak THEN ByStreak(a, x, y) ELSE ByWeight(a, x, y)
      Second(x, y) == IF byStreak THEN ByWeight(a, x, y) ELSE ByStreak(a, x, y)
  IN  \/ ~InCooldown(a, l) /\ InCooldown(a, m)
      \/ /\ InCooldown(a, l) = InCooldown(a, m)
         /\ First(l, m) \/ (~First(m, l) /\ (Second(l, m) \/ (~Second(m, l) /\ l < m)))

(* proposal_local_search_context; a budget of zero is none of its own. *)
NoContext == [enabled |-> TRUE, budget |-> 0, order |-> << >>]

LocalSearch(a, plan) ==
  LET mutated    == IF plan.reason = "adaptive" THEN plan.mutated ELSE {}
      mine       == SetToSortSeq(mutated, LAMBDA l, m : Before(a, l, m, TRUE))
      others     == SetToSortSeq(Leaves \ mutated, LAMBDA l, m : Before(a, l, m, FALSE))
      supporting == {l \in mutated : HasSurvived(a, l) /\ ~InCooldown(a, l)}
      eligible   == {l \in mutated : Streak(a, l) < policy.disable /\ ~InCooldown(a, l)}
      extra      == Cardinality(supporting) + Bigger(0, Cardinality(eligible) - 1)
      enabled    == mutated = {} \/ supporting # {} \/ eligible # {}
  IN  IF plan.reason # "adaptive" /\ \A l \in Leaves : ~HasSurvived(a, l) THEN NoContext
      ELSE [enabled |-> enabled,
            budget  |-> IF mutated = {} \/ ~enabled THEN 0
                        ELSE IF policy.base + extra <= policy.most THEN policy.base + extra ELSE policy.most,
            order   |-> mine \o others]

(***************************************************************************)
(* Generations                                                             *)
(***************************************************************************)
(* flow: whether the bank is full, the children that wait to be issued, the
   outstanding proposals and which of them are children, the evaluations that
   wait for their generation, and how many children were told.

   ledger: what the statistics would be if every family and leaf were brought
   up to date at every update, from what the proposals really were. *)
IsActive(f)      == f.queue # << >> \/ f.children # {} \/ f.buffer # << >>
ReadyToCommit(f) == f.queue = << >> /\ f.children = {} /\ f.buffer # << >>

FreshIds(f, count) ==
  LET live == DOMAIN f.out \cup {f.buffer[i].id : i \in DOMAIN f.buffer}
      free == (1 .. (Cardinality(live) + count)) \ live
  IN  SubSeq(SetToSortSeq(free, <), 1, count)

(* sample_mutation_family_indices: each family in its turn until every family
   was observed, then as many draws. *)
FamilyEvidenceIsReady(a) == \A f \in DOMAIN policy.families : f \in DOMAIN a.family

FamilyIndices(a) ==
  IF FamilyEvidenceIsReady(a) THEN [DOMAIN policy.families -> DOMAIN policy.families]
  ELSE {[f \in DOMAIN policy.families |-> f]}

(* emit_candidates_for_seed *)
Generations(a) ==
  UNION {{[i \in 1 .. policy.regular |-> Child(NonAdaptive("regular"), Center)] \o children :
            children \in {c \in [DOMAIN indices -> UNION {Mutants(f) : f \in Range(indices)}] :
                            \A i \in DOMAIN indices : c[i] \in Mutants(indices[i])}}
         : indices \in FamilyIndices(a)}

(* register_pending_attributions refuses an id that is remembered already. *)
Registered(a, ids, children) ==
  [a EXCEPT !.pending = [i \in Range(ids) |-> children[CHOOSE k \in DOMAIN ids : ids[k] = i].plan] @@ @]

Issue(f, children, fromQueue) ==
  LET ids == FreshIds(f, Len(children))
  IN  /\ Range(ids) \cap DOMAIN learned.pending = {}
      /\ learned' = Registered(learned, ids, children)
      /\ flow' = [f EXCEPT !.out = [i \in Range(ids) |-> children[CHOOSE k \in DOMAIN ids : ids[k] = i]] @@ @,
                           !.children = IF fromQueue THEN @ \cup Range(ids) ELSE @]

(* The settings that CSAProposalPolicy accepts, and the memory it starts with. *)
IsPolicy(p) ==
  /\ p.decay >= 1 /\ p.leafBias >= 0 /\ p.localBias >= 0
  /\ p.base > 0 /\ p.most >= p.base /\ p.disable > 0 /\ p.cooldown >= 0

NothingLearned ==
  [update |-> 0, family |-> << >>, mutation |-> << >>, local |-> << >>,
   moments |-> NoMoments(0), pending |-> << >>]

AdaptInit ==
  /\ policy \in {p \in Policies : IsPolicy(p)}
  /\ learned = NothingLearned
  /\ flow = [full |-> FALSE, queue |-> << >>, out |-> << >>, children |-> {}, buffer |-> << >>, told |-> 0]
  /\ ledger = LET Nothing(keys) == [k \in keys |-> [eff |-> 0, weight |-> 0, streak |-> 0, seen |-> 0]]
              IN  [family |-> Nothing(DOMAIN policy.families), mutation |-> Nothing(Leaves),
                   local |-> Nothing(Leaves), moments |-> NoMoments(0)]

(* ask, while the bank is not full or a refresh collects its pool: samples of
   the space.  They may still be outstanding when a generation begins. *)
AskSamples ==
  /\ ~flow.full /\ flow.out = << >>
  /\ Issue(flow, [k \in 1 .. MaxOut |-> Child(NonAdaptive("space_sample"), Center)], FALSE)
  /\ UNCHANGED <<policy, ledger>>

(* ask: a new generation when none is under way, and at most the rest of it. *)
AskChildren ==
  /\ flow.full /\ (flow.told < MaxTold \/ flow.queue # << >>)
  /\ flow.queue # << >> \/ ~IsActive(flow)
  /\ \E queue \in IF flow.queue # << >> THEN {flow.queue} ELSE Generations(learned) :
       \E count \in 1 .. Len(queue) :
         /\ Cardinality(DOMAIN flow.out) + count <= MaxOut
         /\ Issue([flow EXCEPT !.queue = SubSeq(queue, count + 1, Len(queue))], SubSeq(queue, 1, count), TRUE)
  /\ UNCHANGED <<policy, ledger>>

(* What the evaluations told would make of the ledger. *)
LedgerOf(entries, evidence, KeysOf(_), Credit(_)) ==
  [k \in DOMAIN entries |->
     LET about == {i \in DOMAIN evidence : k \in KeysOf(evidence[i])}
         gain  == MapThenSumSet(LAMBDA i : Credit(evidence[i]), about)
     IN  [eff    |-> entries[k].eff \div policy.decay + gain,
          weight |-> entries[k].weight \div policy.decay + Scale * Cardinality(about),
          streak |-> IF about = {} THEN entries[k].streak ELSE IF gain > 0 THEN 0 ELSE entries[k].streak + 1,
          seen   |-> IF about = {} THEN entries[k].seen ELSE learned.update + 1]]

MomentsOf(m, evidence) ==
  LET good       == {i \in DOMAIN evidence : evidence[i].told.child.plan.source # << >> /\ evidence[i].told.lives}
      Total(F(_)) == MapThenSumSet(LAMBDA i : Efficiency(evidence[i]) * F(evidence[i]), good)
  IN  [m EXCEPT !.count  = @ + Cardinality(good),
                !.weight = @ \div policy.decay + Total(LAMBDA e : 1),
                !.sum    = [l \in Leaves |-> @[l] \div policy.decay + Total(LAMBDA e : e.told.seen[l])],
                !.outer  = [p \in Leaves \X Leaves |->
                              @[p] \div policy.decay + Total(LAMBDA e : e.told.seen[p[1]] * e.told.seen[p[2]])]]

LedgerAfter(told) ==
  LET really   == [k \in DOMAIN told |-> [plan |-> told[k].child.plan, told |-> told[k]]]
      evidence == SelectSeq(really, LAMBDA e : e.plan.reason = "adaptive")
  IN  IF evidence = << >> THEN ledger
      ELSE [family   |-> LedgerOf(ledger.family, evidence, FamilyOf, Efficiency),
            mutation |-> LedgerOf(ledger.mutation, evidence, MutatedBy, Share),
            local    |-> LedgerOf(ledger.local, evidence, Displaced, Share),
            moments  |-> MomentsOf(ledger.moments, evidence)]

(* An evaluation of an outstanding proposal. *)
ToldOf(id, outcome) ==
  LET child == flow.out[id]
  IN  [id |-> id, child |-> child, seen |-> Flip(child.candidate, outcome.moved),
       declared |-> outcome.declared, cost |-> outcome.cost, lives |-> outcome.lives]

(* tell_attempts: the failed proposals are forgotten first; the others join
   the buffer of a generation under way.  A complete generation is credited as
   a whole, what is told outside of one at once. *)
TellAttempts ==
  \E ids \in SUBSET DOMAIN flow.out : \E failed \in SUBSET (DOMAIN flow.out \ ids) :
    \E outcome \in [ids -> Outcomes] :
      LET told  == [k \in 1 .. Cardinality(ids) |->
                      LET id == SetToSortSeq(ids, <)[k] IN ToldOf(id, outcome[id])]
          left  == DOMAIN flow.out \ (ids \cup failed)
          kept  == [flow EXCEPT !.out = Restrict(@, left), !.children = @ \cap left,
                                !.told = @ + Cardinality({id \in ids : flow.out[id].plan.reason = "adaptive"}),
                                !.full = @ \/ ids # {}]
          start == Forgetting(learned, failed)
          batch == IF IsActive(flow) THEN flow.buffer \o told ELSE told
          held  == IsActive(flow) /\ ~ReadyToCommit([kept EXCEPT !.buffer = batch])
      IN  /\ ids \cup failed # {}
          /\ Remembers(start, batch)
          /\ \A id \in ids : flow.out[id].plan.reason # "adaptive" => outcome[id].moved = {} /\ outcome[id].lives
          /\ flow' = [kept EXCEPT !.buffer = IF held THEN batch ELSE << >>]
          /\ learned' = IF held THEN start ELSE Credited(start, batch)
          /\ ledger' = IF held THEN ledger ELSE LedgerAfter(batch)
          /\ UNCHANGED policy

AdaptNext == AskSamples \/ AskChildren \/ TellAttempts

(***************************************************************************)
(* Properties                                                              *)
(***************************************************************************)
Agrees(stat, entry) ==
  /\ Effective(stat, learned.update).eff = entry.eff
  /\ Effective(stat, learned.update).weight = entry.weight

(* The statistics, discounted lazily and touched in any order, say at every
   update what they would say had every one of them been brought up to date
   every time: each evaluation is credited once, with the provenance of its own
   proposal, when its generation is complete; failures credit nothing; and the
   streak of a leaf is the number of its latest updates without a survivor
   (record_generation_evidence, collect_proposal_outcome_evidence). *)
LearnedAsIfEager ==
  /\ \A f \in DOMAIN policy.families : Agrees(StatOf(learned.family, f), ledger.family[f])
  /\ \A l \in Leaves :
       /\ Agrees(StatOf(learned.mutation, l), ledger.mutation[l])
       /\ Agrees(StatOf(learned.local, l), ledger.local[l])
       /\ StatOf(learned.mutation, l).streak = ledger.mutation[l].streak
       /\ StatOf(learned.local, l).streak = ledger.local[l].streak
  /\ EffectiveMoments(learned.moments, learned.update) = [ledger.moments EXCEPT !.last = learned.update]

(* Why a leaf may count against the local search of a proposal: its latest
   mutation or move failed, and that was in the last few updates or is all that
   has been seen of it for long enough. *)
FailedLately(l) ==
  LET m == ledger.mutation[l]
      d == ledger.local[l]
  IN  /\ m.streak > 0 \/ d.streak > 0
      /\ \/ learned.update - Bigger(m.seen, d.seen) < policy.cooldown
         \/ m.eff + d.eff = 0 /\ Bigger(m.streak, d.streak) >= policy.disable

(* A proposal is refused its local search only when every leaf it changed
   failed lately; otherwise its budget lies between the base and the maximum
   and every leaf is tried, its own before the others
   (proposal_local_search_context). *)
RefusalJustified(mutated, search) ==
  IF search.enabled
  THEN /\ policy.base <= search.budget /\ search.budget <= policy.most
       /\ {search.order[i] : i \in 1 .. Cardinality(mutated)} = mutated
       /\ \E l \in mutated : ~FailedLately(l)
  ELSE \A l \in mutated : FailedLately(l)

RefusedForFailures ==
  \A id \in DOMAIN flow.out :
    LET plan == flow.out[id].plan
    IN  plan.mutated # {} => RefusalJustified(plan.mutated, LocalSearch(learned, plan))

AdaptationJustified == LearnedAsIfEager /\ RefusedForFailures
=============================================================================
