---------------------------- MODULE MCPopulation ----------------------------
(* The search methods on small instances.  `part` says which of them a
   behaviour is about; the others rest where they started.  Each profile of
   the CSA engine reaches a part of its control that the others do not. *)
EXTENDS CsaCheckpoint, DistanceWorkspace, GenerationalMethods, LocalSearch

CONSTANTS CsaProfiles, Parts

VARIABLES part, policy, learned, flow, ledger

(* What the distance cache holds: candidates on a line. *)
OnALine == <<1, 2, 4, 5>>
LineMetric(a, b) ==
  IF OnALine[a] >= OnALine[b] THEN OnALine[a] - OnALine[b] ELSE OnALine[b] - OnALine[a]

Bred == [variant |-> "ga", size |-> 3, elite |-> 1, radius |-> 2, niche |-> 1, window |-> 2,
         places |-> 1 .. 4]

MCMethods ==
  {Bred, [Bred EXCEPT !.variant = "restricted"],
   [Bred EXCEPT !.variant = "de", !.size = 4, !.places = 1 .. 2]}
    \cup {[Bred EXCEPT !.variant = v, !.niche = n] : v \in {"clearing", "species"}, n \in {1, 3}}
MCValue == <<2, 1, 2, 3>>

(* Two integer leaves, one of them fixed, and a categorical one; two kernels
   with one stage and one with two. *)
Kernel ==
  [kind |-> "hill", steps |-> 2, stages |-> << >>, most |-> 2, perLeaf |-> 1, kicks |-> 0, kickLeaves |-> 0]

MCKernels ==
  {[Kernel EXCEPT !.kind = k] : k \in {"hill", "scheduled", "stochastic"}}
    \cup {[Kernel EXCEPT !.kind = "iterated", !.steps = 1, !.kicks = 2, !.kickLeaves = 2],
          [Kernel EXCEPT !.kind = "vns",
                         !.stages = <<[kind |-> "sampled", most |-> 2, perLeaf |-> 1],
                                      [kind |-> "pairs", most |-> 2]>>]}

Start == [start |-> <<0, 5, 0>>, enabled |-> TRUE, steps |-> -1, first |-> << >>, random |-> TRUE]

MCLeaves ==
  <<[kind |-> "integer", low |-> 0, high |-> 1], [kind |-> "integer", low |-> 5, high |-> 5],
    [kind |-> "categorical", low |-> 0, high |-> 2]>>
MCBatches ==
  {<<Start>>, <<[Start EXCEPT !.first = <<3>>, !.steps = 1]>>,
   <<[Start EXCEPT !.enabled = FALSE], [Start EXCEPT !.steps = 1]>>,
   <<[Start EXCEPT !.steps = 1, !.random = FALSE],
     [Start EXCEPT !.enabled = FALSE], [Start EXCEPT !.enabled = FALSE]>>}

MCLimits == {-1, 1, 2}
MCGrants == {[granted |-> g, reserved |-> r] : g \in {-1, 0, 1, 2, 3}, r \in {0, 1}}

ASSUME SearchAssumption /\ ScipyAssumption /\ GenerationsAssumption

(* Two families of which both must be observed before either is drawn, and one
   beside a child that teaches nothing. *)
FamilySchedule ==
  [families |-> <<"structured", "free">>, regular |-> 0, selections |-> {<<{1, 2}, {1, 2}>>},
   decay |-> 1, leafBias |-> 1, localBias |-> 0, covariance |-> FALSE,
   base |-> 1, most |-> 2, disable |-> 1, cooldown |-> 2]

MCPolicies ==
  {FamilySchedule,
   [FamilySchedule EXCEPT !.families = <<"structured">>, !.regular = 1,
                    !.selections = @ \cup {<<{1}, {1}>>, <<{2}, {}>>}, !.decay = 2, !.localBias = 1,
                    !.covariance = TRUE, !.disable = 2, !.cooldown = 1]}
MCOutcomes ==
  {[moved |-> {}, declared |-> << >>, cost |-> 1, lives |-> TRUE],
   [moved |-> {1}, declared |-> << >>, cost |-> 2, lives |-> TRUE],
   [moved |-> {2}, declared |-> <<1, 2>>, cost |-> 0, lives |-> FALSE]}

Adaptation ==
  INSTANCE ProposalAdaptation
    WITH Policies <- MCPolicies, Leaves <- {1, 2}, Outcomes <- MCOutcomes,
         MaxOut <- 2, MaxUpdates <- 3, MaxTold <- 3

MCScore == <<2, 1, 3>>

Plain ==
  [capacity |-> 2, maxCapacity |-> 2, cycleLimit |-> 0, restart |-> TRUE,
   seedCount |-> 1, seedMode |-> 0, regular |-> 1, initial |-> 1, mutation |-> 0, arity |-> 2,
   refresh |-> "legacy", preservePercent |-> 25, newcomerFirst |-> TRUE,
   growth |-> "off", growthCapacity |-> 0, growthPerGeneration |-> 1, growthAnywhere |-> FALSE,
   energyGap |-> 0, clustering |-> "off", fixedCutoff |-> None, fixedMinimum |-> None,
   recover |-> "none", stagnation |-> 0, cycleAtMinimum |-> TRUE, localRoute |-> FALSE,
   localUpdate |-> TRUE, far |-> "worst", niche |-> "disabled", significantPercent |-> 0,
   hot |-> "never", adaptive |-> TRUE]

ProfileNamed == [
  staged   |-> [Plain EXCEPT !.maxCapacity = 4, !.initial = 0, !.seedCount = 2],
  adaptive |-> [Plain EXCEPT !.maxCapacity = 4, !.initial = 0, !.refresh = "adaptive_refresh", !.adaptive = FALSE],
  growing  |-> [Plain EXCEPT !.growth = "fixed", !.growthCapacity = 3, !.energyGap = 1,
                             !.growthAnywhere = TRUE, !.fixedCutoff = 60, !.seedCount = 2, !.initial = 0,
                             !.far = "crowded_worst"],
  cluster  |-> [Plain EXCEPT !.capacity = 3, !.maxCapacity = 3, !.clustering = "current",
                             !.restart = FALSE, !.initial = 0, !.adaptive = FALSE,
                             !.far = "crowding_aware", !.niche = "mean"],
  hot      |-> [Plain EXCEPT !.hot = "later", !.localRoute = TRUE, !.stagnation = 2, !.cycleAtMinimum = FALSE,
                             !.clustering = "largest", !.recover = "increase"]
 ]

MCProfiles == {ProfileNamed[n] : n \in CsaProfiles}

learnVars  == <<policy, learned, flow, ledger>>
vars       == <<part, csaVars, wsVars, genVars, searchVars, scipyVars, learnVars>>

Init ==
  /\ part \in Parts
  /\ IF part = "csa" THEN CsaInit
     ELSE prof = Plain /\ eng = NewEngine(Plain)
  /\ IF part = "workspace" THEN WsInit
     ELSE entries = << >> /\ rows = << >> /\ revision = 0 /\ made = 0 /\ snapshot = NoSnapshot
  /\ IF part = "generations" THEN GenInit
     ELSE method = Bred /\ gen = NewGeneration
  /\ IF part = "search" THEN SearchInit
     ELSE /\ job = [kernel |-> Kernel, batch |-> <<Start>>, episode |-> FALSE, granted |-> 0]
          /\ remaining = 0 /\ known = << >> /\ ep = NewEpisode(Start) /\ reported = << >>
  /\ IF part = "scipy" THEN ScipyInit
     ELSE /\ setup = [limit |-> -1, granted |-> -1, reserved |-> 0, enabled |-> TRUE]
          /\ attempts = << >> /\ calls = 0 /\ solution = Awaited /\ slot = Pending
  /\ IF part = "adaptation" THEN Adaptation!AdaptInit
     ELSE policy = FamilySchedule /\ learned = << >> /\ flow = << >> /\ ledger = << >>

Next ==
  \/ part = "csa" /\ CsaNext
       /\ UNCHANGED <<part, wsVars, genVars, searchVars, scipyVars, learnVars>>
  \/ part = "workspace" /\ WsNext
       /\ UNCHANGED <<part, csaVars, genVars, searchVars, scipyVars, learnVars>>
  \/ part = "generations" /\ GenNext
       /\ UNCHANGED <<part, csaVars, wsVars, searchVars, scipyVars, learnVars>>
  \/ part = "search" /\ SearchNext
       /\ UNCHANGED <<part, csaVars, wsVars, genVars, scipyVars, learnVars>>
  \/ part = "scipy" /\ ScipyNext
       /\ UNCHANGED <<part, csaVars, wsVars, genVars, searchVars, learnVars>>
  \/ part = "adaptation" /\ Adaptation!AdaptNext
       /\ UNCHANGED <<part, csaVars, wsVars, genVars, searchVars, scipyVars>>

Spec == Init /\ [][Next]_vars

(* What the proposal policy remembers follows from what the proposals really
   were and how they ended, and a local search is refused for that alone. *)
AdaptationJustified == part = "adaptation" => Adaptation!AdaptationJustified
=============================================================================
