------------------------- MODULE GenerationalMethods -------------------------
(* The methods that breed whole generations: the genetic algorithm, its
   niching variants (clearing, species conserving, restricted tournament), and
   differential evolution.

   A study may ask for fewer proposals than a generation has, so a generation
   goes out in slices: children wait in a queue that is read by an index and
   compacted now and then, one slice is pending, and what was told waits in a
   buffer of batches until the generation is complete.  Only then is it
   decided who survives.

   A member is where its candidate lies on a line, Value gives its score.  A
   kernel may move a child before it is told, so a child is told anywhere, and
   the parents it was bred from decide nothing that is checked here.  A child
   is known by its place in its generation: proposal ids count on, by whole
   generations. *)
EXTENDS Integers, Sequences, FiniteSets, SequencesExt

CONSTANTS
  Methods,   \* the optimizers: [variant, size, elite, radius, niche, window],
             \* and a bound: `places`, where the candidates of a run lie
  Value,     \* Value[p] is the score of a candidate
  Slices     \* bound: the batch sizes that are asked for

VARIABLES method, gen

(* The constructors of the optimizers refuse other sizes (the __post_init__ of
   the optimizers and of their profiles). *)
GenerationsAssumption ==
  /\ Slices \subseteq Nat \ {0}
  /\ \A m \in Methods :
       /\ m.variant \in {"ga", "clearing", "species", "restricted", "de"}
       /\ m.size \in Nat \ {0} /\ m.elite \in 0 .. m.size
       /\ m.radius \in Nat /\ m.niche \in Nat \ {0} /\ m.window \in 1 .. m.size
       /\ m.places \subseteq Int /\ \A p \in m.places : Value[p] \in Int

genVars == <<method, gen>>

(* GenerationalGAOptimizerState and DEOptimizerState *)
NewGeneration ==
  [population |-> << >>, queue |-> << >>, head |-> 0, pending |-> << >>,
   buffer |-> << >>, next |-> 0]

Apart(a, b) == IF a >= b THEN a - b ELSE b - a

(* sort_generational_ga_population: stable, best score first. *)
Standing(ms, i) ==
  Cardinality({j \in DOMAIN ms : Value[ms[j]] < Value[ms[i]] \/ (Value[ms[j]] = Value[ms[i]] /\ j < i)})
Sorted(ms) == [k \in DOMAIN ms |-> ms[CHOOSE i \in DOMAIN ms : Standing(ms, i) = k - 1]]

First(ms, n) == SubSeq(ms, 1, IF n < Len(ms) THEN n ELSE Len(ms))
At(ms, indices) ==
  [k \in 1 .. Cardinality(indices) |->
     ms[CHOOSE i \in indices : Cardinality({j \in indices : j < i}) = k - 1]]

(* GenerationalGAMemberBuffer: batches are prepended and read oldest first. *)
InBuffer(g)     == FlattenSeq(Reverse(g.buffer))
BufferCount(g)  == Len(InBuffer(g))

(***************************************************************************)
(* Who survives                                                            *)
(***************************************************************************)
(* GeneticAlgorithmOptimizer._build_next_population *)
ElitesAndBest(m, parents, offspring) ==
  Sorted(First(Sorted(parents), m.elite) \o First(Sorted(offspring), m.size - m.elite))

(* Clearing: of the sorted pool, those with fewer than `niche` winners within
   the radius win; the others fill up by how far they are from all chosen. *)
Winners(m, pool) ==
  FoldLeft(LAMBDA won, i :
             IF Cardinality({w \in won : Apart(pool[i], pool[w]) < m.radius}) < m.niche
             THEN won \cup {i} ELSE won,
           {}, [i \in DOMAIN pool |-> i])

Closest(pool, i, chosen) == CHOOSE d \in {Apart(pool[i], pool[c]) : c \in chosen} :
                              \A c \in chosen : d <= Apart(pool[i], pool[c])

NextDiverse(pool, chosen) ==
  LET rest == DOMAIN pool \ chosen
      key(i) == <<Closest(pool, i, chosen), 0 - Value[pool[i]]>>
      Before(k, l) == k[1] < l[1] \/ (k[1] = l[1] /\ k[2] < l[2])
  IN  CHOOSE i \in rest : \A j \in rest : Before(key(j), key(i)) \/ (key(i) = key(j) /\ i <= j)

DiverseBackfill(pool, won, count) ==
  FoldLeft(LAMBDA chosen, k : IF chosen = DOMAIN pool THEN chosen
                              ELSE chosen \cup {NextDiverse(pool, chosen)},
           won, [k \in 1 .. count |-> k])

Cleared(m, parents, offspring) ==
  LET pool == Sorted(parents \o offspring)
      won  == Winners(m, pool)
  IN  IF Cardinality(won) >= m.size THEN First(At(pool, won), m.size)
      ELSE Sorted(At(pool, DiverseBackfill(pool, won, m.size - Cardinality(won))))

(* Species: a pool member joins the first species whose seed is within the
   radius, or founds one; a full species drops it. *)
SpeciesOf(m, pool) ==
  LET Join(found, i) ==
        LET near == {s \in DOMAIN found : Apart(pool[i], pool[found[s][1]]) < m.radius}
            s    == CHOOSE x \in near : \A y \in near : x <= y
        IN  IF near = {} THEN Append(found, <<i>>)
            ELSE IF Len(found[s]) < m.niche THEN [found EXCEPT ![s] = Append(@, i)] ELSE found
  IN  FoldLeft(Join, << >>, [i \in DOMAIN pool |-> i])

Mutant_SeedsNotFirst(m, parents, offspring) ==
  LET pool      == Sorted(parents \o offspring)
      protected == UNION {Range(s) : s \in Range(SpeciesOf(m, pool))}
  IN  First(At(pool, protected) \o At(pool, DOMAIN pool \ protected), m.size)

Conserved(m, parents, offspring) ==
  LET pool      == Sorted(parents \o offspring)
      species   == SpeciesOf(m, pool)
      seeds     == {species[s][1] : s \in DOMAIN species}
      protected == UNION {Range(species[s]) : s \in DOMAIN species}
      ranked    == At(pool, seeds) \o At(pool, protected \ seeds)
  IN  IF Cardinality(protected) >= m.size THEN Sorted(First(ranked, m.size))
      ELSE Sorted(FlattenSeq([s \in DOMAIN species |-> [k \in DOMAIN species[s] |-> pool[species[s][k]]]])
                  \o First(At(pool, DOMAIN pool \ protected), m.size - Cardinality(protected)))

(* Restricted tournament: each child in turn meets the nearest of a random
   window, the better one on equal distance. *)
Competitors(population, child, window) ==
  {i \in window : \A j \in window :
     \/ Apart(child, population[i]) < Apart(child, population[j])
     \/ /\ Apart(child, population[i]) = Apart(child, population[j])
        /\ Value[population[i]] <= Value[population[j]]}

AfterTournament(m, population, child) ==
  {IF Value[child] <= Value[population[c]] THEN [population EXCEPT ![c] = child] ELSE population :
     c \in UNION {Competitors(population, child, w) : w \in kSubset(m.window, DOMAIN population)}}

Restricted(m, parents, offspring) ==
  {Sorted(p) : p \in FoldLeft(LAMBDA ps, child : UNION {AfterTournament(m, p, child) : p \in ps},
                              {Sorted(parents)}, offspring)}

(* Differential evolution: every trial meets its target. *)
Evolved(parents, trials) ==
  FoldLeft(LAMBDA p, t : IF Value[t.at] <= Value[p[t.id]] THEN [p EXCEPT ![t.id] = t.at] ELSE p,
           parents, trials)

NextPopulations(m, parents, told) ==
  LET offspring == [k \in DOMAIN told |-> told[k].at]
  IN  CASE m.variant = "ga"         -> {ElitesAndBest(m, parents, offspring)}
        [] m.variant = "clearing"   -> {Cleared(m, parents, offspring)}
        [] m.variant = "species"    -> {Conserved(m, parents, offspring)}
        [] m.variant = "restricted" -> Restricted(m, parents, offspring)
        [] m.variant = "de"         -> {Evolved(parents, told)}

(***************************************************************************)
(* ask and tell                                                            *)
(***************************************************************************)
GenInit == method \in Methods /\ gen = NewGeneration

Ids(from, n) == [k \in 1 .. n |-> from + k]

(* ask_initial_generational_ga_population *)
AskInitial ==
  /\ gen.population = << >> /\ gen.pending = << >>
  /\ \E batch \in Slices :
       LET left  == method.size - BufferCount(gen)
           count == IF batch < left THEN batch ELSE left
       IN  gen' = [gen EXCEPT !.pending = Ids(gen.next, count), !.next = (@ + count) % method.size]
  /\ UNCHANGED method

(* materialize_generational_ga_generation *)
WithQueue(g) ==
  IF g.head # Len(g.queue) THEN g
  ELSE [g EXCEPT !.queue = Ids(g.next, method.size), !.head = 0]

(* The queue once it is read up to `stop`: dropped at its end, cut when half
   of it is read; differential evolution always cuts it. *)
Mutant_CutKeepsIndex(g, stop) ==
  [g EXCEPT !.head = stop, !.queue = IF 2 * stop >= Len(@) THEN SubSeq(@, stop + 1, Len(@)) ELSE @]

ReadUpTo(g, stop) ==
  IF method.variant = "de" \/ stop = Len(g.queue) \/ 2 * stop >= Len(g.queue)
  THEN [g EXCEPT !.queue = SubSeq(@, stop + 1, Len(@)), !.head = 0]
  ELSE [g EXCEPT !.head = stop]

(* ask_generational_ga *)
AskGeneration ==
  /\ gen.population # << >> /\ gen.pending = << >>
  /\ \E batch \in Slices :
       LET g    == WithQueue(gen)
           stop == IF g.head + batch < Len(g.queue) THEN g.head + batch ELSE Len(g.queue)
       IN  gen' = [ReadUpTo(g, stop) EXCEPT !.pending = SubSeq(g.queue, g.head + 1, stop)]
  /\ UNCHANGED method

(* tell_generational_ga: the observations of the pending slice, in order. *)
TellChildren ==
  /\ gen.pending # << >>
  /\ \E at \in [DOMAIN gen.pending -> method.places] :
       LET told == [k \in DOMAIN gen.pending |-> [id |-> gen.pending[k], at |-> at[k]]]
           g    == [gen EXCEPT !.pending = << >>, !.buffer = << told >> \o @]
           all  == InBuffer(g)
       IN  IF Len(all) < method.size THEN gen' = g
           ELSE LET members == [k \in DOMAIN all |-> all[k].at]
                IN  \E population \in
                        IF gen.population = << >>
                        THEN {IF method.variant = "de" THEN members ELSE Sorted(members)}
                        ELSE NextPopulations(method, gen.population, all) :
                      gen' = [g EXCEPT !.population = population, !.buffer = << >>]
  /\ UNCHANGED method

GenNext == AskInitial \/ AskGeneration \/ TellChildren

GenSpec == GenInit /\ [][GenNext]_genVars

(***************************************************************************)
(* Properties                                                              *)
(***************************************************************************)
(* However a generation is sliced, its children are asked for and told once
   each and in their order, and a generation is never larger than the
   population: what is buffered, what is pending and what is left of the queue
   are together the children of this generation (ask_generational_ga,
   tell_generational_ga, GenerationalGAMemberBuffer). *)
GenerationInOrder ==
  LET told == [k \in DOMAIN InBuffer(gen) |-> InBuffer(gen)[k].id]
      left == SubSeq(gen.queue, gen.head + 1, Len(gen.queue))
  IN  IF gen.population = << >>
      THEN told \o gen.pending = Ids(0, Len(told) + Len(gen.pending))
      ELSE /\ told \o gen.pending \o left \in {<< >>, Ids(0, method.size)}
           /\ Len(gen.population) = method.size

(* Children that complete a generation, in the step that tells the last. *)
Commits == gen.population # << >> /\ gen.pending # << >> /\ gen'.pending = << >> /\ gen'.buffer = << >>

FittestOf(population) == CHOOSE v \in {Value[population[i]] : i \in DOMAIN population} :
                           \A i \in DOMAIN population : v <= Value[population[i]]

(* A generation never loses what its method is there to keep.  The best score
   does not get worse, where an elite is kept or losers must be beaten.  And
   in a niching method whoever is gone, parent or child, has someone at least
   as good within the radius, unless the population is full of such leaders
   (the _build_next_population of the genetic algorithms, DE _tell_generation). *)
SurvivorsKept ==
  [][Commits =>
       LET pool      == Range(gen.population) \cup {InBuffer(gen)[k].at : k \in DOMAIN InBuffer(gen)}
           survivors == gen'.population
           share     == IF method.variant = "species" THEN 1 ELSE method.niche
           Gone      == {p \in pool : \A q \in Range(survivors) :
                                       Apart(p, q) >= method.radius \/ Value[q] > Value[p]}
       IN  /\ method.variant # "ga" \/ method.elite > 0 =>
                FittestOf(survivors) <= FittestOf(gen.population)
           /\ method.variant \in {"species", "clearing"} /\ Gone # {} =>
                \A i \in DOMAIN survivors :
                  Cardinality({j \in 1 .. (i - 1) : Apart(survivors[i], survivors[j]) < method.radius})
                    < share]_genVars
=============================================================================
