-------------------------- MODULE DistanceWorkspace --------------------------
(* The cache of pairwise distances that the CSA bank carries from one batch to
   the next, BankDistanceWorkspace, and the crowding counts it keeps up to
   date from a snapshot instead of counting again.

   A distance is stored in one of the rows of its two entries: the row of the
   later revision, the left one on a tie.  A row that changes hands gets a new
   revision, so what older rows remember of that index is never looked up.

   `made` names row objects: the code compares rows with `is`.  The compiled
   distance view gives the same distances and is left out. *)
EXTENDS Integers, Sequences, FiniteSets, SequencesExt

CONSTANTS
  Items,         \* candidates, told apart by identity
  Metric(_, _),  \* the distance of two candidates, the same both ways
  Cutoffs,       \* the crowding cutoffs that are asked for
  MaxEntries,    \* bound: entries of the bank
  MaxRevision    \* bound: revisions of the workspace

(* A distance measured from one candidate is that of the other, on which
   seed_entry_distances relies when one row answers for both. *)
ASSUME WorkspaceAssumption ==
  MaxEntries \in Nat /\ \A a, b \in Items : Metric(a, b) = Metric(b, a)

VARIABLES entries, rows, revision, made, snapshot

wsVars == <<entries, rows, revision, made, snapshot>>

NoSnapshot == [cutoff |-> 0, rows |-> << >>, counts |-> << >>]

Fresh(i, j) == Metric(entries[i], entries[j])

(* _DistanceRow *)
Row(rev, name, dist) == [revision |-> rev, name |-> name, dist |-> dist]
FreshRows(n)         == [i \in 1 .. n |-> Row(revision, made + i, << >>)]

(* Which row answers for the pair left < right, and under which index. *)
Owner(rs, l, r) == IF rs[l].revision >= rs[r].revision THEN l ELSE r
Other(rs, l, r) == IF Owner(rs, l, r) = l THEN r ELSE l
Cached(rs, l, r) == Other(rs, l, r) \in DOMAIN rs[Owner(rs, l, r)].dist

Lookup(rs, l, r) ==
  IF Cached(rs, l, r) THEN rs[Owner(rs, l, r)].dist[Other(rs, l, r)] ELSE Fresh(l, r)

(* Row i with the distances to the entries of new that it lacked. *)
Extended(row, i, new) ==
  Row(row.revision, row.name,
      [k \in DOMAIN row.dist \cup new |-> IF k \in DOMAIN row.dist THEN row.dist[k] ELSE Fresh(i, k)])

WithPairs(rs, pairs) ==
  [i \in DOMAIN rs |->
     Extended(rs[i], i, {Other(rs, p[1], p[2]) : p \in {q \in pairs : Owner(rs, q[1], q[2]) = i}})]

PairsOf(n) == {p \in (1 .. n) \X (1 .. n) : p[1] < p[2]}

(* The rows that exist once something is asked for. *)
Touched == IF rows = << >> THEN FreshRows(Len(entries)) ELSE rows

(***************************************************************************)
(* Crowding counts                                                         *)
(***************************************************************************)
CountOf(rs, i, cutoff) ==
  Cardinality({p \in PairsOf(Len(rs)) : i \in {p[1], p[2]} /\ Lookup(rs, p[1], p[2]) < cutoff})

(* _CrowdingSnapshot.are_neighbors: right is the larger index. *)
WereNeighbours(s, l, r) ==
  r <= Len(s.rows) /\ s.rows[Owner(s.rows, l, r)].dist[Other(s.rows, l, r)] < s.cutoff

ChangedRows(rs, s) ==
  {i \in DOMAIN rs : i > Len(s.rows) \/ rs[i].name # s.rows[i].name}

(* _updated_crowding_counts: only pairs with a changed row are looked at. *)
UpdatedCount(rs, s, i) ==
  LET pairs  == {p \in PairsOf(Len(rs)) : i \in {p[1], p[2]} /\ {p[1], p[2]} \cap ChangedRows(rs, s) # {}}
      gained == {p \in pairs : Lookup(rs, p[1], p[2]) < s.cutoff}
      lost   == {p \in pairs : WereNeighbours(s, p[1], p[2])}
  IN  (IF i <= Len(s.counts) THEN s.counts[i] ELSE 0) + Cardinality(gained) - Cardinality(lost)

(* crowding_counts *)
CrowdingCounts(rs, cutoff) ==
  IF Len(entries) < 2 THEN [i \in DOMAIN entries |-> 0]
  ELSE IF snapshot # NoSnapshot /\ snapshot.cutoff = cutoff
  THEN [i \in DOMAIN entries |-> UpdatedCount(rs, snapshot, i)]
  ELSE [i \in DOMAIN entries |-> CountOf(rs, i, cutoff)]

(***************************************************************************)
(* Operations                                                              *)
(***************************************************************************)
Banks == {b \in UNION {[1 .. n -> Items] : n \in 1 .. MaxEntries} : IsInjective(b)}

(* The entries that stay, in their order. *)
RemoveIndices(bank, removed) ==
  LET stays  == DOMAIN bank \ removed
      nth(k) == CHOOSE i \in stays : Cardinality({j \in stays : j < i}) = k - 1
  IN  [k \in 1 .. Cardinality(stays) |-> bank[nth(k)]]

SmallerOf(a, b) == IF a <= b THEN a ELSE b
LargerOf(a, b)  == IF a >= b THEN a ELSE b

WsInit ==
  /\ entries \in Banks
  /\ rows = << >> /\ revision = 0 /\ made = 0 /\ snapshot = NoSnapshot

Query ==
  \E p \in PairsOf(Len(entries)) :
    /\ rows' = WithPairs(Touched, {p})
    /\ made' = IF rows = << >> THEN made + Len(entries) ELSE made
    /\ UNCHANGED <<entries, revision, snapshot>>

Count ==
  \E cutoff \in Cutoffs :
    LET counted == WithPairs(Touched, PairsOf(Len(entries)))
    IN  /\ Len(entries) >= 2
        /\ rows' = counted
        /\ made' = IF rows = << >> THEN made + Len(entries) ELSE made
        /\ snapshot' = [cutoff |-> cutoff, rows |-> counted, counts |-> CrowdingCounts(counted, cutoff)]
        /\ UNCHANGED <<entries, revision>>

Mutant_SameRevision(bank, invalidated) ==
  [i \in DOMAIN bank |->
     IF i <= Len(entries) /\ i \notin invalidated /\ bank[i] = entries[i]
     THEN rows[i] ELSE Row(revision, made + i, << >>)]

(* rebase: entries that stay where they were keep their rows. *)
Rebased(bank, invalidated) ==
  [i \in DOMAIN bank |->
     IF i <= Len(entries) /\ i \notin invalidated /\ bank[i] = entries[i]
     THEN rows[i] ELSE Row(revision + 1, made + i, << >>)]

(* seed_entry_distances: a row for entry i of its own, with the distances that
   the admission measured; new rows are made where there were none. *)
Seeded(bank, rs, i, rev, name) ==
  [k \in DOMAIN bank |->
     IF k = i THEN Row(rev, name, [j \in DOMAIN bank \ {i} |-> Metric(bank[i], bank[j])])
     ELSE IF rs = << >> THEN Row(rev - 1, name + k, << >>)
     ELSE rs[k]]

(* rebase_distance_workspace of an admission: entry i becomes c, in place or
   appended by the growth policy. *)
Admitted(i, c, seeds) ==
  LET bank    == [k \in 1 .. LargerOf(Len(entries), i) |-> IF k = i THEN c ELSE entries[k]]
      restart == rows = << >>
      rs      == IF restart THEN << >> ELSE Rebased(bank, {i} \cap DOMAIN entries)
      rev     == IF restart THEN 0 ELSE revision + 1
      last    == IF restart THEN 0 ELSE made + Len(bank)
  IN  /\ entries' = bank
      /\ snapshot' = IF restart THEN NoSnapshot ELSE snapshot
      /\ revision' = IF seeds THEN rev + 1 ELSE rev
      /\ made' = IF seeds THEN last + Len(bank) + 1 ELSE last
      /\ rows' = IF seeds THEN Seeded(bank, rs, i, rev + 1, last + 1) ELSE rs

Admit ==
  /\ revision + 2 <= MaxRevision
  /\ \E i \in 1 .. SmallerOf(Len(entries) + 1, MaxEntries) :
       \E c \in Items \ Range(entries) : \E seeds \in BOOLEAN : Admitted(i, c, seeds)

(* A bank that became shorter, by the energy cut, starts an empty cache. *)
Cut ==
  \E removed \in (SUBSET DOMAIN entries) \ {{}, DOMAIN entries} :
    /\ entries' = RemoveIndices(entries, removed)
    /\ rows' = << >> /\ revision' = 0 /\ made' = 0 /\ snapshot' = NoSnapshot

WsNext == Query \/ Count \/ Admit \/ Cut

WsSpec == WsInit /\ [][WsNext]_wsVars

(***************************************************************************)
(* Property                                                                *)
(***************************************************************************)
(* Whatever was replaced, appended, removed, seeded and asked for before, the
   workspace answers as one that was built for these entries just now: every
   pair has its true distance, and the counts that are brought up to date from
   a snapshot are the counts (distance, crowding_counts, rebase). *)
AnswersAsFresh ==
  LET rs == Touched
  IN  /\ \A p \in PairsOf(Len(entries)) : Lookup(rs, p[1], p[2]) = Fresh(p[1], p[2])
      /\ \A cutoff \in Cutoffs :
           LET counted == WithPairs(rs, PairsOf(Len(entries)))
           IN  \A i \in DOMAIN entries :
                 CrowdingCounts(counted, cutoff)[i]
                   = Cardinality({j \in DOMAIN entries \ {i} : Fresh(i, j) < cutoff})
=============================================================================
