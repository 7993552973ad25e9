--------------------------- MODULE PopulationProofs ---------------------------
(***************************************************************************)
(* Of the CSA engine, NothingToldIsLost, for every profile and whatever    *)
(* the bank does with what it is told, and BestKept, along everything the  *)
(* bank does with it.  Two results are folds over what a call is given:    *)
(* the proposals of an ask and the observations of a bank update.  Of the  *)
(* cache of its distances, AnswersAsFresh.                                 *)
(***************************************************************************)
EXTENDS CsaEngine, DistanceWorkspace, SumTheorems

(* The engine state as far as it matters here: its fields, ids that are
   numbers, and a finite number of them. *)
Fields ==
  {"bank", "reference", "refresh", "growth", "clusters", "progress", "status", "queue",
   "issued", "buffer", "pending", "attribution", "hot", "owed"}

Evaluation == [id : Nat \ {0}, at : Positions]

IsProgress(p) == {"action", "index"} \subseteq DOMAIN p /\ p.index \in Nat

Shape(e) ==
  /\ DOMAIN e = Fields /\ IsProgress(e.progress)
  /\ e.pending \in SUBSET (Nat \ {0}) /\ IsFiniteSet(e.pending)
  /\ e.buffer \in Seq(Evaluation) /\ IsFiniteSet(Buffered(e))

(* What was told waits in the buffer; and neither a refresh nor a boundary
   action that is due meets a generation in progress. *)
Waits(e) ==
  /\ e.owed = Buffered(e)
  /\ e.issued \subseteq e.pending
  /\ e.pending \cap Buffered(e) = {}
  /\ Refreshing(e) \/ HasAction(e) => ~IsActive(e)

(* Between calls the attributions are those of what is pending or buffered;
   during an ask, these and the `reasons` it has yet to register. *)
Attributed(e, reasons, pol) ==
  /\ pol.adaptive => DOMAIN e.attribution \cup DOMAIN reasons = e.pending \cup Buffered(e)
  /\ ~pol.adaptive => DOMAIN e.attribution = {}
  /\ DOMAIN reasons \subseteq e.pending
  /\ Refreshing(e) => \A id \in DOMAIN e.attribution : e.attribution[id] = "refresh_sample"
  /\ Refreshing(e) => \A id \in DOMAIN reasons : reasons[id] = "refresh_sample"

EngineInv(e, reasons, pol) == Shape(e) /\ Waits(e) /\ Attributed(e, reasons, pol)

(* An idle engine with nothing outstanding, buffered or remembered. *)
Clear(e) ==
  /\ Shape(e) /\ e.pending = {} /\ e.owed = {} /\ DOMAIN e.attribution = {}

Rested(e) == Clear(e) /\ ~IsActive(e)

LEMMA RestedIsTrue ==
  ASSUME NEW e, NEW pol, Rested(e)
  PROVE  EngineInv(e, << >>, pol)
<1>1. Buffered(e) = {} /\ e.issued = {}
  BY DEF Rested, IsActive, Buffered
<1>2. DOMAIN << >> = {}
  OBVIOUS
<1> QED BY <1>1, <1>2 DEF Rested, Clear, EngineInv, Waits, Attributed

LEMMA NothingBuffered ==
  ASSUME NEW e, e.buffer = << >>
  PROVE  Buffered(e) = {} /\ IsFiniteSet(Buffered(e)) /\ e.buffer \in Seq(Evaluation)
  BY FS_EmptySet DEF Buffered

-----------------------------------------------------------------------------
(* Boundaries.  They start with nothing outstanding and end idle. *)
LEMMA IdleRests ==
  ASSUME NEW e, Clear(e)
  PROVE  /\ Rested(Idle(e)) /\ Idle(e).progress = e.progress
         /\ Idle(e).refresh = e.refresh
<1> DEFINE i == Idle(e)
<1>1. DOMAIN i = Fields
  BY DEF Clear, Shape, Idle
<1>2. /\ i.queue = 0 /\ i.issued = {} /\ i.buffer = << >>
      /\ i.pending = e.pending /\ i.owed = e.owed /\ i.attribution = e.attribution
      /\ i.progress = e.progress /\ i.refresh = e.refresh
  BY DEF Clear, Shape, Idle, Fields
<1> HIDE DEF i
<1>3. Shape(i)
  BY <1>1, <1>2, NothingBuffered DEF Clear, Shape
<1> QED BY <1>2, <1>3 DEF Rested, Clear, IsActive, i

SameAction(p, q) ==
  /\ {"action", "index"} \subseteq DOMAIN q /\ q.action = p.action
  /\ p.index \in Nat => q.index \in Nat

LEMMA ActionsKept ==
  ASSUME NEW p, IsProgress(p), NEW pol
  PROVE  /\ \A a, g : SameAction(p, InitializeCutoff(p, pol, a, g))
         /\ \A a, g : SameAction(p, ProgressCompleteRefresh(p, pol, a, g))
         /\ \A x : SameAction(p, MaskedFor(p, x, pol))
         /\ SameAction(p, NextStage(p, pol))
         /\ SameAction(p, ProgressBeginRefresh(p))
         /\ \A x : SameAction(p, Unmasked(p, x))
         /\ \A x, n : SameAction(p, ProgressRemove(p, x, n))
<1>1. \A a, g : SameAction(p, InitializeCutoff(p, pol, a, g))
  BY DEF IsProgress, InitializeCutoff, SameAction
<1>2. \A a, g : SameAction(p, ProgressCompleteRefresh(p, pol, a, g))
  BY <1>1 DEF ProgressCompleteRefresh, SameAction
<1>3. \A x : SameAction(p, MaskedFor(p, x, pol))
  BY DEF IsProgress, MaskedFor, SameAction
<1>4. SameAction(p, NextStage(p, pol))
  BY DEF IsProgress, NextStage, Grown, SameAction
<1>5. SameAction(p, ProgressBeginRefresh(p))
  BY DEF IsProgress, ProgressBeginRefresh, SameAction
<1>6. \A x : SameAction(p, Unmasked(p, x))
  BY DEF IsProgress, Unmasked, SameAction
<1>7. \A x, n : SameAction(p, ProgressRemove(p, x, n))
  BY DEF IsProgress, ProgressRemove, SameAction
<1> QED BY <1>1, <1>2, <1>3, <1>4, <1>5, <1>6, <1>7

(* What the properties of the engine are about, apart from the attributions. *)
Alike(e, f) ==
  /\ DOMAIN f = Fields /\ IsProgress(f.progress)
  /\ f.queue = e.queue /\ f.issued = e.issued /\ f.buffer = e.buffer
  /\ f.pending = e.pending /\ f.owed = e.owed

LEMMA AlikeRests ==
  ASSUME NEW e, NEW f, Alike(e, f), f.attribution = e.attribution
  PROVE  (Clear(e) => Clear(f)) /\ (Rested(e) => Rested(f))
<1>1. Buffered(f) = Buffered(e)
  BY DEF Alike, Buffered
<1>2. Clear(e) => Clear(f)
  BY <1>1 DEF Alike, Clear, Shape
<1>3. IsActive(f) = IsActive(e)
  BY DEF Alike, IsActive
<1> QED BY <1>2, <1>3 DEF Rested

LEMMA CompletingRests ==
  ASSUME NEW e, NEW pol, Clear(e)
  PROVE  /\ Rested(CompleteRefresh(e, pol))
         /\ CompleteRefresh(e, pol).progress.action = e.progress.action
<1>1. ASSUME NEW reference, NEW bank, NEW p, SameAction(e.progress, p)
      PROVE  LET r == Refreshed(e, reference, bank, p, pol)
             IN  Rested(r) /\ r.progress.action = e.progress.action
  <2> DEFINE Of(b, c, q) == [e EXCEPT !.bank = b, !.reference = reference, !.refresh = NoRefresh,
                                      !.clusters = c, !.progress = q]
  <2>1. PICK b, c, q : /\ Refreshed(e, reference, bank, p, pol) = Idle(Of(b, c, q))
                       /\ q = MaskedFor(p, 1 .. Len(e.refresh.bank), pol)
    BY Zenon DEF Refreshed, Clear, Shape, Fields
  <2>2. IsProgress(q) /\ q.action = e.progress.action
    <3>1. IsProgress(p) /\ p.action = e.progress.action
      BY <1>1 DEF IsProgress, Clear, Shape, SameAction
    <3>2. SameAction(p, q)
      BY Zenon, <2>1, <3>1, ActionsKept
    <3> QED BY <3>1, <3>2 DEF IsProgress, SameAction
  <2>3. /\ Alike(e, Of(b, c, q)) /\ Of(b, c, q).attribution = e.attribution
        /\ Of(b, c, q).progress = q
    BY <2>2 DEF Alike, Clear, Shape, Fields
  <2> HIDE DEF Of
  <2>4. Clear(Of(b, c, q))
    BY <2>3, AlikeRests
  <2> QED BY <2>1, <2>2, <2>3, <2>4, IdleRests
<1>2. \A a, g : SameAction(e.progress, ProgressCompleteRefresh(e.progress, pol, a, g))
  BY Zenon, ActionsKept DEF Clear, Shape
<1> HIDE DEF SameAction
<1> QED BY <1>1, <1>2 DEF CompleteRefresh

LEMMA StageRests ==
  ASSUME NEW e, NEW pol, Clear(e)
  PROVE  /\ Rested(BeginStage(e, pol))
         /\ BeginStage(e, pol).progress.action = e.progress.action
<1> DEFINE staged == Staged(e, pol)
           i      == Idle(e)
           grown  == [staged EXCEPT !.refresh = RefreshStateOf(staged, pol, TRUE),
                                    !.progress = ProgressBeginRefresh(@)]
<1>1. Rested(i) /\ i.progress = e.progress
  BY IdleRests
<1>2. /\ DOMAIN staged = Fields
      /\ staged.queue = i.queue /\ staged.issued = i.issued /\ staged.buffer = i.buffer
      /\ staged.pending = i.pending /\ staged.owed = i.owed /\ staged.attribution = i.attribution
      /\ staged.progress = [NextStage(e.progress, pol) EXCEPT !.refreshMask = {}]
  <2>1. staged = [i EXCEPT !.progress = [NextStage(@, pol) EXCEPT !.refreshMask = {}],
                           !.bank.entries = KeptAs(@, "no")]
    BY DEF Staged
  <2> HIDE DEF staged, i
  <2> QED BY <1>1, <2>1 DEF Rested, Clear, Shape, Fields
<1>3. SameAction(e.progress, staged.progress)
  <2>1. SameAction(e.progress, NextStage(e.progress, pol))
    BY ActionsKept DEF Clear, Shape
  <2> HIDE DEF staged
  <2> QED BY <1>2, <2>1 DEF SameAction
<1>4. /\ DOMAIN grown = Fields
      /\ grown.queue = staged.queue /\ grown.issued = staged.issued
      /\ grown.buffer = staged.buffer /\ grown.pending = staged.pending
      /\ grown.owed = staged.owed /\ grown.attribution = staged.attribution
      /\ grown.progress = ProgressBeginRefresh(staged.progress)
  <2> HIDE DEF staged
  <2> QED BY <1>2 DEF Fields
<1>5. SameAction(staged.progress, grown.progress)
  <2>1. IsProgress(staged.progress)
    BY <1>3 DEF IsProgress, Clear, Shape, SameAction
  <2> HIDE DEF staged, grown
  <2>2. SameAction(staged.progress, ProgressBeginRefresh(staged.progress))
    BY Zenon, <2>1, ActionsKept
  <2> QED BY Zenon, <1>4, <2>2
<1> HIDE DEF staged, i, grown
<1>6. Rested(staged)
  <2>1. Alike(i, staged)
    BY <1>2, <1>3 DEF IsProgress, Clear, Shape, Alike, SameAction
  <2> QED BY <1>1, <1>2, <2>1, AlikeRests
<1>7. Rested(grown)
  <2>1. Alike(staged, grown)
    BY <1>3, <1>4, <1>5 DEF IsProgress, Clear, Shape, Alike, SameAction
  <2> QED BY <1>4, <1>6, <2>1, AlikeRests
<1>8. BeginStage(e, pol) \in {staged, grown, CompleteRefresh(grown, pol)}
  BY DEF BeginStage, CompletedIfEnough, staged, grown
<1>9. Rested(CompleteRefresh(grown, pol))
      /\ CompleteRefresh(grown, pol).progress.action = grown.progress.action
  BY <1>7, CompletingRests DEF Rested
<1> QED BY <1>3, <1>5, <1>6, <1>7, <1>8, <1>9 DEF SameAction

LEMMA RefreshRests ==
  ASSUME NEW e, NEW pol, Clear(e)
  PROVE  /\ Rested(BeginRefresh(e, pol))
         /\ BeginRefresh(e, pol).progress.action = e.progress.action
<1> DEFINE i == Idle(e)
           begun == BeginRefresh(e, pol)
<1>1. Rested(i) /\ i.progress = e.progress
  BY IdleRests
<1>2. /\ DOMAIN begun = Fields
      /\ begun.queue = i.queue /\ begun.issued = i.issued /\ begun.buffer = i.buffer
      /\ begun.pending = i.pending /\ begun.owed = i.owed /\ begun.attribution = i.attribution
      /\ begun.progress = ProgressBeginRefresh(e.progress)
  <2>1. begun = [i EXCEPT !.refresh = RefreshStateOf(e, pol, FALSE), !.clusters = NoClusters,
                          !.progress = ProgressBeginRefresh(@)]
    BY DEF BeginRefresh
  <2> HIDE DEF begun, i
  <2> QED BY <1>1, <2>1 DEF Rested, Clear, Shape, Fields
<1>3. SameAction(e.progress, begun.progress)
  BY <1>2, ActionsKept DEF Clear, Shape
<1> HIDE DEF begun, i
<1>4. Rested(begun)
  <2>1. Alike(i, begun)
    BY <1>2, <1>3 DEF IsProgress, Clear, Shape, Alike, SameAction
  <2> QED BY <1>1, <1>2, <2>1, AlikeRests
<1> QED BY <1>3, <1>4 DEF SameAction, begun

LEMMA ActionRests ==
  ASSUME NEW e, NEW pol, Clear(e)
  PROVE  Rested(ApplyAction(e, pol)) /\ ~HasAction(ApplyAction(e, pol))
<1> DEFINE consumed == [e EXCEPT !.progress.action = "none"]
<1>1. /\ Alike(e, consumed) /\ consumed.attribution = e.attribution
      /\ consumed.progress.action = "none"
  BY DEF IsProgress, Alike, Clear, Shape, Fields
<1> HIDE DEF consumed
<1>2. Clear(consumed)
  BY <1>1, AlikeRests
<1>3. ApplyAction(e, pol) \in {BeginRefresh(consumed, pol), BeginStage(consumed, pol)}
  BY DEF ApplyAction, consumed
<1> QED BY <1>1, <1>2, <1>3, StageRests, RefreshRests DEF HasAction
-----------------------------------------------------------------------------
(* A fresh id is one of a range that is larger than what is in use. *)
LEMMA FreshIdIsFresh ==
  ASSUME NEW e, Shape(e)
  PROVE  FreshId(e) \in Nat \ {0} /\ FreshId(e) \notin e.pending /\ FreshId(e) \notin Buffered(e)
<1> DEFINE live == e.pending \cup Buffered(e)
           n    == Cardinality(live)
           free == (1 .. (n + 1)) \ live
<1>1. IsFiniteSet(live) /\ n \in Nat
  BY Zenon, FS_Union, FS_CardinalityType DEF Shape
<1>2. free # {}
  <2> HIDE DEF live
  <2> SUFFICES ASSUME 1 .. (n + 1) \subseteq live
               PROVE  FALSE
    OBVIOUS
  <2>1. Cardinality(1 .. (n + 1)) <= n
    BY <1>1, FS_Subset
  <2>2. Cardinality(1 .. (n + 1)) = n + 1
    BY <1>1, FS_Interval
  <2> QED BY <1>1, <2>1, <2>2
<1>3. FreshId(e) \in free
  <2>1. free \in SUBSET Nat
    BY <1>1
  <2>2. FreshId(e) = SmallestOf(free)
    BY DEF FreshId
  <2> HIDE DEF free
  <2> QED BY Zenon, <1>2, <2>1, <2>2, LeastNatural DEF SmallestOf
<1> QED BY <1>1, <1>3

(* One proposal. *)
Outcome(m, reasons, pol) ==
  EngineInv(m.eng, Noted(reasons, m.id, m.reason), pol)

\* Noting the reason of a new proposal.
LEMMA NotesReason ==
  ASSUME NEW e, NEW f, NEW reasons, NEW id, NEW reason, NEW pol,
         Attributed(e, reasons, pol),
         f.pending = e.pending \cup {id}, Buffered(f) = Buffered(e),
         f.attribution = e.attribution,
         Refreshing(f) => Refreshing(e) /\ reason = "refresh_sample"
  PROVE  Attributed(f, Noted(reasons, id, reason), pol)
<1> DEFINE noted == Noted(reasons, id, reason)
<1>1. DOMAIN noted = {id} \cup DOMAIN reasons
  BY DEF Noted
<1>2. ASSUME Refreshing(f), NEW k \in DOMAIN noted
      PROVE  noted[k] = "refresh_sample"
  BY <1>2 DEF Noted, Attributed
<1> HIDE DEF noted
<1>3. Attributed(f, noted, pol)
  BY <1>1, <1>2 DEF Attributed
<1> QED BY <1>3 DEF noted

LEMMA SampledKeeps ==
  ASSUME NEW e, NEW reasons, NEW pol, NEW reason, EngineInv(e, reasons, pol),
         Refreshing(e) => reason = "refresh_sample"
  PROVE  Outcome(Sampled(e, reason), reasons, pol)
<1> DEFINE id == FreshId(e)
           f  == [e EXCEPT !.pending = @ \cup {id}]
<1>1. id \in Nat \ {0} /\ id \notin e.pending /\ id \notin Buffered(e)
  BY FreshIdIsFresh DEF EngineInv
<1> HIDE DEF id
<1>2. /\ DOMAIN f = Fields /\ f.progress = e.progress /\ f.refresh = e.refresh
      /\ f.queue = e.queue /\ f.issued = e.issued /\ f.buffer = e.buffer
      /\ f.pending = e.pending \cup {id} /\ f.owed = e.owed /\ f.attribution = e.attribution
  BY DEF EngineInv, Shape, Fields
<1> HIDE DEF f
<1>3. /\ Buffered(f) = Buffered(e) /\ IsActive(f) = IsActive(e)
      /\ Refreshing(f) = Refreshing(e) /\ HasAction(f) = HasAction(e)
  BY <1>2 DEF Buffered, IsActive, Refreshing, HasAction
<1>4. IsFiniteSet(f.pending)
  <2>1. IsFiniteSet(e.pending)
    BY DEF EngineInv, Shape
  <2> QED BY <1>2, <2>1, FS_AddElement
<1>5. Shape(f)
  BY <1>1, <1>2, <1>3, <1>4 DEF EngineInv, Shape
<1>6. Waits(f)
  BY <1>1, <1>2, <1>3 DEF EngineInv, Waits
<1>7. Attributed(f, Noted(reasons, id, reason), pol)
  <2>1. Attributed(e, reasons, pol)
    BY DEF EngineInv
  <2> QED BY <1>2, <1>3, <2>1, NotesReason
<1> QED BY <1>5, <1>6, <1>7 DEF Outcome, EngineInv, Sampled, f, id

LEMMA IssuedKeeps ==
  ASSUME NEW e, NEW reasons, NEW pol, EngineInv(e, reasons, pol),
         ~Refreshing(e), ~HasAction(e)
  PROVE  Outcome(Issued(e), reasons, pol)
<1> DEFINE id == FreshId(e)
           f  == [e EXCEPT !.pending = @ \cup {id}, !.issued = @ \cup {id}, !.queue = @ - 1]
<1>1. id \in Nat \ {0} /\ id \notin e.pending /\ id \notin Buffered(e)
  BY FreshIdIsFresh DEF EngineInv
<1> HIDE DEF id
<1>2. /\ DOMAIN f = Fields /\ f.progress = e.progress /\ f.refresh = e.refresh
      /\ f.issued = e.issued \cup {id} /\ f.buffer = e.buffer
      /\ f.pending = e.pending \cup {id} /\ f.owed = e.owed /\ f.attribution = e.attribution
  BY DEF EngineInv, Shape, Fields
<1>3. Issued(e) = [eng |-> f, id |-> id, reason |-> "generated", tracks |-> TRUE]
  BY DEF Issued, id
<1> HIDE DEF f
<1>4. Buffered(f) = Buffered(e) /\ ~Refreshing(f) /\ ~HasAction(f)
  BY <1>2 DEF Buffered, Refreshing, HasAction
<1>5. IsFiniteSet(f.pending)
  <2>1. IsFiniteSet(e.pending)
    BY DEF EngineInv, Shape
  <2> QED BY <1>2, <2>1, FS_AddElement
<1>6. Shape(f)
  BY <1>1, <1>2, <1>4, <1>5 DEF EngineInv, Shape
<1>7. Waits(f)
  BY <1>1, <1>2, <1>4 DEF EngineInv, Waits
<1>8. Attributed(f, Noted(reasons, id, "generated"), pol)
  <2>1. Attributed(e, reasons, pol)
    BY DEF EngineInv
  <2> QED BY <1>2, <1>4, <2>1, NotesReason
<1> QED BY <1>3, <1>6, <1>7, <1>8 DEF Outcome, EngineInv

(* Choosing the seeds of a generation. *)
LEMMA MaterializedKeeps ==
  ASSUME NEW e, NEW reasons, NEW pol, EngineInv(e, reasons, pol),
         ~Refreshing(e), ~HasAction(e), NEW m \in Materialized(e, pol)
  PROVE  EngineInv(m, reasons, pol) /\ ~Refreshing(m) /\ ~HasAction(m)
<1>1. PICK b : m = WithSeeds(e, b, pol)
  BY DEF Materialized
<1>2. /\ DOMAIN m = Fields /\ m.progress = e.progress /\ m.refresh = e.refresh
      /\ m.issued = e.issued /\ m.buffer = e.buffer
      /\ m.pending = e.pending /\ m.owed = e.owed /\ m.attribution = e.attribution
  BY <1>1 DEF WithSeeds, EngineInv, Shape, Fields
<1>3. Buffered(m) = Buffered(e) /\ ~Refreshing(m) /\ ~HasAction(m)
  BY <1>2 DEF Buffered, Refreshing, HasAction
<1> QED BY <1>2, <1>3 DEF EngineInv, Shape, Waits, Attributed

LEMMA EmittedKeeps ==
  ASSUME NEW e, NEW reasons, NEW pol, EngineInv(e, reasons, pol), NEW m \in Emitted(e, pol)
  PROVE  Outcome(m, reasons, pol)
<1>1. ASSUME NEW f, EngineInv(f, reasons, pol), ~HasAction(f), m \in NextProposals(f, pol)
      PROVE  Outcome(m, reasons, pol)
  <2>1. CASE Refreshing(f)
    <3>1. m = Sampled(f, "refresh_sample")
      BY <1>1, <2>1 DEF NextProposals
    <3> QED BY <1>1, <3>1, SampledKeeps
  <2>2. CASE ~Refreshing(f)
    <3>1. m = Sampled(f, "space_sample") \/ m = Issued(f)
          \/ \E g \in Materialized(f, pol) : m = Issued(g)
      BY <1>1, <2>2 DEF NextProposals
    <3> QED BY <1>1, <2>2, <3>1, SampledKeeps, IssuedKeeps, MaterializedKeeps
  <2> QED BY <2>1, <2>2
<1>2. CASE ~HasAction(e)
  BY <1>1, <1>2 DEF Emitted
<1>3. CASE HasAction(e)
  <2>1. e.pending = {} /\ m \in NextProposals(ApplyAction(e, pol), pol)
    BY <1>3 DEF Emitted
  <2>2. Clear(e)
    <3>1. e.buffer = << >>
      BY <1>3 DEF EngineInv, Waits, IsActive
    <3>2. Buffered(e) = {}
      BY <3>1, NothingBuffered
    <3> QED BY <2>1, <3>2 DEF Clear, EngineInv, Waits, Attributed
  <2>3. EngineInv(ApplyAction(e, pol), << >>, pol) /\ ~HasAction(ApplyAction(e, pol))
    BY <2>2, ActionRests, RestedIsTrue
  <2>4. EngineInv(ApplyAction(e, pol), reasons, pol)
    <3>1. DOMAIN reasons = {}
      BY Zenon, <2>1 DEF EngineInv, Attributed
    <3>2. DOMAIN << >> = {}
      OBVIOUS
    <3> QED BY <2>3, <3>1, <3>2 DEF EngineInv, Attributed
  <2> QED BY <1>1, <2>1, <2>3, <2>4
<1> QED BY <1>2, <1>3
-----------------------------------------------------------------------------
(* Two results are folds: what an ask of several proposals may lead to, and
   what becomes of the bank over the observations of an update.  A fold over
   a sequence takes the highest index of a set and folds the rest first. *)
FoldStep(fold, x, k) ==
  IF fold.kind = "ask" THEN AskStep(x, fold.pol)
  ELSE AdmitOne(x, fold.observations[k], fold.hot, fold.pol)

IsFold(g, fold, D) ==
  g = [s \in SUBSET D |-> IF s = {} THEN fold.base ELSE FoldStep(fold, g[s \ {Max(s)}], Max(s))]

LEMMA MaxIsElement ==
  ASSUME NEW n \in Nat, NEW s \in SUBSET (1..n), s # {}
  PROVE  Max(s) \in s
<1> DEFINE below == {n - k : k \in s}
<1>1. below \in SUBSET Nat /\ below # {}
  <2>1. \A k \in s : k \in Int /\ k <= n
    OBVIOUS
  <2>2. \A k \in s : n - k \in Nat
    BY <2>1
  <2> QED BY Zenon, <2>2
<1>2. PICK m \in below : \A j \in below : m <= j
  <2> HIDE DEF below
  <2> QED BY <1>1, LeastNatural
<1>3. PICK k \in s : m = n - k
  BY <1>2
<1>4. ASSUME NEW j \in s
      PROVE  k >= j
  <2>1. n - j \in below
    OBVIOUS
  <2>2. m <= n - j
    BY <1>2, <2>1
  <2> QED BY <1>3, <2>2
<1> QED BY Zenon, <1>4 DEF Max

LEMMA FoldExists ==
  ASSUME NEW d \in Nat, NEW fold
  PROVE  \E g : IsFold(g, fold, 1..d)
<1> DEFINE S == 1..d
           UpTo(n) == {s \in SUBSET S : Cardinality(s) <= n}
           Next(g, s) == IF s = {} THEN fold.base ELSE FoldStep(fold, g[s \ {Max(s)}], Max(s))
           N == {n \in Nat : \E g : g = [s \in UpTo(n) |-> Next(g, s)]}
<1>0. IsFiniteSet(S) /\ \A s \in SUBSET S : IsFiniteSet(s) /\ Cardinality(s) \in Nat
  <2>1. IsFiniteSet(S)
    BY FS_Interval
  <2> HIDE DEF S
  <2> QED BY <2>1, FS_Subset, FS_CardinalityType
<1>1. 0 \in N
  <2>1. \A s \in UpTo(0) : s = {}
    BY <1>0, FS_EmptySet
  <2>2. [s \in UpTo(0) |-> fold.base] = [s \in UpTo(0) |-> Next([t \in UpTo(0) |-> fold.base], s)]
    BY <2>1
  <2> QED BY Zenon, <2>2
<1>2. ASSUME NEW n \in Nat, n \in N
      PROVE  n + 1 \in N
  <2>1. PICK g : g = [s \in UpTo(n) |-> Next(g, s)]
    BY Zenon, <1>2
  <2> DEFINE h == [s \in UpTo(n + 1) |-> Next(g, s)]
  <2>2. ASSUME NEW s \in UpTo(n)
        PROVE  h[s] = g[s]
    <3>1. s \in UpTo(n + 1)
      BY <1>0
    <3>2. h[s] = Next(g, s)
      BY <3>1
    <3>3. g[s] = Next(g, s)
      BY Zenon, <2>1
    <3> QED BY <3>2, <3>3
  <2>3. ASSUME NEW s \in UpTo(n + 1), s # {}
        PROVE  s \ {Max(s)} \in UpTo(n)
    <3>1. Max(s) \in s
      BY Zenon, <2>3, MaxIsElement
    <3>2. Cardinality(s \ {Max(s)}) = Cardinality(s) - 1
      BY <1>0, <3>1, FS_RemoveElement
    <3>3. s \ {Max(s)} \in SUBSET S /\ Cardinality(s) <= n + 1 /\ Cardinality(s) \in Nat
      BY Zenon, <1>0, <2>3
    <3> QED BY <1>0, <3>2, <3>3
  <2>4. ASSUME NEW s \in UpTo(n + 1)
        PROVE  Next(g, s) = Next(h, s)
    BY Zenon, <2>2, <2>3
  <2>5. h = [s \in UpTo(n + 1) |-> Next(h, s)]
    <3> HIDE DEF Next, UpTo
    <3> QED BY <2>4
  <2>6. \E k : k = [s \in UpTo(n + 1) |-> Next(k, s)]
    <3> HIDE DEF h, Next, UpTo
    <3> QED BY <2>5
  <2> HIDE DEF h, Next, UpTo
  <2> QED BY <2>6
<1>3. Cardinality(S) \in N
  <2> HIDE DEF N, S
  <2> QED BY <1>0, <1>1, <1>2, AllNaturals
<1>4. UpTo(Cardinality(S)) = SUBSET S
  <2> HIDE DEF S
  <2> QED BY <1>0, FS_Subset
<1>5. PICK g : g = [s \in UpTo(Cardinality(S)) |-> Next(g, s)]
  BY Zenon, <1>3
<1>6. IsFold(g, fold, S)
  BY Zenon, <1>4, <1>5 DEF IsFold
<1> QED BY <1>6

\* What holds of nothing, and of a set when it holds of what lies below its
\* highest index, holds of all indices.
LEMMA FromBelow ==
  ASSUME NEW d \in Nat, NEW B \in SUBSET (SUBSET (1..d)), {} \in B,
         \A s \in SUBSET (1..d) : s # {} /\ Max(s) \in 1..d /\ s \ {Max(s)} \in B => s \in B
  PROVE  1..d \in B
<1> DEFINE D == 1..d
           C == (SUBSET D) \ B
<1> SUFFICES ASSUME C # {}
             PROVE  FALSE
  OBVIOUS
<1>1. PICK s \in C : \A t \in C : t \subseteq s => t = s
  <2>1. IsFiniteSet(D)
    BY FS_Interval
  <2>2. C \subseteq SUBSET D
    OBVIOUS
  <2> HIDE DEF C, D
  <2> QED BY <2>1, <2>2, SmallestSet
<1>2. s # {} /\ s \in SUBSET D
  BY Zenon, <1>1
<1>3. Max(s) \in s
  BY <1>2, MaxIsElement
<1>4. s \ {Max(s)} \notin C /\ s \ {Max(s)} \in SUBSET D
  <2> DEFINE t == s \ {Max(s)}
  <2>1. Max(s) \notin t /\ t \subseteq s
    OBVIOUS
  <2> HIDE DEF t, C, D
  <2>2. t # s
    BY <1>3, <2>1
  <2>3. t \in SUBSET D
    BY <1>2, <2>1
  <2> QED BY <1>1, <2>1, <2>2, <2>3 DEF t
<1> QED BY Zenon, <1>1, <1>2, <1>3, <1>4

(* The proposals of one ask. *)
IsAsking(g, base, pol, D) ==
  g = [s \in SUBSET D |-> IF s = {} THEN base ELSE AskStep(g[s \ {Max(s)}], pol)]

AskStart(e) == {[eng |-> e, reasons |-> << >>, ended |-> FALSE]}

Registered(r, pol) == IF pol.adaptive THEN [r.eng EXCEPT !.attribution = Merged(r.reasons, @)] ELSE r.eng

LEMMA AskedIs ==
  ASSUME NEW e, NEW pol, NEW count \in Nat
  PROVE  \E g : /\ IsAsking(g, AskStart(e), pol, 1..count)
                /\ Asked(e, count, pol) = {Registered(r, pol) : r \in g[1..count]}
<1> DEFINE fold == [kind |-> "ask", pol |-> pol, base |-> AskStart(e)]
           g    == CHOOSE h : IsAsking(h, AskStart(e), pol, 1..count)
<1>1. Asked(e, count, pol) = {Registered(r, pol) : r \in g[1..count]}
  BY DEF Asked, FoldLeft, MapThenFoldSet, IsAsking, AskStart, Registered
<1>2. fold.base = AskStart(e) /\ \A x, k : FoldStep(fold, x, k) = AskStep(x, pol)
  BY DEF FoldStep
<1> HIDE DEF fold
<1>3. \A h : IsFold(h, fold, 1..count) <=> IsAsking(h, AskStart(e), pol, 1..count)
  BY Zenon, <1>2 DEF IsFold, IsAsking
<1>4. IsAsking(g, AskStart(e), pol, 1..count)
  <2>1. \E h : IsAsking(h, AskStart(e), pol, 1..count)
    BY <1>3, FoldExists
  <2> QED BY <2>1
<1> QED BY Zenon, <1>1, <1>4

LEMMA AskStepKeeps ==
  ASSUME NEW results, NEW pol, \A r \in results : EngineInv(r.eng, r.reasons, pol),
         NEW r \in AskStep(results, pol)
  PROVE  EngineInv(r.eng, r.reasons, pol)
<1>1. PICK p \in results :
        r \in IF p.ended THEN {p}
              ELSE {[eng |-> m.eng, reasons |-> Noted(p.reasons, m.id, m.reason),
                     ended |-> m.tracks /\ m.eng.queue = 0] : m \in Emitted(p.eng, pol)}
  BY DEF AskStep
<1>2. CASE p.ended
  BY <1>1, <1>2
<1>3. CASE ~p.ended
  <2>1. PICK m \in Emitted(p.eng, pol) :
          r.eng = m.eng /\ r.reasons = Noted(p.reasons, m.id, m.reason)
    BY <1>1, <1>3
  <2>2. EngineInv(p.eng, p.reasons, pol)
    OBVIOUS
  <2> QED BY <2>1, <2>2, EmittedKeeps DEF Outcome
<1> QED BY <1>2, <1>3

LEMMA AskedKeeps ==
  ASSUME NEW e, NEW pol, NEW count \in Nat, EngineInv(e, << >>, pol),
         NEW f \in Asked(e, count, pol)
  PROVE  EngineInv(f, << >>, pol)
<1>1. PICK g : /\ IsAsking(g, AskStart(e), pol, 1..count)
               /\ Asked(e, count, pol) = {Registered(r, pol) : r \in g[1..count]}
  BY AskedIs
<1> DEFINE Ok(x) == \A r \in x : EngineInv(r.eng, r.reasons, pol)
           B     == {s \in SUBSET (1..count) : Ok(g[s])}
<1>2. Ok(AskStart(e))
  <2> DEFINE start == [eng |-> e, reasons |-> << >>, ended |-> FALSE]
  <2>1. start.eng = e /\ start.reasons = << >> /\ AskStart(e) = {start}
    BY DEF AskStart
  <2> HIDE DEF start
  <2> QED BY <2>1
<1>3. \A x : Ok(x) => Ok(AskStep(x, pol))
  BY AskStepKeeps
<1> HIDE DEF Ok
<1>4. \A s \in SUBSET (1..count) :
        g[s] = IF s = {} THEN AskStart(e) ELSE AskStep(g[s \ {Max(s)}], pol)
  BY Zenon, <1>1 DEF IsAsking
<1>5. {} \in B
  BY Zenon, <1>2, <1>4
<1>6. ASSUME NEW s \in SUBSET (1..count), s # {}, s \ {Max(s)} \in B
      PROVE  s \in B
  <2>1. Ok(g[s \ {Max(s)}])
    BY <1>6
  <2>2. Ok(AskStep(g[s \ {Max(s)}], pol))
    BY <1>3, <2>1
  <2> QED BY Zenon, <1>4, <1>6, <2>2
<1>7. 1..count \in B
  <2>1. B \in SUBSET (SUBSET (1..count))
    OBVIOUS
  <2> HIDE DEF B
  <2> QED BY <1>5, <1>6, <2>1, FromBelow
<1>8. Ok(g[1..count])
  BY <1>7
<1>9. PICK r \in g[1..count] : f = Registered(r, pol)
  BY <1>1
<1>10. EngineInv(r.eng, r.reasons, pol)
  BY <1>8 DEF Ok
<1>11. DOMAIN << >> = {}
  OBVIOUS
<1>12. CASE ~pol.adaptive
  BY <1>9, <1>10, <1>11, <1>12 DEF EngineInv, Attributed, Registered
<1>13. CASE pol.adaptive
  <2> DEFINE q == r.eng
             merged == Merged(r.reasons, q.attribution)
  <2>1. f = [q EXCEPT !.attribution = merged]
    BY <1>9, <1>13 DEF Registered
  <2>2. /\ DOMAIN merged = DOMAIN r.reasons \cup DOMAIN q.attribution
        /\ \A id \in DOMAIN merged : merged[id] = IF id \in DOMAIN r.reasons THEN r.reasons[id]
                                               ELSE q.attribution[id]
    BY DEF Merged
  <2>3. EngineInv(q, r.reasons, pol)
    BY <1>10
  <2> HIDE DEF q, merged
  <2>4. /\ DOMAIN f = Fields /\ f.progress = q.progress /\ f.refresh = q.refresh
        /\ f.queue = q.queue /\ f.issued = q.issued /\ f.buffer = q.buffer
        /\ f.pending = q.pending /\ f.owed = q.owed /\ f.attribution = merged
    BY <2>1, <2>3 DEF EngineInv, Shape, Fields
  <2>5. /\ Buffered(f) = Buffered(q) /\ IsActive(f) = IsActive(q)
        /\ Refreshing(f) = Refreshing(q) /\ HasAction(f) = HasAction(q)
    BY <2>4 DEF Buffered, IsActive, Refreshing, HasAction
  <2>6. Shape(f) /\ Waits(f)
    BY <2>3, <2>4, <2>5 DEF EngineInv, Shape, Waits
  <2>7. Attributed(f, << >>, pol)
    BY <1>11, <1>13, <2>2, <2>3, <2>4, <2>5 DEF EngineInv, Attributed
  <2> QED BY <2>6, <2>7 DEF EngineInv
<1> QED BY <1>12, <1>13
-----------------------------------------------------------------------------
(* The update of the bank decides no boundary. *)
Through(s, t) == "progress" \in DOMAIN t /\ SameAction(s.progress, t.progress)

LEMMA SameStays ==
  ASSUME NEW s, NEW t, "progress" \in DOMAIN s, IsProgress(s.progress),
         "progress" \in DOMAIN t, t.progress = s.progress
  PROVE  Through(s, t)
  BY DEF IsProgress, Through, SameAction

LEMMA WithCutoffThrough ==
  ASSUME NEW s, NEW pol, "progress" \in DOMAIN s, IsProgress(s.progress)
  PROVE  Through(s, WithCutoff(s, pol))
<1>1. CASE WithCutoff(s, pol) = s
  BY <1>1, SameStays
<1>2. CASE WithCutoff(s, pol) # s
  <2> DEFINE p == InitializeCutoff(s.progress, pol, AverageDistance(s.bank.entries),
                                   ScoreGap(s.bank.entries))
  <2>1. WithCutoff(s, pol) = [s EXCEPT !.progress = p]
    BY <1>2 DEF WithCutoff
  <2>2. SameAction(s.progress, p)
    BY Zenon, ActionsKept
  <2> HIDE DEF p
  <2> QED BY <2>1, <2>2 DEF Through
<1> QED BY <1>1, <1>2

LEMMA AdmitFullThrough ==
  ASSUME NEW s, NEW entry, NEW hot, NEW lucky, NEW pol,
         "progress" \in DOMAIN s, IsProgress(s.progress)
  PROVE  Through(s, AdmitFull(s, entry, hot, lucky, pol))
<1> DEFINE met == [s EXCEPT !.met = @ + 1]
           t   == AdmitFull(s, entry, hot, lucky, pol)
           Same(u) == "progress" \in DOMAIN u /\ u.progress = s.progress
<1>1. Same(met)
  OBVIOUS
<1>2. \A u, i, n, d : Same(u) => Same(Replaced(u, i, entry, n, d))
  BY DEF Replaced
<1>3. \A n, d : Same(Appended(s, entry, n, d))
  BY DEF Appended
<1>4. \A v, n, d, a : Same(FarUpdate(met, v, entry, n, d, a))
  BY <1>1, <1>2 DEF FarUpdate
<1> HIDE DEF met
<1>5. \A u, x : Same(u) => Same([u EXCEPT !.local = x])
  BY Zenon
<1>6. \/ \E i, n, d, x : t = [Replaced(met, i, entry, n, d) EXCEPT !.local = x]
      \/ \E n, d : t = Appended(s, entry, n, d)
      \/ \E i, n, d : t = Replaced(met, i, entry, n, d)
      \/ \E x : t = [met EXCEPT !.local = x]
      \/ \E v, n, d, a : t = FarUpdate(met, v, entry, n, d, a)
  BY Zenon DEF AdmitFull, met
<1> HIDE DEF t, Same
<1>7. Same(t)
  BY <1>1, <1>2, <1>3, <1>4, <1>5, <1>6
<1> QED BY <1>7, SameStays DEF Same, t

LEMMA AdmitOneThrough ==
  ASSUME NEW s, NEW o, NEW hot, NEW pol, "progress" \in DOMAIN s, IsProgress(s.progress)
  PROVE  Through(s, AdmitOne(s, o, hot, pol))
<1> DEFINE added     == [s EXCEPT !.bank.entries = Append(@, Entry(o.at, o.id))]
           clustered == [s EXCEPT !.clusters = EnsureClusters(@, s.bank.entries, pol)]
<1>1. "progress" \in DOMAIN added /\ added.progress = s.progress
  OBVIOUS
<1>2. "progress" \in DOMAIN clustered /\ clustered.progress = s.progress
  OBVIOUS
<1>3. AdmitOne(s, o, hot, pol)
        \in {WithCutoff(added, pol),
             AdmitFull(WithCutoff(clustered, pol), Entry(o.at, o.id), hot, o.lucky, pol)}
  BY DEF AdmitOne
<1> HIDE DEF added, clustered
<1>4. Through(s, WithCutoff(added, pol)) /\ Through(s, WithCutoff(clustered, pol))
  BY <1>1, <1>2, WithCutoffThrough DEF Through
<1>5. Through(s, AdmitFull(WithCutoff(clustered, pol), Entry(o.at, o.id), hot, o.lucky, pol))
  BY <1>4, AdmitFullThrough DEF IsProgress, Through, SameAction
<1> QED BY <1>3, <1>4, <1>5

\* The fold over the observations.
IsAdmitting(g, base, observations, hot, pol, D) ==
  g = [s \in SUBSET D |-> IF s = {} THEN base
                          ELSE AdmitOne(g[s \ {Max(s)}], observations[Max(s)], hot, pol)]

AdmitStart(s, pol) == [s EXCEPT !.clusters = EnsureClusters(@, s.bank.entries, pol)]

LEMMA AdmitAllIs ==
  ASSUME NEW s, NEW observations, NEW d \in Nat, DOMAIN observations = 1..d, NEW hot, NEW pol
  PROVE  \E g : /\ IsAdmitting(g, AdmitStart(s, pol), observations, hot, pol, 1..d)
                /\ AdmitAll(s, observations, hot, pol) = g[1..d]
<1> DEFINE base == AdmitStart(s, pol)
           fold == [kind |-> "admit", base |-> base, observations |-> observations, hot |-> hot,
                    pol |-> pol]
           g    == CHOOSE h : IsAdmitting(h, base, observations, hot, pol, 1..d)
<1>1. AdmitAll(s, observations, hot, pol) = g[1..d]
  BY DEF AdmitAll, FoldLeft, MapThenFoldSet, IsAdmitting, AdmitStart
<1> HIDE DEF base
<1>2. /\ fold.base = base
      /\ \A x, k : FoldStep(fold, x, k) = AdmitOne(x, observations[k], hot, pol)
  BY DEF FoldStep
<1> HIDE DEF fold
<1>3. \A h : IsFold(h, fold, 1..d) <=> IsAdmitting(h, base, observations, hot, pol, 1..d)
  BY Zenon, <1>2 DEF IsFold, IsAdmitting
<1>4. IsAdmitting(g, base, observations, hot, pol, 1..d)
  <2>1. \E h : IsAdmitting(h, base, observations, hot, pol, 1..d)
    BY <1>3, FoldExists
  <2> QED BY <2>1
<1> QED BY Zenon, <1>1, <1>4 DEF base

LEMMA AdmitAllThrough ==
  ASSUME NEW s, NEW observations, NEW d \in Nat, DOMAIN observations = 1..d, NEW hot, NEW pol,
         "progress" \in DOMAIN s, IsProgress(s.progress)
  PROVE  Through(s, AdmitAll(s, observations, hot, pol))
<1> DEFINE base == AdmitStart(s, pol)
<1>1. PICK g : /\ IsAdmitting(g, base, observations, hot, pol, 1..d)
               /\ AdmitAll(s, observations, hot, pol) = g[1..d]
  BY AdmitAllIs
<1> DEFINE B == {D \in SUBSET (1..d) : Through(s, g[D])}
<1>2. Through(s, base)
  <2>1. "progress" \in DOMAIN base /\ base.progress = s.progress
    BY DEF AdmitStart
  <2> QED BY <2>1, SameStays
<1> HIDE DEF base
<1>3. \A D \in SUBSET (1..d) :
        g[D] = IF D = {} THEN base ELSE AdmitOne(g[D \ {Max(D)}], observations[Max(D)], hot, pol)
  BY Zenon, <1>1 DEF IsAdmitting
<1>4. {} \in B
  BY Zenon, <1>2, <1>3
<1>5. ASSUME NEW D \in SUBSET (1..d), D # {}, D \ {Max(D)} \in B
      PROVE  D \in B
  <2> DEFINE t == g[D \ {Max(D)}]
  <2>1. Through(s, t)
    BY <1>5
  <2>2. g[D] = AdmitOne(t, observations[Max(D)], hot, pol)
    BY Zenon, <1>3, <1>5
  <2> HIDE DEF t
  <2>3. Through(t, AdmitOne(t, observations[Max(D)], hot, pol))
    BY <2>1, AdmitOneThrough DEF IsProgress, Through, SameAction
  <2> QED BY <1>5, <2>1, <2>2, <2>3 DEF IsProgress, Through, SameAction
<1>6. 1..d \in B
  <2>1. B \in SUBSET (SUBSET (1..d))
    OBVIOUS
  <2> HIDE DEF B
  <2> QED BY <1>4, <1>5, <2>1, FromBelow
<1> QED BY <1>1, <1>6

LEMMA UpdateThrough ==
  ASSUME NEW s, NEW observations, NEW d \in Nat, DOMAIN observations = 1..d, NEW hot, NEW pol,
         "progress" \in DOMAIN s, IsProgress(s.progress)
  PROVE  Through(s, UpdateBatch(s, observations, hot, pol).shadow)
<1> DEFINE full   == AdmitAll(s, observations, hot, pol)
           shadow == UpdateBatch(s, observations, hot, pol).shadow
<1>1. PICK b, c : shadow = [full EXCEPT !.bank = b, !.clusters = c]
  BY Zenon DEF UpdateBatch, WithCut, CutBatch
<1>2. Through(s, full)
  BY AdmitAllThrough
<1> HIDE DEF full, shadow
<1>3. "progress" \in DOMAIN shadow /\ shadow.progress = full.progress
  BY Zenon, <1>1, <1>2 DEF Through
<1> QED BY Zenon, <1>2, <1>3 DEF Through, shadow

(* A commit forgets what it applied and leaves the rest of the engine. *)
LEMMA UpdatedIs ==
  ASSUME NEW e, DOMAIN e = Fields, IsProgress(e.progress),
         NEW evaluations, evaluations \in Seq(Evaluation), NEW lucks, NEW pol
  PROVE  LET f == Updated(e, evaluations, lucks, pol).eng
         IN  /\ DOMAIN f = Fields /\ IsProgress(f.progress)
             /\ f.queue = e.queue /\ f.issued = e.issued /\ f.buffer = e.buffer
             /\ f.pending = e.pending /\ f.refresh = e.refresh
             /\ f.reference = e.reference /\ f.hot = e.hot
             /\ f.attribution = Forget(e.attribution, IdsOf(evaluations))
             /\ f.owed = e.owed \ IdsOf(evaluations)
<1> DEFINE s == [bank |-> e.bank, progress |-> e.progress, clusters |-> e.clusters,
                 growth |-> e.growth, met |-> 0, local |-> 0]
           observations == [i \in DOMAIN evaluations |->
                              [at |-> evaluations[i].at, id |-> evaluations[i].id, lucky |-> lucks[i]]]
           batch == UpdateBatch(s, observations, e.hot, pol)
           after == batch.shadow
           f == Corrected(e, IdsOf(evaluations), batch).eng
<1>1. DOMAIN observations = 1..Len(evaluations) /\ Len(evaluations) \in Nat
  OBVIOUS
<1>2. "progress" \in DOMAIN s /\ s.progress = e.progress
  OBVIOUS
<1> HIDE DEF s, observations
<1>3. Through(s, after)
  BY <1>1, <1>2, UpdateThrough
<1> HIDE DEF batch
<1>4. PICK b, c, g, p, st :
        /\ f = [e EXCEPT !.bank = b, !.clusters = c, !.growth = g, !.progress = p, !.status = st,
                         !.attribution = Forget(@, IdsOf(evaluations)), !.owed = @ \ IdsOf(evaluations)]
        /\ LET free == Unmasked(after.progress, batch.changed)
           IN  p \in {free, ProgressRemove(free, batch.removed, Len(after.bank.entries))}
  <2> DEFINE valid == IF batch.significant = {} THEN e.status
                      ELSE Invalidated(e.status, batch.significant, batch.grownTo)
             count == Len(after.bank.entries)
             free == Unmasked(after.progress, batch.changed)
             b0 == [after.bank EXCEPT !.entries = [i \in DOMAIN @ |-> Aged(after.bank.entries[i])]]
             p0 == IF batch.removed = {} THEN free ELSE ProgressRemove(free, batch.removed, count)
             st0 == StatusRemove(valid, batch.removed, count)
             c0 == after.clusters
             g0 == after.growth
  <2>1. f = [e EXCEPT !.bank = b0, !.clusters = c0, !.growth = g0, !.progress = p0, !.status = st0,
                      !.attribution = Forget(@, IdsOf(evaluations)), !.owed = @ \ IdsOf(evaluations)]
    BY Zenon DEF Corrected
  <2>2. p0 \in {free, ProgressRemove(free, batch.removed, count)}
    BY Zenon
  <2> HIDE DEF f, b0, p0, st0, c0, g0
  <2> QED BY Zenon, <2>1, <2>2
<1>5. IsProgress(p)
  <2>1. IsProgress(after.progress)
    BY <1>2, <1>3 DEF IsProgress, Through, SameAction
  <2> DEFINE free == Unmasked(after.progress, batch.changed)
  <2>2. IsProgress(free)
    BY Zenon, <2>1, ActionsKept DEF IsProgress, SameAction
  <2> HIDE DEF free, after
  <2>3. \A x, n : IsProgress(ProgressRemove(free, x, n))
    <3>1. \A x, n : SameAction(free, ProgressRemove(free, x, n))
      BY <2>2, ActionsKept
    <3> QED BY <2>2, <3>1 DEF IsProgress, SameAction
  <2> QED BY <1>4, <2>2, <2>3 DEF free, after
<1> HIDE DEF f, after
<1>6. /\ DOMAIN f = Fields /\ IsProgress(f.progress)
      /\ f.queue = e.queue /\ f.issued = e.issued /\ f.buffer = e.buffer
      /\ f.pending = e.pending /\ f.refresh = e.refresh
      /\ f.reference = e.reference /\ f.hot = e.hot
      /\ f.attribution = Forget(e.attribution, IdsOf(evaluations))
      /\ f.owed = e.owed \ IdsOf(evaluations)
  BY <1>4, <1>5 DEF Fields
<1> QED BY Zenon, <1>6 DEF Updated, f, batch, s, observations
-----------------------------------------------------------------------------
(* Nothing is in progress: no generation, no refresh. *)
Calm(e, pol) == EngineInv(e, << >>, pol) /\ ~IsActive(e) /\ ~Refreshing(e)

LEMMA AlikeCalm ==
  ASSUME NEW e, NEW f, NEW pol, Alike(e, f), f.attribution = e.attribution,
         f.refresh = e.refresh, Calm(e, pol)
  PROVE  Calm(f, pol)
<1>1. /\ Buffered(f) = Buffered(e) /\ IsActive(f) = IsActive(e) /\ Refreshing(f) = Refreshing(e)
  BY DEF Alike, Buffered, IsActive, Refreshing
<1>2. Shape(f)
  BY <1>1 DEF Calm, EngineInv, Shape, Alike
<1>3. Waits(f) /\ Attributed(f, << >>, pol)
  BY <1>1 DEF Calm, EngineInv, Waits, Attributed, Alike
<1> QED BY <1>1, <1>2, <1>3 DEF Calm, EngineInv

LEMMA CrossedKeeps ==
  ASSUME NEW e, NEW pol, Calm(e, pol)
  PROVE  EngineInv(Crossed(e, pol), << >>, pol)
<1>1. CASE HasAction(e) /\ e.pending = {}
  <2>1. Buffered(e) = {}
    BY NothingBuffered DEF Calm, IsActive
  <2>2. DOMAIN << >> = {}
    OBVIOUS
  <2>3. Clear(e)
    BY <1>1, <2>1, <2>2 DEF Clear, Calm, EngineInv, Waits, Attributed
  <2>4. Crossed(e, pol) = ApplyAction(e, pol)
    BY <1>1 DEF Crossed
  <2> QED BY <2>3, <2>4, ActionRests, RestedIsTrue
<1>2. CASE ~(HasAction(e) /\ e.pending = {})
  <2>1. Crossed(e, pol) = e
    BY <1>2 DEF Crossed
  <2> QED BY <2>1 DEF Calm
<1> QED BY <1>1, <1>2

LEMMA AdvancedKeeps ==
  ASSUME NEW e, NEW pol, NEW met, NEW local, Calm(e, pol)
  PROVE  EngineInv(Advanced(e, met, local, pol), << >>, pol)
<1> DEFINE unused == UnusedCount(e.status, Len(e.bank.entries), SeedMask(e.progress))
           next   == AdvanceCutoff(e.progress, pol, ScoreGap(e.bank.entries), unused, local, met)
           moved  == [e EXCEPT !.progress = next.progress]
           ended  == [moved EXCEPT
                        !.status = [i \in 1 .. Len(moved.bank.entries) |-> FALSE],
                        !.bank.entries = Released(@),
                        !.progress = RequestBoundary([@ EXCEPT !.refreshMask = {}], pol)]
<1>1. Shape(e)
  BY DEF Calm, EngineInv
<1>2. IsProgress(next.progress)
  BY Zenon, <1>1 DEF IsProgress, AdvanceCutoff, Shape
<1>3. Advanced(e, met, local, pol) \in {moved, Crossed(ended, pol)}
  BY DEF Advanced, CycleEnded
<1> HIDE DEF next
<1>4. /\ Alike(e, moved) /\ moved.attribution = e.attribution /\ moved.refresh = e.refresh
      /\ moved.progress = next.progress
  BY <1>1, <1>2 DEF Alike, Shape, Fields
<1>5. Calm(moved, pol)
  <2> HIDE DEF moved
  <2> QED BY <1>4, AlikeCalm
<1>6. Calm(ended, pol)
  <2> DEFINE p == RequestBoundary([moved.progress EXCEPT !.refreshMask = {}], pol)
  <2>1. IsProgress(p)
    <3> HIDE DEF moved
    <3> QED BY <1>2, <1>4 DEF IsProgress, RequestBoundary
  <2>2. DOMAIN moved = Fields
    BY <1>5 DEF Calm, EngineInv, Shape
  <2>3. PICK b, st : ended = [moved EXCEPT !.status = st, !.bank = b, !.progress = p]
    <3> HIDE DEF moved
    <3> QED BY Zenon, <2>2 DEF Fields
  <2> HIDE DEF p, moved, ended
  <2>4. /\ Alike(moved, ended) /\ ended.attribution = moved.attribution
        /\ ended.refresh = moved.refresh
    BY <2>1, <2>2, <2>3 DEF Alike, Fields
  <2> QED BY <1>5, <2>4, AlikeCalm
<1> HIDE DEF moved, ended
<1> QED BY <1>3, <1>5, <1>6, CrossedKeeps DEF Calm

LEMMA CooledKeeps ==
  ASSUME NEW e, NEW pol, EngineInv(e, << >>, pol)
  PROVE  EngineInv(Cooled(e, pol), << >>, pol)
<1> DEFINE f == Cooled(e, pol)
<1>1. /\ DOMAIN f = Fields /\ f.progress = e.progress /\ f.refresh = e.refresh
      /\ f.queue = e.queue /\ f.issued = e.issued /\ f.buffer = e.buffer
      /\ f.pending = e.pending /\ f.owed = e.owed /\ f.attribution = e.attribution
  BY DEF Cooled, EngineInv, Shape, Fields
<1> HIDE DEF f
<1>2. /\ Buffered(f) = Buffered(e) /\ IsActive(f) = IsActive(e)
      /\ Refreshing(f) = Refreshing(e) /\ HasAction(f) = HasAction(e)
  BY <1>1 DEF Buffered, IsActive, Refreshing, HasAction
<1>3. Shape(f)
  BY <1>1, <1>2 DEF EngineInv, Shape
<1>4. Waits(f) /\ Attributed(f, << >>, pol)
  BY <1>1, <1>2 DEF EngineInv, Waits, Attributed
<1> QED BY <1>3, <1>4 DEF EngineInv, f

LEMMA ReconciledKeeps ==
  ASSUME NEW batch, NEW pol, NEW updated, NEW committed, NEW advances, Calm(batch.eng, pol)
  PROVE  EngineInv(Reconciled(batch, updated, committed, advances, pol), << >>, pol)
<1> DEFINE e      == batch.eng
           synced == WithReference(e, pol)
           grown  == WithGrowth(synced, pol)
<1>1. Calm(synced, pol)
  <2>1. CASE synced = e
    BY <2>1
  <2>2. CASE synced # e
    <3>1. PICK b, r, c : synced = [e EXCEPT !.bank = b, !.reference = r, !.clusters = c]
      BY Zenon, <2>2 DEF WithReference, Calm, EngineInv, Shape, Fields
    <3> HIDE DEF synced
    <3>2. Alike(e, synced) /\ synced.attribution = e.attribution /\ synced.refresh = e.refresh
      BY <3>1 DEF Alike, Calm, EngineInv, Shape, Fields
    <3> HIDE DEF e
    <3> QED BY <3>2, AlikeCalm DEF e
  <2> QED BY <2>1, <2>2
<1> HIDE DEF synced
<1>2. Calm(grown, pol)
  <2>1. PICK g : grown = [synced EXCEPT !.growth = g]
    BY Zenon DEF WithGrowth
  <2> HIDE DEF grown
  <2>2. Alike(synced, grown) /\ grown.attribution = synced.attribution /\ grown.refresh = synced.refresh
    BY <1>1, <2>1 DEF Alike, Calm, EngineInv, Shape, Fields
  <2> QED BY <1>1, <2>2, AlikeCalm
<1>3. ASSUME NEW f, Calm(f, pol)
      PROVE  EngineInv(Settled(f, batch, committed, advances, pol), << >>, pol)
  <2>1. EngineInv(Crossed(f, pol), << >>, pol)
    BY <1>3, CrossedKeeps
  <2>2. EngineInv(Moved(f, batch, advances, pol), << >>, pol)
    BY <1>3, AdvancedKeeps DEF Moved, Calm
  <2>3. EngineInv(Cooled(Moved(f, batch, advances, pol), pol), << >>, pol)
    BY <2>2, CooledKeeps
  <2> QED BY <2>1, <2>2, <2>3 DEF Settled
<1> QED BY <1>1, <1>2, <1>3 DEF Reconciled, synced
-----------------------------------------------------------------------------
(* A tell outside of a generation applies what it is told, and one that ends
   a generation what the generation had buffered. *)
LEMMA CommittedKeeps ==
  ASSUME NEW e, NEW pol, NEW evaluations, NEW committed, NEW advances, NEW lucks,
         Shape(e), evaluations \in Seq(Evaluation), ~IsActive(e), ~Refreshing(e),
         e.owed = IdsOf(evaluations), e.pending \cap IdsOf(evaluations) = {},
         pol.adaptive => DOMAIN e.attribution = e.pending \cup IdsOf(evaluations),
         ~pol.adaptive => DOMAIN e.attribution = {}
  PROVE  EngineInv(Committed(e, evaluations, committed, advances, lucks, pol), << >>, pol)
<1> DEFINE batch == Updated(e, evaluations, lucks, pol)
           f     == batch.eng
<1>1. /\ DOMAIN f = Fields /\ IsProgress(f.progress)
      /\ f.queue = e.queue /\ f.issued = e.issued /\ f.buffer = e.buffer
      /\ f.pending = e.pending /\ f.refresh = e.refresh
      /\ f.attribution = Forget(e.attribution, IdsOf(evaluations))
      /\ f.owed = e.owed \ IdsOf(evaluations)
  BY UpdatedIs DEF Shape
<1> HIDE DEF batch
<1>2. DOMAIN f.attribution = DOMAIN e.attribution \ IdsOf(evaluations)
  BY <1>1 DEF Forget, Restrict
<1>3. Buffered(f) = Buffered(e) /\ ~IsActive(f) /\ ~Refreshing(f)
  BY <1>1 DEF Buffered, IsActive, Refreshing
<1>4. f.buffer = << >> /\ f.issued = {} /\ Buffered(f) = {}
  BY <1>3, NothingBuffered DEF IsActive
<1>5. Shape(f)
  BY <1>1, <1>3 DEF Shape
<1>6. Waits(f)
  BY <1>1, <1>3, <1>4 DEF Waits
<1>7. DOMAIN << >> = {}
  OBVIOUS
<1>8. Attributed(f, << >>, pol)
  BY <1>1, <1>2, <1>3, <1>4, <1>7 DEF Attributed
<1>9. Calm(f, pol)
  BY <1>3, <1>5, <1>6, <1>8 DEF Calm, EngineInv
<1> QED BY <1>9, ReconciledKeeps DEF Committed, batch

LEMMA RefreshToldKeeps ==
  ASSUME NEW e, NEW pol, NEW told, EngineInv(e, << >>, pol), Refreshing(e),
         IdsOf(told) \subseteq e.pending
  PROVE  EngineInv(RefreshTold(e, told, pol), << >>, pol)
<1> DEFINE after == [e EXCEPT !.refresh.pool = @ \o [i \in DOMAIN told |-> Entry(told[i].at, 0)],
                              !.pending = @ \ IdsOf(told),
                              !.attribution = Forget(@, IdsOf(told)),
                              !.owed = @ \ IdsOf(told)]
<1>1. /\ DOMAIN after = Fields /\ after.progress = e.progress
      /\ after.queue = e.queue /\ after.issued = e.issued /\ after.buffer = e.buffer
      /\ after.pending = e.pending \ IdsOf(told) /\ after.owed = e.owed \ IdsOf(told)
      /\ after.attribution = Forget(e.attribution, IdsOf(told))
  BY DEF EngineInv, Shape, Fields
<1>2. RefreshTold(e, told, pol) \in {after, CompleteRefresh(after, pol)}
      /\ (after.pending # {} => RefreshTold(e, told, pol) = after)
  BY DEF RefreshTold
<1> HIDE DEF after
<1>3. /\ ~IsActive(e) /\ ~IsActive(after) /\ Buffered(e) = {} /\ Buffered(after) = {}
      /\ after.issued = {} /\ e.owed = {}
  BY <1>1, NothingBuffered DEF EngineInv, Waits, IsActive
<1>4. Shape(after)
  <2>1. IsFiniteSet(e.pending) /\ IsFiniteSet({})
    BY FS_EmptySet DEF EngineInv, Shape
  <2>2. IsFiniteSet(after.pending)
    BY <1>1, <2>1, FS_Subset
  <2> QED BY <1>1, <1>3, <2>1, <2>2 DEF EngineInv, Shape
<1>5. Waits(after)
  BY <1>1, <1>3 DEF Waits
<1>6. DOMAIN << >> = {}
  OBVIOUS
<1>7. /\ DOMAIN after.attribution = DOMAIN e.attribution \ IdsOf(told)
      /\ \A id \in DOMAIN after.attribution : after.attribution[id] = e.attribution[id]
  BY <1>1 DEF Forget, Restrict
<1>8. Attributed(after, << >>, pol)
  BY <1>1, <1>3, <1>6, <1>7 DEF EngineInv, Attributed
<1>9. after.pending = {} => EngineInv(CompleteRefresh(after, pol), << >>, pol)
  <2> SUFFICES ASSUME after.pending = {}
               PROVE  Clear(after)
    BY CompletingRests, RestedIsTrue
  <2> QED BY <1>1, <1>3, <1>4, <1>6, <1>8 DEF Clear, Attributed
<1> QED BY <1>2, <1>4, <1>5, <1>8, <1>9 DEF EngineInv

(* The engine that has seen what it is told; that has buffered it; that hands
   its buffer over. *)
Seen(e, told) == [e EXCEPT !.pending = @ \ IdsOf(told), !.owed = @ \cup IdsOf(told)]
Kept(e, told) == [Seen(e, told) EXCEPT !.issued = @ \ IdsOf(told), !.buffer = @ \o told]
Freed(e, told) == [Kept(e, told) EXCEPT !.buffer = << >>]
Advances(e, told) == IsFull(e.bank) /\ CutoffIsInitialized(e.progress) /\ told # << >>

\* A generation that commits what it buffered, and what commits outside of one.
CommitOfBuffer(e, told, lucks, pol) ==
  Committed(Freed(e, told), Kept(e, told).buffer, TRUE, Advances(e, told), lucks, pol)
CommitOfTold(e, told, lucks, pol) ==
  Committed(Seen(e, told), told, FALSE, Advances(e, told), lucks, pol)

LEMMA ToldIs ==
  ASSUME NEW e, ~Refreshing(e), NEW told, NEW lucks, NEW pol
  PROVE  /\ IsActive(e) /\ ~ReadyToCommit(Kept(e, told)) => Told(e, told, lucks, pol) = Kept(e, told)
         /\ IsActive(e) /\ ReadyToCommit(Kept(e, told)) =>
              Told(e, told, lucks, pol) = CommitOfBuffer(e, told, lucks, pol)
         /\ ~IsActive(e) => Told(e, told, lucks, pol) = CommitOfTold(e, told, lucks, pol)
<1> DEFINE seen     == Seen(e, told)
           kept     == Kept(e, told)
           free     == Freed(e, told)
           advances == Advances(e, told)
<1>1. Told(e, told, lucks, pol) =
        IF IsActive(e) /\ ~ReadyToCommit(kept) THEN kept
        ELSE Committed(IF IsActive(e) THEN free ELSE seen,
                       IF IsActive(e) THEN kept.buffer ELSE told, IsActive(e),
                       advances, lucks, pol)
  BY DEF Told, Seen, Kept, Freed, Advances
<1>2. IsActive(e) \in BOOLEAN
  BY DEF IsActive
<1> HIDE DEF seen, kept, free, advances
<1>3. CASE IsActive(e) /\ ~ReadyToCommit(kept)
  BY Zenon, <1>1, <1>3 DEF kept
<1>4. CASE IsActive(e) /\ ReadyToCommit(kept)
  <2>1. IsActive(e) = TRUE
    BY <1>2, <1>4
  <2> QED BY <1>1, <1>4, <2>1 DEF kept, free, advances, CommitOfBuffer
<1>5. CASE ~IsActive(e)
  <2>1. IsActive(e) = FALSE
    BY <1>2, <1>5
  <2> QED BY Zenon, <1>1, <2>1 DEF seen, advances, CommitOfTold
<1> QED BY Zenon, <1>3, <1>4, <1>5

LEMMA ToldKeeps ==
  ASSUME NEW e, NEW pol, NEW told, NEW lucks, EngineInv(e, << >>, pol),
         told \in Seq(Evaluation), IdsOf(told) \subseteq e.pending
  PROVE  EngineInv(Told(e, told, lucks, pol), << >>, pol)
<1> DEFINE ids  == IdsOf(told)
           seen == Seen(e, told)
           kept == Kept(e, told)
           free == Freed(e, told)
           advances == Advances(e, told)
<1>1. CASE Refreshing(e)
  BY <1>1, RefreshToldKeeps DEF Told
<1>2. CASE ~Refreshing(e)
  <2>1. /\ DOMAIN seen = Fields /\ seen.progress = e.progress /\ seen.refresh = e.refresh
        /\ seen.queue = e.queue /\ seen.issued = e.issued /\ seen.buffer = e.buffer
        /\ seen.pending = e.pending \ ids /\ seen.owed = e.owed \cup ids
        /\ seen.attribution = e.attribution
    BY DEF EngineInv, Shape, Fields, Seen
  <2>2. /\ DOMAIN kept = Fields /\ kept.progress = e.progress /\ kept.refresh = e.refresh
        /\ kept.queue = e.queue /\ kept.issued = e.issued \ ids /\ kept.buffer = e.buffer \o told
        /\ kept.pending = e.pending \ ids /\ kept.owed = e.owed \cup ids
        /\ kept.attribution = e.attribution
    BY <2>1 DEF Fields, Kept
  <2>3. /\ DOMAIN free = Fields /\ free.progress = e.progress /\ free.refresh = e.refresh
        /\ free.queue = e.queue /\ free.issued = e.issued \ ids /\ free.buffer = << >>
        /\ free.pending = e.pending \ ids /\ free.owed = e.owed \cup ids
        /\ free.attribution = e.attribution
    BY <2>2 DEF Fields, Freed
  <2>4. /\ IsActive(e) /\ ~ReadyToCommit(kept) => Told(e, told, lucks, pol) = kept
        /\ IsActive(e) /\ ReadyToCommit(kept) =>
             Told(e, told, lucks, pol) = CommitOfBuffer(e, told, lucks, pol)
        /\ ~IsActive(e) => Told(e, told, lucks, pol) = CommitOfTold(e, told, lucks, pol)
    BY <1>2, ToldIs
  <2> HIDE DEF seen, kept, free, advances
  <2>5. IsFiniteSet(e.pending) /\ IsFiniteSet(Buffered(e)) /\ e.buffer \in Seq(Evaluation)
    BY DEF EngineInv, Shape
  <2>6. IsFiniteSet(ids) /\ IsFiniteSet(e.pending \ ids)
    BY <2>5, FS_Subset
  <2>7. /\ kept.buffer \in Seq(Evaluation) /\ IdsOf(kept.buffer) = Buffered(e) \cup ids
        /\ Buffered(kept) = Buffered(e) \cup ids /\ IsFiniteSet(Buffered(kept))
    <3>1. \A id : id \in IdsOf(e.buffer \o told) <=> id \in Buffered(e) \/ id \in ids
      <4>1. \A i \in DOMAIN e.buffer : i \in DOMAIN (e.buffer \o told)
                                       /\ (e.buffer \o told)[i] = e.buffer[i]
        BY <2>5
      <4>2. \A i \in DOMAIN told : Len(e.buffer) + i \in DOMAIN (e.buffer \o told)
                                   /\ (e.buffer \o told)[Len(e.buffer) + i] = told[i]
        BY <2>5
      <4>3. ASSUME NEW i \in DOMAIN (e.buffer \o told)
            PROVE  \/ i \in DOMAIN e.buffer /\ (e.buffer \o told)[i] = e.buffer[i]
                   \/ i - Len(e.buffer) \in DOMAIN told
                      /\ (e.buffer \o told)[i] = told[i - Len(e.buffer)]
        BY <2>5
      <4>4. /\ Buffered(e) \cup ids \subseteq IdsOf(e.buffer \o told)
            /\ IdsOf(e.buffer \o told) \subseteq Buffered(e) \cup ids
        BY <4>1, <4>2, <4>3 DEF IdsOf, Buffered
      <4> QED BY <4>4
    <3>2. IsFiniteSet(Buffered(e) \cup ids)
      BY Zenon, <2>5, <2>6, FS_Union
    <3>3. Buffered(kept) = IdsOf(kept.buffer)
      BY DEF Buffered, IdsOf
    <3>4. kept.buffer \in Seq(Evaluation)
      BY <2>2, <2>5
    <3>5. IdsOf(kept.buffer) = Buffered(e) \cup ids
      BY <2>2, <3>1
    <3> QED BY <3>2, <3>3, <3>4, <3>5
  <2>8. CASE IsActive(e) /\ ~ReadyToCommit(kept)
    <3>1. ~HasAction(e) /\ ~HasAction(kept) /\ ~Refreshing(kept)
      BY <1>2, <2>2, <2>8 DEF EngineInv, Waits, HasAction, Refreshing
    <3>2. Shape(kept)
      BY <2>2, <2>6, <2>7 DEF EngineInv, Shape
    <3>3. Waits(kept)
      BY <2>2, <2>7, <3>1 DEF EngineInv, Waits
    <3>4. Attributed(kept, << >>, pol)
      <4>1. DOMAIN << >> = {}
        OBVIOUS
      <4> QED BY <2>2, <2>7, <3>1, <4>1 DEF EngineInv, Attributed
    <3> QED BY <2>4, <2>8, <3>2, <3>3, <3>4 DEF EngineInv
  <2>9. CASE IsActive(e) /\ ReadyToCommit(kept)
    <3>1. ~IsActive(free) /\ ~Refreshing(free)
      BY <1>2, <2>2, <2>3, <2>9 DEF ReadyToCommit, IsActive, Refreshing
    <3>2. Shape(free)
      <4>1. Buffered(free) = {} /\ IsFiniteSet(Buffered(free)) /\ free.buffer \in Seq(Evaluation)
        BY <2>3, NothingBuffered
      <4> QED BY <2>3, <2>6, <4>1 DEF EngineInv, Shape
    <3>3. DOMAIN << >> = {}
      OBVIOUS
    <3>4. /\ free.owed = IdsOf(kept.buffer) /\ free.pending \cap IdsOf(kept.buffer) = {}
          /\ pol.adaptive => DOMAIN free.attribution = free.pending \cup IdsOf(kept.buffer)
          /\ ~pol.adaptive => DOMAIN free.attribution = {}
      BY <2>3, <2>7, <3>3 DEF EngineInv, Waits, Attributed
    <3>5. EngineInv(Committed(free, kept.buffer, TRUE, advances, lucks, pol), << >>, pol)
      BY Zenon, <2>7, <3>1, <3>2, <3>4, CommittedKeeps
    <3> QED BY Zenon, <2>4, <2>9, <3>5 DEF CommitOfBuffer, free, kept, advances
  <2>10. CASE ~IsActive(e)
    <3>1. ~IsActive(seen) /\ ~Refreshing(seen) /\ Buffered(e) = {} /\ Buffered(seen) = {}
      BY <1>2, <2>1, <2>10, NothingBuffered DEF IsActive, Refreshing
    <3>2. Shape(seen)
      BY <2>1, <2>5, <2>6, <3>1 DEF EngineInv, Shape
    <3>3. DOMAIN << >> = {}
      OBVIOUS
    <3>4. /\ seen.owed = IdsOf(told) /\ seen.pending \cap IdsOf(told) = {}
          /\ pol.adaptive => DOMAIN seen.attribution = seen.pending \cup IdsOf(told)
          /\ ~pol.adaptive => DOMAIN seen.attribution = {}
      BY <2>1, <3>1, <3>3 DEF EngineInv, Waits, Attributed
    <3>5. EngineInv(Committed(seen, told, FALSE, advances, lucks, pol), << >>, pol)
      BY Zenon, <3>1, <3>2, <3>4, CommittedKeeps
    <3> QED BY Zenon, <2>4, <2>10, <3>5 DEF CommitOfTold, seen, advances
  <2> QED BY <2>8, <2>9, <2>10
<1> QED BY <1>1, <1>2

LEMMA FailedKeeps ==
  ASSUME NEW e, NEW pol, NEW ids, EngineInv(e, << >>, pol), ids \subseteq e.pending
  PROVE  EngineInv(Failed(e, ids), << >>, pol) /\ Failed(e, ids).pending = e.pending \ ids
<1> DEFINE f == Failed(e, ids)
<1>1. /\ DOMAIN f = Fields /\ f.progress = e.progress /\ f.refresh = e.refresh
      /\ f.queue = e.queue /\ f.issued = e.issued \ ids /\ f.buffer = e.buffer
      /\ f.pending = e.pending \ ids /\ f.owed = e.owed
      /\ f.attribution = Forget(e.attribution, ids)
  BY DEF Failed, EngineInv, Shape, Fields
<1> HIDE DEF f
<1>2. /\ Buffered(f) = Buffered(e) /\ Refreshing(f) = Refreshing(e) /\ HasAction(f) = HasAction(e)
      /\ (IsActive(f) => IsActive(e))
  BY <1>1 DEF Buffered, IsActive, Refreshing, HasAction
<1>3. Shape(f)
  <2>1. IsFiniteSet(e.pending)
    BY DEF EngineInv, Shape
  <2>2. IsFiniteSet(f.pending)
    BY <1>1, <2>1, FS_Subset
  <2> QED BY <1>1, <1>2, <2>2 DEF EngineInv, Shape
<1>4. Waits(f)
  BY <1>1, <1>2 DEF EngineInv, Waits
<1>5. /\ DOMAIN f.attribution = DOMAIN e.attribution \ ids
      /\ \A id \in DOMAIN f.attribution : f.attribution[id] = e.attribution[id]
  BY <1>1 DEF Forget, Restrict
<1>6. DOMAIN << >> = {}
  OBVIOUS
<1>7. Attributed(f, << >>, pol)
  BY <1>1, <1>2, <1>5, <1>6 DEF EngineInv, Waits, Attributed
<1> QED BY <1>1, <1>3, <1>4, <1>7 DEF EngineInv, f

LEMMA ToldAttemptsKeeps ==
  ASSUME NEW e, NEW pol, NEW told, NEW failures, NEW lucks, EngineInv(e, << >>, pol),
         told \in Seq(Evaluation), failures \subseteq e.pending,
         IdsOf(told) \subseteq e.pending \ failures
  PROVE  EngineInv(ToldAttempts(e, told, failures, lucks, pol), << >>, pol)
<1>1. EngineInv(Failed(e, failures), << >>, pol) /\ IdsOf(told) \subseteq Failed(e, failures).pending
  BY Zenon, FailedKeeps
<1>2. EngineInv(Told(Failed(e, failures), told, lucks, pol), << >>, pol)
  BY <1>1, ToldKeeps
<1> QED BY <1>1, <1>2 DEF ToldAttempts
-----------------------------------------------------------------------------
LEMMA NewEngineIsTrue == \A pol : EngineInv(NewEngine(pol), << >>, pol)
<1> SUFFICES ASSUME NEW pol
             PROVE  EngineInv(NewEngine(pol), << >>, pol)
  OBVIOUS
<1> DEFINE e == NewEngine(pol)
<1>1. /\ DOMAIN e = Fields /\ e.queue = 0 /\ e.issued = {} /\ e.buffer = << >>
      /\ e.pending = {} /\ e.owed = {} /\ e.attribution = << >>
      /\ e.progress = InitialProgress(pol)
  BY DEF NewEngine, Fields
<1>2. IsProgress(InitialProgress(pol))
  BY DEF IsProgress, InitialProgress
<1> HIDE DEF e
<1>3. DOMAIN << >> = {}
  OBVIOUS
<1>4. IsFiniteSet({})
  BY FS_EmptySet
<1>5. Shape(e)
  BY <1>1, <1>2, <1>4, NothingBuffered DEF Shape
<1>6. Rested(e)
  BY <1>1, <1>3, <1>5 DEF Rested, Clear, IsActive
<1> QED BY <1>6, RestedIsTrue DEF e

\* What the calls are told are evaluations of outstanding proposals.
LEMMA ToldAreEvaluations ==
  \A e, ids : Shape(e) /\ ids \subseteq e.pending =>
    \A told \in Evaluations(e, ids) : told \in Seq(Evaluation) /\ IdsOf(told) = ids
<1> SUFFICES ASSUME NEW e, NEW ids, Shape(e), ids \subseteq e.pending, NEW told \in Evaluations(e, ids)
             PROVE  told \in Seq(Evaluation) /\ IdsOf(told) = ids
  OBVIOUS
<1>1. IsFiniteSet(ids)
  BY FS_Subset DEF Shape
<1>2. Cardinality(ids) \in Nat
  BY <1>1, FS_CardinalityType
<1>3. told \in [1 .. Cardinality(ids) -> [id : ids, at : Positions]] /\ IdsOf(told) = ids
  BY DEF Evaluations
<1>4. [id : ids, at : Positions] \subseteq Evaluation
  BY DEF Shape, Evaluation
<1>5. told \in [1 .. Cardinality(ids) -> Evaluation]
  BY <1>3, <1>4
<1> QED BY <1>2, <1>3, <1>5

\* The lemmas above as facts of states.
AskKeeps(pol) ==
  \A e : EngineInv(e, << >>, pol) =>
    \A count \in Nat : \A f \in Asked(e, count, pol) : EngineInv(f, << >>, pol)

TellKeeps(pol) ==
  \A e, told, lucks :
    EngineInv(e, << >>, pol) /\ told \in Seq(Evaluation) /\ IdsOf(told) \subseteq e.pending =>
      EngineInv(Told(e, told, lucks, pol), << >>, pol)

TellAttemptsKeeps(pol) ==
  \A e, told, failures, lucks :
    EngineInv(e, << >>, pol) /\ told \in Seq(Evaluation)
    /\ failures \subseteq e.pending /\ IdsOf(told) \subseteq e.pending \ failures
      => EngineInv(ToldAttempts(e, told, failures, lucks, pol), << >>, pol)

LEMMA CallsKeep == \A pol : AskKeeps(pol) /\ TellKeeps(pol) /\ TellAttemptsKeeps(pol)
<1>1. \A pol : AskKeeps(pol)
  BY AskedKeeps DEF AskKeeps
<1>2. \A pol : TellKeeps(pol)
  BY ToldKeeps DEF TellKeeps
<1>3. \A pol : TellAttemptsKeeps(pol)
  <2> SUFFICES ASSUME NEW pol, NEW e, NEW told, NEW failures, NEW lucks,
                      EngineInv(e, << >>, pol), told \in Seq(Evaluation),
                      failures \subseteq e.pending, IdsOf(told) \subseteq e.pending \ failures
               PROVE  EngineInv(ToldAttempts(e, told, failures, lucks, pol), << >>, pol)
    BY DEF TellAttemptsKeeps
  <2> QED BY ToldAttemptsKeeps
<1> QED BY <1>1, <1>2, <1>3

(* The inductive invariant, of the engine between calls. *)
EngineHolds == EngineInv(eng, << >>, prof)

LEMMA EngineStep == EngineHolds /\ [CsaNext]_csaVars => EngineHolds'
<1> SUFFICES ASSUME EngineHolds, [CsaNext]_csaVars
             PROVE  EngineHolds'
  OBVIOUS
<1>1. EngineInv(eng, << >>, prof) /\ Shape(eng)
  BY DEF EngineHolds, EngineInv
<1>2. CASE Ask
  <2>1. PICK count \in 1 .. MaxBatch : eng' \in Asked(eng, count, prof) /\ prof' = prof
    BY <1>2 DEF Ask
  <2>2. count \in Nat
    OBVIOUS
  <2>3. AskKeeps(prof)
    BY CallsKeep
  <2>4. EngineInv(eng', << >>, prof)
    BY <1>1, <2>1, <2>2, <2>3 DEF AskKeeps
  <2> QED BY <2>1, <2>4 DEF EngineHolds
<1>3. CASE Tell
  <2>1. PICK ids \in SUBSET eng.pending : \E told \in Evaluations(eng, ids) :
          \E lucks \in Lucks(eng, told) : eng' = Told(eng, told, lucks, prof) /\ prof' = prof
    BY <1>3 DEF Tell
  <2>2. PICK told \in Evaluations(eng, ids) : \E lucks \in Lucks(eng, told) :
          eng' = Told(eng, told, lucks, prof) /\ prof' = prof
    BY <2>1
  <2>3. PICK lucks : eng' = Told(eng, told, lucks, prof) /\ prof' = prof
    BY <2>2
  <2>4. told \in Seq(Evaluation) /\ IdsOf(told) = ids
    BY <1>1, ToldAreEvaluations
  <2>5. TellKeeps(prof)
    BY CallsKeep
  <2>6. EngineInv(Told(eng, told, lucks, prof), << >>, prof)
    BY <1>1, <2>4, <2>5 DEF TellKeeps
  <2> QED BY <2>3, <2>6 DEF EngineHolds
<1>4. CASE TellAttempts
  <2>1. PICK failures \in SUBSET eng.pending : \E ids \in SUBSET (eng.pending \ failures) :
          \E told \in Evaluations(eng, ids) : \E lucks \in Lucks(eng, told) :
            eng' = ToldAttempts(eng, told, failures, lucks, prof) /\ prof' = prof
    BY <1>4 DEF TellAttempts
  <2>2. PICK ids \in SUBSET (eng.pending \ failures) :
          \E told \in Evaluations(eng, ids) : \E lucks \in Lucks(eng, told) :
            eng' = ToldAttempts(eng, told, failures, lucks, prof) /\ prof' = prof
    BY <2>1
  <2>3. PICK told \in Evaluations(eng, ids) : \E lucks \in Lucks(eng, told) :
          eng' = ToldAttempts(eng, told, failures, lucks, prof) /\ prof' = prof
    BY <2>2
  <2>4. PICK lucks : eng' = ToldAttempts(eng, told, failures, lucks, prof) /\ prof' = prof
    BY <2>3
  <2>5. told \in Seq(Evaluation) /\ IdsOf(told) = ids
    BY <1>1, ToldAreEvaluations
  <2>6. TellAttemptsKeeps(prof)
    BY CallsKeep
  <2>7. EngineInv(ToldAttempts(eng, told, failures, lucks, prof), << >>, prof)
    BY <1>1, <2>2, <2>5, <2>6 DEF TellAttemptsKeeps
  <2> QED BY <2>4, <2>7 DEF EngineHolds
<1>5. CASE UNCHANGED csaVars
  BY <1>1, <1>5 DEF csaVars, EngineHolds
<1> QED BY <1>2, <1>3, <1>4, <1>5 DEF CsaNext

(* Whatever is asked, told and failed, and whatever the bank does with it:
   every evaluation told was applied or waits in the buffer of a generation,
   a generation waits only for proposals that are outstanding, and the
   proposal policy remembers exactly the outstanding and buffered ones
   (CSAOptimizer.apply_tell, consume_failed_pending_proposals). *)
THEOREM NothingIsLost == CsaSpec => []NothingToldIsLost
<1>1. CsaInit => EngineHolds
  <2> SUFFICES ASSUME CsaInit
               PROVE  EngineHolds
    OBVIOUS
  <2>1. eng = NewEngine(prof)
    BY DEF CsaInit
  <2> QED BY <2>1, NewEngineIsTrue DEF EngineHolds
<1>2. EngineHolds => NothingToldIsLost
  <2> SUFFICES ASSUME EngineHolds
               PROVE  NothingToldIsLost
    OBVIOUS
  <2>1. Waits(eng) /\ Attributed(eng, << >>, prof)
    BY DEF EngineHolds, EngineInv
  <2>2. DOMAIN << >> = {}
    OBVIOUS
  <2>3. prof.adaptive => DOMAIN eng.attribution = eng.pending \cup Buffered(eng)
    BY <2>1, <2>2 DEF Attributed
  <2>4. Refreshing(eng) => Range(eng.attribution) \subseteq {"refresh_sample"}
    BY <2>1 DEF Attributed, Range
  <2> QED BY <2>1, <2>3, <2>4 DEF NothingToldIsLost, Waits
<1> QED BY <1>1, <1>2, EngineStep, PTL DEF CsaSpec

-----------------------------------------------------------------------------
(* Banks: sequences of entries that have a place. *)
HasPlace(x) == "at" \in DOMAIN x /\ x.at \in Positions

IsBank(q) == q \in Seq({q[i] : i \in DOMAIN q}) /\ \A i \in DOMAIN q : HasPlace(q[i])

AsGood(new, old) ==
  \A i \in DOMAIN old : \E j \in DOMAIN new : ValueOf(new[j]) <= ValueOf(old[i])

LEMMA MakesBank ==
  ASSUME NEW n \in Nat, NEW q, q = [i \in 1 .. n |-> q[i]], \A i \in 1 .. n : HasPlace(q[i])
  PROVE  IsBank(q) /\ Len(q) = n /\ DOMAIN q = 1 .. n
<1> DEFINE S == {q[i] : i \in DOMAIN q}
<1>1. DOMAIN q = 1 .. n /\ \A i \in 1 .. n : q[i] \in S
  OBVIOUS
<1> HIDE DEF S
<1>2. q \in [1 .. n -> S]
  BY <1>1
<1>3. q \in Seq(S) /\ Len(q) = n
  BY <1>2
<1> QED BY <1>1, <1>3 DEF IsBank, S

LEMMA BankIs ==
  ASSUME NEW q, IsBank(q)
  PROVE  /\ Len(q) \in Nat /\ DOMAIN q = 1 .. Len(q) /\ q = [i \in 1 .. Len(q) |-> q[i]]
         /\ \A i \in DOMAIN q : ValueOf(q[i]) \in Int /\ HasPlace(q[i])
         /\ q # << >> <=> Len(q) > 0
<1>1. Len(q) \in Nat /\ DOMAIN q = 1 .. Len(q) /\ q = [i \in 1 .. Len(q) |-> q[i]]
  BY DEF IsBank
<1>2. \A i \in DOMAIN q : ValueOf(q[i]) \in Int /\ HasPlace(q[i])
  BY CsaAssumption DEF IsBank, HasPlace, ValueOf
<1>3. q # << >> <=> Len(q) > 0
  BY <1>1 DEF IsBank
<1> QED BY <1>1, <1>2, <1>3

LEMMA NoBank == IsBank(<< >>) /\ \A q : AsGood(q, << >>)
  BY DEF IsBank, AsGood

LEMMA AsGoodTrans ==
  ASSUME NEW p, NEW q, NEW r, IsBank(p), IsBank(q), IsBank(r), AsGood(p, q), AsGood(q, r)
  PROVE  AsGood(p, r)
<1> SUFFICES ASSUME NEW i \in DOMAIN r
             PROVE  \E j \in DOMAIN p : ValueOf(p[j]) <= ValueOf(r[i])
  BY DEF AsGood
<1>1. PICK k \in DOMAIN q : ValueOf(q[k]) <= ValueOf(r[i])
  BY DEF AsGood
<1>2. PICK j \in DOMAIN p : ValueOf(p[j]) <= ValueOf(q[k])
  BY DEF AsGood
<1>3. ValueOf(p[j]) \in Int /\ ValueOf(q[k]) \in Int /\ ValueOf(r[i]) \in Int
  BY BankIs
<1> QED BY <1>1, <1>2, <1>3

(* The same entries at the same places, with other marks. *)
SamePlaces(q, r) ==
  /\ r = [i \in DOMAIN q |-> r[i]]
  /\ \A i \in DOMAIN q : "at" \in DOMAIN r[i] /\ r[i].at = q[i].at

LEMMA MarksChangeNothing ==
  ASSUME NEW q, NEW r, IsBank(q), SamePlaces(q, r)
  PROVE  IsBank(r) /\ Len(r) = Len(q) /\ AsGood(r, q) /\ AsGood(q, r)
<1>1. Len(q) \in Nat /\ DOMAIN q = 1 .. Len(q) /\ \A i \in DOMAIN q : ValueOf(q[i]) \in Int /\ HasPlace(q[i])
  BY BankIs
<1>2. IsBank(r) /\ Len(r) = Len(q) /\ DOMAIN r = DOMAIN q
  <2>1. r = [i \in 1 .. Len(q) |-> r[i]] /\ \A i \in 1 .. Len(q) : HasPlace(r[i])
    BY <1>1 DEF SamePlaces, HasPlace
  <2> QED BY <1>1, <2>1, MakesBank
<1>3. \A i \in DOMAIN q : ValueOf(r[i]) = ValueOf(q[i])
  BY DEF SamePlaces, ValueOf
<1> QED BY <1>1, <1>2, <1>3 DEF AsGood

LEMMA AppendKeepsBest ==
  ASSUME NEW q, IsBank(q), NEW x, HasPlace(x)
  PROVE  IsBank(Append(q, x)) /\ AsGood(Append(q, x), q)
<1> DEFINE n == Len(q)
           a == Append(q, x)
           S == {q[i] : i \in DOMAIN q} \cup {x}
<1>1. n \in Nat /\ DOMAIN q = 1 .. n /\ \A i \in DOMAIN q : ValueOf(q[i]) \in Int /\ HasPlace(q[i])
  BY BankIs
<1>2. q \in Seq(S) /\ x \in S
  BY DEF IsBank
<1> HIDE DEF S
<1>3. /\ a \in Seq(S) /\ Len(a) = n + 1 /\ a[n + 1] = x
      /\ \A i \in 1 .. n : a[i] = q[i]
  BY <1>2
<1>4. DOMAIN a = 1 .. (n + 1) /\ a = [i \in 1 .. (n + 1) |-> a[i]]
  <2> HIDE DEF a, n
  <2> QED BY <1>1, <1>3
<1> HIDE DEF a, n
<1>5. \A i \in 1 .. (n + 1) : HasPlace(a[i])
  BY <1>1, <1>3
<1>6. IsBank(a)
  <2>1. n + 1 \in Nat
    BY <1>1
  <2> QED BY <1>4, <1>5, <2>1, MakesBank
<1>7. AsGood(a, q)
  BY <1>1, <1>3, <1>4 DEF AsGood
<1> QED BY <1>6, <1>7 DEF a

LEMMA JoinKeepsBest ==
  ASSUME NEW q, NEW r, IsBank(q), IsBank(r)
  PROVE  IsBank(q \o r) /\ AsGood(q \o r, q) /\ (q # << >> => q \o r # << >>)
<1> DEFINE n == Len(q)
           m == Len(r)
           a == q \o r
           S == {q[i] : i \in DOMAIN q} \cup {r[i] : i \in DOMAIN r}
<1>1. n \in Nat /\ DOMAIN q = 1 .. n /\ \A i \in DOMAIN q : ValueOf(q[i]) \in Int /\ HasPlace(q[i])
  BY BankIs
<1>2. m \in Nat /\ DOMAIN r = 1 .. m /\ \A i \in DOMAIN r : HasPlace(r[i])
  BY BankIs
<1>3. q \in Seq(S) /\ r \in Seq(S)
  BY DEF IsBank
<1> HIDE DEF S
<1>4. /\ a \in Seq(S) /\ Len(a) = n + m
      /\ \A i \in 1 .. n : a[i] = q[i]
      /\ \A i \in 1 .. m : a[n + i] = r[i]
  BY <1>3
<1> HIDE DEF a, n, m
<1>5. DOMAIN a = 1 .. (n + m) /\ a = [i \in 1 .. (n + m) |-> a[i]]
  BY <1>1, <1>2, <1>4
<1>6. ASSUME NEW i \in 1 .. (n + m)
      PROVE  HasPlace(a[i])
  <2>1. CASE i <= n
    BY <1>1, <1>4, <2>1
  <2>2. CASE i > n
    <3>1. i - n \in 1 .. m /\ n + (i - n) = i
      BY <1>1, <1>2, <2>2
    <3>2. a[i] = r[i - n]
      BY <1>4, <3>1
    <3> QED BY <1>2, <3>1, <3>2
  <2> QED BY <1>1, <2>1, <2>2
<1>7. n + m \in Nat
  BY <1>1, <1>2
<1>8. IsBank(a)
  BY <1>5, <1>6, <1>7, MakesBank
<1>9. AsGood(a, q)
  <2>1. \A i \in 1 .. n : i \in 1 .. (n + m)
    BY <1>1, <1>2
  <2>2. \A i \in 1 .. n : i \in DOMAIN a /\ a[i] = q[i] /\ ValueOf(q[i]) \in Int
    BY Zenon, <1>1, <1>4, <1>5, <2>1
  <2> QED BY <1>1, <2>2 DEF AsGood
<1>10. q # << >> => a # << >>
  <2>1. q # << >> => n > 0
    BY BankIs DEF n
  <2> QED BY <1>1, <1>2, <1>4, <2>1
<1> QED BY <1>8, <1>9, <1>10 DEF a

\* An entry is replaced only by one that is no worse.
LEMMA ReplaceKeepsBest ==
  ASSUME NEW q, IsBank(q), NEW x, HasPlace(x), NEW i,
         i \in DOMAIN q => ValueOf(x) <= ValueOf(q[i])
  PROVE  IsBank([q EXCEPT ![i] = x]) /\ AsGood([q EXCEPT ![i] = x], q)
<1> DEFINE a == [q EXCEPT ![i] = x]
<1>1. Len(q) \in Nat /\ DOMAIN q = 1 .. Len(q) /\ \A j \in DOMAIN q : ValueOf(q[j]) \in Int /\ HasPlace(q[j])
  BY BankIs
<1>2. a = [j \in 1 .. Len(q) |-> a[j]] /\ \A j \in 1 .. Len(q) : a[j] = IF j = i THEN x ELSE q[j]
  BY Zenon, <1>1
<1> HIDE DEF a
<1>3. IsBank(a) /\ DOMAIN a = 1 .. Len(q)
  BY <1>1, <1>2, MakesBank
<1>4. AsGood(a, q)
  BY <1>1, <1>2, <1>3 DEF AsGood
<1> QED BY <1>3, <1>4 DEF a

(* Sorting, and what it keeps. *)
Earlier(q, i) ==
  {j \in DOMAIN q : \/ ValueOf(q[j]) < ValueOf(q[i])
                    \/ ValueOf(q[j]) = ValueOf(q[i]) /\ j < i}

LEMMA RankIs == \A q, i : Rank(q, i) = Cardinality(Earlier(q, i))
  BY DEF Rank, Earlier

LEMMA Ranks ==
  ASSUME NEW q, IsBank(q)
  PROVE  /\ IsFiniteSet(DOMAIN q) /\ Cardinality(DOMAIN q) = Len(q)
         /\ \A i \in DOMAIN q : Rank(q, i) \in 0 .. (Len(q) - 1)
         /\ \A k \in 0 .. (Len(q) - 1) : \E i \in DOMAIN q : Rank(q, i) = k
         /\ \A i, j \in DOMAIN q : Rank(q, i) = 0 => ValueOf(q[i]) <= ValueOf(q[j])
         /\ \A i, j \in DOMAIN q : Rank(q, i) = Len(q) - 1 => ValueOf(q[j]) <= ValueOf(q[i])
<1> DEFINE n == Len(q)
           D == DOMAIN q
<1>1. n \in Nat /\ D = 1 .. n /\ \A i \in D : ValueOf(q[i]) \in Int
  BY BankIs
<1>2. IsFiniteSet(D) /\ Cardinality(D) = n
  BY <1>1, FS_Interval
<1>3. \A i \in D : i \in Int
  BY <1>1
<1>4. \A i \in D : IsFiniteSet(Earlier(q, i)) /\ Cardinality(Earlier(q, i)) \in Nat
  <2>1. \A i \in D : Earlier(q, i) \subseteq D
    BY DEF Earlier
  <2> QED BY <1>2, <2>1, FS_Subset, FS_CardinalityType
<1> HIDE DEF n
<1>5. ASSUME NEW i \in D, NEW j \in D, i \in Earlier(q, j)
      PROVE  Cardinality(Earlier(q, i)) < Cardinality(Earlier(q, j))
  <2>1. Earlier(q, i) \cup {i} \subseteq Earlier(q, j) /\ i \notin Earlier(q, i)
    <3>1. i \notin Earlier(q, i)
      BY <1>1, <1>3 DEF Earlier
    <3>2. ASSUME NEW k \in Earlier(q, i)
          PROVE  k \in Earlier(q, j)
      BY <1>1, <1>3, <1>5, <3>2 DEF Earlier
    <3> QED BY <1>5, <3>1, <3>2
  <2>2. Cardinality(Earlier(q, i) \cup {i}) = Cardinality(Earlier(q, i)) + 1
    BY Zenon, <1>4, <2>1, FS_AddElement
  <2>3. Cardinality(Earlier(q, i) \cup {i}) <= Cardinality(Earlier(q, j))
    BY <1>4, <2>1, FS_Subset
  <2> QED BY <1>4, <2>2, <2>3
<1>6. ASSUME NEW i \in D
      PROVE  Cardinality(Earlier(q, i)) \in 0 .. (n - 1)
  <2>1. Earlier(q, i) \subseteq D \ {i}
    BY <1>1, <1>3 DEF Earlier
  <2>2. IsFiniteSet(D \ {i}) /\ Cardinality(D \ {i}) = n - 1
    BY <1>2, FS_RemoveElement
  <2>3. Cardinality(Earlier(q, i)) <= n - 1
    BY <2>1, <2>2, FS_Subset
  <2> QED BY <1>1, <1>4, <2>3
<1>7. ASSUME NEW i \in D, NEW j \in D, i # j
      PROVE  i \in Earlier(q, j) \/ j \in Earlier(q, i)
  BY <1>1, <1>3, <1>7 DEF Earlier
<1>8. ASSUME NEW k \in 0 .. (n - 1)
      PROVE  \E i \in D : Cardinality(Earlier(q, i)) = k
  <2> DEFINE K == 0 .. (n - 1)
             r == [i \in D |-> Cardinality(Earlier(q, i))]
  <2>1. IsFiniteSet(K) /\ Cardinality(K) = n
    BY <1>1, <1>8, FS_Interval
  <2>2. r \in [D -> K]
    BY <1>6
  <2>3. \A i, j \in D : r[i] = r[j] => i = j
    <3> SUFFICES ASSUME NEW i \in D, NEW j \in D, i # j
                 PROVE  r[i] # r[j]
      OBVIOUS
    <3>1. r[i] < r[j] \/ r[j] < r[i]
      BY <1>5, <1>7
    <3> QED BY <1>4, <3>1
  <2>4. r \in Injection(D, K)
    BY <2>2, <2>3 DEF Injection, IsInjective
  <2>5. r \in Surjection(D, K)
    <3> HIDE DEF r, K, D
    <3> QED BY <1>2, <2>1, <2>4, FS_Injection
  <2> QED BY Zenon, <2>5 DEF Surjection
<1>9. ASSUME NEW i \in D, NEW j \in D, Cardinality(Earlier(q, i)) = 0
      PROVE  ValueOf(q[i]) <= ValueOf(q[j])
  <2>1. Earlier(q, i) = {}
    BY <1>4, <1>9, FS_EmptySet
  <2> QED BY <1>1, <2>1 DEF Earlier
<1>10. ASSUME NEW i \in D, NEW j \in D, Cardinality(Earlier(q, i)) = n - 1
       PROVE  ValueOf(q[j]) <= ValueOf(q[i])
  <2>1. CASE i = j
    BY <1>1, <2>1
  <2>2. CASE i # j
    <3>1. i \notin Earlier(q, j)
      BY <1>1, <1>4, <1>5, <1>6, <1>10
    <3>2. j \in Earlier(q, i)
      BY <1>7, <2>2, <3>1
    <3> QED BY <1>1, <3>2 DEF Earlier
  <2> QED BY <2>1, <2>2
<1> QED BY <1>2, <1>6, <1>8, <1>9, <1>10, RankIs DEF n

\* The best entry comes first.
LEMMA Sorts ==
  ASSUME NEW q, IsBank(q)
  PROVE  LET s == SortedByValue(q)
         IN  /\ IsBank(s) /\ Len(s) = Len(q) /\ DOMAIN s = DOMAIN q
             /\ q # << >> => \A i \in DOMAIN q : ValueOf(s[1]) <= ValueOf(q[i])
<1> DEFINE s == SortedByValue(q)
           order == [k \in DOMAIN q |-> CHOOSE i \in DOMAIN q : Rank(q, i) = k - 1]
<1>1. Len(q) \in Nat /\ DOMAIN q = 1 .. Len(q) /\ (q # << >> <=> Len(q) > 0)
      /\ \A i \in DOMAIN q : HasPlace(q[i])
  BY BankIs
<1>2. s = [k \in 1 .. Len(q) |-> q[order[k]]]
  BY <1>1 DEF SortedByValue
<1>3. \A k \in 1 .. Len(q) : order[k] \in DOMAIN q /\ Rank(q, order[k]) = k - 1
  <2> SUFFICES ASSUME NEW k \in 1 .. Len(q)
               PROVE  \E i \in DOMAIN q : Rank(q, i) = k - 1
    BY <1>1
  <2>1. k - 1 \in 0 .. (Len(q) - 1)
    BY <1>1
  <2> QED BY <2>1, Ranks
<1> HIDE DEF order, s
<1>4. s = [k \in 1 .. Len(q) |-> s[k]] /\ \A k \in 1 .. Len(q) : s[k] = q[order[k]]
  BY <1>2
<1>5. IsBank(s) /\ Len(s) = Len(q) /\ DOMAIN s = 1 .. Len(q)
  BY <1>1, <1>3, <1>4, MakesBank
<1>6. ASSUME q # << >>, NEW i \in DOMAIN q
      PROVE  ValueOf(s[1]) <= ValueOf(q[i])
  <2>1. 1 \in 1 .. Len(q)
    BY <1>1, <1>6
  <2>2. s[1] = q[order[1]] /\ order[1] \in DOMAIN q /\ Rank(q, order[1]) = 0
    BY <1>3, <1>4, <2>1
  <2> QED BY <2>2, Ranks
<1> QED BY <1>1, <1>5, <1>6 DEF s

LEMMA SortKeepsBest ==
  ASSUME NEW q, IsBank(q)
  PROVE  IsBank(SortedByValue(q)) /\ AsGood(SortedByValue(q), q)
         /\ Len(SortedByValue(q)) = Len(q)
<1>1. Len(q) \in Nat /\ DOMAIN q = 1 .. Len(q) /\ (q # << >> <=> Len(q) > 0)
  BY BankIs
<1>2. \A i \in DOMAIN q : q # << >> /\ 1 \in DOMAIN q
  BY <1>1
<1> QED BY <1>2, Sorts DEF AsGood

LEMMA BestOfKeeps ==
  ASSUME NEW q, IsBank(q), NEW count \in Int, count <= Len(q)
  PROVE  LET b == BestOf(q, count)
         IN  /\ IsBank(b) /\ Len(b) = IF count > 0 THEN count ELSE 0
             /\ b # << >> => AsGood(b, q)
<1> DEFINE s == SortedByValue(q)
           b == BestOf(q, count)
           m == IF count > 0 THEN count ELSE 0
<1>1. Len(q) \in Nat /\ DOMAIN q = 1 .. Len(q) /\ (q # << >> <=> Len(q) > 0)
  BY BankIs
<1>2. IsBank(s) /\ Len(s) = Len(q) /\ DOMAIN s = DOMAIN q
  BY Sorts
<1>3. \A i \in DOMAIN s : HasPlace(s[i])
  BY <1>2, BankIs
<1>4. b = SubSeq(s, 1, count)
  BY DEF BestOf
<1> HIDE DEF s
<1>5. b = [i \in 1 .. m |-> s[i]]
  BY <1>1, <1>2, <1>4 DEF IsBank
<1>6. m \in Nat /\ m <= Len(q)
  BY <1>1
<1> HIDE DEF b, m
<1>7. b = [i \in 1 .. m |-> b[i]] /\ \A i \in 1 .. m : b[i] = s[i] /\ i \in DOMAIN s
  BY <1>1, <1>2, <1>5, <1>6
<1>8. IsBank(b) /\ Len(b) = m /\ DOMAIN b = 1 .. m
  BY <1>3, <1>6, <1>7, MakesBank
<1>9. ASSUME b # << >>
      PROVE  AsGood(b, q)
  <2>1. m > 0
    BY <1>8, <1>9, BankIs
  <2>2. 1 \in 1 .. m /\ q # << >>
    BY <1>1, <1>6, <2>1
  <2>3. b[1] = s[1] /\ 1 \in DOMAIN b
    BY <1>7, <1>8, <2>2
  <2>4. \A i \in DOMAIN q : ValueOf(s[1]) <= ValueOf(q[i])
    BY <2>2, Sorts DEF s
  <2> QED BY <2>3, <2>4 DEF AsGood
<1> QED BY <1>8, <1>9 DEF b, m

(* What the energy cut takes is never the best entry. *)
LEMMA CutKeepsBest ==
  ASSUME NEW q, IsBank(q), NEW removed, removed \subseteq DOMAIN q,
         \A i \in removed : Rank(q, i) # 0
  PROVE  IsBank(Without(q, removed)) /\ AsGood(Without(q, removed), q)
<1> DEFINE stays == DOMAIN q \ removed
           m == Cardinality(stays)
           nth(k) == CHOOSE i \in stays : Cardinality(Before(stays, i)) = k - 1
           w == Without(q, removed)
<1>1. Len(q) \in Nat /\ DOMAIN q = 1 .. Len(q) /\ (q # << >> <=> Len(q) > 0)
      /\ \A i \in DOMAIN q : HasPlace(q[i])
  BY BankIs
<1>2. IsFiniteSet(stays) /\ stays \in SUBSET Int
  <2>1. IsFiniteSet(DOMAIN q)
    BY Ranks
  <2>2. stays \subseteq DOMAIN q
    OBVIOUS
  <2> QED BY <1>1, <2>1, <2>2, FS_Subset
<1>3. w = [k \in 1 .. m |-> q[nth(k)]]
  BY DEF Without, Before
<1>4. stays \subseteq DOMAIN q /\ \A i \in DOMAIN q : Rank(q, i) = 0 => i \in stays
  OBVIOUS
<1> HIDE DEF stays
<1>5. m \in Nat
  BY <1>2, FS_CardinalityType
<1>6. \A k \in 1 .. m : nth(k) \in stays /\ Cardinality(Before(stays, nth(k))) = k - 1
  <2> SUFFICES ASSUME NEW k \in 1 .. m
               PROVE  \E i \in stays : Cardinality(Before(stays, i)) = k - 1
    OBVIOUS
  <2>1. k - 1 \in 0 .. (m - 1)
    BY <1>5
  <2> QED BY <1>2, <2>1, Ranking
<1>7. \A i \in stays : \E k \in 1 .. m : nth(k) = i
  <2> SUFFICES ASSUME NEW i \in stays
               PROVE  \E k \in 1 .. m : nth(k) = i
    OBVIOUS
  <2> DEFINE k == Cardinality(Before(stays, i)) + 1
  <2>1. Cardinality(Before(stays, i)) \in 0 .. (m - 1)
    BY <1>2, Ranking
  <2>2. k \in 1 .. m /\ k - 1 = Cardinality(Before(stays, i))
    BY <1>5, <2>1
  <2>3. nth(k) \in stays /\ Cardinality(Before(stays, nth(k))) = Cardinality(Before(stays, i))
    BY <1>6, <2>2
  <2>4. nth(k) \in Int /\ i \in Int
    BY Zenon, <1>2, <2>3
  <2> HIDE DEF nth, k
  <2>5. \A x \in stays : Cardinality(Before(stays, x)) \in Int
    BY <1>2, <1>5, Ranking
  <2>6. \A x, y \in stays : x < y => Cardinality(Before(stays, x)) < Cardinality(Before(stays, y))
    BY <1>2, Ranking
  <2>7. nth(k) = i
    BY <2>3, <2>4, <2>5, <2>6
  <2> QED BY <2>2, <2>7
<1> HIDE DEF nth, m, w
<1>8. w = [k \in 1 .. m |-> w[k]] /\ \A k \in 1 .. m : w[k] = q[nth(k)] /\ nth(k) \in DOMAIN q
  BY <1>3, <1>4, <1>6
<1>9. IsBank(w) /\ DOMAIN w = 1 .. m
  BY <1>1, <1>5, <1>8, MakesBank
<1>10. ASSUME NEW i \in DOMAIN q
       PROVE  \E k \in DOMAIN w : ValueOf(w[k]) <= ValueOf(q[i])
  <2>1. 0 \in 0 .. (Len(q) - 1)
    BY <1>1
  <2>2. PICK j \in DOMAIN q : Rank(q, j) = 0
    BY <2>1, Ranks
  <2>3. PICK k \in 1 .. m : nth(k) = j
    BY <1>4, <1>7, <2>2
  <2>4. w[k] = q[j]
    BY <1>8, <2>3
  <2> QED BY Zenon, <1>9, <2>2, <2>4, Ranks
<1> QED BY <1>9, <1>10 DEF AsGood, w
-----------------------------------------------------------------------------
(* The update of the bank, while no worse candidate is accepted. *)
HasBank(s) == "bank" \in DOMAIN s /\ "entries" \in DOMAIN s.bank /\ IsBank(s.bank.entries)

Improves(s, t) == HasBank(t) /\ AsGood(t.bank.entries, s.bank.entries)

LEMMA ImprovesTrans ==
  ASSUME NEW s, NEW t, NEW u, HasBank(s), Improves(s, t), Improves(t, u)
  PROVE  Improves(s, u)
  BY AsGoodTrans DEF Improves, HasBank

LEMMA AsGoodSelf == ASSUME NEW q, IsBank(q) PROVE AsGood(q, q)
  BY BankIs DEF AsGood

LEMMA SameBankImproves ==
  ASSUME NEW s, NEW t, HasBank(s), "bank" \in DOMAIN t, t.bank = s.bank
  PROVE  Improves(s, t)
  BY AsGoodSelf DEF Improves, HasBank

LEMMA WithCutoffImproves ==
  ASSUME NEW s, HasBank(s), NEW pol
  PROVE  Improves(s, WithCutoff(s, pol))
<1>1. "bank" \in DOMAIN WithCutoff(s, pol) /\ WithCutoff(s, pol).bank = s.bank
  BY DEF WithCutoff, HasBank
<1> QED BY <1>1, SameBankImproves

LEMMA ReplacedImproves ==
  ASSUME NEW s, HasBank(s), NEW x, HasPlace(x), NEW i, NEW nearest, NEW distance,
         i \in DOMAIN s.bank.entries => ValueOf(x) <= ValueOf(s.bank.entries[i])
  PROVE  Improves(s, Replaced(s, i, x, nearest, distance))
<1> DEFINE t == Replaced(s, i, x, nearest, distance)
           q == s.bank.entries
<1>1. /\ "bank" \in DOMAIN t /\ "entries" \in DOMAIN t.bank
      /\ t.bank.entries = [q EXCEPT ![i] = x]
  BY DEF Replaced, HasBank
<1>2. IsBank([q EXCEPT ![i] = x]) /\ AsGood([q EXCEPT ![i] = x], q)
  BY ReplaceKeepsBest DEF HasBank
<1> QED BY <1>1, <1>2 DEF Improves, HasBank

LEMMA AppendedImproves ==
  ASSUME NEW s, HasBank(s), NEW x, HasPlace(x), NEW nearest, NEW distance
  PROVE  Improves(s, Appended(s, x, nearest, distance))
<1> DEFINE t == Appended(s, x, nearest, distance)
           q == s.bank.entries
<1>1. /\ "bank" \in DOMAIN t /\ "entries" \in DOMAIN t.bank
      /\ t.bank.entries = Append(q, x)
  BY DEF Appended, HasBank
<1>2. IsBank(Append(q, x)) /\ AsGood(Append(q, x), q)
  BY AppendKeepsBest DEF HasBank
<1> QED BY <1>1, <1>2 DEF Improves, HasBank

\* An entry goes only for a better one, on each of the routes.
LEMMA AdmitFullImproves ==
  ASSUME NEW s, HasBank(s), NEW x, HasPlace(x), NEW lucky, NEW pol, pol.clustering # "largest", NEW hot, hot = FALSE
  PROVE  Improves(s, AdmitFull(s, x, hot, lucky, pol))
<1> DEFINE t        == AdmitFull(s, x, hot, lucky, pol)
           q        == s.bank.entries
           met      == [s EXCEPT !.met = @ + 1]
           nearest  == Nearest(s, x)
           distance == Between(x, q[nearest])
           victim   == FarVictim(q, ActiveCutoff(s), pol)
           accepts  == [i \in DOMAIN q |-> ShouldAccept(ValueOf(x), ValueOf(q[i]), hot, "far" \in lucky)]
           worst    == WorstOfCluster(s.clusters, q, nearest)
           replaced == Replaced(met, nearest, x, nearest, distance)
<1>1. "bank" \in DOMAIN met /\ met.bank = s.bank
  BY DEF HasBank
<1>2. HasBank(met) /\ Improves(s, met)
  BY <1>1, SameBankImproves DEF Improves
<1>4. /\ LocalUpdate(s, x, hot, lucky, pol) => ValueOf(x) < ValueOf(q[nearest])
      /\ ClusterUpdate(s, x, hot, lucky, pol) => ValueOf(x) < ValueOf(q[worst])
      /\ \A i \in DOMAIN q : accepts[i] => ValueOf(x) < ValueOf(q[i])
  BY Zenon DEF LocalUpdate, ClusterUpdate, ShouldAccept
<1>5. ClusterVictim(s.clusters, q, nearest, pol) = worst
  BY DEF ClusterVictim
<1>6. \/ t = [replaced EXCEPT !.local = @ + 1] /\ LocalUpdate(s, x, hot, lucky, pol)
      \/ t = Appended(s, x, nearest, distance)
      \/ /\ t = Replaced(met, ClusterVictim(s.clusters, q, nearest, pol), x, nearest, distance)
         /\ ClusterUpdate(s, x, hot, lucky, pol)
      \/ t = [met EXCEPT !.local = @ + (IF distance < ActiveCutoff(s) THEN 1 ELSE 0)]
      \/ t = FarUpdate(met, victim, x, nearest, distance, accepts)
  BY DEF AdmitFull
<1>7. ValueOf(x) \in Int /\ \A i \in DOMAIN q : ValueOf(q[i]) \in Int
  BY BankIs, CsaAssumption DEF HasBank, HasPlace, ValueOf
<1> HIDE DEF t, nearest, distance, victim, worst, accepts, met, replaced
<1>8. \A i : (i \in DOMAIN q => ValueOf(x) < ValueOf(q[i]))
               => Improves(s, Replaced(met, i, x, nearest, distance))
  <2> SUFFICES ASSUME NEW i, i \in DOMAIN q => ValueOf(x) < ValueOf(q[i])
               PROVE  Improves(s, Replaced(met, i, x, nearest, distance))
    OBVIOUS
  <2>1. i \in DOMAIN met.bank.entries => ValueOf(x) <= ValueOf(met.bank.entries[i])
    BY <1>1, <1>7
  <2>2. Improves(met, Replaced(met, i, x, nearest, distance))
    BY <1>2, <2>1, ReplacedImproves
  <2> QED BY <1>2, <2>2, ImprovesTrans
<1>9. \A u, l : Improves(s, u) => Improves(s, [u EXCEPT !.local = l])
  BY DEF Improves, HasBank
<1> SUFFICES Improves(s, t)
  BY DEF t
<1>10. CASE t = [replaced EXCEPT !.local = @ + 1] /\ LocalUpdate(s, x, hot, lucky, pol)
  BY <1>4, <1>8, <1>9, <1>10 DEF replaced
<1>11. CASE t = Appended(s, x, nearest, distance)
  BY <1>11, AppendedImproves
<1>12. CASE /\ t = Replaced(met, ClusterVictim(s.clusters, q, nearest, pol), x, nearest, distance)
            /\ ClusterUpdate(s, x, hot, lucky, pol)
  BY <1>4, <1>5, <1>8, <1>12
<1>13. CASE t = [met EXCEPT !.local = @ + (IF distance < ActiveCutoff(s) THEN 1 ELSE 0)]
  BY <1>2, <1>9, <1>13
<1>14. CASE t = FarUpdate(met, victim, x, nearest, distance, accepts)
  <2>1. CASE accepts[victim]
    BY <1>4, <1>8, <1>14, <2>1 DEF FarUpdate
  <2>2. CASE ~accepts[victim]
    BY <1>2, <1>14, <2>2 DEF FarUpdate
  <2> QED BY <2>1, <2>2
<1> QED BY <1>6, <1>10, <1>11, <1>12, <1>13, <1>14

LEMMA AdmitOneImproves ==
  ASSUME NEW s, HasBank(s), NEW o, o.at \in Positions, NEW pol, pol.clustering # "largest", NEW hot, hot = FALSE
  PROVE  Improves(s, AdmitOne(s, o, hot, pol))
<1> DEFINE x         == Entry(o.at, o.id)
           added     == [s EXCEPT !.bank.entries = Append(@, x)]
           clustered == [s EXCEPT !.clusters = EnsureClusters(@, s.bank.entries, pol)]
<1>1. HasPlace(x)
  BY DEF HasPlace, Entry
<1>2. AdmitOne(s, o, hot, pol)
        \in {WithCutoff(added, pol), AdmitFull(WithCutoff(clustered, pol), x, hot, o.lucky, pol)}
  BY DEF AdmitOne
<1> HIDE DEF x
<1>3. Improves(s, added)
  <2>1. /\ "bank" \in DOMAIN added /\ "entries" \in DOMAIN added.bank
        /\ added.bank.entries = Append(s.bank.entries, x)
    BY DEF HasBank
  <2> QED BY Zenon, <1>1, <2>1, AppendKeepsBest DEF Improves, HasBank
<1>4. Improves(s, clustered)
  <2>1. "bank" \in DOMAIN clustered /\ clustered.bank = s.bank
    BY DEF HasBank
  <2> QED BY <2>1, SameBankImproves
<1> HIDE DEF added, clustered
<1>5. Improves(s, WithCutoff(added, pol)) /\ Improves(s, WithCutoff(clustered, pol))
  BY <1>3, <1>4, WithCutoffImproves, ImprovesTrans DEF Improves
<1>6. Improves(s, AdmitFull(WithCutoff(clustered, pol), x, hot, o.lucky, pol))
  BY Zenon, <1>1, <1>5, AdmitFullImproves, ImprovesTrans DEF Improves
<1> QED BY <1>2, <1>5, <1>6

LEMMA AdmitAllImproves ==
  ASSUME NEW s, HasBank(s), NEW observations, NEW d \in Nat, DOMAIN observations = 1..d,
         \A k \in 1..d : observations[k].at \in Positions, NEW pol, pol.clustering # "largest", NEW hot, hot = FALSE
  PROVE  Improves(s, AdmitAll(s, observations, hot, pol))
<1> DEFINE base == AdmitStart(s, pol)
<1>1. PICK g : /\ IsAdmitting(g, base, observations, hot, pol, 1..d)
               /\ AdmitAll(s, observations, hot, pol) = g[1..d]
  BY AdmitAllIs
<1> DEFINE B == {D \in SUBSET (1..d) : Improves(s, g[D])}
<1>2. Improves(s, base)
  <2>1. "bank" \in DOMAIN base /\ base.bank = s.bank
    BY DEF AdmitStart, HasBank
  <2> QED BY <2>1, SameBankImproves
<1> HIDE DEF base
<1>3. \A D \in SUBSET (1..d) :
        g[D] = IF D = {} THEN base ELSE AdmitOne(g[D \ {Max(D)}], observations[Max(D)], hot, pol)
  BY Zenon, <1>1 DEF IsAdmitting
<1>4. {} \in B
  BY Zenon, <1>2, <1>3
<1>5. ASSUME NEW D \in SUBSET (1..d), D # {}, Max(D) \in 1..d, D \ {Max(D)} \in B
      PROVE  D \in B
  <2> DEFINE t == g[D \ {Max(D)}]
  <2>1. Improves(s, t)
    BY <1>5
  <2>2. g[D] = AdmitOne(t, observations[Max(D)], hot, pol)
    BY <1>3, <1>5
  <2> HIDE DEF t
  <2>3. Improves(t, AdmitOne(t, observations[Max(D)], hot, pol))
    BY Zenon, <1>5, <2>1, AdmitOneImproves DEF Improves
  <2> QED BY <1>5, <2>1, <2>2, <2>3, ImprovesTrans
<1>6. 1..d \in B
  <2>1. B \in SUBSET (SUBSET (1..d))
    OBVIOUS
  <2> HIDE DEF B
  <2> QED BY Zenon, <1>4, <1>5, <2>1, FromBelow
<1> QED BY <1>1, <1>6

\* The best entry is among the first that the energy cut leaves alone.
LEMMA UpdateImproves ==
  ASSUME NEW s, HasBank(s), NEW observations, NEW d \in Nat, DOMAIN observations = 1..d,
         \A k \in 1..d : observations[k].at \in Positions,
         NEW pol \in Profiles, pol.clustering # "largest",
         NEW hot, hot = FALSE
  PROVE  Improves(s, UpdateBatch(s, observations, hot, pol).shadow)
<1> DEFINE full    == AdmitAll(s, observations, hot, pol)
           q       == full.bank.entries
           removed == AboveCut(full.growth, q, pol)
           shadow  == UpdateBatch(s, observations, hot, pol).shadow
           rest    == Without(q, removed)
<1>1. Improves(s, full)
  BY Zenon, AdmitAllImproves
<1>2. PICK c : shadow = [full EXCEPT
                           !.bank = IF removed = {} THEN @ ELSE [capacity |-> Len(rest), entries |-> rest],
                           !.clusters = c]
  BY Zenon DEF UpdateBatch, WithCut, CutBatch
<1>3. removed \subseteq DOMAIN q /\ \A i \in removed : Rank(q, i) >= pol.capacity
  BY DEF AboveCut
<1> HIDE DEF full, removed, shadow
<1>4. IsBank(q)
  BY <1>1 DEF Improves, HasBank
<1>5. \A i \in removed : Rank(q, i) # 0
  <2>1. pol.capacity \in Nat \ {0}
    BY CsaAssumption
  <2> QED BY <1>3, <2>1
<1>6. IsBank(rest) /\ AsGood(rest, q)
  BY <1>3, <1>4, <1>5, CutKeepsBest
<1> HIDE DEF rest
<1>7. /\ "bank" \in DOMAIN shadow /\ "entries" \in DOMAIN shadow.bank
      /\ shadow.bank.entries = q \/ shadow.bank.entries = rest
  BY <1>1, <1>2 DEF Improves, HasBank
<1>8. Improves(full, shadow)
  BY <1>4, <1>6, <1>7, AsGoodSelf DEF Improves, HasBank
<1> QED BY <1>1, <1>8, ImprovesTrans DEF shadow
-----------------------------------------------------------------------------
(* The engine at a temperature of zero: its banks, and what a refresh in
   progress preserves, which is as good as the bank if it is anything. *)
RefreshIs(r, held) ==
  /\ DOMAIN r = {"target", "bank", "reference", "pool"}
  /\ r.target \in Int /\ IsBank(r.bank) /\ IsBank(r.reference) /\ IsBank(r.pool)
  /\ r.bank # << >> => AsGood(r.bank, held)

Good(e) ==
  /\ DOMAIN e = Fields /\ IsProgress(e.progress) /\ e.hot = FALSE
  /\ HasBank(e) /\ "entries" \in DOMAIN e.reference /\ IsBank(e.reference.entries)
  /\ Refreshing(e) => RefreshIs(e.refresh, e.bank.entries)

Keeps(e, f) == Good(f) /\ Improves(e, f)

KeepsProfile(pol) == pol \in Profiles /\ pol.hot = "never" /\ pol.clustering # "largest"

LEMMA KeepsTrans ==
  ASSUME NEW e, NEW f, NEW g, Good(e), Keeps(e, f), Keeps(f, g)
  PROVE  Keeps(e, g)
  BY ImprovesTrans DEF Keeps, Good

(* Everything but the bank is as it was, as far as it matters here. *)
SameOtherwise(e, f) ==
  /\ DOMAIN f = Fields /\ IsProgress(f.progress)
  /\ f.hot = e.hot /\ f.reference = e.reference /\ f.refresh = e.refresh

LEMMA RelabelKeeps ==
  ASSUME NEW e, NEW f, Good(e), SameOtherwise(e, f), "entries" \in DOMAIN f.bank,
         SamePlaces(e.bank.entries, f.bank.entries)
  PROVE  Keeps(e, f)
<1>1. /\ IsBank(e.bank.entries) /\ IsBank(f.bank.entries)
      /\ AsGood(f.bank.entries, e.bank.entries) /\ AsGood(e.bank.entries, f.bank.entries)
  BY MarksChangeNothing DEF Good, HasBank
<1>2. HasBank(f)
  BY <1>1 DEF HasBank, SameOtherwise, Fields
<1>3. ASSUME Refreshing(f)
      PROVE  RefreshIs(f.refresh, f.bank.entries)
  <2>1. RefreshIs(e.refresh, e.bank.entries) /\ f.refresh = e.refresh
    BY <1>3 DEF Good, SameOtherwise, Refreshing
  <2> QED BY <1>1, <2>1, AsGoodTrans DEF RefreshIs
<1> QED BY <1>1, <1>2, <1>3 DEF Keeps, Improves, Good, SameOtherwise

LEMMA SameBankKeeps ==
  ASSUME NEW e, NEW f, Good(e), SameOtherwise(e, f), f.bank = e.bank
  PROVE  Keeps(e, f)
<1>1. SamePlaces(e.bank.entries, e.bank.entries)
  <2>1. IsBank(e.bank.entries)
    BY DEF Good, HasBank
  <2> QED BY <2>1, BankIs DEF SamePlaces, HasPlace
<1> QED BY Zenon, <1>1, RelabelKeeps DEF Good, HasBank

LEMMA MarksAre ==
  ASSUME NEW q, IsBank(q)
  PROVE  /\ SamePlaces(q, Unseeded(q))
         /\ \A n, k : SamePlaces(q, KeptFirst(q, n, k))
         /\ \A k : SamePlaces(q, KeptAs(q, k))
         /\ \A x, c : SamePlaces(q, Reseeded(q, x, c))
         /\ SamePlaces(q, Released(q))
<1>1. \A i \in DOMAIN q : "at" \in DOMAIN q[i]
  BY BankIs DEF HasPlace
<1>2. SamePlaces(q, Unseeded(q))
  BY <1>1 DEF SamePlaces, Unseeded
<1>3. \A n, k : SamePlaces(q, KeptFirst(q, n, k))
  BY <1>1 DEF SamePlaces, KeptFirst
<1>4. \A k : SamePlaces(q, KeptAs(q, k))
  BY <1>3 DEF KeptAs
<1>5. \A x, c : SamePlaces(q, Reseeded(q, x, c))
  BY <1>1 DEF SamePlaces, Reseeded
<1>6. SamePlaces(q, Released(q))
  BY Zenon, <1>1 DEF SamePlaces, Released
<1> QED BY <1>2, <1>3, <1>4, <1>5, <1>6

LEMMA IdleKeeps ==
  ASSUME NEW e, Good(e)
  PROVE  /\ Keeps(e, Idle(e)) /\ SameOtherwise(e, Idle(e))
         /\ Idle(e).progress = e.progress /\ Idle(e).bank.entries = Unseeded(e.bank.entries)
<1> DEFINE i == Idle(e)
<1>1. /\ DOMAIN i = Fields /\ i.progress = e.progress /\ i.hot = e.hot
      /\ i.reference = e.reference /\ i.refresh = e.refresh
      /\ "entries" \in DOMAIN i.bank /\ i.bank.entries = Unseeded(e.bank.entries)
  BY DEF Idle, Good, HasBank, Fields
<1> HIDE DEF i
<1>2. SameOtherwise(e, i)
  BY <1>1 DEF SameOtherwise, Good
<1>3. SamePlaces(e.bank.entries, i.bank.entries)
  BY <1>1, MarksAre DEF Good, HasBank
<1> QED BY <1>1, <1>2, <1>3, RelabelKeeps DEF i

LEMMA SmallestOfTwo ==
  ASSUME NEW a \in Int, NEW b \in Int
  PROVE  /\ SmallestOf({a, b}) \in {a, b} /\ SmallestOf({a, b}) <= a /\ SmallestOf({a, b}) <= b
         /\ LargestOf({a, b}) \in {a, b}
<1>1. \E x \in {a, b} : \A y \in {a, b} : x <= y
  OBVIOUS
<1>2. \E x \in {a, b} : \A y \in {a, b} : x >= y
  OBVIOUS
<1> QED BY <1>1, <1>2 DEF SmallestOf, LargestOf

LEMMA CapacityIs ==
  ASSUME NEW pol \in Profiles, NEW index \in Nat
  PROVE  StageCapacity(pol, index) \in Int /\ StageCapacity(pol, index) >= 1
<1> DEFINE c == pol.capacity * (index + 1)
<1>1. pol.capacity \in Nat /\ pol.capacity >= 1 /\ pol.maxCapacity \in Nat /\ pol.maxCapacity >= 1
  BY CsaAssumption
<1>2. c \in Int /\ c >= 1
  <2>1. pol.capacity * index \in Nat
    BY <1>1
  <2>2. c = pol.capacity * index + pol.capacity
    BY <1>1
  <2> QED BY <1>1, <2>1, <2>2
<1>3. StageCapacity(pol, index) = SmallestOf({pol.maxCapacity, c})
  BY DEF StageCapacity
<1> HIDE DEF c
<1>4. SmallestOf({pol.maxCapacity, c}) \in {pol.maxCapacity, c}
  <2>1. pol.maxCapacity \in Int
    BY <1>1
  <2> QED BY <1>2, <2>1, SmallestOfTwo, Zenon
<1> QED BY <1>1, <1>2, <1>3, <1>4

LEMMA PreservedIs ==
  ASSUME NEW pol \in Profiles, NEW n \in Nat, NEW target \in Int
  PROVE  /\ PreservedCount(pol, n, target) \in Int /\ PreservedCount(pol, n, target) <= n
         /\ PreservedCount(pol, n, target) = 0 \/ PreservedCount(pol, n, target) < target
<1> DEFINE share == (n * pol.preservePercent) \div 100
           wanted == LargestOf({1, share})
           S == {n - 1, target - 1, wanted}
<1>1. share \in Int
  <2>1. n * pol.preservePercent \in Nat
    BY CsaAssumption
  <2> QED BY <2>1
<1>2. wanted \in Int
  <2> HIDE DEF share
  <2>1. wanted \in {1, share}
    <3>1. 1 \in Int
      OBVIOUS
    <3> QED BY <1>1, <3>1, SmallestOfTwo, Zenon
  <2> HIDE DEF wanted
  <2> QED BY <1>1, <2>1
<1> HIDE DEF wanted
<1>3. SmallestOf(S) \in Int /\ SmallestOf(S) <= n - 1 /\ SmallestOf(S) < target
  <2>1. \E x \in S : \A y \in S : x <= y
    BY <1>2
  <2>2. SmallestOf(S) \in S /\ \A y \in S : SmallestOf(S) <= y
    BY <2>1 DEF SmallestOf
  <2> QED BY <1>2, <2>2
<1>4. PreservedCount(pol, n, target) \in {0, SmallestOf(S)}
  BY DEF PreservedCount, wanted
<1> HIDE DEF S
<1> QED BY <1>3, <1>4

(* What a refresh starts from.  One that keeps what is there keeps it as good
   as the bank, and one that is complete at once keeps something. *)
LEMMA RefreshStateIs ==
  ASSUME NEW e, Good(e), NEW pol \in Profiles, NEW existing \in BOOLEAN
  PROVE  LET r == RefreshStateOf(e, pol, existing)
         IN  /\ RefreshIs(r, e.bank.entries)
             /\ existing /\ HasEnoughEntries(r) /\ e.bank.entries # << >> => r.bank # << >>
<1> DEFINE r      == RefreshStateOf(e, pol, existing)
           q      == e.bank.entries
           target == StageCapacity(pol, e.progress.index)
           best   == BestOf(q, PreservedCount(pol, Len(q), target))
<1>1. target \in Int /\ target >= 1
  BY CapacityIs DEF Good, IsProgress
<1>2. IsBank(q) /\ IsBank(e.reference.entries) /\ Len(q) \in Nat
  BY BankIs DEF Good, HasBank
<1>3. r \in {RefreshOf(target, best, best), RefreshOf(target, q, e.reference.entries),
             RefreshOf(target, << >>, << >>)}
      /\ (existing => r # RefreshOf(target, << >>, << >>)
                      \/ r = RefreshOf(target, best, best)
                      \/ r = RefreshOf(target, q, e.reference.entries))
  BY DEF RefreshStateOf
<1>4. existing => r \in {RefreshOf(target, best, best), RefreshOf(target, q, e.reference.entries)}
  BY DEF RefreshStateOf
<1> HIDE DEF r, target
<1>5. IsBank(best) /\ (best # << >> => AsGood(best, q))
  <2> DEFINE count == PreservedCount(pol, Len(q), target)
  <2>1. count \in Int /\ count <= Len(q)
    BY Zenon, <1>1, <1>2, PreservedIs
  <2> HIDE DEF count
  <2> QED BY <1>2, <2>1, BestOfKeeps DEF count
<1>6. AsGood(q, q)
  BY <1>2, AsGoodSelf
<1> HIDE DEF best
<1>7. \A b, c : /\ DOMAIN RefreshOf(target, b, c) = {"target", "bank", "reference", "pool"}
                /\ RefreshOf(target, b, c).target = target /\ RefreshOf(target, b, c).bank = b
                /\ RefreshOf(target, b, c).reference = c /\ RefreshOf(target, b, c).pool = << >>
  BY DEF RefreshOf
<1>8. RefreshIs(r, q)
  BY <1>1, <1>2, <1>3, <1>5, <1>6, <1>7, NoBank DEF RefreshIs
<1>9. ASSUME existing, HasEnoughEntries(r), q # << >>
      PROVE  r.bank # << >>
  <2>1. CASE r = RefreshOf(target, q, e.reference.entries)
    BY <1>7, <1>9, <2>1
  <2>2. CASE r = RefreshOf(target, best, best)
    <3>1. r.pool = << >> /\ r.target = target /\ r.reference = best /\ r.bank = best
      BY <1>7, <2>2
    <3>2. 0 >= target - Len(best)
      BY <1>9, <3>1 DEF HasEnoughEntries, RequiredPool
    <3>3. Len(best) > 0
      <4>1. Len(best) \in Nat
        BY <1>5, BankIs
      <4> QED BY <1>1, <3>2, <4>1
    <3> QED BY <1>5, <3>1, <3>3, BankIs
  <2> QED BY <1>4, <1>9, <2>1, <2>2
<1> QED BY <1>8, <1>9 DEF r

LEMMA RefreshKeeps ==
  ASSUME NEW e, Good(e), NEW pol \in Profiles
  PROVE  Keeps(e, BeginRefresh(e, pol))
<1> DEFINE i == Idle(e)
           r == RefreshStateOf(e, pol, FALSE)
           f == BeginRefresh(e, pol)
<1>1. /\ Keeps(e, i) /\ SameOtherwise(e, i) /\ i.progress = e.progress
      /\ i.bank.entries = Unseeded(e.bank.entries)
  BY IdleKeeps
<1>2. RefreshIs(r, e.bank.entries)
  BY Zenon, RefreshStateIs
<1>3. f = [i EXCEPT !.refresh = r, !.clusters = NoClusters, !.progress = ProgressBeginRefresh(@)]
  BY DEF BeginRefresh
<1> HIDE DEF i, f, r
<1>4. /\ DOMAIN f = Fields /\ f.progress = ProgressBeginRefresh(e.progress) /\ f.hot = i.hot
      /\ f.bank = i.bank /\ f.reference = i.reference /\ f.refresh = r
  BY <1>1, <1>3 DEF SameOtherwise, Fields
<1>5. IsProgress(f.progress)
  BY <1>4, ActionsKept DEF Good, IsProgress, SameAction
<1>6. RefreshIs(r, f.bank.entries)
  <2>1. IsBank(e.bank.entries) /\ IsBank(f.bank.entries) /\ AsGood(e.bank.entries, f.bank.entries)
    BY <1>1, <1>4, MarksAre, MarksChangeNothing DEF Good, HasBank
  <2> QED BY <1>2, <2>1, AsGoodTrans DEF RefreshIs
<1>7. HasBank(f)
  BY <1>1, <1>4 DEF Keeps, Good, HasBank, Fields
<1> QED BY <1>1, <1>4, <1>5, <1>6, <1>7 DEF Keeps, Good, Improves, f

(* A refresh that kept something is as good as the bank was. *)
LEMMA CompleteKeeps ==
  ASSUME NEW e, Good(e), Refreshing(e), HasEnoughEntries(e.refresh), NEW pol
  PROVE  /\ Good(CompleteRefresh(e, pol)) /\ ~Refreshing(CompleteRefresh(e, pol))
         /\ e.refresh.bank # << >> \/ e.bank.entries = << >> => Keeps(e, CompleteRefresh(e, pol))
<1> DEFINE r    == e.refresh
           reference == RefreshedReference(r)
           bank == RefreshedBank(r)
           f    == CompleteRefresh(e, pol)
           kind == IF MasksStage(ProgressCompleteRefresh(e.progress, pol, AverageDistance(reference.entries),
                                        ScoreGap(bank.entries))) THEN "stage"
                   ELSE IF pol.refresh # "legacy" /\ pol.newcomerFirst THEN "refresh" ELSE "no"
           p == MaskedFor(ProgressCompleteRefresh(e.progress, pol, AverageDistance(reference.entries),
                                        ScoreGap(bank.entries)), 1 .. Len(r.bank), pol)
           c == IF NeedsClusters(e.clusters, bank.entries, pol)
                THEN [distance |-> (2 * AverageDistance(reference.entries)) \div 3,
                      labels |-> ClusterLabels(bank.entries, (2 * AverageDistance(reference.entries)) \div 3)]
                ELSE e.clusters
           b == [bank EXCEPT !.entries = KeptFirst(@, Len(r.bank), kind)]
           g == [e EXCEPT !.bank = b, !.reference = reference, !.refresh = NoRefresh, !.clusters = c,
                          !.progress = p]
<1>1. f = Idle(g)
  BY DEF CompleteRefresh, Refreshed, Good, Fields
<1>2. RefreshIs(r, e.bank.entries)
  BY DEF Good
<1>3. IsBank(BestOf(r.pool, RequiredPool(r)))
  <2>1. RequiredPool(r) \in Int /\ RequiredPool(r) <= Len(r.pool)
    <3>1. Len(r.reference) \in Nat /\ Len(r.pool) \in Nat /\ r.target \in Int
      BY <1>2, BankIs DEF RefreshIs
    <3> QED BY <3>1 DEF RequiredPool, HasEnoughEntries
  <2> HIDE DEF r
  <2> QED BY <1>2, <2>1, BestOfKeeps DEF RefreshIs
<1>4. /\ IsBank(bank.entries) /\ AsGood(bank.entries, r.bank) /\ IsBank(reference.entries)
      /\ DOMAIN bank = {"capacity", "entries"} /\ DOMAIN reference = {"capacity", "entries"}
  <2>1. /\ bank.entries = r.bank \o BestOf(r.pool, RequiredPool(r))
        /\ reference.entries = r.reference \o BestOf(r.pool, RequiredPool(r))
        /\ DOMAIN bank = {"capacity", "entries"} /\ DOMAIN reference = {"capacity", "entries"}
    BY Zenon DEF RefreshedBank, RefreshedReference
  <2> HIDE DEF bank, reference, r
  <2> QED BY <1>2, <1>3, <2>1, JoinKeepsBest DEF RefreshIs
<1>5. IsProgress(p)
  <2>1. IsProgress(e.progress)
    BY DEF Good
  <2>2. \A a, x : IsProgress(ProgressCompleteRefresh(e.progress, pol, a, x))
    BY <2>1, ActionsKept DEF IsProgress, SameAction
  <2>3. \A x, y : IsProgress(x) => IsProgress(MaskedFor(x, y, pol))
    BY Zenon, ActionsKept DEF IsProgress, SameAction
  <2> HIDE DEF bank, reference
  <2> QED BY <2>2, <2>3
<1> HIDE DEF p, kind, c, reference, r, f
<1>6. b.entries = KeptFirst(bank.entries, Len(r.bank), kind) /\ "entries" \in DOMAIN b
  <2> HIDE DEF bank
  <2> QED BY <1>4
<1> HIDE DEF bank
<1>7. IsBank(b.entries) /\ AsGood(b.entries, bank.entries)
  BY <1>4, <1>6, MarksAre, MarksChangeNothing
<1> HIDE DEF b
<1>8. /\ DOMAIN g = Fields /\ g.progress = p /\ g.hot = e.hot /\ g.bank = b
      /\ g.reference = reference /\ g.refresh = NoRefresh
  BY DEF Good, Fields
<1> HIDE DEF g
<1>9. Good(g) /\ ~Refreshing(g)
  <2>1. HasBank(g)
    BY <1>6, <1>7, <1>8 DEF HasBank, Fields
  <2> QED BY <1>4, <1>5, <1>8, <2>1 DEF Good, Refreshing
<1>10. Keeps(g, f) /\ f.refresh = g.refresh
  BY <1>1, <1>9, IdleKeeps DEF SameOtherwise
<1>11. ASSUME r.bank # << >> \/ e.bank.entries = << >>
       PROVE  Improves(e, g)
  <2>1. CASE e.bank.entries = << >>
    BY <1>8, <1>9, <2>1, NoBank DEF Improves, Good
  <2>2. CASE r.bank # << >>
    <3>1. IsBank(e.bank.entries) /\ IsBank(r.bank) /\ AsGood(r.bank, e.bank.entries)
      BY <1>2, <2>2 DEF RefreshIs, Good, HasBank
    <3>2. AsGood(b.entries, r.bank)
      BY <1>4, <1>7, <3>1, AsGoodTrans
    <3> QED BY <1>7, <1>8, <1>9, <3>1, <3>2, AsGoodTrans DEF Improves, Good
  <2> QED BY <1>11, <2>1, <2>2
<1> QED BY <1>9, <1>10, <1>11, ImprovesTrans DEF Keeps, Good, Refreshing, f, r

LEMMA StagedKeeps ==
  ASSUME NEW e, Good(e), NEW pol
  PROVE  Keeps(e, Staged(e, pol))
<1> DEFINE i      == Idle(e)
           staged == Staged(e, pol)
<1>1. Keeps(e, i) /\ SameOtherwise(e, i) /\ i.progress = e.progress
  BY IdleKeeps
<1>2. staged = [i EXCEPT !.progress = [NextStage(@, pol) EXCEPT !.refreshMask = {}],
                         !.bank.entries = KeptAs(@, "no")]
  BY DEF Staged
<1> HIDE DEF i, staged
<1>3. /\ DOMAIN staged = Fields /\ staged.hot = i.hot /\ staged.reference = i.reference
      /\ staged.refresh = i.refresh
      /\ staged.progress = [NextStage(e.progress, pol) EXCEPT !.refreshMask = {}]
      /\ "entries" \in DOMAIN staged.bank /\ staged.bank.entries = KeptAs(i.bank.entries, "no")
  BY <1>1, <1>2 DEF SameOtherwise, Keeps, Good, HasBank, Fields
<1>4. IsProgress(staged.progress)
  <2>1. IsProgress(NextStage(e.progress, pol))
    BY ActionsKept DEF Good, IsProgress, SameAction
  <2> QED BY <1>3, <2>1 DEF IsProgress
<1>5. Keeps(i, staged)
  <2>1. SamePlaces(i.bank.entries, staged.bank.entries)
    BY <1>1, <1>3, MarksAre DEF Keeps, Good, HasBank
  <2>2. SameOtherwise(i, staged)
    BY <1>3, <1>4 DEF SameOtherwise
  <2> QED BY <1>1, <1>3, <2>1, <2>2, RelabelKeeps DEF Keeps
<1> QED BY <1>1, <1>5, KeepsTrans DEF Keeps, staged

(* The refresh that a stage which grows begins with. *)
Growing(e, pol) ==
  [Staged(e, pol) EXCEPT !.refresh = RefreshStateOf(Staged(e, pol), pol, TRUE),
                         !.progress = ProgressBeginRefresh(@)]

LEMMA GrowingKeeps ==
  ASSUME NEW e, Good(e), NEW pol \in Profiles
  PROVE  LET g == Growing(e, pol)
         IN  /\ Keeps(e, g) /\ Refreshing(g)
             /\ g.bank = Staged(e, pol).bank /\ g.reference = Staged(e, pol).reference
             /\ g.status = Staged(e, pol).status
             /\ g.refresh = RefreshStateOf(Staged(e, pol), pol, TRUE)
             /\ g.progress = ProgressBeginRefresh(Staged(e, pol).progress)
             /\ HasEnoughEntries(g.refresh) /\ g.bank.entries # << >> => g.refresh.bank # << >>
<1> DEFINE staged == Staged(e, pol)
           r      == RefreshStateOf(staged, pol, TRUE)
           grown  == Growing(e, pol)
<1>1. Keeps(e, staged) /\ Good(staged)
  BY StagedKeeps DEF Keeps
<1>2. grown = [staged EXCEPT !.refresh = r, !.progress = ProgressBeginRefresh(@)]
  BY DEF Growing
<1> HIDE DEF staged
<1>3. /\ RefreshIs(r, staged.bank.entries)
      /\ HasEnoughEntries(r) /\ staged.bank.entries # << >> => r.bank # << >>
  BY Zenon, <1>1, RefreshStateIs
<1> HIDE DEF r, grown
<1>4. /\ DOMAIN grown = Fields /\ grown.hot = staged.hot /\ grown.bank = staged.bank
      /\ grown.reference = staged.reference /\ grown.refresh = r /\ grown.status = staged.status
      /\ grown.progress = ProgressBeginRefresh(staged.progress)
  BY <1>1, <1>2 DEF Good, Fields
<1>5. IsProgress(grown.progress)
  BY <1>1, <1>4, ActionsKept DEF Good, IsProgress, SameAction
<1>6. HasBank(grown)
  BY <1>1, <1>4 DEF Good, HasBank, Fields
<1>7. Good(grown)
  BY <1>1, <1>3, <1>4, <1>5, <1>6 DEF Good
<1>8. Improves(staged, grown)
  BY <1>1, <1>4, <1>6, SameBankImproves DEF Good, Fields
<1>9. Keeps(e, grown)
  BY <1>1, <1>7, <1>8, KeepsTrans DEF Keeps
<1>10. Refreshing(grown)
  <2>1. DOMAIN r = {"target", "bank", "reference", "pool"}
    BY <1>3 DEF RefreshIs
  <2>2. r # NoRefresh
    BY <2>1 DEF NoRefresh
  <2> QED BY <1>4, <2>2 DEF Refreshing
<1> QED BY Zenon, <1>3, <1>4, <1>9, <1>10 DEF staged, r, grown

LEMMA StageKeeps ==
  ASSUME NEW e, Good(e), NEW pol \in Profiles
  PROVE  Keeps(e, BeginStage(e, pol))
<1> DEFINE grown == Growing(e, pol)
<1>1. Keeps(e, Staged(e, pol))
  BY StagedKeeps
<1>2. /\ Keeps(e, grown) /\ Good(grown) /\ Refreshing(grown)
      /\ HasEnoughEntries(grown.refresh) /\ grown.bank.entries # << >> => grown.refresh.bank # << >>
  BY Zenon, GrowingKeeps DEF Keeps
<1>3. \/ BeginStage(e, pol) = Staged(e, pol)
      \/ BeginStage(e, pol) = grown
      \/ BeginStage(e, pol) = CompleteRefresh(grown, pol) /\ HasEnoughEntries(grown.refresh)
  BY Zenon DEF BeginStage, CompletedIfEnough, Growing
<1> HIDE DEF grown
<1>4. HasEnoughEntries(grown.refresh) => Keeps(grown, CompleteRefresh(grown, pol))
  BY <1>2, CompleteKeeps
<1> QED BY <1>1, <1>2, <1>3, <1>4, KeepsTrans

LEMMA ActionKeeps ==
  ASSUME NEW e, Good(e), NEW pol \in Profiles
  PROVE  Keeps(e, ApplyAction(e, pol))
<1> DEFINE consumed == [e EXCEPT !.progress.action = "none"]
<1>1. SameOtherwise(e, consumed) /\ consumed.bank = e.bank
  BY DEF SameOtherwise, Good, IsProgress, Fields
<1> HIDE DEF consumed
<1>2. Keeps(e, consumed)
  BY <1>1, SameBankKeeps
<1>3. ApplyAction(e, pol) \in {BeginRefresh(consumed, pol), BeginStage(consumed, pol)}
  BY DEF ApplyAction, consumed
<1> QED BY <1>2, <1>3, RefreshKeeps, StageKeeps, KeepsTrans DEF Keeps

LEMMA CrossedKeepsBest ==
  ASSUME NEW e, Good(e), NEW pol \in Profiles
  PROVE  Keeps(e, Crossed(e, pol))
<1>1. Keeps(e, e)
  BY Zenon, SameBankKeeps DEF SameOtherwise, Good
<1> QED BY <1>1, ActionKeeps DEF Crossed
-----------------------------------------------------------------------------
(* An ask moves no entry. *)
LEMMA NextProposalsKeep ==
  ASSUME NEW e, Good(e), NEW pol, NEW m \in NextProposals(e, pol)
  PROVE  Keeps(e, m.eng)
<1>1. ASSUME NEW f, Good(f), NEW reason
      PROVE  Keeps(f, Sampled(f, reason).eng)
  <2> DEFINE g == Sampled(f, reason).eng
  <2>1. SameOtherwise(f, g) /\ g.bank = f.bank
    BY <1>1 DEF Sampled, SameOtherwise, Good, Fields
  <2> HIDE DEF g
  <2> QED BY <1>1, <2>1, SameBankKeeps DEF g
<1>2. ASSUME NEW f, Good(f)
      PROVE  Keeps(f, Issued(f).eng)
  <2> DEFINE g == Issued(f).eng
  <2>1. SameOtherwise(f, g) /\ g.bank = f.bank
    BY Zenon, <1>2 DEF Issued, SameOtherwise, Good, Fields
  <2> HIDE DEF g
  <2> QED BY <1>2, <2>1, SameBankKeeps DEF g
<1>3. ASSUME NEW g \in Materialized(e, pol)
      PROVE  Keeps(e, g)
  <2>1. PICK b : g = WithSeeds(e, b, pol)
    BY DEF Materialized
  <2>2. PICK q : /\ g = [e EXCEPT !.status = b.status,
                                   !.queue = Cardinality(b.seeds) * ChildrenPerSeed(e, pol),
                                   !.bank.entries = q]
                 /\ SamePlaces(e.bank.entries, q)
    BY Zenon, <2>1, MarksAre DEF WithSeeds, Good, HasBank
  <2>3. /\ SameOtherwise(e, g) /\ "entries" \in DOMAIN g.bank /\ g.bank.entries = q
    BY <2>2 DEF SameOtherwise, Good, HasBank, Fields
  <2> QED BY Zenon, <2>2, <2>3, RelabelKeeps
<1>4. \/ m = Sampled(e, "refresh_sample") \/ m = Sampled(e, "space_sample") \/ m = Issued(e)
      \/ \E g \in Materialized(e, pol) : m = Issued(g)
  BY DEF NextProposals
<1> QED BY Zenon, <1>1, <1>2, <1>3, <1>4, KeepsTrans DEF Keeps

LEMMA EmittedKeepsBest ==
  ASSUME NEW e, Good(e), NEW pol \in Profiles, NEW m \in Emitted(e, pol)
  PROVE  Keeps(e, m.eng)
<1>1. CASE HasAction(e)
  <2>1. Keeps(e, ApplyAction(e, pol)) /\ m \in NextProposals(ApplyAction(e, pol), pol)
    BY <1>1, ActionKeeps DEF Emitted
  <2> QED BY <2>1, NextProposalsKeep, KeepsTrans DEF Keeps
<1>2. CASE ~HasAction(e)
  BY <1>2, NextProposalsKeep DEF Emitted
<1> QED BY <1>1, <1>2

LEMMA AskStepKeepsBest ==
  ASSUME NEW e, Good(e), NEW pol \in Profiles, NEW results, \A r \in results : Keeps(e, r.eng),
         NEW r \in AskStep(results, pol)
  PROVE  Keeps(e, r.eng)
<1>1. PICK p \in results :
        r \in IF p.ended THEN {p}
              ELSE {[eng |-> m.eng, reasons |-> Noted(p.reasons, m.id, m.reason),
                     ended |-> m.tracks /\ m.eng.queue = 0] : m \in Emitted(p.eng, pol)}
  BY DEF AskStep
<1>2. CASE p.ended
  BY <1>1, <1>2
<1>3. CASE ~p.ended
  <2>1. PICK m \in Emitted(p.eng, pol) : r.eng = m.eng
    BY <1>1, <1>3
  <2>2. Keeps(e, p.eng) /\ Good(p.eng)
    BY DEF Keeps
  <2> QED BY <2>1, <2>2, EmittedKeepsBest, KeepsTrans
<1> QED BY <1>2, <1>3

LEMMA AskedKeepsBest ==
  ASSUME NEW e, Good(e), NEW pol \in Profiles, NEW count \in Nat, NEW f \in Asked(e, count, pol)
  PROVE  Keeps(e, f)
<1>1. PICK g : /\ IsAsking(g, AskStart(e), pol, 1..count)
               /\ Asked(e, count, pol) = {Registered(r, pol) : r \in g[1..count]}
  BY AskedIs
<1> DEFINE Ok(x) == \A r \in x : Keeps(e, r.eng)
           B     == {s \in SUBSET (1..count) : Ok(g[s])}
<1>2. Ok(AskStart(e))
  <2> DEFINE start == [eng |-> e, reasons |-> << >>, ended |-> FALSE]
  <2>1. start.eng = e /\ AskStart(e) = {start}
    BY DEF AskStart
  <2> HIDE DEF start
  <2>2. Keeps(e, e)
    BY Zenon, SameBankKeeps DEF SameOtherwise, Good
  <2> QED BY <2>1, <2>2
<1>3. \A x : Ok(x) => Ok(AskStep(x, pol))
  BY AskStepKeepsBest
<1> HIDE DEF Ok
<1>4. \A s \in SUBSET (1..count) :
        g[s] = IF s = {} THEN AskStart(e) ELSE AskStep(g[s \ {Max(s)}], pol)
  BY Zenon, <1>1 DEF IsAsking
<1>5. {} \in B
  BY <1>2, <1>4
<1>6. ASSUME NEW s \in SUBSET (1..count), s # {}, s \ {Max(s)} \in B
      PROVE  s \in B
  <2>1. Ok(g[s \ {Max(s)}])
    BY <1>6
  <2>2. Ok(AskStep(g[s \ {Max(s)}], pol))
    BY <1>3, <2>1
  <2> QED BY <1>4, <1>6, <2>2
<1>7. 1..count \in B
  <2>1. B \in SUBSET (SUBSET (1..count))
    OBVIOUS
  <2> HIDE DEF B
  <2> QED BY Zenon, <1>5, <1>6, <2>1, FromBelow
<1>8. PICK r \in g[1..count] : f = Registered(r, pol)
  BY <1>1
<1>9. Keeps(e, r.eng)
  BY <1>7 DEF Ok
<1>10. SameOtherwise(r.eng, f) /\ f.bank = r.eng.bank
  BY <1>8, <1>9 DEF Registered, SameOtherwise, Keeps, Good, Fields
<1> QED BY <1>9, <1>10, SameBankKeeps, KeepsTrans DEF Keeps
-----------------------------------------------------------------------------
(* A tell. *)
LEMMA UpdatedKeepsBest ==
  ASSUME NEW e, Good(e), ~Refreshing(e), NEW pol, KeepsProfile(pol),
         NEW evaluations, evaluations \in Seq(Evaluation), NEW lucks
  PROVE  LET f == Updated(e, evaluations, lucks, pol).eng
         IN  Keeps(e, f) /\ ~Refreshing(f)
<1> DEFINE s == [bank |-> e.bank, progress |-> e.progress, clusters |-> e.clusters,
                 growth |-> e.growth, met |-> 0, local |-> 0]
           observations == [i \in DOMAIN evaluations |->
                              [at |-> evaluations[i].at, id |-> evaluations[i].id, lucky |-> lucks[i]]]
           after == UpdateBatch(s, observations, e.hot, pol).shadow
           f == Updated(e, evaluations, lucks, pol).eng
           q == after.bank.entries
           aged == [i \in DOMAIN q |-> Aged(q[i])]
<1>1. /\ DOMAIN f = Fields /\ IsProgress(f.progress) /\ f.refresh = e.refresh
      /\ f.reference = e.reference /\ f.hot = e.hot
  <2> HIDE DEF s, observations, after, q, aged
  <2>1. DOMAIN e = Fields /\ IsProgress(e.progress)
    BY DEF Good
  <2> QED BY <2>1, UpdatedIs
<1>2. f.bank = [after.bank EXCEPT !.entries = aged]
  BY Zenon DEF Updated, Corrected, Good, Fields
<1>3. Improves(s, after)
  <2>1. HasBank(s) /\ s.bank = e.bank
    BY DEF Good, HasBank
  <2>2. /\ DOMAIN observations = 1..Len(evaluations) /\ Len(evaluations) \in Nat
        /\ \A k \in 1..Len(evaluations) : observations[k].at \in Positions
    <3>1. \A k \in 1..Len(evaluations) : evaluations[k] \in Evaluation
      OBVIOUS
    <3>2. \A k \in 1..Len(evaluations) : evaluations[k].at \in Positions
      BY <3>1 DEF Evaluation
    <3> QED BY <3>2
  <2> HIDE DEF s, observations
  <2> QED BY Zenon, <2>1, <2>2, UpdateImproves DEF Good, KeepsProfile
<1>4. s.bank = e.bank
  OBVIOUS
<1> HIDE DEF s, after, f
<1>5. "entries" \in DOMAIN f.bank /\ f.bank.entries = aged
  BY <1>2, <1>3 DEF Improves, HasBank
<1>6. SamePlaces(q, aged)
  <2>1. \A i \in DOMAIN q : "at" \in DOMAIN q[i]
    BY <1>3, BankIs DEF Improves, HasBank, HasPlace
  <2> QED BY <2>1 DEF SamePlaces, Aged
<1> HIDE DEF aged
<1>7. IsBank(aged) /\ AsGood(aged, q)
  BY <1>3, <1>6, MarksChangeNothing DEF Improves, HasBank
<1>8. IsBank(q) /\ AsGood(q, e.bank.entries)
  BY <1>3, <1>4 DEF Improves, HasBank
<1>9. Improves(e, f)
  BY <1>1, <1>5, <1>7, <1>8, AsGoodTrans DEF Improves, HasBank, Good, Fields
<1> QED BY <1>1, <1>9 DEF Keeps, Good, Improves, Refreshing, f

LEMMA WithReferenceKeepsBest ==
  ASSUME NEW e, Good(e), ~Refreshing(e), NEW pol
  PROVE  Keeps(e, WithReference(e, pol)) /\ ~Refreshing(WithReference(e, pol))
<1> DEFINE q      == e.bank.entries
           sorted == SortedByValue(q)
           plain  == KeptAs(Unseeded(sorted), "no")
           f      == WithReference(e, pol)
<1>1. IsBank(sorted) /\ AsGood(sorted, q)
  BY SortKeepsBest DEF Good, HasBank
<1>2. IsBank(plain)
  BY <1>1, MarksAre, MarksChangeNothing
<1>3. \/ f = e
      \/ \E c : f = [e EXCEPT !.bank.entries = sorted,
                              !.reference = [capacity |-> e.bank.capacity, entries |-> plain],
                              !.clusters = c]
  BY Zenon DEF WithReference
<1> HIDE DEF sorted, plain, f
<1>4. CASE f = e
  BY Zenon, <1>4, SameBankKeeps DEF SameOtherwise, Good, f
<1>5. CASE f # e
  <2>1. /\ DOMAIN f = Fields /\ f.progress = e.progress /\ f.hot = e.hot /\ f.refresh = e.refresh
        /\ "entries" \in DOMAIN f.bank /\ f.bank.entries = sorted
        /\ "entries" \in DOMAIN f.reference /\ f.reference.entries = plain
    <3>1. PICK c : f = [e EXCEPT !.bank.entries = sorted,
                                 !.reference = [capacity |-> e.bank.capacity, entries |-> plain],
                                 !.clusters = c]
      BY Zenon, <1>3, <1>5
    <3>2. DOMAIN e = Fields /\ "entries" \in DOMAIN e.bank
      BY DEF Good, HasBank
    <3> QED BY <3>1, <3>2 DEF Fields
  <2>2. Improves(e, f)
    BY <1>1, <2>1 DEF Improves, HasBank, Fields
  <2> QED BY <1>2, <2>1, <2>2 DEF Keeps, Good, Improves, Refreshing, f
<1> QED BY <1>4, <1>5

(* The end of a cycle, before a boundary is crossed. *)
CycleOver(e, pol) ==
  [e EXCEPT !.status = [i \in 1 .. Len(e.bank.entries) |-> FALSE],
            !.bank.entries = Released(@),
            !.progress = RequestBoundary([@ EXCEPT !.refreshMask = {}], pol)]

LEMMA CycleKeepsBest ==
  ASSUME NEW e, Good(e), NEW pol
  PROVE  Keeps(e, CycleOver(e, pol))
<1> DEFINE p     == RequestBoundary([e.progress EXCEPT !.refreshMask = {}], pol)
           ended == CycleOver(e, pol)
<1>1. IsProgress(p)
  BY DEF IsProgress, RequestBoundary, Good
<1>2. /\ DOMAIN ended = Fields /\ ended.progress = p /\ ended.hot = e.hot
      /\ ended.reference = e.reference /\ ended.refresh = e.refresh
      /\ "entries" \in DOMAIN ended.bank /\ ended.bank.entries = Released(e.bank.entries)
  BY DEF CycleOver, Good, HasBank, Fields
<1> HIDE DEF ended, p
<1>3. SamePlaces(e.bank.entries, ended.bank.entries)
  BY <1>2, MarksAre DEF Good, HasBank
<1>4. SameOtherwise(e, ended)
  BY <1>1, <1>2 DEF SameOtherwise
<1> QED BY <1>2, <1>3, <1>4, RelabelKeeps DEF ended

LEMMA AdvancedKeepsBest ==
  ASSUME NEW e, Good(e), NEW pol \in Profiles, NEW met, NEW local
  PROVE  Keeps(e, Advanced(e, met, local, pol))
<1> DEFINE unused == UnusedCount(e.status, Len(e.bank.entries), SeedMask(e.progress))
           next   == AdvanceCutoff(e.progress, pol, ScoreGap(e.bank.entries), unused, local, met)
           moved  == [e EXCEPT !.progress = next.progress]
<1>1. IsProgress(next.progress)
  BY Zenon DEF IsProgress, AdvanceCutoff, Good
<1>2. Advanced(e, met, local, pol) \in {moved, Crossed(CycleOver(moved, pol), pol)}
  BY DEF Advanced, CycleEnded, CycleOver
<1> HIDE DEF next
<1>3. SameOtherwise(e, moved) /\ moved.bank = e.bank
  BY <1>1 DEF SameOtherwise, Good, Fields
<1> HIDE DEF moved
<1>4. Keeps(e, moved)
  BY <1>3, SameBankKeeps
<1> QED BY <1>2, <1>4, CycleKeepsBest, CrossedKeepsBest, KeepsTrans DEF Keeps

LEMMA ReconciledKeepsBest ==
  ASSUME NEW batch, NEW pol, KeepsProfile(pol), NEW updated, NEW committed, NEW advances,
         Good(batch.eng), ~Refreshing(batch.eng)
  PROVE  Keeps(batch.eng, Reconciled(batch, updated, committed, advances, pol))
<1> DEFINE e      == batch.eng
           synced == WithReference(e, pol)
           grown  == WithGrowth(synced, pol)
<1>1. Keeps(e, synced)
  BY WithReferenceKeepsBest
<1> HIDE DEF synced
<1>2. Keeps(synced, grown)
  <2>1. PICK g : grown = [synced EXCEPT !.growth = g]
    BY Zenon DEF WithGrowth
  <2> HIDE DEF grown
  <2>2. SameOtherwise(synced, grown) /\ grown.bank = synced.bank
    BY <1>1, <2>1 DEF SameOtherwise, Keeps, Good, Fields
  <2> QED BY <1>1, <2>2, SameBankKeeps DEF Keeps
<1>3. ASSUME NEW f, Good(f)
      PROVE  Keeps(f, Settled(f, batch, committed, advances, pol))
  <2>1. Keeps(f, Crossed(f, pol))
    BY <1>3, CrossedKeepsBest DEF KeepsProfile
  <2>2. Keeps(f, Moved(f, batch, advances, pol))
    <3>1. Keeps(f, f)
      BY Zenon, <1>3, SameBankKeeps DEF SameOtherwise, Good
    <3> QED BY <1>3, <3>1, AdvancedKeepsBest DEF Moved, KeepsProfile
  <2>3. ASSUME NEW g, Good(g)
        PROVE  Keeps(g, Cooled(g, pol))
    <3>1. SameOtherwise(g, Cooled(g, pol)) /\ Cooled(g, pol).bank = g.bank
      BY Zenon, <2>3 DEF Cooled, SameOtherwise, Good, KeepsProfile, Fields
    <3> QED BY <2>3, <3>1, SameBankKeeps
  <2>4. Keeps(f, Cooled(Moved(f, batch, advances, pol), pol))
    BY <1>3, <2>2, <2>3, KeepsTrans DEF Keeps
  <2> QED BY <2>1, <2>2, <2>4 DEF Settled
<1>4. Reconciled(batch, updated, committed, advances, pol)
        \in {Settled(synced, batch, committed, advances, pol), Settled(grown, batch, committed, advances, pol)}
  BY DEF Reconciled, synced
<1> HIDE DEF grown, e
<1>5. Keeps(e, grown)
  BY <1>1, <1>2, KeepsTrans DEF e
<1> QED BY <1>1, <1>3, <1>4, <1>5, KeepsTrans DEF Keeps, e

LEMMA CommittedKeepsBest ==
  ASSUME NEW e, Good(e), ~Refreshing(e), NEW pol, KeepsProfile(pol),
         NEW evaluations, evaluations \in Seq(Evaluation), NEW committed, NEW advances, NEW lucks
  PROVE  Keeps(e, Committed(e, evaluations, committed, advances, lucks, pol))
<1> DEFINE batch == Updated(e, evaluations, lucks, pol)
<1>1. Keeps(e, batch.eng) /\ ~Refreshing(batch.eng)
  BY UpdatedKeepsBest
<1> HIDE DEF batch
<1>2. Keeps(batch.eng, Reconciled(batch, evaluations # << >>, committed, advances, pol))
  BY <1>1, ReconciledKeepsBest DEF Keeps
<1> QED BY <1>1, <1>2, KeepsTrans DEF Committed, batch

(* A refresh that preserves nothing is the one step that may lose the best. *)
Preserves(e) == ~(Refreshing(e) /\ e.refresh.bank = << >>)

KeepsUnlessReset(e, f) == Good(f) /\ (Preserves(e) => Improves(e, f))

(* A refresh in progress with what it is told in its pool. *)
PoolOf(told) == [i \in DOMAIN told |-> Entry(told[i].at, 0)]

Collected(e, told) ==
  [e EXCEPT !.refresh.pool = @ \o PoolOf(told),
            !.pending = @ \ IdsOf(told),
            !.attribution = Forget(@, IdsOf(told)),
            !.owed = @ \ IdsOf(told)]

LEMMA RefreshToldIs ==
  ASSUME NEW e, NEW pol, NEW told
  PROVE  LET after == Collected(e, told)
         IN  RefreshTold(e, told, pol)
               = IF HasEnoughEntries(after.refresh) /\ after.pending = {}
                 THEN CompleteRefresh(after, pol) ELSE after
  BY DEF RefreshTold, Collected, PoolOf

LEMMA CollectedIs ==
  ASSUME NEW e, Good(e), Refreshing(e), NEW told, told \in Seq(Evaluation)
  PROVE  LET after == Collected(e, told)
         IN  /\ Good(after) /\ Refreshing(after) /\ Improves(e, after)
             /\ after.progress = e.progress
             /\ DOMAIN after.refresh = {"target", "bank", "reference", "pool"}
             /\ after.refresh.target = e.refresh.target /\ after.refresh.bank = e.refresh.bank
             /\ after.refresh.reference = e.refresh.reference
             /\ after.refresh.pool = e.refresh.pool \o PoolOf(told)
<1> DEFINE pool  == PoolOf(told)
           after == Collected(e, told)
           r     == e.refresh
<1>1. IsBank(pool)
  <2>1. Len(told) \in Nat /\ DOMAIN told = 1 .. Len(told)
        /\ \A i \in 1 .. Len(told) : told[i] \in Evaluation
    OBVIOUS
  <2>2. \A i \in 1 .. Len(told) : HasPlace(Entry(told[i].at, 0))
    BY <2>1 DEF Evaluation, Entry, HasPlace
  <2>3. pool = [i \in 1 .. Len(told) |-> pool[i]] /\ \A i \in 1 .. Len(told) : HasPlace(pool[i])
    BY <2>1, <2>2 DEF PoolOf
  <2> HIDE DEF pool
  <2> QED BY <2>1, <2>3, MakesBank
<1>2. RefreshIs(r, e.bank.entries)
  BY DEF Good
<1> HIDE DEF pool
<1>3. /\ DOMAIN after = Fields /\ after.progress = e.progress /\ after.hot = e.hot
      /\ after.bank = e.bank /\ after.reference = e.reference
      /\ after.refresh = [r EXCEPT !.pool = @ \o pool]
  BY DEF Good, Fields, Collected, pool
<1> HIDE DEF after
<1>4. IsBank(r.pool \o pool)
  BY <1>1, <1>2, JoinKeepsBest DEF RefreshIs
<1>5. /\ DOMAIN after.refresh = {"target", "bank", "reference", "pool"}
      /\ after.refresh.target = r.target /\ after.refresh.bank = r.bank
      /\ after.refresh.reference = r.reference /\ after.refresh.pool = r.pool \o pool
  BY Zenon, <1>2, <1>3 DEF RefreshIs
<1>6. RefreshIs(after.refresh, after.bank.entries)
  BY <1>2, <1>3, <1>4, <1>5 DEF RefreshIs
<1>7. HasBank(after)
  BY <1>3 DEF Good, HasBank, Fields
<1>8. Good(after) /\ Refreshing(after)
  <2>1. after.refresh # NoRefresh
    BY <1>5 DEF NoRefresh
  <2> QED BY <1>3, <1>6, <1>7, <2>1 DEF Good, Refreshing
<1>9. Improves(e, after)
  BY <1>3, <1>7, SameBankImproves DEF Good, HasBank
<1> QED BY <1>3, <1>5, <1>8, <1>9 DEF after, pool

LEMMA RefreshToldKeepsBest ==
  ASSUME NEW e, Good(e), Refreshing(e), NEW pol, NEW told, told \in Seq(Evaluation)
  PROVE  KeepsUnlessReset(e, RefreshTold(e, told, pol))
<1> DEFINE after == Collected(e, told)
<1>1. /\ Good(after) /\ Refreshing(after) /\ Improves(e, after)
      /\ after.refresh.bank = e.refresh.bank
  BY CollectedIs
<1>2. RefreshTold(e, told, pol)
        = IF HasEnoughEntries(after.refresh) /\ after.pending = {} THEN CompleteRefresh(after, pol) ELSE after
  BY RefreshToldIs
<1> HIDE DEF after
<1>3. HasEnoughEntries(after.refresh) =>
        KeepsUnlessReset(e, CompleteRefresh(after, pol))
  <2> SUFFICES ASSUME HasEnoughEntries(after.refresh)
               PROVE  KeepsUnlessReset(e, CompleteRefresh(after, pol))
    OBVIOUS
  <2>1. /\ Good(CompleteRefresh(after, pol))
        /\ after.refresh.bank # << >> => Improves(after, CompleteRefresh(after, pol))
    BY <1>1, CompleteKeeps DEF Keeps
  <2> QED BY <1>1, <2>1, ImprovesTrans DEF KeepsUnlessReset, Preserves, Good
<1>4. KeepsUnlessReset(e, after)
  BY <1>1 DEF KeepsUnlessReset
<1> QED BY <1>2, <1>3, <1>4

LEMMA ToldKeepsBest ==
  ASSUME NEW e, Good(e), e.buffer \in Seq(Evaluation), NEW pol, KeepsProfile(pol),
         NEW told, told \in Seq(Evaluation), NEW lucks
  PROVE  KeepsUnlessReset(e, Told(e, told, lucks, pol))
<1> DEFINE seen == Seen(e, told)
           kept == Kept(e, told)
           free == Freed(e, told)
           advances == Advances(e, told)
<1>1. CASE Refreshing(e)
  BY <1>1, RefreshToldKeepsBest DEF Told
<1>2. CASE ~Refreshing(e)
  <2>1. /\ SameOtherwise(e, seen) /\ seen.bank = e.bank /\ seen.buffer = e.buffer
    BY DEF SameOtherwise, Good, Fields, Seen
  <2>2. /\ SameOtherwise(e, kept) /\ kept.bank = e.bank /\ kept.buffer = e.buffer \o told
    BY <2>1 DEF SameOtherwise, Fields, Kept
  <2>3. /\ SameOtherwise(e, free) /\ free.bank = e.bank
    BY <2>2 DEF SameOtherwise, Fields, Freed
  <2>4. Keeps(e, seen) /\ Keeps(e, kept) /\ Keeps(e, free)
    BY <2>1, <2>2, <2>3, SameBankKeeps
  <2>5. ~Refreshing(seen) /\ ~Refreshing(free)
    BY <1>2, <2>1, <2>3 DEF SameOtherwise, Refreshing
  <2>6. kept.buffer \in Seq(Evaluation)
    BY <2>2
  <2>7. \/ Told(e, told, lucks, pol) = kept
        \/ Told(e, told, lucks, pol) = CommitOfBuffer(e, told, lucks, pol)
        \/ Told(e, told, lucks, pol) = CommitOfTold(e, told, lucks, pol)
    BY <1>2, ToldIs
  <2> HIDE DEF seen, kept, free, advances
  <2>8. \A committed : /\ Keeps(free, Committed(free, kept.buffer, committed, advances, lucks, pol))
                       /\ Keeps(seen, Committed(seen, told, committed, advances, lucks, pol))
    BY <2>4, <2>5, <2>6, CommittedKeepsBest DEF Keeps
  <2>9. /\ Keeps(free, CommitOfBuffer(e, told, lucks, pol))
        /\ Keeps(seen, CommitOfTold(e, told, lucks, pol))
    BY Zenon, <2>8 DEF CommitOfBuffer, CommitOfTold, seen, kept, free, advances
  <2>10. Keeps(e, Told(e, told, lucks, pol))
    BY <2>4, <2>7, <2>9, KeepsTrans
  <2> QED BY <2>10 DEF Keeps, KeepsUnlessReset
<1> QED BY <1>1, <1>2

LEMMA ToldAttemptsKeepsBest ==
  ASSUME NEW e, Good(e), e.buffer \in Seq(Evaluation), NEW pol, KeepsProfile(pol),
         NEW told, told \in Seq(Evaluation), NEW failures, NEW lucks
  PROVE  KeepsUnlessReset(e, ToldAttempts(e, told, failures, lucks, pol))
<1> DEFINE rest == Failed(e, failures)
<1>1. SameOtherwise(e, rest) /\ rest.bank = e.bank /\ rest.buffer = e.buffer
  BY DEF Failed, SameOtherwise, Good, Fields
<1> HIDE DEF rest
<1>2. Keeps(e, rest)
  BY <1>1, SameBankKeeps
<1>3. KeepsUnlessReset(rest, Told(rest, told, lucks, pol))
  BY <1>1, <1>2, ToldKeepsBest DEF Keeps
<1>4. Preserves(rest) = Preserves(e)
  BY <1>1 DEF Preserves, Refreshing, SameOtherwise
<1>5. KeepsUnlessReset(e, Told(rest, told, lucks, pol))
  BY <1>2, <1>3, <1>4, ImprovesTrans DEF Keeps, KeepsUnlessReset, Good
<1>6. KeepsUnlessReset(e, rest)
  BY <1>2 DEF Keeps, KeepsUnlessReset
<1> QED BY <1>5, <1>6 DEF ToldAttempts, rest
-----------------------------------------------------------------------------
LEMMA NewEngineIsGood ==
  ASSUME NEW pol, KeepsProfile(pol)
  PROVE  Good(NewEngine(pol))
<1> DEFINE e == NewEngine(pol)
<1>1. /\ DOMAIN e = Fields /\ e.progress = InitialProgress(pol) /\ e.refresh = NoRefresh
      /\ e.bank = EmptyBank(pol.capacity) /\ e.reference = EmptyBank(pol.capacity)
      /\ e.hot = (pol.hot = "always")
  BY DEF NewEngine, Fields
<1>2. "entries" \in DOMAIN EmptyBank(pol.capacity) /\ EmptyBank(pol.capacity).entries = << >>
  BY DEF EmptyBank
<1>3. IsProgress(InitialProgress(pol))
  BY DEF IsProgress, InitialProgress
<1> HIDE DEF e
<1>4. HasBank(e)
  BY <1>1, <1>2, NoBank DEF HasBank, Fields
<1>5. Good(e)
  BY Zenon, <1>1, <1>2, <1>3, <1>4, NoBank DEF Good, Refreshing, KeepsProfile
<1> QED BY <1>5 DEF e

\* The best of a bank that is as good is no worse.
LEMMA BestIsNoWorse ==
  ASSUME NEW p, NEW q, IsBank(p), IsBank(q), AsGood(p, q), q # << >>
  PROVE  p # << >> /\ SmallestOf(Values(p)) <= SmallestOf(Values(q))
<1>1. ASSUME NEW s, IsBank(s), s # << >>
      PROVE  /\ \E i \in DOMAIN s : SmallestOf(Values(s)) = ValueOf(s[i])
             /\ \A i \in DOMAIN s : SmallestOf(Values(s)) <= ValueOf(s[i])
  <2>1. 0 \in 0 .. (Len(s) - 1)
    BY <1>1, BankIs
  <2>2. PICK k \in DOMAIN s : Rank(s, k) = 0
    BY <1>1, <2>1, Ranks
  <2>3. \A i \in DOMAIN s : ValueOf(s[k]) <= ValueOf(s[i])
    BY <1>1, <2>2, Ranks
  <2>4. ValueOf(s[k]) \in Values(s) /\ \A y \in Values(s) : ValueOf(s[k]) <= y
    BY <2>2, <2>3 DEF Values
  <2>5. SmallestOf(Values(s)) \in Values(s) /\ \A y \in Values(s) : SmallestOf(Values(s)) <= y
    BY <2>4 DEF SmallestOf
  <2> QED BY Zenon, <2>5 DEF Values
<1>2. PICK i \in DOMAIN q : SmallestOf(Values(q)) = ValueOf(q[i])
  BY <1>1
<1>3. PICK j \in DOMAIN p : ValueOf(p[j]) <= ValueOf(q[i])
  BY DEF AsGood
<1>4. p # << >>
  BY <1>3
<1>5. SmallestOf(Values(p)) <= ValueOf(p[j]) /\ \E k \in DOMAIN p : SmallestOf(Values(p)) = ValueOf(p[k])
  BY <1>1, <1>4
<1>6. \A k \in DOMAIN p : ValueOf(p[k]) \in Int
  BY BankIs
<1>7. ValueOf(q[i]) \in Int
  BY BankIs
<1> QED BY <1>2, <1>3, <1>4, <1>5, <1>6, <1>7

(* What a call does to the engine, as facts of states. *)
AskKeepsBest(pol) ==
  \A e : Good(e) => \A count \in Nat : \A f \in Asked(e, count, pol) : KeepsUnlessReset(e, f)

TellKeepsBest(pol) ==
  \A e, told, lucks :
    Good(e) /\ e.buffer \in Seq(Evaluation) /\ told \in Seq(Evaluation) =>
      KeepsUnlessReset(e, Told(e, told, lucks, pol))

TellAttemptsKeepBest(pol) ==
  \A e, told, failures, lucks :
    Good(e) /\ e.buffer \in Seq(Evaluation) /\ told \in Seq(Evaluation) =>
      KeepsUnlessReset(e, ToldAttempts(e, told, failures, lucks, pol))

LEMMA CallsKeepBest ==
  \A pol : KeepsProfile(pol) => AskKeepsBest(pol) /\ TellKeepsBest(pol) /\ TellAttemptsKeepBest(pol)
<1> SUFFICES ASSUME NEW pol, KeepsProfile(pol)
             PROVE  AskKeepsBest(pol) /\ TellKeepsBest(pol) /\ TellAttemptsKeepBest(pol)
  OBVIOUS
<1>1. AskKeepsBest(pol)
  <2>1. pol \in Profiles
    BY DEF KeepsProfile
  <2> QED BY <2>1, AskedKeepsBest DEF AskKeepsBest, Keeps, KeepsUnlessReset
<1>2. TellKeepsBest(pol)
  BY ToldKeepsBest DEF TellKeepsBest
<1>3. TellAttemptsKeepBest(pol)
  BY ToldAttemptsKeepsBest DEF TellAttemptsKeepBest
<1> QED BY <1>1, <1>2, <1>3

\* The invariant that keeps the best.
BankHolds == prof \in Profiles /\ (KeepsProfile(prof) => Good(eng))

LEMMA BankStep ==
  EngineHolds /\ BankHolds /\ [CsaNext]_csaVars
    => BankHolds' /\ (KeepsProfile(prof) => (UNCHANGED csaVars \/ KeepsUnlessReset(eng, eng')))
<1> SUFFICES ASSUME EngineHolds, BankHolds, [CsaNext]_csaVars
             PROVE  BankHolds' /\ (KeepsProfile(prof) => UNCHANGED csaVars \/ KeepsUnlessReset(eng, eng'))
  OBVIOUS
<1>1. Shape(eng) /\ eng.buffer \in Seq(Evaluation)
  BY DEF EngineHolds, EngineInv, Shape
<1>2. ASSUME prof' = prof, KeepsProfile(prof) => KeepsUnlessReset(eng, eng')
      PROVE  BankHolds' /\ (KeepsProfile(prof) => UNCHANGED csaVars \/ KeepsUnlessReset(eng, eng'))
  BY <1>2 DEF BankHolds, KeepsUnlessReset
<1>3. KeepsProfile(prof) => Good(eng) /\ AskKeepsBest(prof) /\ TellKeepsBest(prof) /\ TellAttemptsKeepBest(prof)
  BY CallsKeepBest DEF BankHolds
<1>4. CASE Ask
  <2>1. PICK count \in 1 .. MaxBatch : eng' \in Asked(eng, count, prof) /\ prof' = prof
    BY <1>4 DEF Ask
  <2>2. count \in Nat
    OBVIOUS
  <2>3. KeepsProfile(prof) => KeepsUnlessReset(eng, eng')
    BY <1>3, <2>1, <2>2 DEF AskKeepsBest
  <2> QED BY <1>2, <2>1, <2>3
<1>5. CASE Tell
  <2>1. PICK ids \in SUBSET eng.pending : \E told \in Evaluations(eng, ids) :
          \E lucks \in Lucks(eng, told) : eng' = Told(eng, told, lucks, prof) /\ prof' = prof
    BY <1>5 DEF Tell
  <2>2. PICK told \in Evaluations(eng, ids) : \E lucks \in Lucks(eng, told) :
          eng' = Told(eng, told, lucks, prof) /\ prof' = prof
    BY <2>1
  <2>3. PICK lucks : eng' = Told(eng, told, lucks, prof) /\ prof' = prof
    BY <2>2
  <2>4. told \in Seq(Evaluation)
    BY <1>1, ToldAreEvaluations
  <2>5. KeepsProfile(prof) => KeepsUnlessReset(eng, eng')
    BY <1>1, <1>3, <2>3, <2>4 DEF TellKeepsBest
  <2> QED BY <1>2, <2>3, <2>5
<1>6. CASE TellAttempts
  <2>1. PICK failures \in SUBSET eng.pending : \E ids \in SUBSET (eng.pending \ failures) :
          \E told \in Evaluations(eng, ids) : \E lucks \in Lucks(eng, told) :
            eng' = ToldAttempts(eng, told, failures, lucks, prof) /\ prof' = prof
    BY <1>6 DEF TellAttempts
  <2>2. PICK ids \in SUBSET (eng.pending \ failures) :
          \E told \in Evaluations(eng, ids) : \E lucks \in Lucks(eng, told) :
            eng' = ToldAttempts(eng, told, failures, lucks, prof) /\ prof' = prof
    BY <2>1
  <2>3. PICK told \in Evaluations(eng, ids) : \E lucks \in Lucks(eng, told) :
          eng' = ToldAttempts(eng, told, failures, lucks, prof) /\ prof' = prof
    BY <2>2
  <2>4. PICK lucks : eng' = ToldAttempts(eng, told, failures, lucks, prof) /\ prof' = prof
    BY <2>3
  <2>5. told \in Seq(Evaluation)
    BY <1>1, ToldAreEvaluations
  <2>6. KeepsProfile(prof) => KeepsUnlessReset(eng, eng')
    BY <1>1, <1>3, <2>4, <2>5 DEF TellAttemptsKeepBest
  <2> QED BY <1>2, <2>4, <2>6
<1>7. CASE UNCHANGED csaVars
  BY <1>7 DEF csaVars, BankHolds
<1> QED BY <1>4, <1>5, <1>6, <1>7 DEF CsaNext

(* BestKept, for every profile whose temperature stays zero and that replaces
   only the entry it compared: each replacement, growth, energy cut, sorting,
   stage and preserving refresh leaves the best value in the bank or a better
   one (admit_full_bank_observation, reduce_bank_by_energy_cut, complete_refresh). *)
THEOREM BestIsKept == CsaSpec => BestKept
<1> DEFINE Step == prof.hot = "never" /\ prof.clustering # "largest"
                   /\ eng.bank.entries # << >> /\ ~(Refreshing(eng) /\ eng.refresh.bank = << >>)
                   => /\ eng'.bank.entries # << >>
                      /\ SmallestOf(Values(eng'.bank.entries)) <= SmallestOf(Values(eng.bank.entries))
<1>1. CsaInit => EngineHolds /\ BankHolds
  <2> SUFFICES ASSUME CsaInit
               PROVE  EngineHolds /\ BankHolds
    OBVIOUS
  <2>1. eng = NewEngine(prof) /\ prof \in Profiles
    BY DEF CsaInit
  <2>2. EngineHolds
    BY <2>1, NewEngineIsTrue DEF EngineHolds
  <2> QED BY <2>1, <2>2, NewEngineIsGood DEF BankHolds
<1>2. EngineHolds /\ BankHolds /\ [CsaNext]_csaVars => (EngineHolds /\ BankHolds)'
  BY EngineStep, BankStep
<1>3. EngineHolds /\ BankHolds /\ [CsaNext]_csaVars => [Step]_csaVars
  <2> SUFFICES ASSUME EngineHolds, BankHolds, [CsaNext]_csaVars, ~UNCHANGED csaVars,
                      prof.hot = "never", prof.clustering # "largest",
                      eng.bank.entries # << >>, Preserves(eng)
               PROVE  /\ eng'.bank.entries # << >>
                      /\ SmallestOf(Values(eng'.bank.entries)) <= SmallestOf(Values(eng.bank.entries))
    BY DEF Preserves
  <2>1. KeepsProfile(prof) /\ Good(eng)
    BY DEF BankHolds, KeepsProfile
  <2>2. KeepsUnlessReset(eng, eng')
    BY <2>1, BankStep
  <2>3. /\ IsBank(eng.bank.entries) /\ IsBank(eng'.bank.entries)
        /\ AsGood(eng'.bank.entries, eng.bank.entries)
    BY <2>1, <2>2 DEF KeepsUnlessReset, Improves, Good, HasBank
  <2> QED BY <2>3, BestIsNoWorse
<1>4. CsaSpec => [][Step]_csaVars
  <2> HIDE DEF Step
  <2> QED BY <1>1, <1>2, <1>3, PTL DEF CsaSpec
<1> QED BY <1>4 DEF BestKept

-----------------------------------------------------------------------------
(* DistanceWorkspace *)

(***************************************************************************)
(* The inductive invariant                                                 *)
(***************************************************************************)
RowsOk(rs, n, rev, last) ==
  /\ DOMAIN rs = 1 .. n /\ Len(rs) = n
  /\ \A i \in 1 .. n : /\ rs[i].revision \in Int /\ rs[i].revision <= rev
                       /\ rs[i].name \in Int /\ rs[i].name <= last

(* What a row answers for a pair is the distance of the pair. *)
RightRows(bank, rs) ==
  \A l, r \in DOMAIN rs :
    l < r /\ Cached(rs, l, r)
      => rs[Owner(rs, l, r)].dist[Other(rs, l, r)] = Metric(bank[l], bank[r])

KnowsMore(old, new) ==
  /\ new.revision = old.revision
  /\ DOMAIN old.dist \subseteq DOMAIN new.dist
  /\ \A k \in DOMAIN old.dist : new.dist[k] = old.dist[k]

WereNear(s, i) ==
  {p \in PairsOf(Len(s.rows)) : i \in {p[1], p[2]} /\ WereNeighbours(s, p[1], p[2])}

(* A snapshot knows all of its own pairs, counted them, and shares with the
   rows in use those that have the same name. *)
SnapshotOk(s, last) ==
  /\ Len(s.rows) \in Nat /\ DOMAIN s.rows = 1 .. Len(s.rows) /\ Len(s.counts) = Len(s.rows)
  /\ \A i \in 1 .. Len(s.rows) : s.rows[i].name \in Int /\ s.rows[i].name <= last
  /\ \A p \in PairsOf(Len(s.rows)) : Cached(s.rows, p[1], p[2])
  /\ \A i \in 1 .. Len(s.rows) : s.counts[i] = Cardinality(WereNear(s, i))

Shared(s, rs) ==
  /\ Len(s.rows) <= Len(rs)
  /\ \A i \in 1 .. Len(s.rows) : s.rows[i].name = rs[i].name => KnowsMore(s.rows[i], rs[i])

RowsTrue == RowsOk(rows, Len(entries), revision, made) /\ RightRows(entries, rows)

SnapshotTrue == rows # << >> /\ SnapshotOk(snapshot, made) /\ Shared(snapshot, rows)

WsInv ==
  /\ entries \in Seq(Items) /\ Len(entries) >= 1 /\ revision \in Nat /\ made \in Nat
  /\ rows # << >> => RowsTrue
  /\ snapshot # NoSnapshot => SnapshotTrue

(***************************************************************************)
(* Distances and rows                                                      *)
(***************************************************************************)
LEMMA MetricSymmetric ==
  ASSUME NEW a \in Items, NEW b \in Items
  PROVE  Metric(a, b) = Metric(b, a)
  BY WorkspaceAssumption

LEMMA PairsFinite ==
  ASSUME NEW n \in Nat
  PROVE  IsFiniteSet(PairsOf(n))
<1>1. IsFiniteSet((1 .. n) \X (1 .. n))
  <2>1. IsFiniteSet(1 .. n)
    BY FS_Interval
  <2> QED
    BY <2>1, FS_Product
<1> QED
  BY <1>1, FS_Subset DEF PairsOf

LEMMA RowFields ==
  ASSUME NEW rev, NEW name, NEW dist
  PROVE  /\ Row(rev, name, dist).revision = rev /\ Row(rev, name, dist).name = name
         /\ Row(rev, name, dist).dist = dist
  BY DEF Row

LEMMA ExtendedKnowsMore ==
  ASSUME NEW row, NEW i, NEW new
  PROVE  /\ KnowsMore(row, Extended(row, i, new)) /\ Extended(row, i, new).name = row.name
         /\ DOMAIN Extended(row, i, new).dist = DOMAIN row.dist \cup new
         /\ \A k \in new \ DOMAIN row.dist : Extended(row, i, new).dist[k] = Fresh(i, k)
  BY RowFields DEF Extended, KnowsMore

LEMMA KnowsMoreTrans ==
  ASSUME NEW a, NEW b, NEW c, KnowsMore(a, b), KnowsMore(b, c)
  PROVE  KnowsMore(a, c)
  BY DEF KnowsMore

LEMMA ListLength ==
  ASSUME NEW n \in Nat, NEW f, DOMAIN f = 1 .. n, f = [i \in DOMAIN f |-> f[i]]
  PROVE  Len(f) = n
  OBVIOUS

LEMMA TouchedRight ==
  ASSUME WsInv
  PROVE  LET last == IF rows = << >> THEN made + Len(entries) ELSE made
         IN  /\ last \in Nat /\ made <= last
             /\ RowsOk(Touched, Len(entries), revision, last)
             /\ RightRows(entries, Touched)
             /\ snapshot # NoSnapshot => SnapshotOk(snapshot, last) /\ Shared(snapshot, Touched)
<1> DEFINE n == Len(entries)
<1>1. n \in Nat
  BY DEF WsInv
<1>2. CASE rows # << >>
  BY <1>2 DEF WsInv, RowsTrue, SnapshotTrue, Touched
<1>3. CASE rows = << >>
  <2> DEFINE rs == [i \in 1 .. n |-> Row(revision, made + i, << >>)]
  <2>1. Touched = rs /\ snapshot = NoSnapshot
    BY <1>3 DEF WsInv, SnapshotTrue, Touched, FreshRows
  <2>2. DOMAIN rs = 1 .. n /\ Len(rs) = n
    BY <1>1
  <2>3. \A i \in 1 .. n : /\ rs[i].revision = revision /\ rs[i].name = made + i
                          /\ rs[i].dist = << >>
    BY RowFields
  <2>4. \A x : x \notin DOMAIN << >>
    OBVIOUS
  <2> HIDE DEF rs
  <2>5. RowsOk(rs, n, revision, made + n)
    BY <1>1, <2>2, <2>3 DEF RowsOk, WsInv
  <2>6. RightRows(entries, rs)
    BY <2>2, <2>3, <2>4 DEF RightRows, Cached, Owner, Other
  <2> QED
    BY <1>1, <1>3, <2>1, <2>5, <2>6 DEF WsInv
<1> QED
  BY <1>2, <1>3

(* Storing what was missing keeps the rows right and grows them. *)
LEMMA WithPairsRight ==
  ASSUME entries \in Seq(Items), NEW rs, NEW rev, NEW last,
         RowsOk(rs, Len(entries), rev, last), RightRows(entries, rs),
         NEW pairs, pairs \subseteq PairsOf(Len(entries))
  PROVE  /\ RowsOk(WithPairs(rs, pairs), Len(entries), rev, last)
         /\ RightRows(entries, WithPairs(rs, pairs))
         /\ \A p \in pairs : Cached(WithPairs(rs, pairs), p[1], p[2])
         /\ \A i \in 1 .. Len(entries) : /\ KnowsMore(rs[i], WithPairs(rs, pairs)[i])
                                         /\ WithPairs(rs, pairs)[i].name = rs[i].name
<1> DEFINE n == Len(entries)
           new(i) == {Other(rs, p[1], p[2]) : p \in {q \in pairs : Owner(rs, q[1], q[2]) = i}}
           w == WithPairs(rs, pairs)
<1>1. n \in Nat /\ DOMAIN rs = 1 .. n
  BY DEF RowsOk
<1>2. DOMAIN w = 1 .. n /\ Len(w) = n
  BY <1>1 DEF WithPairs
<1>3. \A i \in 1 .. n : w[i] = Extended(rs[i], i, new(i))
  BY <1>1 DEF WithPairs
<1> HIDE DEF w, new
<1>4. \A i \in 1 .. n :
        /\ KnowsMore(rs[i], w[i]) /\ w[i].name = rs[i].name
        /\ DOMAIN w[i].dist = DOMAIN rs[i].dist \cup new(i)
        /\ \A k \in new(i) \ DOMAIN rs[i].dist : w[i].dist[k] = Fresh(i, k)
  BY <1>3, ExtendedKnowsMore
<1>5. RowsOk(w, n, rev, last)
  BY <1>2, <1>4 DEF RowsOk, KnowsMore
<1>6. \A l, r \in 1 .. n : Owner(w, l, r) = Owner(rs, l, r) /\ Other(w, l, r) = Other(rs, l, r)
  BY <1>4 DEF Owner, Other, KnowsMore
<1>7. RightRows(entries, w)
  <2> SUFFICES ASSUME NEW l \in 1 .. n, NEW r \in 1 .. n, l < r, Cached(w, l, r)
               PROVE  w[Owner(w, l, r)].dist[Other(w, l, r)] = Metric(entries[l], entries[r])
    BY <1>2 DEF RightRows
  <2> DEFINE o == Owner(rs, l, r)
             k == Other(rs, l, r)
  <2>1. o \in 1 .. n /\ k \in 1 .. n /\ ((o = l /\ k = r) \/ (o = r /\ k = l))
    BY DEF Owner, Other
  <2>2. Owner(w, l, r) = o /\ Other(w, l, r) = k /\ k \in DOMAIN w[o].dist
    BY <1>6 DEF Cached
  <2>3. Fresh(o, k) = Metric(entries[l], entries[r])
    <3>1. entries[l] \in Items /\ entries[r] \in Items
      BY <1>1
    <3> QED
      BY <2>1, <3>1, MetricSymmetric DEF Fresh
  <2>4. k \in DOMAIN rs[o].dist => rs[o].dist[k] = Metric(entries[l], entries[r])
    BY <1>1 DEF RightRows, Cached
  <2> HIDE DEF o, k
  <2> QED
    BY <1>4, <2>1, <2>2, <2>3, <2>4 DEF KnowsMore
<1>8. \A p \in pairs : Cached(w, p[1], p[2])
  <2> SUFFICES ASSUME NEW p \in pairs
               PROVE  Cached(w, p[1], p[2])
    OBVIOUS
  <2>1. p[1] \in 1 .. n /\ p[2] \in 1 .. n
    BY DEF PairsOf
  <2>2. Owner(rs, p[1], p[2]) \in 1 .. n
    BY <2>1 DEF Owner
  <2>3. Other(rs, p[1], p[2]) \in new(Owner(rs, p[1], p[2]))
    BY DEF new
  <2> QED
    BY <1>4, <1>6, <2>1, <2>2, <2>3 DEF Cached
<1> QED
  BY <1>4, <1>5, <1>7, <1>8 DEF w

LEMMA SharedKept ==
  ASSUME NEW s, NEW rs, NEW w, Shared(s, rs), Len(w) = Len(rs), Len(rs) \in Nat, Len(s.rows) \in Nat,
         \A i \in 1 .. Len(rs) : KnowsMore(rs[i], w[i]) /\ w[i].name = rs[i].name
  PROVE  Shared(s, w)
<1> SUFFICES ASSUME NEW i \in 1 .. Len(s.rows), s.rows[i].name = w[i].name
             PROVE  KnowsMore(s.rows[i], w[i])
  BY DEF Shared
<1>1. i \in 1 .. Len(rs)
  BY DEF Shared
<1>2. KnowsMore(s.rows[i], rs[i])
  BY <1>1 DEF Shared
<1> QED
  BY <1>1, <1>2, KnowsMoreTrans

LEMMA LaterNames ==
  ASSUME NEW s, NEW last \in Int, NEW later \in Int, last <= later, SnapshotOk(s, last)
  PROVE  SnapshotOk(s, later)
  BY DEF SnapshotOk

(***************************************************************************)
(* Crowding counts                                                         *)
(***************************************************************************)
Near(i, cutoff) ==
  {p \in PairsOf(Len(entries)) : i \in {p[1], p[2]} /\ Fresh(p[1], p[2]) < cutoff}

AgreeOutside(A, N, C) == A \ C = N \ C

(* A count is brought up to date by looking at the changed elements C only. *)
LEMMA Recount ==
  ASSUME NEW U, IsFiniteSet(U), NEW A \in SUBSET U, NEW N \in SUBSET U, NEW C, AgreeOutside(A, N, C)
  PROVE  Cardinality(A) + Cardinality(N \cap C) - Cardinality(A \cap C) = Cardinality(N)
<1>1. \A X \in SUBSET U : Cardinality(X) = Cardinality(X \ C) + Cardinality(X \cap C)
  <2> SUFFICES ASSUME NEW X \in SUBSET U
               PROVE  Cardinality(X) = Cardinality(X \ C) + Cardinality(X \cap C)
    OBVIOUS
  <2>1. IsFiniteSet(X \ C) /\ IsFiniteSet(X \cap C)
    BY FS_Subset
  <2>2. (X \ C) \cup (X \cap C) = X /\ (X \ C) \cap (X \cap C) = {}
    OBVIOUS
  <2>3. Cardinality(X) = Cardinality(X \ C) + Cardinality(X \cap C) - 0
    BY <2>1, <2>2, FS_Union, FS_EmptySet
  <2>4. Cardinality(X \ C) \in Nat /\ Cardinality(X \cap C) \in Nat
    BY <2>1, FS_CardinalityType
  <2> QED
    BY <2>3, <2>4
<1>2. \A X \in SUBSET U : Cardinality(X \ C) \in Nat /\ Cardinality(X \cap C) \in Nat
  <2> SUFFICES ASSUME NEW X \in SUBSET U
               PROVE  Cardinality(X \ C) \in Nat /\ Cardinality(X \cap C) \in Nat
    OBVIOUS
  <2>1. IsFiniteSet(X \ C) /\ IsFiniteSet(X \cap C)
    BY FS_Subset
  <2> QED
    BY <2>1, FS_CardinalityType
<1>3. /\ Cardinality(A) = Cardinality(N \ C) + Cardinality(A \cap C)
      /\ Cardinality(N) = Cardinality(N \ C) + Cardinality(N \cap C)
  BY <1>1 DEF AgreeOutside
<1>4. Cardinality(N \ C) \in Nat /\ Cardinality(A \cap C) \in Nat /\ Cardinality(N \cap C) \in Nat
  BY Zenon, <1>2
<1> QED
  BY <1>3, <1>4

LEMMA LookupTrue ==
  ASSUME NEW rs, RightRows(entries, rs), NEW l \in DOMAIN rs, NEW r \in DOMAIN rs, l < r
  PROVE  Lookup(rs, l, r) = Fresh(l, r)
  BY DEF RightRows, Lookup, Fresh

(* What a snapshot knows of a pair whose rows are still in use is true. *)
LEMMA UnchangedPair ==
  ASSUME NEW s, NEW rs, NEW last, SnapshotOk(s, last), Shared(s, rs), RightRows(entries, rs),
         Len(rs) \in Nat, DOMAIN rs = 1 .. Len(rs),
         NEW l \in DOMAIN rs, NEW r \in DOMAIN rs, l < r,
         l \notin ChangedRows(rs, s), r \notin ChangedRows(rs, s)
  PROVE  <<l, r>> \in PairsOf(Len(s.rows)) /\ (WereNeighbours(s, l, r) <=> Fresh(l, r) < s.cutoff)
<1>1. /\ l \in 1 .. Len(s.rows) /\ r \in 1 .. Len(s.rows)
      /\ rs[l].name = s.rows[l].name /\ rs[r].name = s.rows[r].name
  BY DEF ChangedRows, SnapshotOk
<1>2. KnowsMore(s.rows[l], rs[l]) /\ KnowsMore(s.rows[r], rs[r])
  BY <1>1 DEF Shared
<1>3. <<l, r>> \in PairsOf(Len(s.rows))
  BY <1>1 DEF PairsOf
<1>4. Cached(s.rows, l, r)
  BY <1>3 DEF SnapshotOk
<1>5. Owner(s.rows, l, r) = Owner(rs, l, r) /\ Other(s.rows, l, r) = Other(rs, l, r)
  BY <1>2 DEF Owner, Other, KnowsMore
<1>6. Owner(rs, l, r) = l \/ Owner(rs, l, r) = r
  BY DEF Owner
<1>7. /\ Cached(rs, l, r)
      /\ s.rows[Owner(rs, l, r)].dist[Other(rs, l, r)] = rs[Owner(rs, l, r)].dist[Other(rs, l, r)]
  BY <1>2, <1>4, <1>5, <1>6 DEF Cached, KnowsMore
<1>8. s.rows[Owner(s.rows, l, r)].dist[Other(s.rows, l, r)] = Fresh(l, r)
  BY <1>5, <1>7 DEF RightRows, Fresh
<1> QED
  BY <1>1, <1>3, <1>8 DEF WereNeighbours

LEMMA UpdatedCountTrue ==
  ASSUME NEW s, NEW rs, NEW last, SnapshotOk(s, last), Shared(s, rs), RightRows(entries, rs),
         Len(entries) \in Nat, Len(rs) = Len(entries), DOMAIN rs = 1 .. Len(rs),
         NEW i \in 1 .. Len(entries)
  PROVE  UpdatedCount(rs, s, i) = Cardinality(Near(i, s.cutoff))
<1> DEFINE n == Len(entries)
           A == WereNear(s, i)
           N == Near(i, s.cutoff)
           C == {p \in PairsOf(n) : {p[1], p[2]} \cap ChangedRows(rs, s) # {}}
           pairs == {p \in PairsOf(Len(rs)) : i \in {p[1], p[2]} /\ {p[1], p[2]} \cap ChangedRows(rs, s) # {}}
           gained == {p \in pairs : Lookup(rs, p[1], p[2]) < s.cutoff}
           lost == {p \in pairs : WereNeighbours(s, p[1], p[2])}
<1>1. \A p \in PairsOf(n) : /\ p[1] \in DOMAIN rs /\ p[2] \in DOMAIN rs /\ p[1] < p[2] /\ p = <<p[1], p[2]>>
                            /\ Lookup(rs, p[1], p[2]) = Fresh(p[1], p[2])
  <2> SUFFICES ASSUME NEW p \in PairsOf(n)
               PROVE  /\ p[1] \in DOMAIN rs /\ p[2] \in DOMAIN rs /\ p[1] < p[2] /\ p = <<p[1], p[2]>>
                      /\ Lookup(rs, p[1], p[2]) = Fresh(p[1], p[2])
    OBVIOUS
  <2>1. p[1] \in DOMAIN rs /\ p[2] \in DOMAIN rs /\ p[1] < p[2] /\ p = <<p[1], p[2]>>
    BY DEF PairsOf
  <2> QED
    BY Zenon, <2>1, LookupTrue
<1>2. gained = N \cap C
  BY <1>1 DEF Near
<1>3. \A p \in PairsOf(n) : WereNeighbours(s, p[1], p[2]) => p \in PairsOf(Len(s.rows))
  BY DEF PairsOf, WereNeighbours, SnapshotOk
<1>4. PairsOf(Len(s.rows)) \subseteq PairsOf(n)
  BY DEF PairsOf, Shared, SnapshotOk
<1>5. lost = A \cap C
  BY <1>3, <1>4 DEF WereNear
<1>6. AgreeOutside(A, N, C)
  <2>1. \A p \in PairsOf(n) \ C :
          p \in PairsOf(Len(s.rows)) /\ (WereNeighbours(s, p[1], p[2]) <=> Fresh(p[1], p[2]) < s.cutoff)
    <3> SUFFICES ASSUME NEW p \in PairsOf(n) \ C
                 PROVE  p \in PairsOf(Len(s.rows)) /\ (WereNeighbours(s, p[1], p[2]) <=> Fresh(p[1], p[2]) < s.cutoff)
      OBVIOUS
    <3>1. p[1] \notin ChangedRows(rs, s) /\ p[2] \notin ChangedRows(rs, s)
      OBVIOUS
    <3> QED
      BY <1>1, <3>1, UnchangedPair
  <2> QED
    BY <1>4, <2>1 DEF WereNear, Near, AgreeOutside
<1>7. (IF i <= Len(s.counts) THEN s.counts[i] ELSE 0) = Cardinality(A)
  <2>1. CASE i <= Len(s.counts)
    BY <2>1 DEF SnapshotOk
  <2>2. CASE ~(i <= Len(s.counts))
    <3>1. A = {}
      BY <2>2 DEF WereNear, PairsOf, SnapshotOk
    <3> QED
      BY <2>2, <3>1, FS_EmptySet
  <2> QED
    BY <2>1, <2>2
<1>8. A \in SUBSET PairsOf(n) /\ N \in SUBSET PairsOf(n) /\ IsFiniteSet(PairsOf(n))
  BY <1>4, PairsFinite DEF WereNear, Near
<1>9. UpdatedCount(rs, s, i) = Cardinality(A) + Cardinality(gained) - Cardinality(lost)
  BY <1>7 DEF UpdatedCount
<1> HIDE DEF A, N, C, gained, lost
<1>10. Cardinality(A) + Cardinality(N \cap C) - Cardinality(A \cap C) = Cardinality(N)
  BY <1>6, <1>8, Recount
<1> QED
  BY <1>2, <1>5, <1>9, <1>10 DEF N

(* Whichever way the counts are made, they are those of a fresh start. *)
LEMMA CountsTrue ==
  ASSUME NEW rs, NEW last, RightRows(entries, rs), Len(entries) \in Nat, Len(entries) >= 2,
         Len(rs) = Len(entries), DOMAIN rs = 1 .. Len(rs),
         snapshot # NoSnapshot => SnapshotOk(snapshot, last) /\ Shared(snapshot, rs),
         NEW cutoff
  PROVE  /\ DOMAIN CrowdingCounts(rs, cutoff) = DOMAIN entries
         /\ \A i \in 1 .. Len(entries) :
              i \in DOMAIN entries => CrowdingCounts(rs, cutoff)[i] = Cardinality(Near(i, cutoff))
<1>1. CASE snapshot # NoSnapshot /\ snapshot.cutoff = cutoff
  <2>1. CrowdingCounts(rs, cutoff) = [i \in DOMAIN entries |-> UpdatedCount(rs, snapshot, i)]
    BY <1>1 DEF CrowdingCounts
  <2>2. \A i \in 1 .. Len(entries) : UpdatedCount(rs, snapshot, i) = Cardinality(Near(i, cutoff))
    BY <1>1, UpdatedCountTrue
  <2> QED
    BY <2>1, <2>2
<1>2. CASE ~(snapshot # NoSnapshot /\ snapshot.cutoff = cutoff)
  <2>1. CrowdingCounts(rs, cutoff) = [i \in DOMAIN entries |-> CountOf(rs, i, cutoff)]
    BY <1>2 DEF CrowdingCounts
  <2>2. \A p \in PairsOf(Len(entries)) : Lookup(rs, p[1], p[2]) = Fresh(p[1], p[2])
    <3> SUFFICES ASSUME NEW p \in PairsOf(Len(entries))
                 PROVE  Lookup(rs, p[1], p[2]) = Fresh(p[1], p[2])
      OBVIOUS
    <3>1. p[1] \in DOMAIN rs /\ p[2] \in DOMAIN rs /\ p[1] < p[2]
      BY DEF PairsOf
    <3> QED
      BY Zenon, <3>1, LookupTrue
  <2>3. \A i \in 1 .. Len(entries) : CountOf(rs, i, cutoff) = Cardinality(Near(i, cutoff))
    <3> SUFFICES ASSUME NEW i \in 1 .. Len(entries)
                 PROVE  CountOf(rs, i, cutoff) = Cardinality(Near(i, cutoff))
      OBVIOUS
    <3>1. {p \in PairsOf(Len(rs)) : i \in {p[1], p[2]} /\ Lookup(rs, p[1], p[2]) < cutoff} = Near(i, cutoff)
      BY <2>2 DEF Near
    <3> QED
      BY Zenon, <3>1 DEF CountOf
  <2> QED
    BY <2>1, <2>3
<1> QED
  BY <1>1, <1>2

(* An entry has as many pairs below the cutoff as it has others below it. *)
LEMMA NearAsOthers ==
  ASSUME entries \in Seq(Items), NEW i \in DOMAIN entries, NEW cutoff
  PROVE  Cardinality(Near(i, cutoff)) = Cardinality({j \in DOMAIN entries \ {i} : Fresh(i, j) < cutoff})
<1> DEFINE n == Len(entries)
           others == {j \in DOMAIN entries \ {i} : Fresh(i, j) < cutoff}
           pair(j) == IF j < i THEN <<j, i>> ELSE <<i, j>>
           f == [j \in others |-> pair(j)]
<1>1. n \in Nat /\ DOMAIN entries = 1 .. n /\ i \in 1 .. n
  OBVIOUS
<1>2. \A j, k \in 1 .. n : Fresh(j, k) = Fresh(k, j)
  <2> SUFFICES ASSUME NEW j \in 1 .. n, NEW k \in 1 .. n
               PROVE  Fresh(j, k) = Fresh(k, j)
    OBVIOUS
  <2>1. entries[j] \in Items /\ entries[k] \in Items
    BY <1>1
  <2> QED
    BY <2>1, MetricSymmetric DEF Fresh
<1>3. \A j \in others : pair(j) \in Near(i, cutoff)
  BY <1>1, <1>2 DEF Near, PairsOf
<1>4. \A j, k \in others : pair(j) = pair(k) => j = k
  BY <1>1
<1>5. \A p \in Near(i, cutoff) : \E j \in others : pair(j) = p
  <2> SUFFICES ASSUME NEW p \in Near(i, cutoff)
               PROVE  \E j \in others : pair(j) = p
    OBVIOUS
  <2>1. /\ p[1] \in 1 .. n /\ p[2] \in 1 .. n /\ p[1] < p[2] /\ p = <<p[1], p[2]>>
        /\ p[1] = i \/ p[2] = i
        /\ Fresh(p[1], p[2]) < cutoff
    BY DEF Near, PairsOf
  <2>2. CASE p[1] = i
    <3>1. p[2] \in others /\ pair(p[2]) = p
      BY <1>1, <2>1, <2>2
    <3> QED
      BY <3>1
  <2>3. CASE p[2] = i
    <3>1. p[1] \in others /\ pair(p[1]) = p
      BY <1>1, <1>2, <2>1, <2>3
    <3> QED
      BY <3>1
  <2> QED
    BY <2>1, <2>2, <2>3
<1>6. IsFiniteSet(others)
  <2>1. IsFiniteSet(1 .. n)
    BY <1>1, FS_Interval
  <2> QED
    BY <1>1, <2>1, FS_Subset
<1> HIDE DEF others, pair
<1>7. f \in Bijection(others, Near(i, cutoff))
  BY <1>3, <1>4, <1>5 DEF Bijection, Injection, Surjection, IsInjective
<1>8. Cardinality(Near(i, cutoff)) = Cardinality(others)
  BY <1>6, <1>7, FS_Bijection DEF ExistsBijection
<1> QED
  BY <1>8 DEF others

(***************************************************************************)
(* The operations                                                          *)
(***************************************************************************)
LEMMA InitWs == ASSUME WsInit PROVE WsInv
<1>1. PICK n \in 1 .. MaxEntries : entries \in [1 .. n -> Items]
  BY DEF WsInit, Banks
<1>2. n \in Nat /\ n >= 1
  BY WorkspaceAssumption
<1>3. entries \in Seq(Items) /\ Len(entries) >= 1
  BY <1>1, <1>2
<1> QED
  BY <1>3 DEF WsInit, WsInv

LEMMA QueryKeeps == ASSUME WsInv, Query PROVE WsInv'
<1> DEFINE n == Len(entries)
           last == IF rows = << >> THEN made + Len(entries) ELSE made
<1>1. PICK p \in PairsOf(n) :
        /\ rows' = WithPairs(Touched, {p}) /\ made' = last
        /\ entries' = entries /\ revision' = revision /\ snapshot' = snapshot
  BY Zenon DEF Query
<1>2. /\ last \in Nat /\ RowsOk(Touched, n, revision, last) /\ RightRows(entries, Touched)
      /\ snapshot # NoSnapshot => SnapshotOk(snapshot, last) /\ Shared(snapshot, Touched)
  BY TouchedRight
<1> HIDE DEF last
<1>3. {p} \subseteq PairsOf(n)
  OBVIOUS
<1>4. /\ RowsOk(rows', n, revision, last) /\ RightRows(entries, rows')
      /\ \A i \in 1 .. n : KnowsMore(Touched[i], rows'[i]) /\ rows'[i].name = Touched[i].name
  BY <1>1, <1>2, <1>3, WithPairsRight DEF WsInv
<1>5. n \in Nat /\ n >= 1
  BY DEF WsInv
<1>6. Len(rows') = n /\ Len(Touched) = n /\ rows' # << >>
  BY <1>2, <1>4, <1>5 DEF RowsOk
<1>7. snapshot # NoSnapshot => SnapshotOk(snapshot, last) /\ Shared(snapshot, rows')
  <2> SUFFICES ASSUME snapshot # NoSnapshot
               PROVE  SnapshotOk(snapshot, last) /\ Shared(snapshot, rows')
    OBVIOUS
  <2>1. SnapshotOk(snapshot, last) /\ Shared(snapshot, Touched)
    BY <1>2
  <2>2. Len(snapshot.rows) \in Nat
    BY <2>1 DEF SnapshotOk
  <2> QED
    BY <1>4, <1>5, <1>6, <2>1, <2>2, SharedKept
<1> QED
  BY <1>1, <1>2, <1>4, <1>6, <1>7 DEF WsInv, RowsTrue, SnapshotTrue

(* A snapshot of rows that know every pair, with true counts. *)
LEMMA SnapshotTaken ==
  ASSUME entries \in Seq(Items), Len(entries) >= 2,
         NEW w, NEW rev, NEW last, RowsOk(w, Len(entries), rev, last), RightRows(entries, w),
         \A p \in PairsOf(Len(entries)) : Cached(w, p[1], p[2]),
         NEW cutoff, NEW counts, DOMAIN counts = 1 .. Len(entries), Len(counts) = Len(entries),
         \A i \in 1 .. Len(entries) : counts[i] = Cardinality(Near(i, cutoff)),
         NEW s, s = [cutoff |-> cutoff, rows |-> w, counts |-> counts]
  PROVE  SnapshotOk(s, last) /\ Shared(s, w) /\ s # NoSnapshot
<1> DEFINE n == Len(entries)
<1>1. s.rows = w /\ s.counts = counts /\ s.cutoff = cutoff /\ Len(w) = n /\ DOMAIN w = 1 .. n /\ n \in Nat
  BY DEF RowsOk
<1>2. \A i \in 1 .. n : WereNear(s, i) = Near(i, cutoff)
  <2>1. \A p \in PairsOf(n) : WereNeighbours(s, p[1], p[2]) <=> Fresh(p[1], p[2]) < cutoff
    <3> SUFFICES ASSUME NEW p \in PairsOf(n)
                 PROVE  WereNeighbours(s, p[1], p[2]) <=> Fresh(p[1], p[2]) < cutoff
      OBVIOUS
    <3>1. p[1] \in 1 .. n /\ p[2] \in 1 .. n /\ p[1] < p[2]
      BY DEF PairsOf
    <3>2. w[Owner(w, p[1], p[2])].dist[Other(w, p[1], p[2])] = Fresh(p[1], p[2])
      BY <1>1, <3>1 DEF RightRows, Fresh
    <3> QED
      BY <1>1, <3>1, <3>2 DEF WereNeighbours
  <2> QED
    BY <1>1, <2>1 DEF WereNear, Near
<1>3. \A i \in 1 .. n : KnowsMore(w[i], w[i])
  BY DEF KnowsMore
<1>4. SnapshotOk(s, last)
  BY <1>1, <1>2 DEF SnapshotOk, RowsOk
<1>5. Shared(s, w)
  BY <1>1, <1>3 DEF Shared
<1>6. s # NoSnapshot
  <2>1. NoSnapshot.rows = << >> /\ w # << >>
    BY <1>1 DEF NoSnapshot
  <2> QED
    BY <1>1, <2>1
<1> QED
  BY <1>4, <1>5, <1>6

LEMMA CountKeeps == ASSUME WsInv, Count PROVE WsInv'
<1> DEFINE n == Len(entries)
           last == IF rows = << >> THEN made + Len(entries) ELSE made
           counted == WithPairs(Touched, PairsOf(n))
<1>1. PICK cutoff \in Cutoffs :
        /\ n >= 2 /\ rows' = counted /\ made' = last
        /\ snapshot' = [cutoff |-> cutoff, rows |-> counted, counts |-> CrowdingCounts(counted, cutoff)]
        /\ entries' = entries /\ revision' = revision
  BY DEF Count
<1>2. /\ last \in Nat /\ RowsOk(Touched, n, revision, last) /\ RightRows(entries, Touched)
      /\ snapshot # NoSnapshot => SnapshotOk(snapshot, last) /\ Shared(snapshot, Touched)
  BY TouchedRight
<1> HIDE DEF last
<1>3. /\ RowsOk(counted, n, revision, last) /\ RightRows(entries, counted)
      /\ \A p \in PairsOf(n) : Cached(counted, p[1], p[2])
      /\ \A i \in 1 .. n : KnowsMore(Touched[i], counted[i]) /\ counted[i].name = Touched[i].name
  BY <1>2, WithPairsRight DEF WsInv
<1> HIDE DEF counted
<1>4. n \in Nat /\ DOMAIN entries = 1 .. n /\ entries \in Seq(Items)
  BY DEF WsInv
<1>5. Len(counted) = n /\ Len(Touched) = n /\ counted # << >> /\ DOMAIN counted = 1 .. Len(counted)
  BY <1>1, <1>2, <1>3, <1>4 DEF RowsOk
<1>6. snapshot # NoSnapshot => SnapshotOk(snapshot, last) /\ Shared(snapshot, counted)
  <2> SUFFICES ASSUME snapshot # NoSnapshot
               PROVE  SnapshotOk(snapshot, last) /\ Shared(snapshot, counted)
    OBVIOUS
  <2>1. SnapshotOk(snapshot, last) /\ Shared(snapshot, Touched)
    BY <1>2
  <2>2. Len(snapshot.rows) \in Nat
    BY <2>1 DEF SnapshotOk
  <2> QED
    BY <1>3, <1>4, <1>5, <2>1, <2>2, SharedKept
<1>7. /\ DOMAIN CrowdingCounts(counted, cutoff) = 1 .. n
      /\ \A i \in 1 .. n : CrowdingCounts(counted, cutoff)[i] = Cardinality(Near(i, cutoff))
  BY Zenon, <1>1, <1>3, <1>4, <1>5, <1>6, CountsTrue
<1>8. Len(CrowdingCounts(counted, cutoff)) = n
  <2>1. CrowdingCounts(counted, cutoff)
          = [i \in DOMAIN CrowdingCounts(counted, cutoff) |-> CrowdingCounts(counted, cutoff)[i]]
    BY Zenon, <1>4 DEF CrowdingCounts
  <2> QED
    BY <1>4, <1>7, <2>1, ListLength
<1>9. SnapshotOk(snapshot', last) /\ Shared(snapshot', counted) /\ snapshot' # NoSnapshot
  BY Zenon, <1>1, <1>3, <1>4, <1>7, <1>8, SnapshotTaken
<1> QED
  BY <1>1, <1>2, <1>3, <1>5, <1>9 DEF WsInv, RowsTrue, SnapshotTrue

(* The entries that stay in place keep their rows; a new row is younger than
   every row before it, so no old row answers for its pairs. *)
LEMMA RebasedRight ==
  ASSUME WsInv, rows # << >>, NEW bank, NEW n \in Nat, DOMAIN bank = 1 .. n, Len(entries) <= n,
         NEW invalidated
  PROVE  /\ RowsOk(Rebased(bank, invalidated), n, revision + 1, made + n)
         /\ RightRows(bank, Rebased(bank, invalidated))
         /\ Rebased(bank, invalidated) # << >>
         /\ snapshot # NoSnapshot
              => SnapshotOk(snapshot, made + n) /\ Shared(snapshot, Rebased(bank, invalidated))
<1> DEFINE w == Rebased(bank, invalidated)
           kept(i) == i <= Len(entries) /\ i \notin invalidated /\ bank[i] = entries[i]
<1>1. /\ Len(entries) \in Nat /\ Len(entries) >= 1 /\ revision \in Nat /\ made \in Nat
      /\ RowsOk(rows, Len(entries), revision, made) /\ RightRows(entries, rows)
  BY DEF WsInv, RowsTrue
<1>2. DOMAIN w = 1 .. n /\ Len(w) = n /\ w # << >>
  BY <1>1 DEF Rebased
<1>3. \A i \in 1 .. n : w[i] = IF kept(i) THEN rows[i] ELSE Row(revision + 1, made + i, << >>)
  BY DEF Rebased
<1> HIDE DEF w
<1>4. \A i \in 1 .. n : kept(i) => i \in 1 .. Len(entries) /\ w[i] = rows[i] /\ bank[i] = entries[i]
                                   /\ w[i].revision \in Int /\ w[i].revision <= revision
                                   /\ w[i].name \in Int /\ w[i].name <= made
  BY <1>1, <1>3 DEF RowsOk
<1>5. \A i \in 1 .. n : ~kept(i) => /\ w[i].revision = revision + 1 /\ w[i].name = made + i
                                    /\ w[i].dist = << >>
  BY <1>3, RowFields
<1> HIDE DEF kept
<1>6. RowsOk(w, n, revision + 1, made + n)
  <2>1. ASSUME NEW i \in 1 .. n
        PROVE  /\ w[i].revision \in Int /\ w[i].revision <= revision + 1
               /\ w[i].name \in Int /\ w[i].name <= made + n
    <3>1. CASE kept(i)
      BY <1>1, <1>4, <3>1
    <3>2. CASE ~kept(i)
      BY <1>1, <1>5, <3>2
    <3> QED
      BY <3>1, <3>2
  <2> QED
    BY <1>2, <2>1 DEF RowsOk
<1>7. \A x : x \notin DOMAIN << >>
  OBVIOUS
<1>8. RightRows(bank, w)
  <2> SUFFICES ASSUME NEW l \in 1 .. n, NEW r \in 1 .. n, l < r, Cached(w, l, r)
               PROVE  w[Owner(w, l, r)].dist[Other(w, l, r)] = Metric(bank[l], bank[r])
    BY <1>2 DEF RightRows
  <2>1. kept(l) /\ kept(r)
    BY <1>1, <1>4, <1>5, <1>7 DEF Cached, Owner, Other
  <2>2. /\ l \in DOMAIN rows /\ r \in DOMAIN rows /\ w[l] = rows[l] /\ w[r] = rows[r]
        /\ bank[l] = entries[l] /\ bank[r] = entries[r]
    BY <1>1, <1>4, <2>1 DEF RowsOk
  <2>3. Owner(w, l, r) = Owner(rows, l, r) /\ Other(w, l, r) = Other(rows, l, r)
    BY <2>2 DEF Owner, Other
  <2>4. w[Owner(rows, l, r)] = rows[Owner(rows, l, r)]
    BY <2>2 DEF Owner
  <2>5. Cached(rows, l, r)
    BY <2>3, <2>4 DEF Cached
  <2> QED
    BY <1>1, <2>2, <2>3, <2>4, <2>5 DEF RightRows
<1>9. ASSUME snapshot # NoSnapshot
      PROVE  SnapshotOk(snapshot, made + n) /\ Shared(snapshot, w)
  <2>1. SnapshotOk(snapshot, made) /\ Shared(snapshot, rows)
    BY <1>9 DEF WsInv, SnapshotTrue
  <2>2. SnapshotOk(snapshot, made + n)
    BY <1>1, <2>1, LaterNames
  <2>3. Len(rows) = Len(entries)
    BY <1>1 DEF RowsOk
  <2>4. Len(snapshot.rows) <= Len(w)
    BY <1>1, <1>2, <2>1, <2>3 DEF Shared, SnapshotOk
  <2>5. ASSUME NEW i \in 1 .. Len(snapshot.rows), snapshot.rows[i].name = w[i].name
        PROVE  KnowsMore(snapshot.rows[i], w[i])
    <3>1. i \in 1 .. n /\ snapshot.rows[i].name \in Int /\ snapshot.rows[i].name <= made
      BY <1>2, <2>1, <2>4 DEF SnapshotOk
    <3>2. kept(i)
      BY <1>1, <1>5, <2>5, <3>1
    <3>3. w[i] = rows[i]
      BY <1>4, <3>1, <3>2
    <3> QED
      BY <2>1, <2>5, <3>3 DEF Shared
  <2> QED
    BY <2>2, <2>4, <2>5 DEF Shared
<1> QED
  BY <1>2, <1>6, <1>8, <1>9 DEF w

(* Entry i gets a row of its own that is younger than the others and knows
   all of its pairs. *)
LEMMA SeededRight ==
  ASSUME NEW bank, NEW n \in Nat, n >= 1, bank \in Seq(Items), Len(bank) = n, NEW i \in 1 .. n,
         NEW rs, NEW old \in Int, NEW rev, rev = old + 1, NEW last \in Int,
         rs # << >> => RowsOk(rs, n, old, last) /\ RightRows(bank, rs)
  PROVE  LET w == Seeded(bank, rs, i, rev, last + 1)
         IN  /\ RowsOk(w, n, rev, last + n + 1) /\ RightRows(bank, w) /\ w # << >>
             /\ \A s : rs # << >> /\ SnapshotOk(s, last) /\ Shared(s, rs)
                         => SnapshotOk(s, last + n + 1) /\ Shared(s, w)
<1> DEFINE w == Seeded(bank, rs, i, rev, last + 1)
           known == [j \in DOMAIN bank \ {i} |-> Metric(bank[i], bank[j])]
<1>1. DOMAIN bank = 1 .. n
  OBVIOUS
<1>2. DOMAIN w = 1 .. n /\ Len(w) = n /\ w # << >>
  BY <1>1 DEF Seeded
<1>3. w[i] = Row(rev, last + 1, known)
  BY <1>1 DEF Seeded
<1>4. \A k \in 1 .. n \ {i} : w[k] = IF rs = << >> THEN Row(rev - 1, last + 1 + k, << >>) ELSE rs[k]
  BY <1>1 DEF Seeded
<1> HIDE DEF w
<1>5. /\ w[i].revision = rev /\ w[i].name = last + 1
      /\ \A j \in 1 .. n \ {i} : w[i].dist[j] = Metric(bank[i], bank[j])
  BY <1>1, <1>3, RowFields
<1>6. \A k \in 1 .. n \ {i} :
        /\ w[k].revision \in Int /\ w[k].revision < rev
        /\ w[k].name \in Int /\ w[k].name <= last + n + 1
  <2>1. CASE rs = << >>
    BY <1>4, <2>1, RowFields
  <2>2. CASE rs # << >>
    BY <1>4, <2>2 DEF RowsOk
  <2> QED
    BY <2>1, <2>2
<1>7. RowsOk(w, n, rev, last + n + 1)
  BY <1>2, <1>5, <1>6 DEF RowsOk
<1>8. RightRows(bank, w)
  <2> SUFFICES ASSUME NEW l \in 1 .. n, NEW r \in 1 .. n, l < r, Cached(w, l, r)
               PROVE  w[Owner(w, l, r)].dist[Other(w, l, r)] = Metric(bank[l], bank[r])
    BY <1>2 DEF RightRows
  <2>1. bank[l] \in Items /\ bank[r] \in Items
    BY <1>1
  <2>2. CASE l = i
    <3>1. Owner(w, l, r) = i /\ Other(w, l, r) = r
      BY <1>5, <1>6, <2>2 DEF Owner, Other
    <3> QED
      BY <1>5, <2>2, <3>1
  <2>3. CASE r = i
    <3>1. Owner(w, l, r) = i /\ Other(w, l, r) = l
      BY <1>5, <1>6, <2>3 DEF Owner, Other
    <3>2. Metric(bank[r], bank[l]) = Metric(bank[l], bank[r])
      BY <2>1, MetricSymmetric
    <3> QED
      BY <1>5, <2>3, <3>1, <3>2
  <2>4. CASE l # i /\ r # i
    <3>1. CASE rs = << >>
      <4>1. w[l].dist = << >> /\ w[r].dist = << >>
        BY <1>4, <2>4, <3>1, RowFields
      <4>2. \A x : x \notin DOMAIN << >>
        OBVIOUS
      <4> QED
        BY <4>1, <4>2 DEF Cached, Owner
    <3>2. CASE rs # << >>
      <4>1. w[l] = rs[l] /\ w[r] = rs[r] /\ l \in DOMAIN rs /\ r \in DOMAIN rs
        BY Zenon, <1>4, <2>4, <3>2 DEF RowsOk
      <4>2. Owner(w, l, r) = Owner(rs, l, r) /\ Other(w, l, r) = Other(rs, l, r)
        BY <4>1 DEF Owner, Other
      <4>3. w[Owner(rs, l, r)] = rs[Owner(rs, l, r)]
        BY <4>1 DEF Owner
      <4>4. Cached(rs, l, r)
        BY <4>2, <4>3 DEF Cached
      <4> QED
        BY <3>2, <4>1, <4>2, <4>3, <4>4 DEF RightRows
    <3> QED
      BY <3>1, <3>2
  <2> QED
    BY <2>2, <2>3, <2>4
<1>9. ASSUME NEW s, rs # << >>, SnapshotOk(s, last), Shared(s, rs)
      PROVE  SnapshotOk(s, last + n + 1) /\ Shared(s, w)
  <2>1. SnapshotOk(s, last + n + 1)
    BY <1>9, LaterNames
  <2>2. Len(s.rows) \in Nat /\ Len(s.rows) <= Len(w)
    BY <1>2, <1>9 DEF Shared, SnapshotOk, RowsOk
  <2>3. ASSUME NEW k \in 1 .. Len(s.rows), s.rows[k].name = w[k].name
        PROVE  KnowsMore(s.rows[k], w[k])
    <3>1. k \in 1 .. n /\ s.rows[k].name \in Int /\ s.rows[k].name <= last
      BY <1>2, <1>9, <2>2 DEF SnapshotOk
    <3>2. k # i
      BY <1>5, <2>3, <3>1
    <3>3. w[k] = rs[k]
      BY <1>4, <1>9, <3>1, <3>2
    <3> QED
      BY <1>9, <2>3, <3>3 DEF Shared
  <2> QED
    BY <2>1, <2>2, <2>3 DEF Shared
<1>10. \A s : rs # << >> /\ SnapshotOk(s, last) /\ Shared(s, rs)
                => SnapshotOk(s, last + n + 1) /\ Shared(s, w)
  BY <1>9, Zenon
<1> QED
  BY <1>2, <1>7, <1>8, <1>10, Zenon DEF w

LEMMA AdmitKeeps == ASSUME WsInv, Admit PROVE WsInv'
<1>1. PICK i \in 1 .. SmallerOf(Len(entries) + 1, MaxEntries), c \in Items, seeds \in BOOLEAN :
        Admitted(i, c, seeds)
  BY DEF Admit
<1> DEFINE n    == LargerOf(Len(entries), i)
           bank == [k \in 1 .. n |-> IF k = i THEN c ELSE entries[k]]
           rs   == IF rows = << >> THEN << >> ELSE Rebased(bank, {i} \cap DOMAIN entries)
           rev  == IF rows = << >> THEN 0 ELSE revision + 1
           last == IF rows = << >> THEN 0 ELSE made + n
<1>2. Len(entries) \in Nat /\ Len(entries) >= 1 /\ revision \in Nat /\ made \in Nat /\ entries \in Seq(Items)
  BY DEF WsInv
<1>3. i \in Nat /\ i >= 1 /\ i <= Len(entries) + 1
  BY <1>2, WorkspaceAssumption DEF SmallerOf
<1>4. n \in Nat /\ n >= 1 /\ i \in 1 .. n /\ Len(entries) <= n
  BY <1>2, <1>3 DEF LargerOf
<1>5. bank \in Seq(Items) /\ Len(bank) = n /\ DOMAIN bank = 1 .. n
  <2>1. \A k \in 1 .. n : (IF k = i THEN c ELSE entries[k]) \in Items
    BY <1>2, <1>3 DEF LargerOf
  <2> QED
    BY <1>4, <2>1
<1>6. /\ entries' = bank /\ snapshot' = (IF rows = << >> THEN NoSnapshot ELSE snapshot)
      /\ revision' = (IF seeds THEN rev + 1 ELSE rev)
      /\ made' = (IF seeds THEN last + n + 1 ELSE last)
      /\ rows' = (IF seeds THEN Seeded(bank, rs, i, rev + 1, last + 1) ELSE rs)
  BY Zenon, <1>1, <1>5 DEF Admitted
<1>7. rev \in Nat /\ last \in Nat
  BY <1>2, <1>4
<1> HIDE DEF n, bank
<1>8. /\ rs # << >> => RowsOk(rs, n, rev, last) /\ RightRows(bank, rs)
      /\ rs = << >> <=> rows = << >>
      /\ rows # << >> /\ snapshot # NoSnapshot => SnapshotOk(snapshot, last) /\ Shared(snapshot, rs)
  <2>1. CASE rows = << >>
    BY <2>1
  <2>2. CASE rows # << >>
    <3>1. /\ RowsOk(Rebased(bank, {i} \cap DOMAIN entries), n, revision + 1, made + n)
          /\ RightRows(bank, Rebased(bank, {i} \cap DOMAIN entries))
          /\ Rebased(bank, {i} \cap DOMAIN entries) # << >>
          /\ snapshot # NoSnapshot
               => SnapshotOk(snapshot, made + n) /\ Shared(snapshot, Rebased(bank, {i} \cap DOMAIN entries))
      BY <1>4, <1>5, <2>2, RebasedRight
    <3> QED
      BY <2>2, <3>1
  <2> QED
    BY <2>1, <2>2
<1> HIDE DEF rs, rev, last
<1>9. CASE seeds
  <2> DEFINE w == Seeded(bank, rs, i, rev + 1, last + 1)
  <2>1. rev \in Int /\ last \in Int /\ rev + 1 = rev + 1
    BY <1>7
  <2>2. /\ RowsOk(w, n, rev + 1, last + n + 1) /\ RightRows(bank, w) /\ w # << >>
        /\ \A s : rs # << >> /\ SnapshotOk(s, last) /\ Shared(s, rs)
                    => SnapshotOk(s, last + n + 1) /\ Shared(s, w)
    BY Zenon, <1>4, <1>5, <1>8, <2>1, SeededRight
  <2>3. rows' = w /\ revision' = rev + 1 /\ made' = last + n + 1
    BY <1>6, <1>9
  <2> HIDE DEF w
  <2>4. RowsTrue'
    BY <1>5, <1>6, <2>2, <2>3 DEF RowsTrue
  <2>5. snapshot' # NoSnapshot => SnapshotTrue'
    BY <1>6, <1>8, <2>2, <2>3 DEF SnapshotTrue
  <2> QED
    BY <1>4, <1>5, <1>6, <1>7, <2>3, <2>4, <2>5 DEF WsInv
<1>10. CASE ~seeds
  <2>1. rows' = rs /\ revision' = rev /\ made' = last
    BY <1>6, <1>10
  <2>2. rows' # << >> => RowsTrue'
    BY <1>5, <1>6, <1>8, <2>1 DEF RowsTrue
  <2>3. snapshot' # NoSnapshot => SnapshotTrue'
    BY <1>6, <1>8, <2>1 DEF SnapshotTrue
  <2> QED
    BY <1>4, <1>5, <1>6, <1>7, <2>1, <2>2, <2>3 DEF WsInv
<1> QED
  BY <1>9, <1>10

LEMMA CutKeeps == ASSUME WsInv, Cut PROVE WsInv'
<1>1. PICK removed \in (SUBSET DOMAIN entries) \ {{}, DOMAIN entries} :
        /\ entries' = RemoveIndices(entries, removed)
        /\ rows' = << >> /\ revision' = 0 /\ made' = 0 /\ snapshot' = NoSnapshot
  BY DEF Cut
<1> DEFINE stays == DOMAIN entries \ removed
           m == Cardinality(stays)
           nth(k) == CHOOSE i \in stays : Cardinality(Before(stays, i)) = k - 1
<1>2. stays \subseteq DOMAIN entries /\ stays # {} /\ DOMAIN entries = 1 .. Len(entries)
      /\ Len(entries) \in Nat /\ entries \in Seq(Items)
  <2>1. removed \subseteq DOMAIN entries /\ removed # DOMAIN entries
    OBVIOUS
  <2>2. stays # {}
    BY <2>1
  <2> QED
    BY <2>2 DEF WsInv
<1>3. IsFiniteSet(stays) /\ stays \in SUBSET Int
  <2>1. IsFiniteSet(1 .. Len(entries))
    BY <1>2, FS_Interval
  <2> QED
    BY <1>2, <2>1, FS_Subset
<1>4. entries' = [k \in 1 .. m |-> entries[nth(k)]]
  BY <1>1 DEF RemoveIndices, Before
<1> HIDE DEF stays
<1>5. m \in Nat /\ m >= 1
  <2>1. m \in Nat
    BY <1>3, FS_CardinalityType
  <2>2. m # 0
    BY <1>2, <1>3, FS_EmptySet
  <2> QED
    BY <2>1, <2>2
<1>6. \A k \in 1 .. m : nth(k) \in stays
  <2> SUFFICES ASSUME NEW k \in 1 .. m
               PROVE  nth(k) \in stays
    OBVIOUS
  <2>1. k - 1 \in 0 .. (m - 1)
    BY <1>5
  <2>2. \E i \in stays : Cardinality(Before(stays, i)) = k - 1
    BY <1>3, <2>1, Ranking
  <2> QED
    BY <2>2
<1>7. \A k \in 1 .. m : entries[nth(k)] \in Items
  BY <1>2, <1>6
<1> HIDE DEF nth, m
<1>8. entries' \in Seq(Items) /\ Len(entries') = m
  BY <1>4, <1>5, <1>7
<1> QED
  BY <1>1, <1>5, <1>8 DEF WsInv

LEMMA WsInvAnswers == ASSUME WsInv PROVE AnswersAsFresh
<1> DEFINE n == Len(entries)
           last == IF rows = << >> THEN made + Len(entries) ELSE made
           counted == WithPairs(Touched, PairsOf(n))
<1>1. n \in Nat /\ DOMAIN entries = 1 .. n /\ entries \in Seq(Items)
  BY DEF WsInv
<1>2. /\ last \in Nat /\ RowsOk(Touched, n, revision, last) /\ RightRows(entries, Touched)
      /\ snapshot # NoSnapshot => SnapshotOk(snapshot, last) /\ Shared(snapshot, Touched)
  BY TouchedRight
<1> HIDE DEF last
<1>3. ASSUME NEW p \in PairsOf(n)
      PROVE  Lookup(Touched, p[1], p[2]) = Fresh(p[1], p[2])
  <2>1. p[1] \in DOMAIN Touched /\ p[2] \in DOMAIN Touched /\ p[1] < p[2]
    BY <1>2 DEF PairsOf, RowsOk
  <2> QED
    BY <1>2, <2>1, LookupTrue
<1>4. /\ RowsOk(counted, n, revision, last) /\ RightRows(entries, counted)
      /\ \A i \in 1 .. n : KnowsMore(Touched[i], counted[i]) /\ counted[i].name = Touched[i].name
  BY <1>1, <1>2, WithPairsRight
<1> HIDE DEF counted
<1>5. Len(counted) = n /\ Len(Touched) = n /\ DOMAIN counted = 1 .. Len(counted)
  BY <1>2, <1>4 DEF RowsOk
<1>6. snapshot # NoSnapshot => SnapshotOk(snapshot, last) /\ Shared(snapshot, counted)
  <2> SUFFICES ASSUME snapshot # NoSnapshot
               PROVE  SnapshotOk(snapshot, last) /\ Shared(snapshot, counted)
    OBVIOUS
  <2>1. SnapshotOk(snapshot, last) /\ Shared(snapshot, Touched)
    BY <1>2
  <2>2. Len(snapshot.rows) \in Nat
    BY <2>1 DEF SnapshotOk
  <2> QED
    BY <1>1, <1>4, <1>5, <2>1, <2>2, SharedKept
<1>7. ASSUME NEW cutoff \in Cutoffs, NEW i \in DOMAIN entries
      PROVE  CrowdingCounts(counted, cutoff)[i]
               = Cardinality({j \in DOMAIN entries \ {i} : Fresh(i, j) < cutoff})
  <2>1. CASE n >= 2
    <3>1. CrowdingCounts(counted, cutoff)[i] = Cardinality(Near(i, cutoff))
      BY Zenon, <1>1, <1>4, <1>5, <1>6, <2>1, CountsTrue
    <3> QED
      BY <1>1, <3>1, NearAsOthers
  <2>2. CASE ~(n >= 2)
    <3>1. CrowdingCounts(counted, cutoff)[i] = 0
      BY <1>1, <2>2 DEF CrowdingCounts
    <3>2. {j \in DOMAIN entries \ {i} : Fresh(i, j) < cutoff} = {}
      BY <1>1, <2>2
    <3> QED
      BY <3>1, <3>2, FS_EmptySet
  <2> QED
    BY <2>1, <2>2
<1> QED
  BY <1>3, <1>7 DEF AnswersAsFresh, counted

(* AnswersAsFresh, for a bank of any size and any symmetric distance: however entries were
   replaced, appended, removed and their rows seeded, and whatever was asked for
   in between, the cache gives the distances and the crowding counts of the
   entries as they are. *)
THEOREM AnswersTrue == WsSpec => []AnswersAsFresh
<1>1. WsInit => WsInv
  BY InitWs
<1>2. WsInv /\ [WsNext]_wsVars => WsInv'
  <2> SUFFICES ASSUME WsInv, [WsNext]_wsVars
               PROVE  WsInv'
    OBVIOUS
  <2>1. CASE Query
    BY <2>1, QueryKeeps
  <2>2. CASE Count
    BY <2>2, CountKeeps
  <2>3. CASE Admit
    BY <2>3, AdmitKeeps
  <2>4. CASE Cut
    BY <2>4, CutKeeps
  <2>5. CASE UNCHANGED wsVars
    BY <2>5 DEF WsInv, RowsTrue, SnapshotTrue, wsVars
  <2> QED
    BY <2>1, <2>2, <2>3, <2>4, <2>5 DEF WsNext
<1>3. WsInv => AnswersAsFresh
  BY WsInvAnswers
<1> QED
  BY <1>1, <1>2, <1>3, PTL DEF WsSpec
=============================================================================
