----------------------------- MODULE MarksProofs -----------------------------
(***************************************************************************)
(* Of the CSA engine, MarksFollowEntries: the two masks and the status of  *)
(* the seeds are kept by index, and the entries move under them.  Each     *)
(* operation is shown to change both alike.  What makes this inductive is  *)
(* when an operation may move entries without a look at the marks: the     *)
(* reference bank is set, and the bank sorted, only while nothing is       *)
(* marked, a refresh keeps the stage masks of what it preserves, and a     *)
(* stage begins only with a full bank.                                     *)
(***************************************************************************)
EXTENDS PopulationProofs

(* The engine where marks are checked: no worse candidate is accepted, and an
   update counts as significant when it changed the entry at all. *)
MarkProfile(pol) == KeepsProfile(pol) /\ pol.significantPercent = 0

EntryKinds == {"no", "stage", "refresh"}
MarkedEntry == [at : Positions, new : Nat, seeded : BOOLEAN, kept : EntryKinds]

IsMarked(q) == q \in Seq(MarkedEntry) /\ \A i \in DOMAIN q : q[i].new = 0

(* Only in the first round of a later stage do masks of the stage hold, and a
   boundary that is due is the one that follows. *)
MarkFields == {"action", "index", "round", "seedMask", "partnerMask", "refreshMask"}

StageIs(p, pol) ==
  /\ MarkFields \subseteq DOMAIN p /\ p.index \in Nat /\ p.round \in {0, 1}
  /\ p.index = 0 \/ p.round = 1 => p.seedMask = {} /\ p.partnerMask = {}
  /\ pol.maxCapacity = pol.capacity => p.index = 0
  /\ p.action \in {"none", "refresh", "stage"}
  /\ p.action = "refresh" => ~StagesLeft(p, pol)
  /\ p.action = "stage" => StagesLeft(p, pol)

Used(status, i) == i <= Len(status) /\ status[i]

MarksMatch(status, p, q) ==
  /\ status \in Seq(BOOLEAN) /\ Len(status) <= Len(q)
  /\ \A i \in DOMAIN q : Used(status, i) = q[i].seeded
  /\ p.seedMask = {i \in DOMAIN q : q[i].kept = "stage"}
  /\ p.refreshMask = {i \in DOMAIN q : q[i].kept = "refresh"}
  /\ p.partnerMask \subseteq DOMAIN q

Blank(q) == \A i \in DOMAIN q : q[i].seeded = FALSE /\ q[i].kept = "no"

(* Without growth the bank has the capacity of its stage, and the reference
   bank its length. *)
SizesAre(e, pol) ==
  pol.growth = "off" =>
    /\ e.bank.capacity = StageCapacity(pol, e.progress.index)
    /\ Len(e.bank.entries) <= e.bank.capacity
    /\ IsFull(e.reference) => Len(e.reference.entries) = Len(e.bank.entries) /\ IsFull(e.bank)

(* A search in progress; the bank is sorted only as long as nothing is marked. *)
Running(e, pol) ==
  /\ DOMAIN e.bank = {"capacity", "entries"} /\ e.bank.capacity \in Int /\ IsMarked(e.bank.entries)
  /\ "capacity" \in DOMAIN e.reference /\ e.reference.capacity \in Int
  /\ MarksMatch(e.status, e.progress, e.bank.entries)
  /\ SizesAre(e, pol)
  /\ ~IsFull(e.reference) => Blank(e.bank.entries)
  /\ e.progress.action = "stage" => IsFull(e.bank)

Synced(e) == IsFull(e.bank) => IsFull(e.reference)

(* A refresh in progress: the stage masks are of what it preserves. *)
Collecting(r, p, pol) ==
  /\ DOMAIN r = {"target", "bank", "reference", "pool"}
  /\ IsMarked(r.bank) /\ IsMarked(r.pool)
  /\ r.target = StageCapacity(pol, p.index) /\ p.action = "none"
  /\ pol.refresh = "legacy" => p.seedMask = 1 .. Len(r.bank) /\ p.partnerMask = p.seedMask
  /\ p.refreshMask = {}
  /\ pol.growth = "off" => Len(r.reference) = Len(r.bank) /\ Len(r.bank) <= r.target

MarksHold(e, pol) ==
  /\ StageIs(e.progress, pol)
  /\ ~Refreshing(e) => Running(e, pol) /\ Synced(e)
  /\ Refreshing(e) => Collecting(e.refresh, e.progress, pol)

(* Entries as an update admits them. *)
Newcomer(x) == x \in MarkedEntry /\ x.new # 0 /\ x.seeded = FALSE /\ x.kept = "no"

(* The bank after some admissions: an entry is as it was, or has come since,
   and then it is better than the one whose place it took. *)
Admits(old, q) ==
  /\ q \in Seq(MarkedEntry) /\ Len(old) <= Len(q)
  /\ \A i \in DOMAIN q : \/ i <= Len(old) /\ q[i] = old[i]
                         \/ Newcomer(q[i]) /\ (i <= Len(old) => ValueOf(q[i]) < ValueOf(old[i]))

LEMMA EntriesAre ==
  ASSUME NEW q, q \in Seq(MarkedEntry)
  PROVE  /\ Len(q) \in Nat /\ DOMAIN q = 1 .. Len(q) /\ IsBank(q)
         /\ \A i \in DOMAIN q : q[i] \in MarkedEntry /\ ValueOf(q[i]) \in Int /\ HasPlace(q[i])
<1>1. Len(q) \in Nat /\ DOMAIN q = 1 .. Len(q) /\ q = [i \in 1 .. Len(q) |-> q[i]]
      /\ \A i \in DOMAIN q : q[i] \in MarkedEntry
  OBVIOUS
<1>2. \A i \in DOMAIN q : HasPlace(q[i])
  BY <1>1 DEF HasPlace, MarkedEntry
<1>3. IsBank(q)
  BY <1>1, <1>2, MakesBank
<1> QED BY <1>1, <1>2, <1>3, BankIs

LEMMA AdmitsNothing == ASSUME NEW q, q \in Seq(MarkedEntry) PROVE Admits(q, q)
  BY EntriesAre DEF Admits

LEMMA AdmitsTrans ==
  ASSUME NEW p, NEW q, NEW r, p \in Seq(MarkedEntry), Admits(p, q), Admits(q, r)
  PROVE  Admits(p, r)
<1>1. Len(p) \in Nat /\ Len(q) \in Nat /\ Len(r) \in Nat /\ Len(p) <= Len(q) /\ Len(q) <= Len(r)
      /\ DOMAIN p = 1 .. Len(p) /\ DOMAIN q = 1 .. Len(q) /\ DOMAIN r = 1 .. Len(r)
  BY EntriesAre DEF Admits
<1>2. ASSUME NEW i \in DOMAIN r
      PROVE  \/ i <= Len(p) /\ r[i] = p[i]
             \/ Newcomer(r[i]) /\ (i <= Len(p) => ValueOf(r[i]) < ValueOf(p[i]))
  <2>1. CASE i <= Len(q) /\ r[i] = q[i]
    <3>1. i \in DOMAIN q
      BY <1>1, <2>1
    <3> QED BY <2>1, <3>1 DEF Admits
  <2>2. CASE Newcomer(r[i]) /\ (i <= Len(q) => ValueOf(r[i]) < ValueOf(q[i]))
    <3> SUFFICES ASSUME i <= Len(p)
                 PROVE  ValueOf(r[i]) < ValueOf(p[i])
      BY <2>2
    <3>1. i \in DOMAIN q /\ i \in DOMAIN p
      BY <1>1
    <3>2. ValueOf(r[i]) < ValueOf(q[i]) /\ (q[i] = p[i] \/ ValueOf(q[i]) < ValueOf(p[i]))
      BY <1>1, <2>2, <3>1 DEF Admits
    <3>3. ValueOf(r[i]) \in Int /\ ValueOf(q[i]) \in Int /\ ValueOf(p[i]) \in Int
      BY <3>1, EntriesAre DEF Admits
    <3> QED BY <3>2, <3>3
  <2> QED BY <2>1, <2>2 DEF Admits
<1> QED BY <1>1, <1>2 DEF Admits

LEMMA AppendAdmits ==
  ASSUME NEW q, q \in Seq(MarkedEntry), NEW x, Newcomer(x)
  PROVE  Admits(q, Append(q, x)) /\ Len(Append(q, x)) = Len(q) + 1
<1> DEFINE a == Append(q, x)
<1>1. x \in MarkedEntry
  BY DEF Newcomer
<1>2. Len(q) \in Nat /\ DOMAIN q = 1 .. Len(q)
  OBVIOUS
<1>3. a \in Seq(MarkedEntry) /\ Len(a) = Len(q) + 1 /\ a[Len(q) + 1] = x
      /\ DOMAIN a = 1 .. (Len(q) + 1) /\ \A i \in 1 .. Len(q) : a[i] = q[i]
  BY <1>1
<1> HIDE DEF a
<1>4. ASSUME NEW i \in DOMAIN a
      PROVE  \/ i <= Len(q) /\ a[i] = q[i]
             \/ Newcomer(a[i]) /\ (i <= Len(q) => ValueOf(a[i]) < ValueOf(q[i]))
  <2>1. CASE i <= Len(q)
    BY <1>2, <1>3, <2>1
  <2>2. CASE ~(i <= Len(q))
    <3>1. i = Len(q) + 1
      BY <1>2, <1>3, <2>2
    <3> QED BY <1>3, <2>2, <3>1
  <2> QED BY <2>1, <2>2
<1> QED BY <1>2, <1>3, <1>4 DEF Admits, a

LEMMA ReplaceAdmits ==
  ASSUME NEW q, q \in Seq(MarkedEntry), NEW x, Newcomer(x), NEW i,
         i \in DOMAIN q => ValueOf(x) < ValueOf(q[i])
  PROVE  Admits(q, [q EXCEPT ![i] = x]) /\ Len([q EXCEPT ![i] = x]) = Len(q)
<1> DEFINE a == [q EXCEPT ![i] = x]
<1>1. x \in MarkedEntry
  BY DEF Newcomer
<1>2. Len(q) \in Nat /\ DOMAIN q = 1 .. Len(q)
  OBVIOUS
<1>3. a \in Seq(MarkedEntry) /\ Len(a) = Len(q) /\ DOMAIN a = DOMAIN q
      /\ \A j \in DOMAIN q : a[j] = IF j = i THEN x ELSE q[j]
  <2>1. /\ a = [j \in 1 .. Len(q) |-> a[j]]
        /\ \A j \in 1 .. Len(q) : a[j] = IF j = i THEN x ELSE q[j]
    BY Zenon, <1>2
  <2> HIDE DEF a
  <2>2. a \in [1 .. Len(q) -> MarkedEntry]
    BY <1>1, <1>2, <2>1
  <2> QED BY <1>2, <2>1, <2>2
<1> HIDE DEF a
<1> QED BY <1>2, <1>3 DEF Admits, a
-----------------------------------------------------------------------------
(* What the update of a bank leaves alone: the marks and, without growth, the
   capacity. *)
SameMarks(p, o) ==
  /\ MarkFields \subseteq DOMAIN o
  /\ o.action = p.action /\ o.index = p.index /\ o.round = p.round
  /\ o.seedMask = p.seedMask /\ o.partnerMask = p.partnerMask /\ o.refreshMask = p.refreshMask

HasEntries(s, pol) ==
  /\ {"bank", "progress"} \subseteq DOMAIN s /\ MarkFields \subseteq DOMAIN s.progress
  /\ DOMAIN s.bank = {"capacity", "entries"} /\ s.bank.capacity \in Int
  /\ s.bank.entries \in Seq(MarkedEntry)
  /\ pol.growth = "off" => Len(s.bank.entries) <= s.bank.capacity

Admission(s, t, pol) ==
  /\ HasEntries(t, pol) /\ Admits(s.bank.entries, t.bank.entries)
  /\ SameMarks(s.progress, t.progress)
  /\ pol.growth = "off" => t.bank.capacity = s.bank.capacity

LEMMA AdmittedTrans ==
  ASSUME NEW s, NEW t, NEW u, NEW pol, HasEntries(s, pol), Admission(s, t, pol), Admission(t, u, pol)
  PROVE  Admission(s, u, pol)
<1>1. Admits(s.bank.entries, u.bank.entries)
  BY AdmitsTrans DEF Admission, HasEntries
<1> QED BY <1>1 DEF Admission, SameMarks

LEMMA SameBankAdmitted ==
  ASSUME NEW s, NEW t, NEW pol, HasEntries(s, pol), {"bank", "progress"} \subseteq DOMAIN t,
         t.bank = s.bank, SameMarks(s.progress, t.progress)
  PROVE  Admission(s, t, pol)
  BY AdmitsNothing DEF Admission, HasEntries, SameMarks

LEMMA CutoffsKeepMarks ==
  ASSUME NEW p, MarkFields \subseteq DOMAIN p, NEW pol
  PROVE  /\ \A a, g : SameMarks(p, InitializeCutoff(p, pol, a, g))
         /\ \A g, u, l, f : SameMarks(p, AdvanceCutoff(p, pol, g, u, l, f).progress)
<1>1. \A a, g : SameMarks(p, InitializeCutoff(p, pol, a, g))
  BY DEF SameMarks, MarkFields, InitializeCutoff
<1>2. \A g, u, l, f : SameMarks(p, AdvanceCutoff(p, pol, g, u, l, f).progress)
  <2> SUFFICES ASSUME NEW g, NEW u, NEW l, NEW f
               PROVE  SameMarks(p, AdvanceCutoff(p, pol, g, u, l, f).progress)
    OBVIOUS
  <2> DEFINE o == AdvanceCutoff(p, pol, g, u, l, f).progress
  <2>1. PICK c, r, sg, cy :
          o = [p EXCEPT !.cutoff = c, !.recoverLimit = r, !.scoreGap = sg, !.cycle = cy,
                        !.refreshing = FALSE]
    BY Zenon DEF AdvanceCutoff
  <2> HIDE DEF o
  <2> QED BY <2>1 DEF SameMarks, MarkFields, o
<1> QED BY <1>1, <1>2

LEMMA WithCutoffAdmitted ==
  ASSUME NEW s, NEW pol, HasEntries(s, pol)
  PROVE  Admission(s, WithCutoff(s, pol), pol)
<1> DEFINE t == WithCutoff(s, pol)
<1>1. {"bank", "progress"} \subseteq DOMAIN t /\ t.bank = s.bank
  BY DEF WithCutoff, HasEntries
<1>2. SameMarks(s.progress, t.progress)
  <2>1. CASE t = s
    BY <2>1 DEF HasEntries, SameMarks
  <2>2. CASE t # s
    <3> DEFINE p == InitializeCutoff(s.progress, pol, AverageDistance(s.bank.entries),
                                     ScoreGap(s.bank.entries))
    <3>1. t = [s EXCEPT !.progress = p]
      BY <2>2 DEF WithCutoff
    <3>2. SameMarks(s.progress, p)
      BY CutoffsKeepMarks DEF HasEntries
    <3> HIDE DEF p, t
    <3> QED BY <3>1, <3>2 DEF HasEntries
  <2> QED BY <2>1, <2>2
<1> HIDE DEF t
<1> QED BY <1>1, <1>2, SameBankAdmitted DEF t

LEMMA ReplacedAdmitted ==
  ASSUME NEW s, NEW pol, HasEntries(s, pol), NEW x, Newcomer(x), NEW i, NEW nearest, NEW distance,
         i \in DOMAIN s.bank.entries => ValueOf(x) < ValueOf(s.bank.entries[i])
  PROVE  Admission(s, Replaced(s, i, x, nearest, distance), pol)
<1> DEFINE t == Replaced(s, i, x, nearest, distance)
           q == s.bank.entries
<1>1. /\ {"bank", "progress"} \subseteq DOMAIN t /\ t.progress = s.progress
      /\ DOMAIN t.bank = {"capacity", "entries"} /\ t.bank.capacity = s.bank.capacity
      /\ t.bank.entries = [q EXCEPT ![i] = x]
  BY DEF Replaced, HasEntries
<1> HIDE DEF t
<1>2. Admits(q, t.bank.entries) /\ Len(t.bank.entries) = Len(q)
  <2>1. q \in Seq(MarkedEntry)
    BY DEF HasEntries
  <2>2. Admits(q, [q EXCEPT ![i] = x]) /\ Len([q EXCEPT ![i] = x]) = Len(q)
    BY Zenon, <2>1, ReplaceAdmits
  <2> QED BY <1>1, <2>2
<1>3. HasEntries(t, pol)
  BY <1>1, <1>2 DEF HasEntries, Admits
<1> QED BY <1>1, <1>2, <1>3 DEF Admission, SameMarks, HasEntries, t

LEMMA AppendedAdmitted ==
  ASSUME NEW s, NEW pol, HasEntries(s, pol), pol.growth # "off", NEW x, Newcomer(x),
         NEW nearest, NEW distance
  PROVE  Admission(s, Appended(s, x, nearest, distance), pol)
<1> DEFINE t == Appended(s, x, nearest, distance)
           q == s.bank.entries
<1>1. /\ {"bank", "progress"} \subseteq DOMAIN t /\ t.progress = s.progress
      /\ DOMAIN t.bank = {"capacity", "entries"} /\ t.bank.capacity = Len(t.bank.entries)
      /\ t.bank.entries = Append(q, x)
  BY DEF Appended, HasEntries
<1> HIDE DEF t
<1>2. Admits(q, t.bank.entries)
  BY <1>1, AppendAdmits DEF HasEntries
<1>3. HasEntries(t, pol)
  BY <1>1, <1>2, EntriesAre DEF HasEntries, Admits
<1> QED BY <1>1, <1>2, <1>3 DEF Admission, SameMarks, HasEntries, t

LEMMA AdmitFullAdmitted ==
  ASSUME NEW s, NEW pol, HasEntries(s, pol), pol.clustering # "largest", NEW x, Newcomer(x),
         NEW lucky, NEW hot, hot = FALSE
  PROVE  Admission(s, AdmitFull(s, x, hot, lucky, pol), pol)
<1> DEFINE t        == AdmitFull(s, x, hot, lucky, pol)
           q        == s.bank.entries
           met      == [s EXCEPT !.met = @ + 1]
           nearest  == Nearest(s, x)
           distance == Between(x, q[nearest])
           victim   == FarVictim(q, ActiveCutoff(s), pol)
           accepts  == [i \in DOMAIN q |-> ShouldAccept(ValueOf(x), ValueOf(q[i]), hot, "far" \in lucky)]
           worst    == WorstOfCluster(s.clusters, q, nearest)
           replaced == Replaced(met, nearest, x, nearest, distance)
<1>1. {"bank", "progress"} \subseteq DOMAIN met /\ met.bank = s.bank /\ met.progress = s.progress
  BY DEF HasEntries
<1>2. /\ LocalUpdate(s, x, hot, lucky, pol) => ValueOf(x) < ValueOf(q[nearest])
      /\ ClusterUpdate(s, x, hot, lucky, pol) => ValueOf(x) < ValueOf(q[worst])
      /\ \A i \in DOMAIN q : accepts[i] => ValueOf(x) < ValueOf(q[i])
  BY Zenon DEF LocalUpdate, ClusterUpdate, ShouldAccept
<1>3. ClusterVictim(s.clusters, q, nearest, pol) = worst
  BY DEF ClusterVictim
<1>4. \/ t = [replaced EXCEPT !.local = @ + 1] /\ LocalUpdate(s, x, hot, lucky, pol)
      \/ /\ t = Appended(s, x, nearest, distance) /\ pol.growth # "off"
      \/ /\ t = Replaced(met, ClusterVictim(s.clusters, q, nearest, pol), x, nearest, distance)
         /\ ClusterUpdate(s, x, hot, lucky, pol)
      \/ t = [met EXCEPT !.local = @ + (IF distance < ActiveCutoff(s) THEN 1 ELSE 0)]
      \/ t = FarUpdate(met, victim, x, nearest, distance, accepts)
  BY DEF AdmitFull, CanGrow
<1> HIDE DEF t, nearest, distance, victim, worst, accepts, met, replaced
<1>5. Admission(s, met, pol) /\ HasEntries(met, pol)
  <2>1. SameMarks(s.progress, met.progress)
    BY <1>1 DEF SameMarks, HasEntries
  <2> QED BY <1>1, <2>1, SameBankAdmitted DEF Admission
<1>6. \A i : (i \in DOMAIN q => ValueOf(x) < ValueOf(q[i]))
               => Admission(s, Replaced(met, i, x, nearest, distance), pol)
  <2> SUFFICES ASSUME NEW i, i \in DOMAIN q => ValueOf(x) < ValueOf(q[i])
               PROVE  Admission(s, Replaced(met, i, x, nearest, distance), pol)
    OBVIOUS
  <2>1. i \in DOMAIN met.bank.entries => ValueOf(x) < ValueOf(met.bank.entries[i])
    BY <1>1
  <2>2. Admission(met, Replaced(met, i, x, nearest, distance), pol)
    BY <1>5, <2>1, ReplacedAdmitted
  <2> QED BY <1>5, <2>2, AdmittedTrans
<1>7. \A u, l : Admission(s, u, pol) => Admission(s, [u EXCEPT !.local = l], pol)
  BY DEF Admission, HasEntries
<1> SUFFICES Admission(s, t, pol)
  BY DEF t
<1>8. CASE t = [replaced EXCEPT !.local = @ + 1] /\ LocalUpdate(s, x, hot, lucky, pol)
  BY <1>2, <1>6, <1>7, <1>8 DEF replaced
<1>9. CASE t = Appended(s, x, nearest, distance) /\ pol.growth # "off"
  BY <1>9, AppendedAdmitted
<1>10. CASE /\ t = Replaced(met, ClusterVictim(s.clusters, q, nearest, pol), x, nearest, distance)
            /\ ClusterUpdate(s, x, hot, lucky, pol)
  BY <1>2, <1>3, <1>6, <1>10
<1>11. CASE t = [met EXCEPT !.local = @ + (IF distance < ActiveCutoff(s) THEN 1 ELSE 0)]
  BY <1>5, <1>7, <1>11
<1>12. CASE t = FarUpdate(met, victim, x, nearest, distance, accepts)
  <2>1. CASE accepts[victim]
    BY <1>2, <1>6, <1>12, <2>1 DEF FarUpdate
  <2>2. CASE ~accepts[victim]
    BY <1>5, <1>12, <2>2 DEF FarUpdate
  <2> QED BY <2>1, <2>2
<1> QED BY <1>4, <1>8, <1>9, <1>10, <1>11, <1>12

LEMMA AdmitOneAdmitted ==
  ASSUME NEW s, NEW pol, HasEntries(s, pol), pol.clustering # "largest",
         NEW o, o.at \in Positions, o.id \in Nat \ {0}, NEW hot, hot = FALSE
  PROVE  Admission(s, AdmitOne(s, o, hot, pol), pol)
<1> DEFINE x         == Entry(o.at, o.id)
           added     == [s EXCEPT !.bank.entries = Append(@, x)]
           clustered == [s EXCEPT !.clusters = EnsureClusters(@, s.bank.entries, pol)]
<1>1. Newcomer(x)
  BY DEF Newcomer, Entry, MarkedEntry, EntryKinds
<1>2. \/ AdmitOne(s, o, hot, pol) = WithCutoff(added, pol) /\ ~IsFull(s.bank)
      \/ AdmitOne(s, o, hot, pol) = AdmitFull(WithCutoff(clustered, pol), x, hot, o.lucky, pol)
  BY DEF AdmitOne
<1> HIDE DEF x
<1>3. ~IsFull(s.bank) => Admission(s, added, pol)
  <2>1. /\ {"bank", "progress"} \subseteq DOMAIN added /\ added.progress = s.progress
        /\ DOMAIN added.bank = {"capacity", "entries"} /\ added.bank.capacity = s.bank.capacity
        /\ added.bank.entries = Append(s.bank.entries, x)
    BY DEF HasEntries
  <2>2. Admits(s.bank.entries, added.bank.entries)
        /\ Len(added.bank.entries) = Len(s.bank.entries) + 1
    BY Zenon, <1>1, <2>1, AppendAdmits DEF HasEntries
  <2> HIDE DEF added
  <2>3. ASSUME ~IsFull(s.bank)
        PROVE  HasEntries(added, pol)
    <3>1. Len(s.bank.entries) \in Nat /\ s.bank.capacity \in Int
      BY EntriesAre DEF HasEntries
    <3>2. Len(added.bank.entries) <= added.bank.capacity
      BY <2>1, <2>2, <2>3, <3>1 DEF IsFull
    <3> QED BY <2>1, <2>2, <3>2 DEF HasEntries, Admits
  <2> QED BY <2>1, <2>2, <2>3 DEF Admission, SameMarks, HasEntries
<1>4. Admission(s, clustered, pol)
  <2>1. {"bank", "progress"} \subseteq DOMAIN clustered /\ clustered.bank = s.bank
        /\ clustered.progress = s.progress
    BY DEF HasEntries
  <2> HIDE DEF clustered
  <2> QED BY <2>1, SameBankAdmitted DEF HasEntries, SameMarks
<1> HIDE DEF added, clustered
<1>5. /\ ~IsFull(s.bank) => Admission(s, WithCutoff(added, pol), pol)
      /\ Admission(s, WithCutoff(clustered, pol), pol)
  <2>1. \A t : Admission(s, t, pol) => Admission(s, WithCutoff(t, pol), pol)
    BY WithCutoffAdmitted, AdmittedTrans DEF Admission
  <2> QED BY <1>3, <1>4, <2>1
<1>6. Admission(s, AdmitFull(WithCutoff(clustered, pol), x, hot, o.lucky, pol), pol)
  <2>1. \A t : Admission(s, t, pol) => Admission(s, AdmitFull(t, x, hot, o.lucky, pol), pol)
    <3> SUFFICES ASSUME NEW t, Admission(s, t, pol)
                 PROVE  Admission(s, AdmitFull(t, x, hot, o.lucky, pol), pol)
      OBVIOUS
    <3>1. HasEntries(t, pol)
      BY DEF Admission
    <3>2. Admission(t, AdmitFull(t, x, hot, o.lucky, pol), pol)
      BY Zenon, <1>1, <3>1, AdmitFullAdmitted
    <3> QED BY <3>2, AdmittedTrans
  <2> QED BY <1>5, <2>1
<1> QED BY <1>2, <1>5, <1>6

LEMMA AdmitAllAdmitted ==
  ASSUME NEW s, NEW pol, HasEntries(s, pol), pol.clustering # "largest",
         NEW observations, NEW d \in Nat, DOMAIN observations = 1..d,
         \A k \in 1..d : observations[k].at \in Positions /\ observations[k].id \in Nat \ {0},
         NEW hot, hot = FALSE
  PROVE  Admission(s, AdmitAll(s, observations, hot, pol), pol)
<1> DEFINE base == AdmitStart(s, pol)
<1>1. PICK g : /\ IsAdmitting(g, base, observations, hot, pol, 1..d)
               /\ AdmitAll(s, observations, hot, pol) = g[1..d]
  BY AdmitAllIs
<1> DEFINE B == {D \in SUBSET (1..d) : Admission(s, g[D], pol)}
<1>2. Admission(s, base, pol)
  <2>1. {"bank", "progress"} \subseteq DOMAIN base /\ base.bank = s.bank /\ base.progress = s.progress
    BY DEF AdmitStart, HasEntries
  <2> HIDE DEF base
  <2> QED BY <2>1, SameBankAdmitted DEF HasEntries, SameMarks
<1> HIDE DEF base
<1>3. \A D \in SUBSET (1..d) :
        g[D] = IF D = {} THEN base ELSE AdmitOne(g[D \ {Max(D)}], observations[Max(D)], hot, pol)
  BY Zenon, <1>1 DEF IsAdmitting
<1>4. {} \in B
  BY Zenon, <1>2, <1>3
<1>5. ASSUME NEW D \in SUBSET (1..d), D # {}, Max(D) \in 1..d, D \ {Max(D)} \in B
      PROVE  D \in B
  <2> DEFINE t == g[D \ {Max(D)}]
             o == observations[Max(D)]
  <2>1. Admission(s, t, pol)
    BY <1>5
  <2>2. g[D] = AdmitOne(t, o, hot, pol)
    BY Zenon, <1>3, <1>5
  <2>3. o.at \in Positions /\ o.id \in Nat \ {0}
    BY <1>5
  <2> HIDE DEF t, o
  <2>4. HasEntries(t, pol)
    BY <2>1 DEF Admission
  <2>5. Admission(t, AdmitOne(t, o, hot, pol), pol)
    BY Zenon, <2>3, <2>4, AdmitOneAdmitted
  <2> QED BY <1>5, <2>1, <2>2, <2>5, AdmittedTrans
<1>6. 1..d \in B
  <2>1. B \in SUBSET (SUBSET (1..d))
    OBVIOUS
  <2> HIDE DEF B
  <2> QED BY Zenon, <1>4, <1>5, <2>1, FromBelow
<1> QED BY <1>1, <1>6

LEMMA GapIsInt ==
  ASSUME NEW b, IsBank(b)
  PROVE  (IF b = << >> THEN 0 ELSE ScoreGap(b)) \in Int
<1> SUFFICES ASSUME b # << >>
             PROVE  LargestOf(Values(b)) \in Int /\ SmallestOf(Values(b)) \in Int
  BY DEF ScoreGap
<1>1. Len(b) \in Nat /\ Len(b) > 0 /\ \A i \in DOMAIN b : ValueOf(b[i]) \in Int
  BY BankIs
<1>2. PICK low \in DOMAIN b, high \in DOMAIN b : Rank(b, low) = 0 /\ Rank(b, high) = Len(b) - 1
  <2>1. 0 \in 0 .. (Len(b) - 1) /\ Len(b) - 1 \in 0 .. (Len(b) - 1)
    BY <1>1
  <2> QED BY <2>1, Ranks
<1>3. \A j \in DOMAIN b : ValueOf(b[low]) <= ValueOf(b[j]) /\ ValueOf(b[j]) <= ValueOf(b[high])
  BY <1>2, Ranks
<1>4. /\ ValueOf(b[low]) \in Values(b) /\ \A y \in Values(b) : ValueOf(b[low]) <= y
      /\ ValueOf(b[high]) \in Values(b) /\ \A y \in Values(b) : ValueOf(b[high]) >= y
      /\ Values(b) \subseteq Int
  BY <1>1, <1>3 DEF Values
<1> QED BY <1>4 DEF LargestOf, SmallestOf

LEMMA Parts ==
  ASSUME NEW S, NEW A, NEW B, IsFiniteSet(A), IsFiniteSet(B), A \subseteq S, B = S \ A
  PROVE  Cardinality(A) + Cardinality(B) = Cardinality(S)
<1>1. A \cup B = S /\ A \cap B = {}
  OBVIOUS
<1>2. Cardinality(A \cup B) = Cardinality(A) + Cardinality(B) - Cardinality(A \cap B)
  BY FS_Union
<1>3. Cardinality(A) \in Nat /\ Cardinality(B) \in Nat
  BY FS_CardinalityType
<1>4. Cardinality({}) = 0
  BY FS_EmptySet
<1>5. Cardinality(A \cap B) = 0
  BY <1>1, <1>4
<1>6. Cardinality(A \cup B) = Cardinality(S)
  BY <1>1
<1> QED BY <1>2, <1>3, <1>5, <1>6

(* Marks kept by index, after admissions. *)
LEMMA ChangedAre ==
  ASSUME NEW old, IsMarked(old), NEW q, Admits(old, q), NEW pol, MarkProfile(pol)
  PROVE  /\ ChangedIndices(old, q) = {i \in DOMAIN q : Newcomer(q[i])}
         /\ \A i \in DOMAIN q : ~Newcomer(q[i]) => i \in DOMAIN old /\ q[i] = old[i]
         /\ SignificantIndices(old, q, pol) = ChangedIndices(old, q)
<1>1. /\ Len(old) \in Nat /\ DOMAIN old = 1 .. Len(old) /\ Len(q) \in Nat /\ DOMAIN q = 1 .. Len(q)
      /\ \A i \in DOMAIN old : ValueOf(old[i]) \in Int /\ old[i].new = 0
      /\ \A i \in DOMAIN q : ValueOf(q[i]) \in Int
      /\ IsBank(old) /\ IsBank(q)
  BY EntriesAre DEF IsMarked, Admits
<1>2. \A i \in DOMAIN q : ~Newcomer(q[i]) => i \in DOMAIN old /\ q[i] = old[i]
  BY <1>1 DEF Admits
<1>3. ASSUME NEW i \in DOMAIN q
      PROVE  i \in ChangedIndices(old, q) <=> Newcomer(q[i])
  <2>1. CASE Newcomer(q[i])
    BY <2>1 DEF Newcomer, ChangedIndices
  <2>2. CASE ~Newcomer(q[i])
    <3>1. i \in DOMAIN old /\ q[i] = old[i]
      BY <1>2, <2>2
    <3>2. i <= Len(old) /\ q[i].new = 0
      BY <1>1, <3>1
    <3> QED BY <1>1, <2>2, <3>2 DEF ChangedIndices
  <2> QED BY <2>1, <2>2
<1>4. ChangedIndices(old, q) = {i \in DOMAIN q : Newcomer(q[i])}
  <2>1. ChangedIndices(old, q) \subseteq DOMAIN q
    BY DEF ChangedIndices
  <2> QED BY <1>3, <2>1
<1>5. SignificantIndices(old, q, pol) = ChangedIndices(old, q)
  <2> DEFINE Span(b) == IF b = << >> THEN 0 ELSE ScoreGap(b)
             span == LargestOf({Span(old), Span(q)})
             delta(i) == LET d == ValueOf(old[i]) - ValueOf(q[i]) IN IF d < 0 THEN -d ELSE d
  <2>1. SignificantIndices(old, q, pol)
          = {i \in ChangedIndices(old, q) : i > Len(old) \/ 100 * delta(i) > pol.significantPercent * span}
    BY DEF SignificantIndices
  <2>2. span \in Int
    <3>1. \A b : IsBank(b) => Span(b) \in Int
      BY GapIsInt
    <3> HIDE DEF Span
    <3>2. Span(old) \in Int /\ Span(q) \in Int
      BY <1>1, <3>1
    <3>3. span \in {Span(old), Span(q)}
      BY <3>2, SmallestOfTwo, Zenon
    <3> HIDE DEF span
    <3> QED BY <3>2, <3>3
  <2> HIDE DEF span
  <2>3. pol.significantPercent * span = 0
    BY <2>2 DEF MarkProfile
  <2>4. ASSUME NEW i \in ChangedIndices(old, q), ~(i > Len(old))
        PROVE  100 * delta(i) > 0
    <3>1. i \in DOMAIN q /\ Newcomer(q[i])
      BY <1>4
    <3>2. i \in DOMAIN old /\ i <= Len(old)
      BY <1>1, <2>4, <3>1
    <3>3. \/ q[i] = old[i]
          \/ ValueOf(q[i]) < ValueOf(old[i])
      BY <3>1, <3>2 DEF Admits
    <3>4. ValueOf(q[i]) < ValueOf(old[i])
      BY <1>1, <3>1, <3>2, <3>3 DEF Newcomer
    <3>5. ValueOf(q[i]) \in Int /\ ValueOf(old[i]) \in Int
      BY <1>1, <3>1, <3>2
    <3> QED BY <3>4, <3>5
  <2> HIDE DEF delta
  <2> QED BY <2>1, <2>3, <2>4
<1> QED BY <1>2, <1>4, <1>5

AfterAdmissions(status, significant, n) ==
  IF significant = {} THEN status ELSE Invalidated(status, significant, n)

LEMMA AdmissionsMatch ==
  ASSUME NEW old, IsMarked(old), NEW q, Admits(old, q), NEW status, NEW p,
         MarksMatch(status, p, old), NEW o, SameMarks(p, o),
         NEW changed, changed = {i \in DOMAIN q : Newcomer(q[i])},
         \A i \in DOMAIN q : ~Newcomer(q[i]) => i \in DOMAIN old /\ q[i] = old[i]
  PROVE  MarksMatch(AfterAdmissions(status, changed, Len(q)), Unmasked(o, changed), q)
<1> DEFINE s == AfterAdmissions(status, changed, Len(q))
           u == Unmasked(o, changed)
<1>1. /\ Len(old) \in Nat /\ DOMAIN old = 1 .. Len(old) /\ Len(q) \in Nat /\ DOMAIN q = 1 .. Len(q)
      /\ Len(old) <= Len(q)
  BY EntriesAre DEF IsMarked, Admits
<1>2. u.seedMask = p.seedMask \ changed /\ u.refreshMask = p.refreshMask \ changed
      /\ u.partnerMask = p.partnerMask
  BY DEF Unmasked, SameMarks, MarkFields
<1>3. status \in Seq(BOOLEAN) /\ Len(status) <= Len(old)
      /\ \A i \in DOMAIN old : Used(status, i) = old[i].seeded
  BY DEF MarksMatch
<1>4. /\ s \in Seq(BOOLEAN) /\ Len(s) <= Len(q)
      /\ \A i \in DOMAIN q : Used(s, i) = q[i].seeded
  <2>1. CASE changed = {}
    <3>1. \A i \in DOMAIN q : i \in DOMAIN old /\ q[i] = old[i]
      BY <2>1
    <3>2. s = status
      BY <2>1 DEF AfterAdmissions
    <3> HIDE DEF s
    <3> QED BY <1>1, <1>3, <3>1, <3>2
  <2>2. CASE changed # {}
    <3>1. s = [i \in 1 .. Len(q) |-> Resized(status, Len(q))[i] /\ i \notin changed]
      BY <2>2 DEF AfterAdmissions, Invalidated
    <3>2. \A i \in 1 .. Len(q) : Resized(status, Len(q))[i] = Used(status, i)
      BY DEF Resized, Used
    <3> HIDE DEF s
    <3>3. /\ s = [i \in 1 .. Len(q) |-> s[i]]
          /\ \A i \in 1 .. Len(q) : s[i] = (Used(status, i) /\ i \notin changed)
      BY <3>1, <3>2
    <3>4. s \in Seq(BOOLEAN) /\ Len(s) = Len(q)
      <4>1. \A i \in 1 .. Len(q) : s[i] \in BOOLEAN
        BY Zenon, <3>3
      <4>2. s \in [1 .. Len(q) -> BOOLEAN]
        BY <3>3, <4>1
      <4> QED BY <1>1, <4>2
    <3>5. ASSUME NEW i \in DOMAIN q
          PROVE  Used(s, i) = q[i].seeded
      <4>1. Used(s, i) = (Used(status, i) /\ i \notin changed)
        BY <1>1, <3>3, <3>4 DEF Used
      <4>2. CASE i \in changed
        BY Zenon, <4>1, <4>2 DEF Newcomer
      <4>3. CASE i \notin changed
        <5>1. i \in DOMAIN old /\ q[i] = old[i]
          BY <4>3
        <5>2. old[i].seeded \in BOOLEAN
          BY Zenon, <5>1, EntriesAre DEF IsMarked, MarkedEntry
        <5> QED BY <1>3, <4>1, <4>3, <5>1, <5>2
      <4> QED BY <4>2, <4>3
    <3> QED BY <1>1, <3>4, <3>5
  <2> QED BY <2>1, <2>2
<1> HIDE DEF s, u
<1>5. \A k \in EntryKinds \ {"no"} :
        {i \in DOMAIN old : old[i].kept = k} \ changed = {i \in DOMAIN q : q[i].kept = k}
  <2> SUFFICES ASSUME NEW k \in EntryKinds \ {"no"}, NEW i
               PROVE  i \in DOMAIN old /\ old[i].kept = k /\ i \notin changed
                        <=> i \in DOMAIN q /\ q[i].kept = k
    OBVIOUS
  <2>1. i \in DOMAIN old => i \in DOMAIN q
    BY <1>1
  <2>2. i \in changed => q[i].kept # k
    BY DEF Newcomer
  <2> QED BY <2>1, <2>2
<1>6. "stage" \in EntryKinds \ {"no"} /\ "refresh" \in EntryKinds \ {"no"}
  BY DEF EntryKinds
<1>7. u.seedMask = {i \in DOMAIN q : q[i].kept = "stage"}
  BY <1>2, <1>5, <1>6 DEF MarksMatch
<1>8. u.refreshMask = {i \in DOMAIN q : q[i].kept = "refresh"}
  BY <1>2, <1>5, <1>6 DEF MarksMatch
<1>9. u.partnerMask \subseteq DOMAIN q
  BY <1>1, <1>2 DEF MarksMatch
<1> QED BY <1>4, <1>7, <1>8, <1>9 DEF MarksMatch, s, u
-----------------------------------------------------------------------------
(* Marks kept by index, after a removal. *)
NthOf(stays, k) == CHOOSE i \in stays : Cardinality(Before(stays, i)) = k - 1

Stays(n, removed) == (1 .. n) \ removed

LEMMA Removal ==
  ASSUME NEW n \in Nat, NEW removed \in SUBSET (1 .. n)
  PROVE  LET stays == Stays(n, removed) IN
         /\ Cardinality(stays) \in Nat /\ IsFiniteSet(removed) /\ Cardinality(removed) \in Nat
         /\ Cardinality(stays) + Cardinality(removed) = n
         /\ \A k \in 1 .. Cardinality(stays) : NthOf(stays, k) \in stays
         /\ \A marks \in SUBSET (1 .. n) : \A k :
              k \in Remapped(marks, removed, Cardinality(stays))
                <=> k \in 1 .. Cardinality(stays) /\ NthOf(stays, k) \in marks
<1> DEFINE stays == Stays(n, removed)
           m == Cardinality(stays)
<1>14. stays = (1 .. n) \ removed
  BY DEF Stays
<1> HIDE DEF stays
<1>1. IsFiniteSet(1 .. n) /\ Cardinality(1 .. n) = n
  BY FS_Interval
<1>2. IsFiniteSet(removed) /\ IsFiniteSet(stays)
  <2>1. stays \subseteq 1 .. n
    BY <1>14
  <2> QED BY Zenon, <1>1, <2>1, FS_Subset
<1>3. Cardinality(removed) \in Nat /\ m \in Nat
  BY <1>2, FS_CardinalityType
<1>4. Cardinality(removed) + m = n
  BY Zenon, <1>2, <1>1, <1>14, Parts
<1>5. stays \in SUBSET Int
  BY <1>14
<1>6. \A k \in 1 .. m : NthOf(stays, k) \in stays /\ Cardinality(Before(stays, NthOf(stays, k))) = k - 1
  <2> SUFFICES ASSUME NEW k \in 1 .. m
               PROVE  \E i \in stays : Cardinality(Before(stays, i)) = k - 1
    BY DEF NthOf
  <2>1. k - 1 \in 0 .. (m - 1)
    BY <1>3
  <2> QED BY <1>2, <1>5, <2>1, Ranking
<1>7. ASSUME NEW j \in stays
      PROVE  /\ j - Cardinality({r \in removed : r < j}) = Cardinality(Before(stays, j)) + 1
             /\ Cardinality(Before(stays, j)) \in 0 .. (m - 1)
  <2> DEFINE R == {r \in removed : r < j}
             B == Before(stays, j)
  <2>1. j \in 1 .. n /\ j - 1 \in Nat
    BY <1>14
  <2>2. R \subseteq 1 .. (j - 1) /\ B = (1 .. (j - 1)) \ R
    <3>1. removed \subseteq 1 .. n /\ j \in 1 .. n /\ n \in Nat
      BY <2>1
    <3>2. \A i : i \in R <=> i \in removed /\ i < j
      OBVIOUS
    <3>3. \A i : i \in B <=> i \in stays /\ i < j
      BY DEF Before
    <3>4. \A i : i \in stays <=> i \in 1 .. n /\ i \notin removed
      BY <1>14
    <3> HIDE DEF R, B
    <3>5. \A i : i \in 1 .. (j - 1) <=> i \in 1 .. n /\ i < j
      BY <3>1
    <3>6. R \subseteq 1 .. (j - 1)
      BY Zenon, <3>1, <3>2, <3>5
    <3>7. \A i : i \in B <=> i \in 1 .. (j - 1) /\ i \notin R
      BY <3>2, <3>3, <3>4, <3>5
    <3> QED BY <3>6, <3>7
  <2>3. IsFiniteSet(1 .. (j - 1)) /\ Cardinality(1 .. (j - 1)) = j - 1
    BY <2>1, FS_Interval
  <2>4. IsFiniteSet(R) /\ IsFiniteSet(B)
    <3>1. B \subseteq 1 .. (j - 1)
      BY <2>2
    <3> QED BY Zenon, <2>2, <2>3, <3>1, FS_Subset
  <2>5. Cardinality(R) \in Nat /\ Cardinality(B) \in Nat
    BY <2>4, FS_CardinalityType
  <2> HIDE DEF R, B
  <2>6. Cardinality(R) + Cardinality(B) = j - 1
    BY Zenon, <2>2, <2>3, <2>4, Parts
  <2>7. Cardinality(B) \in 0 .. (m - 1)
    BY <1>2, <1>5, Ranking DEF B
  <2> QED BY <2>1, <2>5, <2>6, <2>7 DEF R, B
<1> HIDE DEF m
<1>12. \A j \in stays : \A k \in 1 .. m :
         j - Cardinality({r \in removed : r < j}) = k <=> Cardinality(Before(stays, j)) = k - 1
  <2> SUFFICES ASSUME NEW j \in stays, NEW k \in 1 .. m
               PROVE  j - Cardinality({r \in removed : r < j}) = k <=> Cardinality(Before(stays, j)) = k - 1
    OBVIOUS
  <2> DEFINE a == j - Cardinality({r \in removed : r < j})
             b == Cardinality(Before(stays, j))
  <2>1. a = b + 1 /\ b \in 0 .. (m - 1)
    BY <1>7
  <2> HIDE DEF a, b
  <2>2. a = k <=> b = k - 1
    BY <1>3, <2>1
  <2> QED BY <2>2 DEF a, b
<1>13. \A j \in stays : Cardinality(Before(stays, j)) \in Int
  <2> SUFFICES ASSUME NEW j \in stays
               PROVE  Cardinality(Before(stays, j)) \in Int
    OBVIOUS
  <2> DEFINE b == Cardinality(Before(stays, j))
  <2>1. b \in 0 .. (m - 1)
    BY Zenon, <1>7
  <2> HIDE DEF b
  <2>2. b \in Int
    BY <1>3, <2>1
  <2> QED BY <2>2 DEF b
<1>8. \A i, j \in stays : Cardinality(Before(stays, i)) = Cardinality(Before(stays, j)) => i = j
  <2>1. \A x, y \in stays : x < y => Cardinality(Before(stays, x)) < Cardinality(Before(stays, y))
    BY <1>2, <1>5, Ranking
  <2>2. \A x \in stays : Cardinality(Before(stays, x)) \in Int /\ x \in Int
    BY <1>5, <1>13
  <2> QED BY <2>1, <2>2
<1>9. \A j \in stays : \A k \in 1 .. m :
        j - Cardinality({r \in removed : r < j}) = k <=> NthOf(stays, k) = j
  <2> SUFFICES ASSUME NEW j \in stays, NEW k \in 1 .. m
               PROVE  Cardinality(Before(stays, j)) = k - 1 <=> NthOf(stays, k) = j
    BY <1>12
  <2> QED BY <1>6, <1>8
<1>10. ASSUME NEW marks \in SUBSET (1 .. n)
       PROVE  \A k : k \in Remapped(marks, removed, m) <=> k \in 1 .. m /\ NthOf(stays, k) \in marks
  <2> DEFINE at(j) == j - Cardinality({r \in removed : r < j})
  <2>1. Remapped(marks, removed, m) = {i \in {at(j) : j \in marks \ removed} : 1 <= i /\ i <= m}
    BY DEF Remapped
  <2>2. \A j \in stays : at(j) \in 1 .. m /\ at(j) \in Int
    BY <1>3, <1>5, <1>7
  <2>3. \A j \in stays : \A k \in 1 .. m : at(j) = k <=> NthOf(stays, k) = j
    BY <1>9
  <2>4. marks \ removed = {j \in stays : j \in marks}
    BY Zenon, <1>14
  <2> HIDE DEF at
  <2>5. \A k \in 1 .. m : NthOf(stays, k) \in stays
    BY <1>6
  <2>6. ASSUME NEW k
        PROVE  k \in Remapped(marks, removed, m) <=> k \in 1 .. m /\ NthOf(stays, k) \in marks
    <3>1. ASSUME k \in Remapped(marks, removed, m)
          PROVE  k \in 1 .. m /\ NthOf(stays, k) \in marks
      <4>1. PICK j \in marks \ removed : k = at(j)
        BY <2>1, <3>1
      <4> QED BY <2>2, <2>3, <2>4, <4>1
    <3>2. ASSUME k \in 1 .. m, NthOf(stays, k) \in marks
          PROVE  k \in Remapped(marks, removed, m)
      <4>1. NthOf(stays, k) \in marks \ removed /\ at(NthOf(stays, k)) = k
        BY <2>3, <2>4, <2>5, <3>2
      <4>2. 1 <= k /\ k <= m
        BY <1>3, <3>2
      <4> QED BY Zenon, <2>1, <4>1, <4>2
    <3> QED BY <3>1, <3>2
  <2> QED BY <2>6
<1>11. m + Cardinality(removed) = n
  BY <1>3, <1>4
<1> QED BY <1>2, <1>3, <1>6, <1>10, <1>11 DEF m, stays

-----------------------------------------------------------------------------
LEMMA MakesEntries ==
  ASSUME NEW n \in Nat, NEW q, q = [i \in 1 .. n |-> q[i]], \A i \in 1 .. n : q[i] \in MarkedEntry
  PROVE  q \in Seq(MarkedEntry) /\ Len(q) = n /\ DOMAIN q = 1 .. n
<1>1. q \in [1 .. n -> MarkedEntry]
  OBVIOUS
<1> QED BY <1>1

\* Entries with the same marks match the same.
LEMMA SameMatch ==
  ASSUME NEW q, NEW r, q \in Seq(MarkedEntry), r \in Seq(MarkedEntry), Len(r) = Len(q),
         \A i \in DOMAIN q : r[i].seeded = q[i].seeded /\ r[i].kept = q[i].kept,
         NEW status, NEW p, MarksMatch(status, p, q)
  PROVE  MarksMatch(status, p, r)
<1>1. DOMAIN r = DOMAIN q
  BY EntriesAre
<1> QED BY <1>1 DEF MarksMatch

(* The bank, the marks and the status after a removal, if there was one. *)
Rest(q, removed) == IF removed = {} THEN q ELSE Without(q, removed)
RestMarks(p, removed, n) == IF removed = {} THEN p ELSE ProgressRemove(p, removed, n)

(* What a change of the marks may not do to the stage they are of. *)
StageKept(p, o) ==
  /\ MarkFields \subseteq DOMAIN o
  /\ o.action = p.action /\ o.index = p.index /\ o.round = p.round
  /\ p.seedMask = {} => o.seedMask = {}
  /\ p.partnerMask = {} => o.partnerMask = {}

LEMMA StageStays ==
  ASSUME NEW p, NEW o, NEW pol, StageIs(p, pol), StageKept(p, o)
  PROVE  StageIs(o, pol)
  BY DEF StageIs, StageKept, StagesLeft

LEMMA WithoutIs ==
  ASSUME NEW q, q \in Seq(MarkedEntry), NEW removed, removed \subseteq DOMAIN q
  PROVE  LET stays == Stays(Len(q), removed)
             m     == Cardinality(stays)
             w     == Without(q, removed)
         IN  /\ w \in Seq(MarkedEntry) /\ Len(w) = m /\ DOMAIN w = 1 .. m /\ m \in Nat
             /\ \A k \in 1 .. m : NthOf(stays, k) \in DOMAIN q /\ w[k] = q[NthOf(stays, k)]
<1> DEFINE stays == Stays(Len(q), removed)
           m     == Cardinality(stays)
           w     == Without(q, removed)
<1>1. Len(q) \in Nat /\ DOMAIN q = 1 .. Len(q) /\ \A i \in DOMAIN q : q[i] \in MarkedEntry
  BY EntriesAre
<1>2. stays = DOMAIN q \ removed /\ stays \subseteq DOMAIN q
  BY <1>1 DEF Stays
<1>3. m \in Nat /\ \A k \in 1 .. m : NthOf(stays, k) \in stays
  <2>1. removed \in SUBSET (1 .. Len(q))
    BY <1>1
  <2> QED BY <1>1, <2>1, Removal
<1>4. w = [k \in 1 .. m |-> q[NthOf(stays, k)]]
  <2> DEFINE S == DOMAIN q \ removed
  <2>1. w = [k \in 1 .. Cardinality(S) |-> q[NthOf(S, k)]]
    BY DEF Without, NthOf, Before
  <2>2. S = stays
    BY <1>2
  <2> HIDE DEF S, stays, w
  <2> QED BY <2>1, <2>2
<1> HIDE DEF stays, m, w
<1>5. w = [k \in 1 .. m |-> w[k]] /\ \A k \in 1 .. m : w[k] = q[NthOf(stays, k)] /\ w[k] \in MarkedEntry
  BY Zenon, <1>1, <1>2, <1>3, <1>4
<1>6. w \in Seq(MarkedEntry) /\ Len(w) = m /\ DOMAIN w = 1 .. m
  BY <1>3, <1>5, MakesEntries
<1> QED BY Zenon, <1>2, <1>3, <1>5, <1>6 DEF stays, m, w

LEMMA StatusWithout ==
  ASSUME NEW n \in Nat, NEW removed, removed \in SUBSET (1 .. n), removed # {}, NEW status
  PROVE  LET stays == Stays(n, removed)
             m     == Cardinality(stays)
             s     == StatusRemove(status, removed, m)
         IN  s \in Seq(BOOLEAN) /\ Len(s) = m /\ \A k \in 1 .. m : s[k] = Used(status, NthOf(stays, k))
<1> DEFINE stays  == Stays(n, removed)
           m      == Cardinality(stays)
           before == Resized(status, m + Cardinality(removed))
           s      == StatusRemove(status, removed, m)
<1>1. m \in Nat /\ m + Cardinality(removed) = n /\ \A k \in 1 .. m : NthOf(stays, k) \in stays
  BY Removal
<1>2. DOMAIN before = 1 .. n /\ \A i \in 1 .. n : before[i] = Used(status, i)
  BY <1>1 DEF Resized, Used
<1>3. {i \in DOMAIN before : i \notin removed} = stays
  BY <1>2 DEF Stays
<1>4. s = [k \in 1 .. m |-> before[NthOf({i \in DOMAIN before : i \notin removed}, k)]]
  BY Zenon DEF StatusRemove, NthOf, Before
<1> HIDE DEF before, s
<1>5. s = [k \in 1 .. m |-> before[NthOf(stays, k)]]
  BY <1>3, <1>4
<1>6. \A k \in 1 .. m : NthOf(stays, k) \in 1 .. n
  BY <1>1 DEF Stays
<1> HIDE DEF stays, m
<1>7. s = [k \in 1 .. m |-> s[k]] /\ \A k \in 1 .. m : s[k] = Used(status, NthOf(stays, k))
  BY <1>2, <1>5, <1>6
<1>8. \A k \in 1 .. m : s[k] \in {TRUE, FALSE}
  BY Zenon, <1>7 DEF Used
<1>9. s \in [1 .. m -> BOOLEAN]
  BY Zenon, <1>7, <1>8
<1>10. s \in Seq(BOOLEAN) /\ Len(s) = m
  BY <1>1, <1>9
<1> QED BY Zenon, <1>7, <1>10 DEF stays, m, s

LEMMA RestMatches ==
  ASSUME NEW q, q \in Seq(MarkedEntry), NEW removed, removed \subseteq DOMAIN q,
         NEW status, NEW p, MarksMatch(status, p, q), MarkFields \subseteq DOMAIN p
  PROVE  LET w == Rest(q, removed)
             o == RestMarks(p, removed, Len(w))
         IN  /\ w \in Seq(MarkedEntry) /\ \A k \in DOMAIN w : \E i \in DOMAIN q : w[k] = q[i]
             /\ MarksMatch(StatusRemove(status, removed, Len(w)), o, w)
             /\ StageKept(p, o)
<1> DEFINE stays == Stays(Len(q), removed)
           m     == Cardinality(stays)
           w     == Rest(q, removed)
           o     == RestMarks(p, removed, Len(w))
           s     == StatusRemove(status, removed, Len(w))
<1>1. Len(q) \in Nat /\ DOMAIN q = 1 .. Len(q)
  BY EntriesAre
<1>2. CASE removed = {}
  <2>1. w = q /\ o = p /\ s = status
    BY <1>2 DEF Rest, RestMarks, StatusRemove
  <2> HIDE DEF w, o, s
  <2> QED BY <2>1 DEF StageKept, w, o, s
<1>3. CASE removed # {}
  <2>1. w = Without(q, removed) /\ o = ProgressRemove(p, removed, Len(w))
    BY <1>3 DEF Rest, RestMarks
  <2> HIDE DEF w, o
  <2>2. /\ w \in Seq(MarkedEntry) /\ Len(w) = m /\ DOMAIN w = 1 .. m
        /\ \A k \in 1 .. m : NthOf(stays, k) \in DOMAIN q /\ w[k] = q[NthOf(stays, k)]
    BY <2>1, WithoutIs
  <2>13. removed \in SUBSET (1 .. Len(q))
    BY <1>1
  <2>3. /\ s \in Seq(BOOLEAN) /\ Len(s) = m
        /\ \A k \in 1 .. m : s[k] = Used(status, NthOf(stays, k))
    <3>1. LET t == StatusRemove(status, removed, m)
          IN  t \in Seq(BOOLEAN) /\ Len(t) = m /\ \A k \in 1 .. m : t[k] = Used(status, NthOf(stays, k))
      <4>1. Len(q) \in Nat
        BY <1>1
      <4> QED BY <1>3, <2>13, <4>1, StatusWithout
    <3>2. s = StatusRemove(status, removed, m)
      BY <2>2
    <3> HIDE DEF s, m, stays
    <3> QED BY <3>1, <3>2
  <2>4. /\ MarkFields \subseteq DOMAIN o
        /\ o.action = p.action /\ o.index = p.index /\ o.round = p.round
        /\ o.seedMask = Remapped(p.seedMask, removed, m)
        /\ o.partnerMask = Remapped(p.partnerMask, removed, m)
        /\ o.refreshMask = Remapped(p.refreshMask, removed, m)
    BY <2>1, <2>2 DEF ProgressRemove, MarkFields
  <2>5. \A marks \in SUBSET (1 .. Len(q)) : \A k :
          k \in Remapped(marks, removed, m) <=> k \in 1 .. m /\ NthOf(stays, k) \in marks
    BY <1>1, <2>13, Removal
  <2>6. p.seedMask \in SUBSET (1 .. Len(q)) /\ p.partnerMask \in SUBSET (1 .. Len(q))
        /\ p.refreshMask \in SUBSET (1 .. Len(q))
    BY <1>1 DEF MarksMatch
  <2> HIDE DEF s, m, stays
  <2>7. \A k : /\ k \in o.seedMask <=> k \in 1 .. m /\ NthOf(stays, k) \in p.seedMask
               /\ k \in o.partnerMask <=> k \in 1 .. m /\ NthOf(stays, k) \in p.partnerMask
               /\ k \in o.refreshMask <=> k \in 1 .. m /\ NthOf(stays, k) \in p.refreshMask
    BY <2>4, <2>5, <2>6
  <2>8. \A k \in DOMAIN w : Used(s, k) = w[k].seeded
    <3> SUFFICES ASSUME NEW k \in DOMAIN w
                 PROVE  Used(s, k) = w[k].seeded
      OBVIOUS
    <3>1. k \in 1 .. m /\ m \in Nat
      BY <2>2, EntriesAre
    <3>2. k <= Len(s)
      BY <2>3, <3>1
    <3>3. s[k] = q[NthOf(stays, k)].seeded
      BY <2>2, <2>3, <3>1 DEF MarksMatch
    <3>4. w[k].seeded \in BOOLEAN
      BY Zenon, EntriesAre, <2>2 DEF MarkedEntry
    <3> QED BY <2>2, <3>1, <3>2, <3>3, <3>4 DEF Used
  <2>9. /\ o.seedMask = {k \in DOMAIN w : w[k].kept = "stage"}
        /\ o.refreshMask = {k \in DOMAIN w : w[k].kept = "refresh"}
        /\ o.partnerMask \subseteq DOMAIN w
    BY <2>2, <2>7 DEF MarksMatch
  <2>10. MarksMatch(s, o, w)
    <3>1. Len(s) <= Len(w)
      BY <2>2, <2>3, EntriesAre
    <3> QED BY <2>3, <2>8, <2>9, <3>1 DEF MarksMatch
  <2>11. StageKept(p, o)
    BY <2>4, <2>7 DEF StageKept
  <2>12. \A k \in DOMAIN w : \E i \in DOMAIN q : w[k] = q[i]
    BY <2>2
  <2> QED BY <2>2, <2>10, <2>11, <2>12 DEF w, o, s
<1> QED BY <1>2, <1>3

-----------------------------------------------------------------------------
(* The marks after the update of a bank. *)
UpdateKeeps(s, full, status, pol) ==
  LET old   == s.bank.entries
      batch == WithCut(old, full, pol)
      after == batch.shadow
      q     == after.bank.entries
      valid == AfterAdmissions(status, batch.significant, batch.grownTo)
      free  == Unmasked(after.progress, batch.changed)
      o     == RestMarks(free, batch.removed, Len(q))
  IN  /\ DOMAIN after.bank = {"capacity", "entries"} /\ after.bank.capacity \in Int
      /\ q \in Seq(MarkedEntry) /\ MarksMatch(StatusRemove(valid, batch.removed, Len(q)), o, q)
      /\ StageKept(s.progress, o)
      /\ Blank(old) => Blank(q)
      /\ pol.growth = "off" => /\ after.bank.capacity = s.bank.capacity
                               /\ Len(old) <= Len(q) /\ Len(q) <= after.bank.capacity

LEMMA BatchMarks ==
  ASSUME NEW s, NEW full, NEW pol, MarkProfile(pol), HasEntries(s, pol), Admission(s, full, pol),
         IsMarked(s.bank.entries), NEW status, MarksMatch(status, s.progress, s.bank.entries)
  PROVE  UpdateKeeps(s, full, status, pol)
<1> DEFINE old     == s.bank.entries
           grown   == full.bank.entries
           removed == AboveCut(full.growth, grown, pol)
           changed == ChangedIndices(old, grown)
           batch   == WithCut(old, full, pol)
           after   == batch.shadow
           q       == after.bank.entries
           valid   == AfterAdmissions(status, batch.significant, batch.grownTo)
           free    == Unmasked(after.progress, batch.changed)
           o       == RestMarks(free, batch.removed, Len(q))
<1>1. /\ HasEntries(full, pol) /\ Admits(old, grown) /\ SameMarks(s.progress, full.progress)
      /\ pol.growth = "off" => full.bank.capacity = s.bank.capacity
  BY Zenon DEF Admission
<1>2. /\ batch.grownTo = Len(grown) /\ batch.changed = changed /\ batch.removed = removed
      /\ batch.significant = SignificantIndices(old, grown, pol)
      /\ \E c : after = [full EXCEPT
                           !.bank = IF removed = {} THEN @
                                    ELSE [capacity |-> Len(Without(grown, removed)),
                                          entries |-> Without(grown, removed)],
                           !.clusters = c]
  BY Zenon DEF WithCut, CutBatch
<1>3. removed \subseteq DOMAIN grown /\ (pol.growth = "off" => removed = {})
  BY DEF AboveCut
<1> HIDE DEF batch, after, removed, changed
<1>4. /\ after.progress = full.progress
      /\ after.bank = IF removed = {} THEN full.bank
                      ELSE [capacity |-> Len(Without(grown, removed)), entries |-> Without(grown, removed)]
  BY <1>1, <1>2 DEF HasEntries
<1>5. q = Rest(grown, removed) /\ DOMAIN after.bank = {"capacity", "entries"}
      /\ (removed = {} => after.bank = full.bank)
      /\ (removed # {} => after.bank.capacity = Len(q))
  BY <1>1, <1>4 DEF Rest, HasEntries
<1>6. /\ changed = {i \in DOMAIN grown : Newcomer(grown[i])}
      /\ \A i \in DOMAIN grown : ~Newcomer(grown[i]) => i \in DOMAIN old /\ grown[i] = old[i]
      /\ batch.significant = changed
  BY <1>1, <1>2, ChangedAre DEF changed
<1>7. valid = AfterAdmissions(status, changed, Len(grown)) /\ free = Unmasked(full.progress, changed)
  BY <1>2, <1>4, <1>6
<1> HIDE DEF valid, free
<1>8. MarksMatch(valid, free, grown)
  BY <1>1, <1>6, <1>7, AdmissionsMatch
<1>9. MarkFields \subseteq DOMAIN free /\ StageKept(s.progress, free)
  BY <1>1, <1>7 DEF Unmasked, StageKept, SameMarks, MarkFields
<1>10. o = RestMarks(free, removed, Len(q)) /\ grown \in Seq(MarkedEntry)
  BY <1>1, <1>2 DEF Admits
<1> HIDE DEF o
<1>11. /\ q \in Seq(MarkedEntry) /\ \A k \in DOMAIN q : \E i \in DOMAIN grown : q[k] = grown[i]
       /\ MarksMatch(StatusRemove(valid, removed, Len(q)), o, q)
       /\ StageKept(free, o)
  BY <1>3, <1>5, <1>8, <1>9, <1>10, RestMatches
<1>12. StageKept(s.progress, o)
  BY <1>9, <1>11 DEF StageKept
<1>13. Blank(old) => Blank(q)
  <2>1. \A i \in DOMAIN grown : Blank(old) => grown[i].seeded = FALSE /\ grown[i].kept = "no"
    BY <1>6 DEF Blank, Newcomer
  <2> QED BY <1>11, <2>1 DEF Blank
<1>14. after.bank.capacity \in Int
  BY <1>1, <1>5, <1>11, EntriesAre DEF HasEntries
<1>15. ASSUME pol.growth = "off"
       PROVE  after.bank.capacity = s.bank.capacity /\ Len(old) <= Len(q) /\ Len(q) <= after.bank.capacity
  BY <1>1, <1>3, <1>5, <1>15 DEF HasEntries, Admits
<1> HIDE DEF q, old
<1> QED BY <1>2, <1>5, <1>11, <1>12, <1>13, <1>14, <1>15 DEF UpdateKeeps, batch, after, valid, free, o, q, old


LEMMA UpdatedMarks ==
  ASSUME NEW e, Good(e), ~Refreshing(e), NEW pol, MarkProfile(pol),
         StageIs(e.progress, pol), Running(e, pol),
         NEW evaluations, evaluations \in Seq(Evaluation), NEW lucks
  PROVE  LET f == Updated(e, evaluations, lucks, pol).eng
         IN  /\ StageIs(f.progress, pol) /\ Running(f, pol)
             /\ pol.growth = "off" /\ IsFull(e.bank) => IsFull(f.bank)
<1> DEFINE s == [bank |-> e.bank, progress |-> e.progress, clusters |-> e.clusters,
                 growth |-> e.growth, met |-> 0, local |-> 0]
           observations == [i \in DOMAIN evaluations |->
                              [at |-> evaluations[i].at, id |-> evaluations[i].id, lucky |-> lucks[i]]]
           full  == AdmitAll(s, observations, e.hot, pol)
           old   == s.bank.entries
           batch == WithCut(old, full, pol)
           after == batch.shadow
           q     == after.bank.entries
           aged  == [i \in DOMAIN q |-> Aged(q[i])]
           valid == AfterAdmissions(e.status, batch.significant, batch.grownTo)
           free  == Unmasked(after.progress, batch.changed)
           o     == RestMarks(free, batch.removed, Len(q))
           st    == StatusRemove(valid, batch.removed, Len(q))
           f == Updated(e, evaluations, lucks, pol).eng
<1>1. /\ f.bank = [after.bank EXCEPT !.entries = aged]
      /\ f.progress = o /\ f.status = st /\ f.reference = e.reference
  BY Zenon DEF Updated, UpdateBatch, Corrected, Good, Fields, AfterAdmissions, RestMarks
<1>2. s.bank = e.bank /\ s.progress = e.progress /\ {"bank", "progress"} \subseteq DOMAIN s
  OBVIOUS
<1>3. /\ DOMAIN observations = 1..Len(evaluations) /\ Len(evaluations) \in Nat
      /\ \A k \in 1..Len(evaluations) : observations[k].at \in Positions /\ observations[k].id \in Nat \ {0}
  <2>1. \A k \in 1..Len(evaluations) : evaluations[k] \in Evaluation
    OBVIOUS
  <2>2. \A k \in 1..Len(evaluations) : evaluations[k].at \in Positions /\ evaluations[k].id \in Nat \ {0}
    BY <2>1 DEF Evaluation
  <2> QED BY <2>2
<1> HIDE DEF s, observations
<1>4. HasEntries(s, pol)
  BY <1>2 DEF HasEntries, Running, StageIs, IsMarked, SizesAre
<1>5. Admission(s, full, pol)
  BY Zenon, <1>3, <1>4, AdmitAllAdmitted DEF Good, MarkProfile, KeepsProfile
<1> HIDE DEF full, batch, after, valid, free, o, f
<1>6. /\ DOMAIN after.bank = {"capacity", "entries"} /\ after.bank.capacity \in Int
      /\ q \in Seq(MarkedEntry) /\ MarksMatch(st, o, q)
      /\ StageKept(e.progress, o)
      /\ Blank(e.bank.entries) => Blank(q)
      /\ pol.growth = "off" => /\ after.bank.capacity = e.bank.capacity
                               /\ Len(e.bank.entries) <= Len(q) /\ Len(q) <= after.bank.capacity
  <2>1. IsMarked(s.bank.entries) /\ MarksMatch(e.status, s.progress, s.bank.entries)
    BY <1>2 DEF Running
  <2>2. MarksMatch(e.status, s.progress, s.bank.entries) /\ IsMarked(s.bank.entries)
        => UpdateKeeps(s, full, e.status, pol)
    BY <1>4, <1>5, BatchMarks
  <2>3. UpdateKeeps(s, full, e.status, pol)
    BY <2>1, <2>2
  <2>4. s.bank.entries = old /\ s.bank = e.bank /\ s.progress = e.progress
    BY <1>2
  <2> HIDE DEF old
  <2> QED BY <2>3, <2>4 DEF UpdateKeeps, batch, after, valid, free, o, q, st
<1> HIDE DEF q, st
<1>7. /\ IsMarked(aged) /\ Len(aged) = Len(q) /\ DOMAIN aged = DOMAIN q /\ Len(q) \in Nat
      /\ \A i \in DOMAIN q : aged[i].seeded = q[i].seeded /\ aged[i].kept = q[i].kept
  <2>1. Len(q) \in Nat /\ DOMAIN q = 1 .. Len(q) /\ \A i \in DOMAIN q : q[i] \in MarkedEntry
    BY <1>6, EntriesAre
  <2>2. \A i \in DOMAIN q : /\ Aged(q[i]) \in MarkedEntry /\ Aged(q[i]).new = 0
                            /\ Aged(q[i]).seeded = q[i].seeded /\ Aged(q[i]).kept = q[i].kept
    BY <2>1 DEF Aged, MarkedEntry
  <2>3. aged = [i \in 1 .. Len(q) |-> aged[i]] /\ \A i \in 1 .. Len(q) : aged[i] = Aged(q[i])
    BY <2>1
  <2> HIDE DEF aged
  <2>4. aged \in Seq(MarkedEntry) /\ Len(aged) = Len(q) /\ DOMAIN aged = 1 .. Len(q)
    BY <2>1, <2>2, <2>3, MakesEntries
  <2> QED BY <2>1, <2>2, <2>3, <2>4 DEF IsMarked
<1> HIDE DEF aged
<1>8. f.bank.entries = aged /\ f.bank.capacity = after.bank.capacity /\ DOMAIN f.bank = {"capacity", "entries"}
  BY <1>1, <1>6
<1>9. MarksMatch(f.status, f.progress, f.bank.entries)
  <2>1. MarksMatch(st, o, q) /\ q \in Seq(MarkedEntry)
    BY <1>6
  <2>2. aged \in Seq(MarkedEntry) /\ Len(aged) = Len(q)
        /\ \A i \in DOMAIN q : aged[i].seeded = q[i].seeded /\ aged[i].kept = q[i].kept
    BY <1>7 DEF IsMarked
  <2>3. MarksMatch(st, o, aged)
    BY Zenon, <2>1, <2>2, SameMatch
  <2> QED BY <1>1, <1>8, <2>3
<1>10. StageIs(f.progress, pol)
  BY <1>1, <1>6, StageStays
<1>11. Blank(e.bank.entries) => Blank(f.bank.entries)
  BY <1>6, <1>7, <1>8 DEF Blank
<1>12. f.progress.index = e.progress.index /\ f.progress.action = e.progress.action
  BY <1>1, <1>6 DEF StageKept
<1>13. Len(e.bank.entries) \in Nat /\ e.bank.capacity \in Int
  BY EntriesAre DEF Running, IsMarked
<1>14. pol.growth = "off" => (IsFull(e.bank) => Len(f.bank.entries) = Len(e.bank.entries) /\ IsFull(f.bank))
                             /\ Len(f.bank.entries) <= f.bank.capacity
                             /\ f.bank.capacity = e.bank.capacity
  BY <1>6, <1>7, <1>8, <1>13 DEF IsFull, Running, SizesAre
<1>15. SizesAre(f, pol)
  BY <1>1, <1>12, <1>14 DEF Running, SizesAre
<1>16. f.progress.action = "stage" => IsFull(f.bank)
  <2> SUFFICES ASSUME f.progress.action = "stage"
               PROVE  IsFull(f.bank)
    OBVIOUS
  <2>1. pol.growth = "off"
    <3>1. pol.maxCapacity > pol.capacity
      BY <1>10 DEF StageIs, StagesLeft
    <3>2. pol.growth # "off" => pol.maxCapacity = pol.capacity
      BY CsaAssumption DEF MarkProfile, KeepsProfile
    <3>3. pol.capacity \in Nat
      BY CsaAssumption DEF MarkProfile, KeepsProfile
    <3> QED BY <3>1, <3>2, <3>3
  <2> QED BY <1>12, <1>14, <2>1 DEF Running
<1>17. Running(f, pol)
  BY <1>1, <1>6, <1>7, <1>8, <1>9, <1>11, <1>15, <1>16 DEF Running
<1> QED BY Zenon, <1>10, <1>14, <1>17 DEF f

-----------------------------------------------------------------------------
(* The marks an operation writes itself. *)
Relabelled(q, r) == IsMarked(r) /\ Len(r) = Len(q) /\ DOMAIN r = DOMAIN q

LEMMA RelabelledIs ==
  ASSUME NEW q, IsMarked(q), NEW r, r = [i \in DOMAIN q |-> r[i]],
         \A i \in DOMAIN q : r[i] \in MarkedEntry /\ r[i].new = 0
  PROVE  Relabelled(q, r)
<1>1. Len(q) \in Nat /\ DOMAIN q = 1 .. Len(q)
  BY EntriesAre DEF IsMarked
<1>2. r \in Seq(MarkedEntry) /\ Len(r) = Len(q) /\ DOMAIN r = 1 .. Len(q)
  BY <1>1, MakesEntries
<1> QED BY <1>1, <1>2 DEF IsMarked, Relabelled

LEMMA Relabels ==
  ASSUME NEW q, IsMarked(q)
  PROVE  /\ Relabelled(q, Unseeded(q))
         /\ \A i \in DOMAIN q : Unseeded(q)[i].seeded = FALSE /\ Unseeded(q)[i].kept = q[i].kept
         /\ Relabelled(q, Released(q))
         /\ \A i \in DOMAIN q : /\ Released(q)[i].seeded = FALSE
                                /\ Released(q)[i].kept = IF q[i].kept = "refresh" THEN "no" ELSE q[i].kept
<1>1. \A i \in DOMAIN q : q[i] \in MarkedEntry /\ q[i].new = 0
  BY EntriesAre DEF IsMarked
<1>2. /\ Unseeded(q) = [i \in DOMAIN q |-> Unseeded(q)[i]]
      /\ \A i \in DOMAIN q : Unseeded(q)[i] = [q[i] EXCEPT !.seeded = FALSE]
  BY DEF Unseeded
<1>3. /\ Released(q) = [i \in DOMAIN q |-> Released(q)[i]]
      /\ \A i \in DOMAIN q : Released(q)[i] = [q[i] EXCEPT !.seeded = FALSE,
                                                            !.kept = IF @ = "refresh" THEN "no" ELSE @]
  BY DEF Released
<1>4. \A i \in DOMAIN q : /\ Unseeded(q)[i] \in MarkedEntry /\ Unseeded(q)[i].new = 0
                          /\ Unseeded(q)[i].seeded = FALSE /\ Unseeded(q)[i].kept = q[i].kept
  BY Zenon, <1>1, <1>2 DEF MarkedEntry
<1>5. \A i \in DOMAIN q : /\ Released(q)[i] \in MarkedEntry /\ Released(q)[i].new = 0
                          /\ Released(q)[i].seeded = FALSE
                          /\ Released(q)[i].kept = IF q[i].kept = "refresh" THEN "no" ELSE q[i].kept
  <2> SUFFICES ASSUME NEW i \in DOMAIN q
               PROVE  /\ Released(q)[i] \in MarkedEntry /\ Released(q)[i].new = 0
                      /\ Released(q)[i].seeded = FALSE
                      /\ Released(q)[i].kept = IF q[i].kept = "refresh" THEN "no" ELSE q[i].kept
    BY Zenon
  <2> DEFINE k == IF q[i].kept = "refresh" THEN "no" ELSE q[i].kept
             a == FALSE
  <2>1. q[i] \in MarkedEntry /\ q[i].new = 0
    BY <1>1
  <2>2. k \in EntryKinds /\ a \in BOOLEAN
    BY <2>1 DEF MarkedEntry, EntryKinds
  <2>3. Released(q)[i] = [q[i] EXCEPT !.seeded = a, !.kept = k]
    BY Zenon, <1>3
  <2>4. a = FALSE
    OBVIOUS
  <2> HIDE DEF k, a
  <2>5. Released(q)[i] \in MarkedEntry /\ Released(q)[i].new = 0 /\ Released(q)[i].seeded = a /\ Released(q)[i].kept = k
    BY Zenon, <2>1, <2>2, <2>3 DEF MarkedEntry
  <2> QED BY <2>4, <2>5 DEF k
<1>6. Relabelled(q, Unseeded(q))
  BY <1>2, <1>4, RelabelledIs
<1>7. Relabelled(q, Released(q))
  <2>1. \A i \in DOMAIN q : Released(q)[i] \in MarkedEntry /\ Released(q)[i].new = 0
    BY <1>5
  <2>2. Released(q) = [i \in DOMAIN q |-> Released(q)[i]]
    BY Zenon, <1>3
  <2> QED BY <2>1, <2>2, RelabelledIs
<1> QED BY <1>4, <1>5, <1>6, <1>7

LEMMA FirstRelabels ==
  ASSUME NEW q, IsMarked(q), NEW n, NEW k, k \in EntryKinds
  PROVE  /\ Relabelled(q, KeptFirst(q, n, k))
         /\ \A i \in DOMAIN q : /\ KeptFirst(q, n, k)[i].seeded = q[i].seeded
                                /\ KeptFirst(q, n, k)[i].kept = IF i <= n THEN k ELSE "no"
<1> DEFINE r == KeptFirst(q, n, k)
<1>1. r = [i \in DOMAIN q |-> r[i]]
      /\ \A i \in DOMAIN q : r[i] = [q[i] EXCEPT !.kept = IF i <= n THEN k ELSE "no"]
  BY DEF KeptFirst
<1> HIDE DEF r
<1>2. ASSUME NEW i \in DOMAIN q
      PROVE  /\ r[i] \in MarkedEntry /\ r[i].new = 0
             /\ r[i].seeded = q[i].seeded /\ r[i].kept = IF i <= n THEN k ELSE "no"
  <2> DEFINE m == IF i <= n THEN k ELSE "no"
  <2>1. q[i] \in MarkedEntry /\ q[i].new = 0 /\ r[i] = [q[i] EXCEPT !.kept = m]
    BY <1>1, EntriesAre DEF IsMarked
  <2>2. m \in EntryKinds
    BY DEF EntryKinds
  <2> HIDE DEF m
  <2>3. r[i] \in MarkedEntry /\ r[i].new = 0 /\ r[i].seeded = q[i].seeded /\ r[i].kept = m
    BY <2>1, <2>2 DEF MarkedEntry
  <2> QED BY <2>3 DEF m
<1>3. Relabelled(q, r)
  BY <1>1, <1>2, RelabelledIs
<1> QED BY <1>2, <1>3 DEF r

LEMMA SeedRelabels ==
  ASSUME NEW q, IsMarked(q), NEW x, NEW c
  PROVE  /\ Relabelled(q, Reseeded(q, x, c))
         /\ \A i \in DOMAIN q : /\ Reseeded(q, x, c)[i].seeded = (i \in x \/ (q[i].seeded /\ ~c))
                                /\ Reseeded(q, x, c)[i].kept = q[i].kept
<1> DEFINE r == Reseeded(q, x, c)
<1>1. r = [i \in DOMAIN q |-> r[i]]
      /\ \A i \in DOMAIN q : r[i] = [q[i] EXCEPT !.seeded = i \in x \/ (@ /\ ~c)]
  BY DEF Reseeded
<1> HIDE DEF r
<1>2. ASSUME NEW i \in DOMAIN q
      PROVE  /\ r[i] \in MarkedEntry /\ r[i].new = 0
             /\ r[i].seeded = (i \in x \/ (q[i].seeded /\ ~c)) /\ r[i].kept = q[i].kept
  <2> DEFINE a == i \in x \/ (q[i].seeded /\ ~c)
  <2>1. q[i] \in MarkedEntry /\ q[i].new = 0 /\ r[i] = [q[i] EXCEPT !.seeded = a]
    BY <1>1, EntriesAre DEF IsMarked
  <2>2. a \in BOOLEAN
    OBVIOUS
  <2> HIDE DEF a
  <2>3. r[i] \in MarkedEntry /\ r[i].new = 0 /\ r[i].seeded = a /\ r[i].kept = q[i].kept
    BY <2>1, <2>2 DEF MarkedEntry
  <2> QED BY <2>3 DEF a
<1>3. Relabelled(q, r)
  BY <1>1, <1>2, RelabelledIs
<1> QED BY <1>2, <1>3 DEF r

LEMMA SortedMarks ==
  ASSUME NEW q, IsMarked(q)
  PROVE  /\ Relabelled(q, SortedByValue(q))
         /\ \A k \in DOMAIN q : \E i \in DOMAIN q : SortedByValue(q)[k] = q[i]
<1> DEFINE s     == SortedByValue(q)
           order == [k \in DOMAIN q |-> CHOOSE i \in DOMAIN q : Rank(q, i) = k - 1]
<1>1. Len(q) \in Nat /\ DOMAIN q = 1 .. Len(q) /\ IsBank(q) /\ \A i \in DOMAIN q : q[i] \in MarkedEntry /\ q[i].new = 0
  BY EntriesAre DEF IsMarked
<1>2. \A k \in DOMAIN q : order[k] \in DOMAIN q
  <2> SUFFICES ASSUME NEW k \in DOMAIN q
               PROVE  \E i \in DOMAIN q : Rank(q, i) = k - 1
    OBVIOUS
  <2>1. k - 1 \in 0 .. (Len(q) - 1)
    BY <1>1
  <2> QED BY Zenon, <1>1, <2>1, Ranks
<1>3. s = [k \in DOMAIN q |-> q[order[k]]]
  BY DEF SortedByValue
<1> HIDE DEF s, order
<1>4. s = [k \in DOMAIN q |-> s[k]] /\ \A k \in DOMAIN q : s[k] = q[order[k]]
  BY <1>3
<1>5. Relabelled(q, s)
  BY <1>1, <1>2, <1>4, RelabelledIs
<1> QED BY <1>2, <1>4, <1>5 DEF s

LEMMA FirstMarks ==
  ASSUME NEW q, IsMarked(q), NEW count \in Int, count <= Len(q)
  PROVE  IsMarked(BestOf(q, count)) /\ Len(BestOf(q, count)) = IF count > 0 THEN count ELSE 0
<1> DEFINE s == SortedByValue(q)
           b == BestOf(q, count)
           m == IF count > 0 THEN count ELSE 0
<1>1. IsMarked(s) /\ Len(s) = Len(q) /\ s \in Seq(MarkedEntry)
  BY SortedMarks DEF Relabelled, IsMarked
<1>2. Len(q) \in Nat /\ DOMAIN s = 1 .. Len(q)
  BY <1>1, EntriesAre DEF IsMarked
<1>3. b = SubSeq(s, 1, count)
  BY DEF BestOf
<1> HIDE DEF s
<1>4. b = [i \in 1 .. m |-> s[i]]
  BY <1>1, <1>2, <1>3
<1>5. m \in Nat /\ m <= Len(q)
  BY <1>2
<1> HIDE DEF b, m
<1>6. b = [i \in 1 .. m |-> b[i]] /\ \A i \in 1 .. m : b[i] = s[i] /\ i \in DOMAIN s
  BY <1>2, <1>4, <1>5
<1>7. \A i \in 1 .. m : b[i] \in MarkedEntry /\ b[i].new = 0
  BY <1>1, <1>6, EntriesAre DEF IsMarked
<1>8. b \in Seq(MarkedEntry) /\ Len(b) = m /\ DOMAIN b = 1 .. m
  BY <1>5, <1>6, <1>7, MakesEntries
<1> QED BY <1>7, <1>8 DEF IsMarked, b, m

LEMMA JoinMarks ==
  ASSUME NEW q, NEW r, IsMarked(q), IsMarked(r)
  PROVE  IsMarked(q \o r) /\ Len(q \o r) = Len(q) + Len(r)
<1>1. /\ q \in Seq(MarkedEntry) /\ r \in Seq(MarkedEntry) /\ Len(q) \in Nat /\ Len(r) \in Nat
      /\ DOMAIN q = 1 .. Len(q) /\ DOMAIN r = 1 .. Len(r)
  BY EntriesAre DEF IsMarked
<1>2. (q \o r) \in Seq(MarkedEntry) /\ Len(q \o r) = Len(q) + Len(r)
  BY <1>1
<1>3. ASSUME NEW i \in DOMAIN (q \o r)
      PROVE  (q \o r)[i].new = 0
  <2>1. i \in 1 .. (Len(q) + Len(r))
    BY <1>2, EntriesAre
  <2>2. CASE i <= Len(q)
    <3>1. (q \o r)[i] = q[i] /\ i \in DOMAIN q
      BY <1>1, <2>1, <2>2
    <3> QED BY <3>1 DEF IsMarked
  <2>3. CASE i > Len(q)
    <3>1. (q \o r)[i] = r[i - Len(q)] /\ i - Len(q) \in DOMAIN r
      BY <1>1, <2>1, <2>3
    <3> QED BY <3>1 DEF IsMarked
  <2> QED BY <1>1, <2>1, <2>2, <2>3
<1> QED BY <1>2, <1>3 DEF IsMarked

(* A step that touches none of it. *)
SamePlan(e, f) ==
  /\ SameMarks(e.progress, f.progress) /\ f.status = e.status
  /\ f.bank = e.bank /\ f.reference = e.reference /\ f.refresh = e.refresh

LEMMA PlanStays ==
  ASSUME NEW e, NEW f, NEW pol, SamePlan(e, f)
  PROVE  /\ StageIs(e.progress, pol) => StageIs(f.progress, pol)
         /\ StageIs(e.progress, pol) /\ Running(e, pol) => Running(f, pol)
         /\ Synced(e) => Synced(f)
         /\ MarksHold(e, pol) => MarksHold(f, pol)
<1>1. StageIs(e.progress, pol) => StageIs(f.progress, pol)
  BY DEF SamePlan, SameMarks, StageIs, StagesLeft
<1>2. StageIs(e.progress, pol) /\ Running(e, pol) => Running(f, pol)
  BY DEF SamePlan, SameMarks, Running, MarksMatch, SizesAre
<1>3. Synced(e) => Synced(f)
  BY DEF SamePlan, Synced
<1>4. Collecting(e.refresh, e.progress, pol) => Collecting(f.refresh, f.progress, pol)
  BY DEF SamePlan, SameMarks, Collecting
<1> QED BY <1>1, <1>2, <1>3, <1>4 DEF MarksHold, SamePlan, Refreshing

-----------------------------------------------------------------------------
(* The marks when the reference bank is set: the bank is sorted then, and never
   while an entry is marked. *)
LEMMA WithReferenceMarks ==
  ASSUME NEW e, Good(e), ~Refreshing(e), NEW pol, StageIs(e.progress, pol), Running(e, pol)
  PROVE  LET f == WithReference(e, pol)
         IN  /\ MarksHold(f, pol) /\ f.progress = e.progress /\ ~Refreshing(f)
             /\ IsFull(e.bank) => IsFull(f.bank)
<1> DEFINE q      == e.bank.entries
           sorted == SortedByValue(q)
           plain  == KeptAs(Unseeded(sorted), "no")
           f      == WithReference(e, pol)
<1>1. IsMarked(q) /\ q \in Seq(MarkedEntry) /\ Len(q) \in Nat /\ DOMAIN q = 1 .. Len(q)
  BY EntriesAre DEF Running, IsMarked
<1>2. /\ Relabelled(q, sorted)
      /\ \A k \in DOMAIN q : \E i \in DOMAIN q : sorted[k] = q[i]
  BY Zenon, <1>1, SortedMarks
<1>3. Len(plain) = Len(q)
  <2>1. Relabelled(sorted, Unseeded(sorted))
    BY Zenon, <1>2, Relabels DEF Relabelled
  <2>2. Relabelled(Unseeded(sorted), plain)
    <3>1. "no" \in EntryKinds
      BY DEF EntryKinds
    <3>2. \A n : Relabelled(Unseeded(sorted), KeptFirst(Unseeded(sorted), n, "no"))
      BY <2>1, <3>1, FirstRelabels DEF Relabelled
    <3>3. plain = KeptFirst(Unseeded(sorted), Len(Unseeded(sorted)), "no")
      BY DEF KeptAs
    <3> QED BY <3>2, <3>3
  <2> QED BY <1>2, <2>1, <2>2 DEF Relabelled
<1>4. \/ f = e /\ (~IsFull(e.bank) \/ IsFull(e.reference))
      \/ /\ IsFull(e.bank) /\ ~IsFull(e.reference)
         /\ \E c : f = [e EXCEPT !.bank.entries = sorted,
                                 !.reference = [capacity |-> e.bank.capacity, entries |-> plain],
                                 !.clusters = c]
  BY Zenon DEF WithReference
<1> HIDE DEF sorted, plain, f
<1>5. CASE f = e /\ (~IsFull(e.bank) \/ IsFull(e.reference))
  <2>1. Synced(e)
    BY <1>5 DEF Synced
  <2> QED BY <1>5, <2>1 DEF MarksHold, f
<1>6. CASE /\ IsFull(e.bank) /\ ~IsFull(e.reference)
           /\ \E c : f = [e EXCEPT !.bank.entries = sorted,
                                   !.reference = [capacity |-> e.bank.capacity, entries |-> plain],
                                   !.clusters = c]
  <2>1. PICK c : f = [e EXCEPT !.bank.entries = sorted,
                               !.reference = [capacity |-> e.bank.capacity, entries |-> plain],
                               !.clusters = c]
    BY Zenon, <1>6
  <2>2. DOMAIN e = Fields /\ DOMAIN e.bank = {"capacity", "entries"}
    BY DEF Good, Running
  <2>3. /\ f.progress = e.progress /\ f.status = e.status /\ f.refresh = e.refresh
        /\ DOMAIN f.bank = {"capacity", "entries"} /\ f.bank.entries = sorted
        /\ f.bank.capacity = e.bank.capacity
        /\ DOMAIN f.reference = {"capacity", "entries"}
        /\ f.reference.capacity = e.bank.capacity /\ f.reference.entries = plain
    BY <2>1, <2>2 DEF Fields
  <2>4. \A i \in DOMAIN q : q[i].seeded = FALSE /\ q[i].kept = "no"
    BY <1>6 DEF Running, Blank
  <2>5. \A k \in DOMAIN q : sorted[k].seeded = q[k].seeded /\ sorted[k].kept = q[k].kept
    BY Zenon, <1>2, <2>4
  <2>6. MarksMatch(e.status, e.progress, sorted)
    <3>1. MarksMatch(e.status, e.progress, q)
      BY DEF Running
    <3>2. sorted \in Seq(MarkedEntry) /\ Len(sorted) = Len(q)
      BY <1>2 DEF Relabelled, IsMarked
    <3> QED BY Zenon, <1>1, <2>5, <3>1, <3>2, SameMatch
  <2>7. Len(sorted) = Len(q) /\ IsMarked(sorted)
    BY <1>2 DEF Relabelled
  <2>8. IsFull(f.bank) /\ IsFull(f.reference)
    BY <1>3, <1>6, <2>3, <2>7 DEF IsFull
  <2>9. SizesAre(f, pol)
    BY <1>3, <2>3, <2>7, <2>8 DEF Running, SizesAre
  <2>10. Running(f, pol)
    BY <2>3, <2>6, <2>7, <2>8, <2>9 DEF Running
  <2>11. MarksHold(f, pol) /\ ~Refreshing(f)
    BY <2>3, <2>8, <2>10 DEF MarksHold, Synced, Refreshing
  <2> QED BY <2>3, <2>8, <2>11 DEF f
<1> QED BY Zenon, <1>4, <1>5, <1>6

(* The end of a cycle, before a boundary is crossed. *)
LEMMA CycleMarks ==
  ASSUME NEW e, Good(e), ~Refreshing(e), NEW pol, MarksHold(e, pol),
         pol.maxCapacity > pol.capacity => IsFull(e.bank)
  PROVE  LET f == CycleOver(e, pol)
         IN  MarksHold(f, pol) /\ ~Refreshing(f) /\ (IsFull(e.bank) => IsFull(f.bank))
<1> DEFINE q == e.bank.entries
           p == e.progress
           o == RequestBoundary([p EXCEPT !.refreshMask = {}], pol)
           s == [i \in 1 .. Len(q) |-> FALSE]
           f == CycleOver(e, pol)
<1>1. StageIs(p, pol) /\ Running(e, pol) /\ Synced(e)
  BY DEF MarksHold
<1>2. IsMarked(q) /\ Len(q) \in Nat /\ DOMAIN q = 1 .. Len(q)
  BY <1>1, EntriesAre DEF Running, IsMarked
<1>3. /\ f.status = s /\ f.progress = o /\ f.reference = e.reference /\ f.refresh = e.refresh
      /\ DOMAIN f.bank = {"capacity", "entries"} /\ f.bank.entries = Released(q)
      /\ f.bank.capacity = e.bank.capacity
  <2>1. DOMAIN e = Fields /\ DOMAIN e.bank = {"capacity", "entries"}
    BY <1>1 DEF Good, Running
  <2> QED BY <2>1 DEF CycleOver, Fields
<1> HIDE DEF f
<1>4. /\ MarkFields \subseteq DOMAIN o /\ o.index = p.index /\ o.round = p.round
      /\ o.seedMask = p.seedMask /\ o.partnerMask = p.partnerMask /\ o.refreshMask = {}
      /\ o.action \in {p.action, "stage", "refresh"}
      /\ o.action = "stage" => StagesLeft(o, pol)
      /\ o.action = "refresh" => ~StagesLeft(o, pol)
  <2> DEFINE r == [p EXCEPT !.refreshMask = {}]
  <2>1. /\ MarkFields \subseteq DOMAIN r /\ r.index = p.index /\ r.round = p.round
        /\ r.seedMask = p.seedMask /\ r.partnerMask = p.partnerMask /\ r.refreshMask = {}
        /\ r.action = p.action
    BY <1>1 DEF StageIs, MarkFields
  <2>2. o = r \/ (o = [r EXCEPT !.action = "stage"] /\ StagesLeft(r, pol))
        \/ (o = [r EXCEPT !.action = "refresh"] /\ ~StagesLeft(r, pol))
        \/ o = [r EXCEPT !.exhausted = TRUE]
    BY DEF RequestBoundary
  <2> HIDE DEF r, o
  <2>3. o.index = r.index /\ o.round = r.round
    BY <2>1, <2>2 DEF MarkFields
  <2>4. StagesLeft(o, pol) = StagesLeft(r, pol) /\ StagesLeft(p, pol) = StagesLeft(r, pol)
    BY <2>1, <2>3 DEF StagesLeft
  <2>5. CASE o = r
    BY <1>1, <2>1, <2>4, <2>5 DEF StageIs
  <2>6. CASE o = [r EXCEPT !.action = "stage"] /\ StagesLeft(r, pol)
    BY <2>1, <2>4, <2>6 DEF MarkFields
  <2>7. CASE o = [r EXCEPT !.action = "refresh"] /\ ~StagesLeft(r, pol)
    BY <2>1, <2>4, <2>7 DEF MarkFields
  <2>8. CASE o = [r EXCEPT !.exhausted = TRUE]
    <3>1. MarkFields \subseteq DOMAIN o /\ o.action = p.action /\ o.index = p.index /\ o.round = p.round
          /\ o.seedMask = p.seedMask /\ o.partnerMask = p.partnerMask /\ o.refreshMask = {}
      BY <2>1, <2>8 DEF MarkFields
    <3> QED BY <1>1, <2>4, <3>1 DEF StageIs
  <2> QED BY <2>2, <2>5, <2>6, <2>7, <2>8
<1> HIDE DEF o
<1>5. StageIs(o, pol)
  BY <1>1, <1>4 DEF StageIs
<1>6. /\ Relabelled(q, Released(q))
      /\ \A i \in DOMAIN q : /\ Released(q)[i].seeded = FALSE
                             /\ Released(q)[i].kept = IF q[i].kept = "refresh" THEN "no" ELSE q[i].kept
  <2> HIDE DEF q
  <2> QED BY Zenon, <1>2, Relabels
<1>7. MarksMatch(s, o, Released(q))
  <2>1. s \in Seq(BOOLEAN) /\ Len(s) = Len(q)
    BY <1>2
  <2>2. \A i \in DOMAIN q : Used(s, i) = FALSE
    BY <1>2 DEF Used
  <2>3. /\ p.seedMask = {i \in DOMAIN q : q[i].kept = "stage"} /\ p.partnerMask \subseteq DOMAIN q
    BY <1>1 DEF Running, MarksMatch
  <2>4. Len(s) <= Len(Released(q)) /\ DOMAIN Released(q) = DOMAIN q
    BY <1>2, <1>6, <2>1 DEF Relabelled
  <2> HIDE DEF s, p, q
  <2>5. \A i \in DOMAIN q : /\ Released(q)[i].kept = "stage" <=> q[i].kept = "stage"
                            /\ Released(q)[i].kept # "refresh"
    BY <1>6
  <2>6. \A i \in DOMAIN q : Used(s, i) = Released(q)[i].seeded
    BY Zenon, <1>6, <2>2
  <2> QED BY <1>4, <2>1, <2>3, <2>4, <2>5, <2>6 DEF MarksMatch
<1>8. Len(f.bank.entries) = Len(q) /\ IsMarked(f.bank.entries)
  BY <1>3, <1>6 DEF Relabelled
<1>9. IsFull(f.bank) = IsFull(e.bank)
  BY <1>3, <1>8 DEF IsFull
<1>10. SizesAre(f, pol)
  BY <1>1, <1>3, <1>4, <1>8, <1>9 DEF Running, SizesAre
<1>11. Blank(q) => Blank(f.bank.entries)
  <2>1. DOMAIN Released(q) = DOMAIN q
    BY <1>6 DEF Relabelled
  <2> HIDE DEF q
  <2> QED BY <1>3, <1>6, <2>1 DEF Blank
<1>12. o.action = "stage" => IsFull(f.bank)
  <2> SUFFICES ASSUME o.action = "stage" PROVE IsFull(e.bank)
    BY <1>9
  <2>1. pol.maxCapacity > pol.capacity
    BY <1>4 DEF StagesLeft
  <2> QED BY <2>1
<1>13. Running(f, pol)
  BY <1>1, <1>3, <1>7, <1>8, <1>10, <1>11, <1>12 DEF Running
<1>14. MarksHold(f, pol) /\ ~Refreshing(f)
  BY <1>1, <1>3, <1>5, <1>9, <1>13 DEF MarksHold, Synced, Refreshing
<1> QED BY <1>9, <1>14 DEF f

-----------------------------------------------------------------------------
(* The marks after a refresh: those it preserved wait if a mask says so. *)
MaskedAs(p, o, n, kind) ==
  /\ MarkFields \subseteq DOMAIN o
  /\ o.action = p.action /\ o.index = p.index /\ o.round = p.round
  /\ o.seedMask = IF kind = "stage" THEN 1 .. n ELSE {}
  /\ o.refreshMask = IF kind = "refresh" THEN 1 .. n ELSE {}
  /\ o.partnerMask \in {1 .. n, {}} /\ kind \in EntryKinds
  /\ p.seedMask = {} /\ p.partnerMask = {} => o.seedMask = {} /\ o.partnerMask = {}

LEMMA MaskedIs ==
  ASSUME NEW p, NEW pol, NEW n \in Nat, NEW a, NEW x, MarkFields \subseteq DOMAIN p,
         pol.refresh = "legacy" => p.seedMask = 1 .. n /\ p.partnerMask = p.seedMask
  PROVE  LET done == ProgressCompleteRefresh(p, pol, a, x)
             o    == MaskedFor(done, 1 .. n, pol)
             kind == IF MasksStage(done) THEN "stage"
                     ELSE IF pol.refresh # "legacy" /\ pol.newcomerFirst THEN "refresh" ELSE "no"
         IN  MaskedAs(p, o, n, kind)
<1> DEFINE done == ProgressCompleteRefresh(p, pol, a, x)
           o    == MaskedFor(done, 1 .. n, pol)
           kind == IF MasksStage(done) THEN "stage"
                   ELSE IF pol.refresh # "legacy" /\ pol.newcomerFirst THEN "refresh" ELSE "no"
<1>1. /\ MarkFields \subseteq DOMAIN done
      /\ done.action = p.action /\ done.index = p.index /\ done.round = p.round
      /\ done.seedMask = p.seedMask /\ done.partnerMask = p.partnerMask /\ done.refreshMask = {}
  BY DEF ProgressCompleteRefresh, InitializeCutoff, MarkFields
<1> HIDE DEF done
<1>2. CASE pol.refresh = "legacy"
  <2> SUFFICES MaskedAs(p, o, n, kind)
    BY DEF done
  <2>1. o = done
    BY <1>2 DEF MaskedFor
  <2>2. kind = IF MasksStage(done) THEN "stage" ELSE "no"
    BY <1>2
  <2>3. MasksStage(done) <=> 1 .. n # {}
    BY Zenon, <1>1, <1>2 DEF MasksStage
  <2> HIDE DEF o, kind
  <2>4. CASE MasksStage(done)
    <3>1. kind = "stage"
      BY <2>2, <2>4
    <3> QED BY <1>1, <1>2, <2>1, <3>1 DEF EntryKinds, MaskedAs
  <2>5. CASE ~MasksStage(done)
    <3>1. kind = "no" /\ 1 .. n = {}
      BY <2>2, <2>3, <2>5
    <3> QED BY <1>1, <1>2, <2>1, <3>1 DEF EntryKinds, MaskedAs
  <2> QED BY <2>4, <2>5
<1>3. CASE pol.refresh # "legacy" /\ MasksStage(done)
  <2> SUFFICES MaskedAs(p, o, n, kind)
    BY DEF done
  <2>1. o = [done EXCEPT !.seedMask = 1 .. n, !.partnerMask = 1 .. n]
    BY <1>3 DEF MaskedFor
  <2>2. kind = "stage"
    BY <1>3
  <2>3. ~(p.seedMask = {} /\ p.partnerMask = {})
    BY <1>1, <1>3 DEF MasksStage
  <2> HIDE DEF o, kind
  <2>4. /\ MarkFields \subseteq DOMAIN o
        /\ o.action = p.action /\ o.index = p.index /\ o.round = p.round
        /\ o.seedMask = 1 .. n /\ o.partnerMask = 1 .. n /\ o.refreshMask = {}
    BY <1>1, <2>1 DEF MarkFields
  <2> QED BY <2>2, <2>3, <2>4 DEF EntryKinds, MaskedAs
<1>4. CASE pol.refresh # "legacy" /\ ~MasksStage(done)
  <2> SUFFICES MaskedAs(p, o, n, kind)
    BY DEF done
  <2> DEFINE w == IF pol.newcomerFirst THEN 1 .. n ELSE {}
  <2>1. o = [done EXCEPT !.refreshMask = w]
    BY <1>4 DEF MaskedFor
  <2>2. kind = IF pol.newcomerFirst THEN "refresh" ELSE "no"
    BY <1>4
  <2>3. p.seedMask = {} /\ p.partnerMask = {}
    BY <1>1, <1>4 DEF MasksStage
  <2>5. kind # "stage" /\ kind \in EntryKinds /\ w = IF kind = "refresh" THEN 1 .. n ELSE {}
    BY <2>2 DEF EntryKinds
  <2> HIDE DEF o, kind, w
  <2>4. /\ MarkFields \subseteq DOMAIN o
        /\ o.action = p.action /\ o.index = p.index /\ o.round = p.round
        /\ o.seedMask = {} /\ o.partnerMask = {} /\ o.refreshMask = w
    BY <1>1, <2>1, <2>3 DEF MarkFields
  <2> QED BY <2>4, <2>5 DEF MaskedAs
<1> QED BY <1>2, <1>3, <1>4 DEF done

LEMMA CompleteMarks ==
  ASSUME NEW e, Good(e), Refreshing(e), HasEnoughEntries(e.refresh), NEW pol,
         StageIs(e.progress, pol), Collecting(e.refresh, e.progress, pol)
  PROVE  MarksHold(CompleteRefresh(e, pol), pol)
<1> DEFINE r         == e.refresh
           p         == e.progress
           best      == BestOf(r.pool, RequiredPool(r))
           reference == RefreshedReference(r)
           bank      == RefreshedBank(r)
           done == ProgressCompleteRefresh(p, pol, AverageDistance(reference.entries), ScoreGap(bank.entries))
           o    == MaskedFor(done, 1 .. Len(r.bank), pol)
           kind == IF MasksStage(done) THEN "stage"
                   ELSE IF pol.refresh # "legacy" /\ pol.newcomerFirst THEN "refresh" ELSE "no"
           marked == KeptFirst(bank.entries, Len(r.bank), kind)
           f    == CompleteRefresh(e, pol)
<1>1. /\ f.progress = o /\ f.status = << >> /\ f.refresh = NoRefresh /\ f.reference = reference
      /\ f.bank = [[bank EXCEPT !.entries = marked] EXCEPT !.entries = Unseeded(@)]
  BY Zenon DEF CompleteRefresh, Refreshed, Idle, NoSeedUsed, Good, Fields
<1>2. RefreshIs(r, e.bank.entries)
  BY DEF Good
<1>3. /\ IsMarked(r.bank) /\ IsMarked(r.pool) /\ Len(r.bank) \in Nat /\ Len(r.pool) \in Nat
      /\ r.target \in Int /\ Len(r.reference) \in Nat
  BY <1>2, BankIs, EntriesAre DEF Collecting, RefreshIs, IsMarked
<1>4. RequiredPool(r) = r.target - Len(r.reference) /\ RequiredPool(r) <= Len(r.pool)
  BY DEF RequiredPool, HasEnoughEntries
<1>5. /\ IsMarked(best) /\ Len(best) = IF RequiredPool(r) > 0 THEN RequiredPool(r) ELSE 0
      /\ IsBank(best)
  <2>1. RequiredPool(r) \in Int
    BY <1>3, <1>4
  <2>2. IsMarked(best) /\ Len(best) = IF RequiredPool(r) > 0 THEN RequiredPool(r) ELSE 0
    BY <1>3, <1>4, <2>1, FirstMarks
  <2> HIDE DEF best
  <2> QED BY <2>2, EntriesAre DEF IsMarked
<1>6. /\ bank.entries = r.bank \o best /\ reference.entries = r.reference \o best
      /\ DOMAIN bank = {"capacity", "entries"} /\ bank.capacity = r.target
      /\ DOMAIN reference = {"capacity", "entries"} /\ reference.capacity = r.target
  BY Zenon DEF RefreshedBank, RefreshedReference
<1> HIDE DEF best, r
<1>7. /\ IsMarked(bank.entries) /\ Len(bank.entries) = Len(r.bank) + Len(best)
      /\ Len(reference.entries) = Len(r.reference) + Len(best)
  <2>1. IsMarked(r.bank \o best) /\ Len(r.bank \o best) = Len(r.bank) + Len(best)
    BY Zenon, <1>3, <1>5, JoinMarks
  <2>2. Len(r.reference \o best) = Len(r.reference) + Len(best)
    BY <1>2, <1>5, JoinKeepsBest DEF RefreshIs
  <2> HIDE DEF bank, reference
  <2> QED BY <1>6, <2>1, <2>2
<1>20. MaskedAs(p, o, Len(r.bank), kind)
  <2>1. pol.refresh = "legacy" => p.seedMask = 1 .. Len(r.bank) /\ p.partnerMask = p.seedMask
    BY DEF Collecting, r
  <2>2. MarkFields \subseteq DOMAIN p
    BY DEF StageIs
  <2> HIDE DEF p, bank, reference
  <2> QED BY Zenon, <1>3, <2>1, <2>2, MaskedIs
<1>8. /\ MarkFields \subseteq DOMAIN o
      /\ o.action = p.action /\ o.index = p.index /\ o.round = p.round
      /\ o.seedMask = IF kind = "stage" THEN 1 .. Len(r.bank) ELSE {}
      /\ o.refreshMask = IF kind = "refresh" THEN 1 .. Len(r.bank) ELSE {}
      /\ o.partnerMask \in {1 .. Len(r.bank), {}} /\ kind \in EntryKinds
      /\ p.seedMask = {} /\ p.partnerMask = {} => o.seedMask = {} /\ o.partnerMask = {}
  <2> HIDE DEF o, kind, p
  <2> QED BY <1>20 DEF MaskedAs
<1> HIDE DEF bank, reference, o, kind, done
<1>9. /\ Relabelled(bank.entries, marked)
      /\ \A i \in DOMAIN bank.entries : marked[i].kept = IF i <= Len(r.bank) THEN kind ELSE "no"
  BY <1>7, <1>8, FirstRelabels
<1> HIDE DEF marked
<1>10. /\ Relabelled(bank.entries, Unseeded(marked))
       /\ \A i \in DOMAIN bank.entries :
            /\ Unseeded(marked)[i].seeded = FALSE
            /\ Unseeded(marked)[i].kept = IF i <= Len(r.bank) THEN kind ELSE "no"
  BY Zenon, <1>9, Relabels DEF Relabelled
<1>11. /\ DOMAIN f.bank = {"capacity", "entries"} /\ f.bank.capacity = r.target
       /\ f.bank.entries = Unseeded(marked)
  <2> HIDE DEF f
  <2> QED BY <1>1, <1>6
<1> HIDE DEF f
<1> DEFINE q == f.bank.entries
<1>12. /\ IsMarked(q) /\ Len(q) = Len(r.bank) + Len(best) /\ DOMAIN q = 1 .. (Len(r.bank) + Len(best))
       /\ \A i \in DOMAIN q : q[i].seeded = FALSE /\ q[i].kept = IF i <= Len(r.bank) THEN kind ELSE "no"
  <2>1. DOMAIN bank.entries = 1 .. (Len(r.bank) + Len(best))
    BY <1>7, EntriesAre DEF IsMarked
  <2> QED BY <1>7, <1>10, <1>11, <2>1 DEF Relabelled
<1> HIDE DEF q
<1>13. Len(best) \in Nat /\ Len(r.reference) + Len(best) >= r.target
  BY <1>3, <1>4, <1>5
<1>14. MarksMatch(f.status, o, q)
  <2>1. f.status \in Seq(BOOLEAN) /\ Len(f.status) = 0
    BY <1>1
  <2>2. Len(f.status) <= Len(q) /\ \A i \in DOMAIN q : Used(f.status, i) = q[i].seeded
    <3>1. \A i \in DOMAIN q : ~(i <= Len(f.status))
      BY <1>3, <1>12, <1>13, <2>1
    <3>2. Len(f.status) <= Len(q)
      BY <1>3, <1>12, <1>13, <2>1
    <3> QED BY Zenon, <1>12, <3>1, <3>2 DEF Used
  <2>3. 1 .. Len(r.bank) \subseteq DOMAIN q
        /\ \A i \in DOMAIN q : i <= Len(r.bank) <=> i \in 1 .. Len(r.bank)
    BY <1>3, <1>12, <1>13
  <2>4. o.seedMask = {i \in DOMAIN q : q[i].kept = "stage"}
    BY <1>8, <1>12, <2>3
  <2>5. o.refreshMask = {i \in DOMAIN q : q[i].kept = "refresh"}
    BY <1>8, <1>12, <2>3
  <2>6. o.partnerMask \subseteq DOMAIN q
    BY <1>8, <2>3
  <2> QED BY <2>1, <2>2, <2>4, <2>5, <2>6 DEF MarksMatch
<1>15. StageIs(o, pol) /\ o.action = "none"
  <2>1. o.action = "none"
    BY <1>8 DEF Collecting
  <2> QED BY <1>8, <2>1 DEF StageIs
<1>16. IsFull(f.reference) /\ Len(f.reference.entries) = Len(r.reference) + Len(best)
       /\ f.reference.capacity = r.target /\ "capacity" \in DOMAIN f.reference
  BY <1>1, <1>6, <1>7, <1>13 DEF IsFull
<1>17. SizesAre(f, pol)
  <2> SUFFICES ASSUME pol.growth = "off"
               PROVE  /\ f.bank.capacity = StageCapacity(pol, f.progress.index)
                      /\ Len(q) <= f.bank.capacity
                      /\ Len(f.reference.entries) = Len(q) /\ IsFull(f.bank)
    BY DEF SizesAre, q
  <2>1. /\ r.target = StageCapacity(pol, p.index)
        /\ Len(r.reference) = Len(r.bank) /\ Len(r.bank) <= r.target
    BY DEF Collecting, r
  <2>2. Len(q) = r.target
    BY <1>3, <1>4, <1>5, <1>12, <2>1
  <2> QED BY <1>1, <1>3, <1>8, <1>11, <1>12, <1>16, <2>1, <2>2 DEF IsFull, q
<1>18. Running(f, pol)
  BY <1>1, <1>3, <1>11, <1>12, <1>14, <1>15, <1>16, <1>17 DEF Running, q
<1> QED BY <1>1, <1>15, <1>16, <1>18 DEF MarksHold, Synced, Refreshing, f

-----------------------------------------------------------------------------
(* The marks at a boundary. *)
LEMMA RefreshStateMarks ==
  ASSUME NEW e, IsMarked(e.bank.entries), e.progress.index \in Nat, NEW pol \in Profiles,
         NEW existing \in BOOLEAN
  PROVE  LET r == RefreshStateOf(e, pol, existing)
         IN  /\ DOMAIN r = {"target", "bank", "reference", "pool"}
             /\ r.target = StageCapacity(pol, e.progress.index) /\ IsMarked(r.bank) /\ IsMarked(r.pool)
             /\ pol.refresh = "adaptive_refresh" \/ ~existing =>
                  Len(r.reference) = Len(r.bank) /\ Len(r.bank) <= r.target
             /\ pol.refresh # "adaptive_refresh" =>
                  IF existing THEN r.bank = e.bank.entries /\ r.reference = e.reference.entries
                  ELSE Len(r.bank) = 0
<1> DEFINE r      == RefreshStateOf(e, pol, existing)
           q      == e.bank.entries
           target == StageCapacity(pol, e.progress.index)
           count  == PreservedCount(pol, Len(q), target)
           best   == BestOf(q, count)
<1>1. target \in Int /\ target >= 1
  BY CapacityIs
<1>2. Len(q) \in Nat
  BY EntriesAre DEF IsMarked
<1>3. r = IF pol.refresh = "adaptive_refresh" THEN RefreshOf(target, best, best)
          ELSE IF existing THEN RefreshOf(target, q, e.reference.entries)
          ELSE RefreshOf(target, << >>, << >>)
  BY DEF RefreshStateOf
<1> HIDE DEF r, target
<1>4. count \in Int /\ count <= Len(q) /\ (count = 0 \/ count < target)
  BY Zenon, <1>1, <1>2, PreservedIs
<1> HIDE DEF count
<1>5. IsMarked(best) /\ Len(best) = IF count > 0 THEN count ELSE 0
  <2> HIDE DEF q
  <2> QED BY <1>4, FirstMarks DEF q
<1>6. Len(best) <= target
  BY <1>1, <1>4, <1>5
<1>7. IsMarked(<< >>) /\ Len(<< >>) = 0
  BY DEF IsMarked
<1> HIDE DEF best
<1>8. \A b, c : /\ DOMAIN RefreshOf(target, b, c) = {"target", "bank", "reference", "pool"}
                /\ RefreshOf(target, b, c).target = target /\ RefreshOf(target, b, c).bank = b
                /\ RefreshOf(target, b, c).reference = c /\ RefreshOf(target, b, c).pool = << >>
  BY DEF RefreshOf
<1>9. CASE pol.refresh = "adaptive_refresh"
  <2>1. r = RefreshOf(target, best, best)
    BY <1>3, <1>9
  <2> QED BY <1>5, <1>6, <1>7, <1>8, <1>9, <2>1 DEF r, target
<1>10. CASE pol.refresh # "adaptive_refresh" /\ existing
  <2>1. r = RefreshOf(target, q, e.reference.entries)
    BY <1>3, <1>10
  <2>2. /\ DOMAIN r = {"target", "bank", "reference", "pool"} /\ r.target = target
        /\ r.bank = q /\ r.reference = e.reference.entries /\ r.pool = << >>
    BY <1>8, <2>1
  <2> QED BY Zenon, <1>7, <1>10, <2>2 DEF r, target
<1>11. CASE pol.refresh # "adaptive_refresh" /\ ~existing
  <2>1. r = RefreshOf(target, << >>, << >>)
    BY <1>3, <1>11
  <2>2. /\ DOMAIN r = {"target", "bank", "reference", "pool"} /\ r.target = target
        /\ r.bank = << >> /\ r.reference = << >> /\ r.pool = << >>
    BY <1>8, <2>1
  <2>3. 0 <= target
    BY <1>1
  <2> QED BY <1>7, <1>11, <2>2, <2>3 DEF r, target
<1> QED BY <1>9, <1>10, <1>11

LEMMA BeginRefreshMarks ==
  ASSUME NEW e, Good(e), NEW pol \in Profiles, StageIs(e.progress, pol), Running(e, pol),
         e.progress.action = "none", ~StagesLeft(e.progress, pol)
  PROVE  MarksHold(BeginRefresh(e, pol), pol)
<1> DEFINE r == RefreshStateOf(e, pol, FALSE)
           p == e.progress
           o == ProgressBeginRefresh(p)
           f == BeginRefresh(e, pol)
<1>1. f.refresh = r /\ f.progress = o
  BY DEF BeginRefresh, Idle, Good, Fields
<1>2. /\ DOMAIN r = {"target", "bank", "reference", "pool"}
      /\ r.target = StageCapacity(pol, p.index) /\ IsMarked(r.bank) /\ IsMarked(r.pool)
      /\ Len(r.reference) = Len(r.bank) /\ Len(r.bank) <= r.target
      /\ pol.refresh # "adaptive_refresh" => Len(r.bank) = 0
  <2>1. IsMarked(e.bank.entries) /\ e.progress.index \in Nat
    BY DEF Running, StageIs
  <2> DEFINE x == FALSE
  <2>2. x \in BOOLEAN /\ x = FALSE
    OBVIOUS
  <2>3. r = RefreshStateOf(e, pol, x)
    OBVIOUS
  <2> HIDE DEF x, r
  <2> QED BY <2>1, <2>2, <2>3, RefreshStateMarks
<1>3. /\ MarkFields \subseteq DOMAIN o /\ o.index = p.index /\ o.round = p.round /\ o.action = p.action
      /\ o.seedMask = p.seedMask /\ o.partnerMask = p.partnerMask /\ o.refreshMask = {}
  BY DEF StageIs, ProgressBeginRefresh, MarkFields
<1> HIDE DEF f, r, o
<1>4. StageIs(o, pol) /\ o.action = "none"
  BY <1>3 DEF StageIs
<1>5. o.seedMask = {} /\ o.partnerMask = {}
  <2>1. pol.capacity \in Nat /\ pol.maxCapacity \in Nat /\ pol.capacity <= pol.maxCapacity
    BY CsaAssumption
  <2>2. p.round \in {0, 1}
    BY DEF StageIs
  <2>3. pol.maxCapacity = pol.capacity \/ p.round = 1
    BY <2>1, <2>2 DEF StagesLeft
  <2> QED BY <1>3, <2>3 DEF StageIs
<1>6. Collecting(r, o, pol)
  <2>1. pol.refresh = "legacy" => 1 .. Len(r.bank) = {}
    BY <1>2
  <2> QED BY <1>2, <1>3, <1>4, <1>5, <2>1 DEF Collecting
<1>7. Refreshing(f)
  <2>1. r # NoRefresh
    BY <1>2 DEF NoRefresh
  <2> QED BY <1>1, <2>1 DEF Refreshing
<1> QED BY <1>1, <1>4, <1>6, <1>7 DEF MarksHold, f

(* A stage that begins; if it grows, what is there is the bank of the stage
   before and waits. *)
LEMMA StagedMarks ==
  ASSUME NEW e, Good(e), NEW pol, Running(e, pol)
  PROVE  LET s == Staged(e, pol)
         IN  /\ s.status = << >> /\ s.reference = e.reference /\ s.refresh = e.refresh
             /\ s.progress = [NextStage(e.progress, pol) EXCEPT !.refreshMask = {}]
             /\ DOMAIN s.bank = {"capacity", "entries"} /\ s.bank.capacity = e.bank.capacity
             /\ Relabelled(e.bank.entries, s.bank.entries) /\ Blank(s.bank.entries)
<1> DEFINE s == Staged(e, pol)
           q == e.bank.entries
           u == Unseeded(q)
<1>1. /\ s.status = << >> /\ s.reference = e.reference /\ s.refresh = e.refresh
      /\ s.progress = [NextStage(e.progress, pol) EXCEPT !.refreshMask = {}]
      /\ DOMAIN s.bank = {"capacity", "entries"} /\ s.bank.capacity = e.bank.capacity
      /\ s.bank.entries = KeptAs(u, "no")
  <2>1. DOMAIN e = Fields /\ DOMAIN e.bank = {"capacity", "entries"}
    BY DEF Good, Running
  <2> QED BY Zenon, <2>1 DEF Staged, Idle, NoSeedUsed, Fields
<1>2. IsMarked(q)
  BY DEF Running
<1> HIDE DEF s, q
<1>3. Relabelled(q, u) /\ \A i \in DOMAIN q : u[i].seeded = FALSE
  BY Zenon, <1>2, Relabels
<1> HIDE DEF u
<1>4. "no" \in EntryKinds
  BY DEF EntryKinds
<1>5. /\ Relabelled(u, KeptFirst(u, Len(u), "no"))
      /\ \A i \in DOMAIN u : /\ KeptFirst(u, Len(u), "no")[i].seeded = u[i].seeded
                             /\ KeptFirst(u, Len(u), "no")[i].kept = IF i <= Len(u) THEN "no" ELSE "no"
  BY <1>3, <1>4, FirstRelabels DEF Relabelled
<1>6. s.bank.entries = KeptFirst(u, Len(u), "no")
  BY <1>1 DEF KeptAs
<1>7. Relabelled(q, s.bank.entries) /\ Blank(s.bank.entries)
  BY <1>3, <1>5, <1>6 DEF Relabelled, Blank
<1> QED BY <1>1, <1>7 DEF s, q

LEMMA BeginStageMarks ==
  ASSUME NEW e, Good(e), ~Refreshing(e), NEW pol \in Profiles, StageIs(e.progress, pol),
         Running(e, pol), Synced(e), IsFull(e.bank), e.progress.action = "none", pol.growth = "off"
  PROVE  MarksHold(BeginStage(e, pol), pol)
<1> DEFINE s == Staged(e, pol)
           p == e.progress
           q == e.bank.entries
           g == Growing(e, pol)
<1>1. /\ s.status = << >> /\ s.reference = e.reference /\ s.refresh = e.refresh
      /\ s.progress = [NextStage(p, pol) EXCEPT !.refreshMask = {}]
      /\ DOMAIN s.bank = {"capacity", "entries"} /\ s.bank.capacity = e.bank.capacity
      /\ Relabelled(q, s.bank.entries) /\ Blank(s.bank.entries)
  BY StagedMarks
<1>2. /\ IsMarked(s.bank.entries) /\ Len(s.bank.entries) = Len(q) /\ Len(q) \in Nat
      /\ DOMAIN s.bank.entries = 1 .. Len(q)
  <2>1. IsMarked(s.bank.entries) /\ Len(s.bank.entries) = Len(q)
    BY <1>1 DEF Relabelled
  <2> HIDE DEF s
  <2> QED BY <2>1, EntriesAre DEF IsMarked
<1>3. /\ e.bank.capacity = StageCapacity(pol, p.index) /\ Len(q) = e.bank.capacity
      /\ e.bank.capacity \in Int /\ IsFull(e.reference) /\ Len(e.reference.entries) = Len(q)
  <2>1. /\ e.bank.capacity = StageCapacity(pol, p.index) /\ Len(q) <= e.bank.capacity
        /\ IsFull(e.reference) => Len(e.reference.entries) = Len(q)
    BY DEF Running, SizesAre
  <2>2. e.bank.capacity \in Int /\ Len(q) >= e.bank.capacity /\ IsFull(e.reference)
    BY DEF Running, Synced, IsFull
  <2> QED BY <1>2, <2>1, <2>2
<1> HIDE DEF s, q
<1>4. CASE ~GrowsNext(p, pol)
  <2>1. BeginStage(e, pol) = s
    BY <1>4 DEF BeginStage, s
  <2> DEFINE o == s.progress
  <2>2. /\ MarkFields \subseteq DOMAIN o /\ o.index = p.index /\ o.action = "none" /\ o.round = 1
        /\ o.seedMask = {} /\ o.partnerMask = {} /\ o.refreshMask = {}
    <3>1. o = [[p EXCEPT !.round = 1, !.seedMask = {}, !.partnerMask = {}] EXCEPT !.refreshMask = {}]
      BY <1>1, <1>4 DEF NextStage
    <3>2. MarkFields \subseteq DOMAIN p
      BY DEF StageIs
    <3> HIDE DEF o
    <3> QED BY <3>1, <3>2 DEF MarkFields
  <2>3. StageIs(o, pol)
    BY <2>2 DEF StageIs
  <2>4. MarksMatch(s.status, o, s.bank.entries)
    <3>1. << >> \in Seq(BOOLEAN) /\ Len(<< >>) = 0
      OBVIOUS
    <3>2. \A i \in 1 .. Len(q) : ~(i <= 0)
      BY <1>2
    <3>3. \A i \in DOMAIN s.bank.entries : Used(s.status, i) = s.bank.entries[i].seeded
      BY Zenon, <1>1, <1>2, <3>1, <3>2 DEF Used, Blank
    <3>4. \A i \in DOMAIN s.bank.entries : s.bank.entries[i].kept = "no"
      BY <1>1 DEF Blank
    <3>5. Len(s.status) <= Len(s.bank.entries) /\ s.status \in Seq(BOOLEAN)
      BY <1>1, <1>2, <3>1
    <3> QED BY <2>2, <3>3, <3>4, <3>5 DEF MarksMatch
  <2>5. SizesAre(s, pol) /\ IsFull(s.bank) /\ IsFull(s.reference)
    BY <1>1, <1>2, <1>3, <2>2 DEF SizesAre, IsFull
  <2>6. Running(s, pol)
    BY <1>1, <1>2, <2>2, <2>4, <2>5 DEF Running
  <2>7. ~Refreshing(s)
    BY <1>1 DEF Refreshing
  <2> QED BY <2>1, <2>3, <2>5, <2>6, <2>7 DEF MarksHold, Synced
<1>5. CASE GrowsNext(p, pol)
  <2> DEFINE r == RefreshStateOf(s, pol, TRUE)
             o == g.progress
             n == StageCapacity(pol, p.index)
  <2>1. /\ Good(g) /\ Refreshing(g) /\ g.refresh = r /\ o = ProgressBeginRefresh(s.progress)
    BY Zenon, GrowingKeeps DEF Keeps, s
  <2>2. \/ BeginStage(e, pol) = g
        \/ BeginStage(e, pol) = CompleteRefresh(g, pol) /\ HasEnoughEntries(g.refresh)
    BY Zenon, <1>5 DEF BeginStage, CompletedIfEnough, Growing
  <2> HIDE DEF g
  <2>3. /\ MarkFields \subseteq DOMAIN s.progress
        /\ s.progress.index = p.index + 1 /\ s.progress.action = "none" /\ s.progress.round = 0
        /\ s.progress.seedMask = 1 .. n /\ s.progress.partnerMask = 1 .. n /\ s.progress.refreshMask = {}
    <3>1. s.progress = [[p EXCEPT !.index = p.index + 1, !.round = 0, !.seedMask = 1 .. n,
                                  !.partnerMask = 1 .. n] EXCEPT !.refreshMask = {}]
      BY <1>1, <1>5 DEF NextStage, Grown
    <3>2. MarkFields \subseteq DOMAIN p
      BY DEF StageIs
    <3> HIDE DEF n
    <3> QED BY <3>1, <3>2 DEF MarkFields
  <2>4. /\ MarkFields \subseteq DOMAIN o /\ o.index = p.index + 1 /\ o.action = "none" /\ o.round = 0
        /\ o.seedMask = 1 .. n /\ o.partnerMask = 1 .. n /\ o.refreshMask = {}
    BY <2>1, <2>3 DEF ProgressBeginRefresh, MarkFields
  <2> HIDE DEF o, r
  <2>5. p.index \in Nat /\ n \in Int /\ n < pol.maxCapacity /\ n = Len(q)
    BY <1>3, <1>5, CapacityIs DEF StageIs, GrowsNext
  <2>6. n <= StageCapacity(pol, p.index + 1) /\ pol.capacity <= n
    <3> DEFINE a == pol.capacity * (p.index + 1)
               b == pol.capacity * (p.index + 2)
               m == pol.maxCapacity
    <3>1. pol.capacity \in Nat /\ m \in Nat
      BY CsaAssumption
    <3>2. pol.capacity * p.index \in Nat /\ a = pol.capacity * p.index + pol.capacity /\ b = a + pol.capacity
      <4>1. p.index \in Nat /\ pol.capacity \in Nat
        BY <2>5, <3>1
      <4>2. pol.capacity * p.index \in Nat
        BY <4>1
      <4>3. a = pol.capacity * p.index + pol.capacity
        BY <4>1
      <4>4. b = pol.capacity * p.index + pol.capacity + pol.capacity
        BY <4>1
      <4> QED BY <4>2, <4>3, <4>4
    <3>3. n = SmallestOf({m, a}) /\ StageCapacity(pol, p.index + 1) = SmallestOf({m, b})
      <4>1. p.index + 1 + 1 = p.index + 2
        BY <2>5
      <4> QED BY <4>1 DEF StageCapacity
    <3>4. a \in Int /\ b \in Int /\ a <= b /\ pol.capacity <= a /\ m \in Int
      BY <3>1, <3>2
    <3> HIDE DEF a, b, m, n
    <3>5. n \in {m, a}
      BY <3>3, <3>4, SmallestOfTwo, Zenon
    <3>6. StageCapacity(pol, p.index + 1) \in {m, b}
      BY <3>3, <3>4, SmallestOfTwo, Zenon
    <3>7. n < m
      BY <2>5 DEF m
    <3> QED BY <3>1, <3>4, <3>5, <3>6, <3>7
  <2>7. pol.maxCapacity # pol.capacity
    <3>1. pol.capacity \in Nat /\ pol.maxCapacity \in Nat
      BY CsaAssumption
    <3> QED BY <2>5, <2>6, <3>1
  <2>8. StageIs(o, pol)
    <3>1. o.index # 0 /\ o.index \in Nat
      BY <2>4, <2>5
    <3> QED BY <2>4, <2>7, <3>1 DEF StageIs
  <2>9. /\ DOMAIN r = {"target", "bank", "reference", "pool"}
        /\ r.target = StageCapacity(pol, p.index + 1) /\ IsMarked(r.bank) /\ IsMarked(r.pool)
        /\ pol.refresh = "adaptive_refresh" => Len(r.reference) = Len(r.bank) /\ Len(r.bank) <= r.target
        /\ pol.refresh # "adaptive_refresh" =>
             r.bank = s.bank.entries /\ r.reference = s.reference.entries
    <3> DEFINE x == TRUE
    <3>1. x \in BOOLEAN /\ x = TRUE /\ r = RefreshStateOf(s, pol, x)
      BY DEF r
    <3>2. s.progress.index \in Nat
      BY <2>3, <2>5
    <3> HIDE DEF x
    <3>3. LET t == RefreshStateOf(s, pol, x)
          IN  /\ DOMAIN t = {"target", "bank", "reference", "pool"}
              /\ t.target = StageCapacity(pol, s.progress.index) /\ IsMarked(t.bank) /\ IsMarked(t.pool)
              /\ pol.refresh = "adaptive_refresh" \/ ~x =>
                   Len(t.reference) = Len(t.bank) /\ Len(t.bank) <= t.target
              /\ pol.refresh # "adaptive_refresh" =>
                   IF x THEN t.bank = s.bank.entries /\ t.reference = s.reference.entries
                   ELSE Len(t.bank) = 0
      BY Zenon, <1>2, <3>1, <3>2, RefreshStateMarks
    <3> QED BY Zenon, <2>3, <3>1, <3>3
  <2>10. pol.refresh # "adaptive_refresh" =>
           Len(r.bank) = n /\ Len(r.reference) = n /\ n <= r.target
    BY <1>1, <1>2, <1>3, <2>5, <2>6, <2>9
  <2>11. pol.refresh = "legacy" => Len(r.bank) = n
    BY <2>10
  <2>12. Collecting(r, o, pol)
    BY <2>4, <2>9, <2>10, <2>11 DEF Collecting
  <2>13. MarksHold(g, pol)
    BY <2>1, <2>8, <2>12 DEF MarksHold, o
  <2>14. HasEnoughEntries(g.refresh) => MarksHold(CompleteRefresh(g, pol), pol)
    BY <2>1, <2>8, <2>12, CompleteMarks DEF o
  <2> QED BY <2>2, <2>13, <2>14
<1> QED BY <1>4, <1>5

LEMMA GrowsInStages ==
  ASSUME NEW pol \in Profiles, pol.maxCapacity > pol.capacity
  PROVE  pol.growth = "off"
<1>1. pol.growth # "off" => pol.maxCapacity = pol.capacity
  BY CsaAssumption
<1>2. pol.capacity \in Nat
  BY CsaAssumption
<1> QED BY <1>1, <1>2

LEMMA ActionMarks ==
  ASSUME NEW e, Good(e), NEW pol \in Profiles, MarksHold(e, pol), HasAction(e)
  PROVE  MarksHold(ApplyAction(e, pol), pol)
<1> DEFINE c == [e EXCEPT !.progress.action = "none"]
<1>1. ~Refreshing(e) /\ StageIs(e.progress, pol) /\ Running(e, pol) /\ Synced(e)
  BY DEF MarksHold, Collecting, HasAction
<1>2. /\ DOMAIN c = Fields /\ c.bank = e.bank /\ c.reference = e.reference /\ c.refresh = e.refresh
      /\ c.status = e.status /\ c.hot = e.hot /\ c.progress = [e.progress EXCEPT !.action = "none"]
  BY DEF Good, Fields
<1> HIDE DEF c
<1> DEFINE p == e.progress
           o == c.progress
<1>3. /\ MarkFields \subseteq DOMAIN o /\ o.action = "none" /\ o.index = p.index /\ o.round = p.round
      /\ o.seedMask = p.seedMask /\ o.partnerMask = p.partnerMask /\ o.refreshMask = p.refreshMask
  BY <1>1, <1>2 DEF StageIs, MarkFields
<1> HIDE DEF o
<1>4. IsProgress(o) /\ SameOtherwise(e, c)
  <2>1. IsProgress(o)
    BY <1>1, <1>3 DEF IsProgress, StageIs, MarkFields
  <2> QED BY <1>2, <2>1 DEF SameOtherwise, o
<1>5. Good(c) /\ ~Refreshing(c)
  BY <1>1, <1>2, <1>4, SameBankKeeps DEF Keeps, Refreshing
<1>6. StageIs(o, pol) /\ (StagesLeft(o, pol) <=> StagesLeft(p, pol))
  BY <1>1, <1>3 DEF StageIs, StagesLeft
<1>7. Running(c, pol) /\ Synced(c)
  BY <1>1, <1>2, <1>3 DEF Running, Synced, MarksMatch, SizesAre, o
<1>8. CASE p.action = "refresh"
  <2>1. ~StagesLeft(o, pol)
    BY <1>1, <1>6, <1>8 DEF StageIs
  <2>2. MarksHold(BeginRefresh(c, pol), pol)
    BY <1>3, <1>5, <1>6, <1>7, <2>1, BeginRefreshMarks DEF o
  <2> QED BY <1>8, <2>2 DEF ApplyAction, c
<1>9. CASE p.action = "stage"
  <2>1. StagesLeft(p, pol) /\ IsFull(c.bank)
    BY <1>1, <1>2, <1>9 DEF StageIs, Running
  <2>2. pol.growth = "off"
    BY <2>1, GrowsInStages DEF StagesLeft
  <2>3. MarksHold(BeginStage(c, pol), pol)
    BY <1>3, <1>5, <1>6, <1>7, <2>1, <2>2, BeginStageMarks DEF o
  <2> QED BY <1>9, <2>3 DEF ApplyAction, c
<1> QED BY <1>1, <1>8, <1>9 DEF StageIs, HasAction

LEMMA CrossedMarks ==
  ASSUME NEW e, Good(e), NEW pol \in Profiles, MarksHold(e, pol)
  PROVE  MarksHold(Crossed(e, pol), pol)
  BY ActionMarks DEF Crossed
-----------------------------------------------------------------------------
(* The marks after a commit. *)
LEMMA AdvancedMarks ==
  ASSUME NEW e, Good(e), NEW pol \in Profiles, MarksHold(e, pol), ~Refreshing(e),
         pol.maxCapacity > pol.capacity => IsFull(e.bank), NEW met, NEW local
  PROVE  MarksHold(Advanced(e, met, local, pol), pol)
<1> DEFINE unused == UnusedCount(e.status, Len(e.bank.entries), SeedMask(e.progress))
           next   == AdvanceCutoff(e.progress, pol, ScoreGap(e.bank.entries), unused, local, met)
           moved  == [e EXCEPT !.progress = next.progress]
<1>1. SameMarks(e.progress, next.progress)
  <2>1. MarkFields \subseteq DOMAIN e.progress
    BY DEF MarksHold, StageIs
  <2> QED BY Zenon, <2>1 DEF AdvanceCutoff, SameMarks, MarkFields
<1>2. IsProgress(next.progress)
  BY Zenon DEF IsProgress, AdvanceCutoff, Good
<1>3. Advanced(e, met, local, pol) \in {moved, Crossed(CycleOver(moved, pol), pol)}
  BY DEF Advanced, CycleEnded, CycleOver
<1> HIDE DEF next
<1>4. /\ SameOtherwise(e, moved) /\ moved.bank = e.bank /\ moved.status = e.status
      /\ moved.progress = next.progress
  BY <1>2 DEF SameOtherwise, Good, Fields
<1> HIDE DEF moved
<1>5. Good(moved) /\ ~Refreshing(moved) /\ MarksHold(moved, pol)
  <2>1. SamePlan(e, moved)
    BY <1>1, <1>4 DEF SamePlan, SameOtherwise
  <2> QED BY <1>4, <2>1, SameBankKeeps, PlanStays DEF Keeps, SameOtherwise, Refreshing
<1>6. Good(CycleOver(moved, pol)) /\ MarksHold(CycleOver(moved, pol), pol)
  <2>1. pol.maxCapacity > pol.capacity => IsFull(moved.bank)
    BY <1>4
  <2> QED BY <1>5, <2>1, CycleKeepsBest, CycleMarks DEF Keeps
<1> QED BY <1>3, <1>5, <1>6, CrossedMarks

LEMMA ReconciledMarks ==
  ASSUME NEW batch, NEW pol \in Profiles, NEW updated, NEW committed, NEW advances,
         Good(batch.eng), ~Refreshing(batch.eng),
         StageIs(batch.eng.progress, pol), Running(batch.eng, pol),
         advances /\ pol.maxCapacity > pol.capacity => IsFull(batch.eng.bank)
  PROVE  MarksHold(Reconciled(batch, updated, committed, advances, pol), pol)
<1> DEFINE e      == batch.eng
           synced == WithReference(e, pol)
           grown  == WithGrowth(synced, pol)
           Ready(f) == /\ Good(f) /\ ~Refreshing(f) /\ MarksHold(f, pol)
                       /\ advances /\ pol.maxCapacity > pol.capacity => IsFull(f.bank)
<1>1. Ready(synced)
  BY WithReferenceKeepsBest, WithReferenceMarks DEF Keeps
<1> HIDE DEF synced
<1>2. Ready(grown)
  <2>1. PICK g : grown = [synced EXCEPT !.growth = g]
    BY Zenon DEF WithGrowth
  <2> HIDE DEF grown
  <2>2. SameOtherwise(synced, grown) /\ grown.bank = synced.bank /\ SamePlan(synced, grown)
    BY <1>1, <2>1 DEF SameOtherwise, Good, Fields, SamePlan, SameMarks, MarksHold, StageIs
  <2> QED BY <1>1, <2>2, SameBankKeeps, PlanStays DEF Keeps, SameOtherwise, Refreshing
<1>3. ASSUME NEW f, Ready(f)
      PROVE  MarksHold(Settled(f, batch, committed, advances, pol), pol)
  <2>1. MarksHold(Crossed(f, pol), pol)
    BY <1>3, CrossedMarks
  <2>2. MarksHold(Moved(f, batch, advances, pol), pol) /\ Good(Moved(f, batch, advances, pol))
    <3>1. advances => MarksHold(Advanced(f, batch.met, batch.local, pol), pol)
      BY <1>3, AdvancedMarks
    <3>2. Good(Advanced(f, batch.met, batch.local, pol))
      BY <1>3, AdvancedKeepsBest DEF Keeps
    <3> QED BY <1>3, <3>1, <3>2 DEF Moved
  <2>3. ASSUME NEW g, Good(g), MarksHold(g, pol)
        PROVE  MarksHold(Cooled(g, pol), pol)
    <3>1. SamePlan(g, Cooled(g, pol))
      BY <2>3 DEF Cooled, SamePlan, SameMarks, MarksHold, StageIs, Good, Fields
    <3> QED BY <2>3, <3>1, PlanStays
  <2>4. MarksHold(Cooled(Moved(f, batch, advances, pol), pol), pol)
    BY <2>2, <2>3
  <2> QED BY <2>1, <2>2, <2>4 DEF Settled
<1>4. Reconciled(batch, updated, committed, advances, pol)
        \in {Settled(synced, batch, committed, advances, pol), Settled(grown, batch, committed, advances, pol)}
  BY DEF Reconciled, synced
<1> HIDE DEF grown, e, Ready
<1> QED BY <1>1, <1>2, <1>3, <1>4

LEMMA CommittedMarks ==
  ASSUME NEW e, Good(e), ~Refreshing(e), NEW pol, MarkProfile(pol),
         StageIs(e.progress, pol), Running(e, pol),
         NEW evaluations, evaluations \in Seq(Evaluation),
         NEW committed, NEW advances, advances => IsFull(e.bank), NEW lucks
  PROVE  MarksHold(Committed(e, evaluations, committed, advances, lucks, pol), pol)
<1> DEFINE batch == Updated(e, evaluations, lucks, pol)
<1>1. Good(batch.eng) /\ ~Refreshing(batch.eng)
  BY UpdatedKeepsBest DEF Keeps, MarkProfile
<1>2. /\ StageIs(batch.eng.progress, pol) /\ Running(batch.eng, pol)
      /\ pol.growth = "off" /\ IsFull(e.bank) => IsFull(batch.eng.bank)
  BY UpdatedMarks
<1>3. pol \in Profiles
  BY DEF MarkProfile, KeepsProfile
<1> HIDE DEF batch
<1>4. advances /\ pol.maxCapacity > pol.capacity => IsFull(batch.eng.bank)
  BY <1>2, <1>3, GrowsInStages
<1>5. MarksHold(Reconciled(batch, evaluations # << >>, committed, advances, pol), pol)
  BY <1>1, <1>2, <1>3, <1>4, ReconciledMarks
<1> QED BY <1>5 DEF Committed, batch

-----------------------------------------------------------------------------
(* The marks during an ask: the seeds of a batch are marked where the status
   says so. *)
LEMMA SeedsAre ==
  ASSUME NEW pol, NEW status, NEW n, NEW masked, NEW value, NEW dist,
         NEW b \in SeedBatches(pol, status, n, masked, value, dist)
  PROVE  b.status = Marked(IF pol.seedMode # 2
                              /\ \A i \in 1 .. n : i \in masked \/ Resized(status, n)[i]
                           THEN [i \in 1 .. n |-> FALSE] ELSE Resized(status, n), b.seeds)
<1> DEFINE fresh == {i \in 1 .. n \ masked : ~Resized(status, n)[i]}
           base == IF fresh = {} THEN [i \in 1 .. n |-> FALSE] ELSE Resized(status, n)
<1>1. CASE pol.seedMode = 2
  <2>1. \E sel : b = [seeds |-> sel, status |-> Marked(Resized(status, n), sel)]
    BY Zenon, <1>1 DEF SeedBatches
  <2> QED BY <1>1, <2>1
<1>2. CASE pol.seedMode # 2
  <2>1. \E sel : b = [seeds |-> sel, status |-> Marked(base, sel)]
    BY Zenon, <1>2 DEF SeedBatches
  <2>2. fresh = {} <=> \A i \in 1 .. n : i \in masked \/ Resized(status, n)[i]
    OBVIOUS
  <2> HIDE DEF fresh
  <2> QED BY <1>2, <2>1, <2>2
<1> QED BY <1>1, <1>2

LEMMA SeedsMarked ==
  ASSUME NEW e, NEW pol, IsFull(e.bank), ~Refreshing(e), Good(e), MarksHold(e, pol),
         NEW g \in Materialized(e, pol)
  PROVE  MarksHold(g, pol)
<1> DEFINE q == e.bank.entries
           n == Len(q)
           p == e.progress
           cleared == StatusCleared(e, pol)
<1>1. Running(e, pol) /\ StageIs(p, pol) /\ Synced(e)
  BY DEF MarksHold
<1>2. IsMarked(q) /\ n \in Nat /\ DOMAIN q = 1 .. n
  BY <1>1, EntriesAre DEF Running, IsMarked
<1>3. PICK b \in SeedChoices(e, pol) : g = WithSeeds(e, b, pol)
  BY DEF Materialized
<1> DEFINE value == [i \in DOMAIN e.bank.entries |-> ValueOf(e.bank.entries[i])]
           dist == [i, j \in DOMAIN e.bank.entries |-> Between(e.bank.entries[i], e.bank.entries[j])]
           drawn == SeedBatches(pol, e.status, Len(e.bank.entries), SeedMask(e.progress), value, dist)
<1>14. SeedChoices(e, pol) = {c \in drawn : /\ \A i \in c.seeds : HasPartners(e, i, pol)
                                           /\ Cardinality(c.seeds) * ChildrenPerSeed(e, pol) > 0}
  BY DEF SeedChoices
<1>15. b \in SeedBatches(pol, e.status, n, SeedMask(p), value, dist)
  <2> HIDE DEF value, dist
  <2>1. \A c : c \in drawn => c \in SeedBatches(pol, e.status, n, SeedMask(p), value, dist)
    OBVIOUS
  <2> HIDE DEF drawn
  <2> QED BY <1>14, <2>1
<1>4. b.status = Marked(IF pol.seedMode # 2
                           /\ \A i \in 1 .. n : i \in SeedMask(p) \/ Resized(e.status, n)[i]
                        THEN [i \in 1 .. n |-> FALSE] ELSE Resized(e.status, n), b.seeds)
  <2> DEFINE status == e.status  mask == SeedMask(p)
  <2> HIDE DEF value, dist, n, mask, status
  <2>1. b \in SeedBatches(pol, status, n, mask, value, dist)
    BY <1>15 DEF mask, status
  <2>2. b.status = Marked(IF pol.seedMode # 2
                             /\ \A i \in 1 .. n : i \in mask \/ Resized(status, n)[i]
                          THEN [i \in 1 .. n |-> FALSE] ELSE Resized(status, n), b.seeds)
    BY <2>1, SeedsAre
  <2> QED BY <2>2 DEF mask, status
<1> HIDE DEF value, dist, drawn
<1>5. cleared <=> pol.seedMode # 2 /\ \A i \in 1 .. n : i \in SeedMask(p) \/ Resized(e.status, n)[i]
  BY <1>2 DEF StatusCleared
<1>6. /\ g.status = b.status /\ g.progress = p /\ g.reference = e.reference /\ g.refresh = e.refresh
      /\ DOMAIN g.bank = {"capacity", "entries"} /\ g.bank.capacity = e.bank.capacity
      /\ g.bank.entries = Reseeded(q, b.seeds, cleared)
  <2>1. DOMAIN e = Fields /\ DOMAIN e.bank = {"capacity", "entries"}
    BY <1>1 DEF Good, Running
  <2> HIDE DEF cleared
  <2>2. g = [e EXCEPT !.status = b.status,
                      !.queue = Cardinality(b.seeds) * ChildrenPerSeed(e, pol),
                      !.bank.entries = Reseeded(@, b.seeds, cleared)]
    BY <1>3 DEF WithSeeds, cleared
  <2> QED BY <2>1, <2>2 DEF Fields
<1> HIDE DEF cleared, q, n, p
<1> DEFINE r == g.bank.entries
<1>7. /\ Relabelled(q, r)
      /\ \A i \in DOMAIN q : r[i].seeded = (i \in b.seeds \/ (q[i].seeded /\ ~cleared)) /\ r[i].kept = q[i].kept
  BY <1>2, <1>6, SeedRelabels
<1>8. MarksMatch(e.status, p, q)
  BY <1>1 DEF Running, p, q
<1> HIDE DEF r
<1>9. MarksMatch(g.status, p, r)
  <2> DEFINE s == g.status
  <2>1. \A i \in 1 .. n : Resized(e.status, n)[i] = Used(e.status, i)
    BY DEF Resized, Used
  <2>2. s = Marked(IF cleared THEN [i \in 1 .. n |-> FALSE] ELSE Resized(e.status, n), b.seeds)
    BY <1>4, <1>5, <1>6
  <2>3. /\ DOMAIN s = 1 .. n /\ s = [i \in 1 .. n |-> s[i]]
        /\ \A i \in 1 .. n : s[i] = ((~cleared /\ Resized(e.status, n)[i]) \/ i \in b.seeds)
    <3>1. CASE cleared
      BY <2>2, <3>1 DEF Marked
    <3>2. CASE ~cleared
      <4>1. s = Marked(Resized(e.status, n), b.seeds)
        BY <2>2, <3>2
      <4> HIDE DEF s
      <4> QED BY <3>2, <4>1 DEF Marked, Resized
    <3> QED BY <3>1, <3>2
  <2> HIDE DEF s
  <2>4. s \in Seq(BOOLEAN) /\ Len(s) = n
    <3>1. \A i \in 1 .. n : s[i] \in BOOLEAN
      BY Zenon, <2>3
    <3>2. s \in [1 .. n -> BOOLEAN]
      BY <2>3, <3>1
    <3> QED BY <1>2, <3>2
  <2>5. \A i \in DOMAIN q : s[i] = r[i].seeded
    <3> SUFFICES ASSUME NEW i \in DOMAIN q PROVE s[i] = r[i].seeded
      OBVIOUS
    <3>1. i \in 1 .. n
      BY <1>2
    <3>2. Resized(e.status, n)[i] = q[i].seeded
      BY <1>8, <2>1, <3>1 DEF MarksMatch
    <3>3. s[i] = ((~cleared /\ q[i].seeded) \/ i \in b.seeds)
      BY <2>3, <3>1, <3>2
    <3>4. r[i].seeded = (i \in b.seeds \/ (q[i].seeded /\ ~cleared))
      BY <1>7
    <3> QED BY <3>3, <3>4
  <2>6. \A i \in DOMAIN r : r[i].seeded \in BOOLEAN
    BY Zenon, <1>7, EntriesAre DEF Relabelled, IsMarked, MarkedEntry
  <2>7. DOMAIN r = 1 .. n /\ DOMAIN q = 1 .. n /\ Len(r) = n
    BY <1>2, <1>7 DEF Relabelled, n
  <2>8. \A i \in DOMAIN r : Used(s, i) = r[i].seeded
    BY <1>2, <2>4, <2>5, <2>6, <2>7 DEF Used
  <2>9. /\ p.seedMask = {i \in DOMAIN r : r[i].kept = "stage"}
        /\ p.refreshMask = {i \in DOMAIN r : r[i].kept = "refresh"}
        /\ p.partnerMask \subseteq DOMAIN r
    BY <1>7, <1>8, <2>7 DEF MarksMatch
  <2>10. Len(s) <= Len(r)
    BY <1>2, <2>4, <2>7
  <2> QED BY <2>4, <2>8, <2>9, <2>10 DEF MarksMatch, s
<1>10. Len(r) = Len(q) /\ IsMarked(r)
  BY <1>7 DEF Relabelled
<1>11. IsFull(g.bank) /\ IsFull(g.reference)
  <2>1. IsFull(e.reference)
    BY <1>1 DEF Synced
  <2> QED BY <1>6, <1>10, <2>1 DEF IsFull, r, q
<1>12. SizesAre(g, pol)
  BY <1>1, <1>6, <1>10, <1>11 DEF Running, SizesAre, r, q, p
<1>13. Running(g, pol)
  BY <1>1, <1>6, <1>9, <1>10, <1>11, <1>12 DEF Running, r, p
<1> QED BY <1>1, <1>6, <1>11, <1>13 DEF MarksHold, Synced, Refreshing, p

LEMMA NextProposalsMarks ==
  ASSUME NEW e, Good(e), NEW pol, MarksHold(e, pol), NEW m \in NextProposals(e, pol)
  PROVE  MarksHold(m.eng, pol)
<1>1. ASSUME NEW f, DOMAIN f = Fields, MarksHold(f, pol)
      PROVE  /\ \A reason : MarksHold(Sampled(f, reason).eng, pol)
             /\ MarksHold(Issued(f).eng, pol)
  <2>1. \A reason : SamePlan(f, Sampled(f, reason).eng)
    BY <1>1 DEF Sampled, SamePlan, SameMarks, MarksHold, StageIs, Fields
  <2>2. SamePlan(f, Issued(f).eng)
    BY Zenon, <1>1 DEF Issued, SamePlan, SameMarks, MarksHold, StageIs, Fields
  <2> QED BY <1>1, <2>1, <2>2, PlanStays
<1>2. \/ m = Sampled(e, "refresh_sample") \/ m = Sampled(e, "space_sample") \/ m = Issued(e)
      \/ IsFull(e.bank) /\ ~Refreshing(e) /\ \E g \in Materialized(e, pol) : m = Issued(g)
  BY DEF NextProposals
<1>3. \A g \in Materialized(e, pol) : DOMAIN g = Fields
  BY Zenon DEF Materialized, WithSeeds, Good, Fields
<1>4. DOMAIN e = Fields
  BY DEF Good
<1> QED BY <1>1, <1>2, <1>3, <1>4, SeedsMarked

LEMMA EmittedMarks ==
  ASSUME NEW e, Good(e), NEW pol \in Profiles, MarksHold(e, pol), NEW m \in Emitted(e, pol)
  PROVE  MarksHold(m.eng, pol)
<1>1. CASE HasAction(e)
  <2>1. m \in NextProposals(ApplyAction(e, pol), pol)
    BY <1>1 DEF Emitted
  <2>2. Good(ApplyAction(e, pol)) /\ MarksHold(ApplyAction(e, pol), pol)
    BY <1>1, ActionKeeps, ActionMarks DEF Keeps
  <2> QED BY <2>1, <2>2, NextProposalsMarks
<1>2. CASE ~HasAction(e)
  <2>1. m \in NextProposals(e, pol)
    BY <1>2 DEF Emitted
  <2> QED BY <2>1, NextProposalsMarks
<1> QED BY <1>1, <1>2

MarksGood(e, pol) == Good(e) /\ MarksHold(e, pol)

LEMMA AskStepMarks ==
  ASSUME NEW pol \in Profiles, NEW results, \A r \in results : MarksGood(r.eng, pol),
         NEW r \in AskStep(results, pol)
  PROVE  MarksGood(r.eng, pol)
<1>1. PICK p \in results :
        r \in IF p.ended THEN {p}
              ELSE {[eng |-> m.eng, reasons |-> Noted(p.reasons, m.id, m.reason),
                     ended |-> m.tracks /\ m.eng.queue = 0] : m \in Emitted(p.eng, pol)}
  BY DEF AskStep
<1>2. CASE p.ended
  BY <1>1, <1>2
<1>3. CASE ~p.ended
  <2>1. PICK m \in Emitted(p.eng, pol) : r.eng = m.eng
    BY <1>1, <1>3
  <2>2. Good(p.eng) /\ MarksHold(p.eng, pol)
    BY DEF MarksGood
  <2> QED BY <2>1, <2>2, EmittedMarks, EmittedKeepsBest DEF MarksGood, Keeps
<1> QED BY <1>2, <1>3

LEMMA AskedMarks ==
  ASSUME NEW e, NEW pol \in Profiles, MarksGood(e, pol), NEW count \in Nat, NEW f \in Asked(e, count, pol)
  PROVE  MarksHold(f, pol)
<1>1. PICK g : /\ IsAsking(g, AskStart(e), pol, 1..count)
               /\ Asked(e, count, pol) = {Registered(r, pol) : r \in g[1..count]}
  BY AskedIs
<1> DEFINE Ok(x) == \A r \in x : MarksGood(r.eng, pol)
           B     == {s \in SUBSET (1..count) : Ok(g[s])}
<1>2. Ok(AskStart(e))
  <2> DEFINE start == [eng |-> e, reasons |-> << >>, ended |-> FALSE]
  <2>1. start.eng = e /\ AskStart(e) = {start}
    BY DEF AskStart
  <2> HIDE DEF start
  <2> QED BY <2>1
<1>3. \A x : Ok(x) => Ok(AskStep(x, pol))
  BY AskStepMarks
<1> HIDE DEF Ok
<1>4. \A s \in SUBSET (1..count) :
        g[s] = IF s = {} THEN AskStart(e) ELSE AskStep(g[s \ {Max(s)}], pol)
  BY Zenon, <1>1 DEF IsAsking
<1>5. {} \in B
  BY Zenon, <1>2, <1>4
<1>6. ASSUME NEW s \in SUBSET (1..count), s # {}, s \ {Max(s)} \in B
      PROVE  s \in B
  <2>1. Ok(g[s \ {Max(s)}])
    BY <1>6
  <2>2. Ok(AskStep(g[s \ {Max(s)}], pol))
    BY <1>3, <2>1
  <2> QED BY Zenon, <1>4, <1>6, <2>2
<1>7. 1..count \in B
  <2>1. B \in SUBSET (SUBSET (1..count))
    OBVIOUS
  <2> HIDE DEF B
  <2> QED BY <1>5, <1>6, <2>1, FromBelow
<1>8. PICK r \in g[1..count] : f = Registered(r, pol)
  BY <1>1
<1>9. Good(r.eng) /\ MarksHold(r.eng, pol)
  BY <1>7 DEF Ok, MarksGood
<1>10. SamePlan(r.eng, f)
  BY <1>8, <1>9 DEF Registered, SamePlan, SameMarks, MarksHold, StageIs, Good, Fields
<1> QED BY <1>9, <1>10, PlanStays

-----------------------------------------------------------------------------
(* The marks after a tell. *)
LEMMA RefreshToldMarks ==
  ASSUME NEW e, Good(e), Refreshing(e), NEW pol, MarksHold(e, pol),
         NEW told, told \in Seq(Evaluation)
  PROVE  MarksHold(RefreshTold(e, told, pol), pol)
<1> DEFINE after == Collected(e, told)
           r     == e.refresh
           pool  == PoolOf(told)
<1>1. /\ Good(after) /\ Refreshing(after) /\ after.progress = e.progress
      /\ DOMAIN after.refresh = {"target", "bank", "reference", "pool"}
      /\ after.refresh.target = r.target /\ after.refresh.bank = r.bank
      /\ after.refresh.reference = r.reference /\ after.refresh.pool = r.pool \o pool
  BY CollectedIs
<1>2. RefreshTold(e, told, pol)
        = IF HasEnoughEntries(after.refresh) /\ after.pending = {} THEN CompleteRefresh(after, pol) ELSE after
  BY RefreshToldIs
<1>3. IsMarked(pool)
  <2>1. Len(told) \in Nat /\ DOMAIN told = 1 .. Len(told)
        /\ \A i \in 1 .. Len(told) : told[i] \in Evaluation
    OBVIOUS
  <2>2. pool = [i \in 1 .. Len(told) |-> pool[i]]
        /\ \A i \in 1 .. Len(told) : pool[i] = Entry(told[i].at, 0)
    BY <2>1 DEF PoolOf
  <2>3. \A i \in 1 .. Len(told) : Entry(told[i].at, 0) \in MarkedEntry /\ Entry(told[i].at, 0).new = 0
    BY <2>1 DEF Evaluation, Entry, MarkedEntry, EntryKinds
  <2> HIDE DEF pool
  <2>4. \A i \in 1 .. Len(told) : pool[i] \in MarkedEntry /\ pool[i].new = 0
    BY <2>2, <2>3
  <2>5. pool \in Seq(MarkedEntry) /\ DOMAIN pool = 1 .. Len(told)
    BY <2>1, <2>2, <2>4, MakesEntries
  <2> QED BY <2>4, <2>5 DEF IsMarked
<1> HIDE DEF after, pool
<1>4. StageIs(e.progress, pol) /\ Collecting(r, e.progress, pol)
  BY DEF MarksHold
<1>5. IsMarked(r.pool \o pool)
  BY <1>3, <1>4, JoinMarks DEF Collecting
<1>6. Collecting(after.refresh, after.progress, pol)
  BY <1>1, <1>4, <1>5 DEF Collecting
<1>7. MarksHold(after, pol)
  BY <1>1, <1>4, <1>6 DEF MarksHold
<1>8. HasEnoughEntries(after.refresh) => MarksHold(CompleteRefresh(after, pol), pol)
  BY <1>1, <1>4, <1>6, CompleteMarks
<1> QED BY <1>2, <1>7, <1>8

LEMMA ToldMarks ==
  ASSUME NEW e, Good(e), e.buffer \in Seq(Evaluation), NEW pol, MarkProfile(pol), MarksHold(e, pol),
         NEW told, told \in Seq(Evaluation), NEW lucks
  PROVE  MarksHold(Told(e, told, lucks, pol), pol)
<1> DEFINE seen == Seen(e, told)
           kept == Kept(e, told)
           free == Freed(e, told)
           advances == Advances(e, told)
<1>1. CASE Refreshing(e)
  BY <1>1, RefreshToldMarks DEF Told
<1>2. CASE ~Refreshing(e)
  <2>1. StageIs(e.progress, pol) /\ Running(e, pol)
    BY <1>2 DEF MarksHold
  <2>2. /\ SameOtherwise(e, seen) /\ seen.bank = e.bank /\ seen.status = e.status
        /\ seen.progress = e.progress /\ seen.buffer = e.buffer
    BY DEF SameOtherwise, Good, Fields, Seen
  <2>3. /\ SameOtherwise(e, kept) /\ kept.bank = e.bank /\ kept.status = e.status
        /\ kept.progress = e.progress /\ kept.buffer = e.buffer \o told
    BY <2>2 DEF SameOtherwise, Fields, Kept
  <2>4. /\ SameOtherwise(e, free) /\ free.bank = e.bank /\ free.status = e.status
        /\ free.progress = e.progress
    BY <2>3 DEF SameOtherwise, Fields, Freed
  <2>5. \/ Told(e, told, lucks, pol) = kept
        \/ Told(e, told, lucks, pol) = CommitOfBuffer(e, told, lucks, pol)
        \/ Told(e, told, lucks, pol) = CommitOfTold(e, told, lucks, pol)
    BY <1>2, ToldIs
  <2>6. advances => IsFull(e.bank)
    BY DEF Advances
  <2>7. kept.buffer \in Seq(Evaluation)
    BY <2>3
  <2> HIDE DEF seen, kept, free, advances
  <2>8. Good(seen) /\ Good(free)
    BY <2>2, <2>4, SameBankKeeps DEF Keeps
  <2>9. SamePlan(e, seen) /\ SamePlan(e, kept) /\ SamePlan(e, free)
    BY <2>1, <2>2, <2>3, <2>4 DEF SamePlan, SameMarks, SameOtherwise, StageIs
  <2>10. /\ StageIs(seen.progress, pol) /\ Running(seen, pol)
         /\ StageIs(free.progress, pol) /\ Running(free, pol)
         /\ MarksHold(kept, pol)
    BY Zenon, <2>1, <2>9, PlanStays
  <2>11. ~Refreshing(seen) /\ ~Refreshing(free)
    BY <1>2, <2>2, <2>4 DEF SameOtherwise, Refreshing
  <2>12. advances => IsFull(seen.bank) /\ IsFull(free.bank)
    BY <2>2, <2>4, <2>6
  <2>13. \A committed : /\ MarksHold(Committed(free, kept.buffer, committed, advances, lucks, pol), pol)
                        /\ MarksHold(Committed(seen, told, committed, advances, lucks, pol), pol)
    BY <2>7, <2>8, <2>10, <2>11, <2>12, CommittedMarks
  <2>14. /\ MarksHold(CommitOfBuffer(e, told, lucks, pol), pol)
         /\ MarksHold(CommitOfTold(e, told, lucks, pol), pol)
    BY Zenon, <2>13 DEF CommitOfBuffer, CommitOfTold, seen, kept, free, advances
  <2> QED BY <2>5, <2>10, <2>14
<1> QED BY <1>1, <1>2

LEMMA ToldAttemptsMarks ==
  ASSUME NEW e, Good(e), e.buffer \in Seq(Evaluation), NEW pol, MarkProfile(pol), MarksHold(e, pol),
         NEW told, told \in Seq(Evaluation), NEW failures, NEW lucks
  PROVE  MarksHold(ToldAttempts(e, told, failures, lucks, pol), pol)
<1> DEFINE rest == Failed(e, failures)
<1>1. /\ SameOtherwise(e, rest) /\ rest.bank = e.bank /\ rest.buffer = e.buffer
      /\ rest.status = e.status /\ rest.progress = e.progress
  BY DEF Failed, SameOtherwise, Good, Fields
<1> HIDE DEF rest
<1>2. Good(rest)
  BY <1>1, SameBankKeeps DEF Keeps
<1>3. SamePlan(e, rest)
  BY <1>1 DEF SamePlan, SameMarks, SameOtherwise, MarksHold, StageIs
<1>4. MarksHold(rest, pol)
  BY Zenon, <1>3, PlanStays
<1>5. MarksHold(Told(rest, told, lucks, pol), pol)
  BY <1>1, <1>2, <1>4, ToldMarks
<1> QED BY <1>4, <1>5 DEF ToldAttempts, rest

LEMMA NewEngineMarks ==
  ASSUME NEW pol \in Profiles
  PROVE  MarksHold(NewEngine(pol), pol)
<1> DEFINE e == NewEngine(pol)
           p == InitialProgress(pol)
           b == EmptyBank(pol.capacity)
<1>1. /\ e.progress = p /\ e.refresh = NoRefresh /\ e.status = << >>
      /\ e.bank = b /\ e.reference = b
  BY DEF NewEngine, NoSeedUsed
<1>2. /\ p.action = "none" /\ p.index = 0 /\ p.round = 0
      /\ p.seedMask = {} /\ p.partnerMask = {} /\ p.refreshMask = {}
      /\ MarkFields \subseteq DOMAIN p
  BY DEF InitialProgress, MarkFields
<1>3. /\ pol.capacity \in Nat \ {0} /\ pol.maxCapacity \in Nat \ {0} /\ pol.capacity <= pol.maxCapacity
  BY CsaAssumption
<1>4. /\ DOMAIN b = {"capacity", "entries"} /\ b.capacity = pol.capacity /\ b.entries = << >>
  BY DEF EmptyBank
<1>5. ~IsFull(b)
  BY <1>3, <1>4 DEF IsFull
<1>6. StageCapacity(pol, 0) = pol.capacity
  <2>1. pol.capacity * (0 + 1) = pol.capacity
    BY <1>3
  <2>2. StageCapacity(pol, 0) = SmallestOf({pol.maxCapacity, pol.capacity * (0 + 1)})
    BY Zenon DEF StageCapacity
  <2>3. StageCapacity(pol, 0) = SmallestOf({pol.maxCapacity, pol.capacity})
    BY <2>1, <2>2
  <2> QED BY <1>3, <2>3 DEF SmallestOf
<1>7. << >> \in Seq(MarkedEntry) /\ << >> \in Seq(BOOLEAN) /\ Len(<< >>) = 0 /\ DOMAIN << >> = {}
  OBVIOUS
<1> HIDE DEF e, p, b
<1>8. IsMarked(e.bank.entries) /\ Blank(e.bank.entries)
  BY <1>1, <1>4, <1>7 DEF IsMarked, Blank
<1>9. MarksMatch(e.status, e.progress, e.bank.entries)
  BY <1>1, <1>2, <1>4, <1>7 DEF MarksMatch
<1>10. SizesAre(e, pol)
  BY <1>1, <1>2, <1>3, <1>4, <1>5, <1>6, <1>7 DEF SizesAre
<1>11. Running(e, pol) /\ Synced(e) /\ ~Refreshing(e)
  BY <1>1, <1>2, <1>3, <1>4, <1>5, <1>8, <1>9, <1>10 DEF Running, Synced, Refreshing
<1>12. StageIs(p, pol)
  BY <1>2 DEF StageIs
<1> QED BY <1>1, <1>11, <1>12 DEF MarksHold, e

-----------------------------------------------------------------------------
(* What a call does to the marks, as facts of states. *)
AskMarks(pol) ==
  \A e : MarksGood(e, pol) => \A count \in Nat : \A f \in Asked(e, count, pol) : MarksHold(f, pol)

TellMarks(pol) ==
  \A e, told, lucks :
    MarksGood(e, pol) /\ e.buffer \in Seq(Evaluation) /\ told \in Seq(Evaluation) =>
      MarksHold(Told(e, told, lucks, pol), pol)

TellAttemptsMark(pol) ==
  \A e, told, failures, lucks :
    MarksGood(e, pol) /\ e.buffer \in Seq(Evaluation) /\ told \in Seq(Evaluation) =>
      MarksHold(ToldAttempts(e, told, failures, lucks, pol), pol)

LEMMA CallsMark ==
  \A pol : MarkProfile(pol) => AskMarks(pol) /\ TellMarks(pol) /\ TellAttemptsMark(pol)
<1> SUFFICES ASSUME NEW pol, MarkProfile(pol)
             PROVE  AskMarks(pol) /\ TellMarks(pol) /\ TellAttemptsMark(pol)
  OBVIOUS
<1>1. AskMarks(pol)
  <2>1. pol \in Profiles
    BY DEF MarkProfile, KeepsProfile
  <2> QED BY <2>1, AskedMarks DEF AskMarks
<1>2. TellMarks(pol)
  BY ToldMarks DEF TellMarks, MarksGood
<1>3. TellAttemptsMark(pol)
  BY ToldAttemptsMarks DEF TellAttemptsMark, MarksGood
<1> QED BY <1>1, <1>2, <1>3

\* The invariant of the marks, together with BankHolds.
AreMarked == MarkProfile(prof) => MarksHold(eng, prof)

LEMMA MarksStep ==
  EngineHolds /\ BankHolds /\ AreMarked /\ [CsaNext]_csaVars => AreMarked'
<1> SUFFICES ASSUME EngineHolds, BankHolds, AreMarked, [CsaNext]_csaVars, MarkProfile(prof')
             PROVE  MarksHold(eng', prof')
  BY DEF AreMarked
<1>1. prof' = prof
  BY DEF CsaNext, Ask, Tell, TellAttempts, csaVars
<1>2. MarksGood(eng, prof) /\ eng.buffer \in Seq(Evaluation) /\ Shape(eng)
  BY <1>1 DEF EngineHolds, EngineInv, Shape, BankHolds, AreMarked, MarksGood, MarkProfile
<1>3. AskMarks(prof) /\ TellMarks(prof) /\ TellAttemptsMark(prof)
  BY <1>1, CallsMark
<1>4. CASE Ask
  <2>1. PICK count \in 1 .. MaxBatch : eng' \in Asked(eng, count, prof)
    BY <1>4 DEF Ask
  <2>2. count \in Nat
    OBVIOUS
  <2> QED BY <1>1, <1>2, <1>3, <2>1, <2>2 DEF AskMarks
<1>5. CASE Tell
  <2>1. PICK ids \in SUBSET eng.pending : \E told \in Evaluations(eng, ids) :
          \E lucks \in Lucks(eng, told) : eng' = Told(eng, told, lucks, prof)
    BY <1>5 DEF Tell
  <2>2. PICK told \in Evaluations(eng, ids) : \E lucks \in Lucks(eng, told) :
          eng' = Told(eng, told, lucks, prof)
    BY <2>1
  <2>3. PICK lucks : eng' = Told(eng, told, lucks, prof)
    BY <2>2
  <2>4. told \in Seq(Evaluation)
    BY <1>2, ToldAreEvaluations
  <2> QED BY <1>1, <1>2, <1>3, <2>3, <2>4 DEF TellMarks
<1>6. CASE TellAttempts
  <2>1. PICK failures \in SUBSET eng.pending : \E ids \in SUBSET (eng.pending \ failures) :
          \E told \in Evaluations(eng, ids) : \E lucks \in Lucks(eng, told) :
            eng' = ToldAttempts(eng, told, failures, lucks, prof)
    BY <1>6 DEF TellAttempts
  <2>2. PICK ids \in SUBSET (eng.pending \ failures) :
          \E told \in Evaluations(eng, ids) : \E lucks \in Lucks(eng, told) :
            eng' = ToldAttempts(eng, told, failures, lucks, prof)
    BY <2>1
  <2>3. PICK told \in Evaluations(eng, ids) : \E lucks \in Lucks(eng, told) :
          eng' = ToldAttempts(eng, told, failures, lucks, prof)
    BY <2>2
  <2>4. PICK lucks : eng' = ToldAttempts(eng, told, failures, lucks, prof)
    BY <2>3
  <2>5. told \in Seq(Evaluation)
    BY <1>2, ToldAreEvaluations
  <2> QED BY <1>1, <1>2, <1>3, <2>4, <2>5 DEF TellAttemptsMark
<1>7. CASE UNCHANGED csaVars
  BY <1>1, <1>7 DEF csaVars, AreMarked
<1> QED BY <1>4, <1>5, <1>6, <1>7 DEF CsaNext

(* MarksFollowEntries, for every profile whose temperature stays zero, that
   replaces only the entry it compared and takes every change of an entry for
   significant: which entries were seeds in this cycle and which sit out until
   the newcomers had their turn, both remembered by index, stays true of the
   entries at these indices across replacement, growth, the energy cut,
   sorting, refreshes and stages (without_updated_seed_mask,
   invalidate_for_bank_update, remove_indices, complete_refresh). *)
THEOREM MarksAreRight == CsaSpec => []MarksFollowEntries
<1>1. CsaInit => EngineHolds /\ BankHolds /\ AreMarked
  <2> SUFFICES ASSUME CsaInit
               PROVE  EngineHolds /\ BankHolds /\ AreMarked
    OBVIOUS
  <2>1. eng = NewEngine(prof) /\ prof \in Profiles
    BY DEF CsaInit
  <2>2. EngineHolds
    BY <2>1, NewEngineIsTrue DEF EngineHolds
  <2>3. BankHolds
    BY <2>1, NewEngineIsGood DEF BankHolds
  <2>4. AreMarked
    BY <2>1, NewEngineMarks DEF AreMarked
  <2> QED BY <2>2, <2>3, <2>4
<1>2. EngineHolds /\ BankHolds /\ AreMarked /\ [CsaNext]_csaVars => (EngineHolds /\ BankHolds /\ AreMarked)'
  BY EngineStep, BankStep, MarksStep
<1>3. BankHolds /\ AreMarked => MarksFollowEntries
  <2> DEFINE q == eng.bank.entries
  <2> SUFFICES ASSUME BankHolds, AreMarked, ~Refreshing(eng), prof.hot = "never",
                      prof.clustering # "largest", prof.significantPercent = 0
               PROVE  /\ Len(eng.status) <= Len(q)
                      /\ \A i \in DOMAIN q : Resized(eng.status, Len(q))[i] = q[i].seeded
                      /\ eng.progress.seedMask = {i \in DOMAIN q : q[i].kept = "stage"}
                      /\ eng.progress.refreshMask = {i \in DOMAIN q : q[i].kept = "refresh"}
                      /\ eng.progress.partnerMask \subseteq DOMAIN q
    BY DEF MarksFollowEntries
  <2>1. MarkProfile(prof)
    BY DEF BankHolds, MarkProfile, KeepsProfile
  <2>2. MarksMatch(eng.status, eng.progress, q) /\ q \in Seq(MarkedEntry)
    BY <2>1 DEF AreMarked, MarksHold, Running, IsMarked
  <2>3. DOMAIN q = 1 .. Len(q)
    BY <2>2
  <2>4. \A i \in DOMAIN q : Resized(eng.status, Len(q))[i] = Used(eng.status, i)
    BY <2>3 DEF Resized, Used
  <2> HIDE DEF q
  <2> QED BY <2>2, <2>4 DEF MarksMatch
<1> QED BY <1>1, <1>2, <1>3, PTL DEF CsaSpec
=============================================================================
