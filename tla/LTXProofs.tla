----------------------------- MODULE LTXProofs -----------------------------
(***************************************************************************)
(* Proofs about LTXStore and LTXRestore, for any number of levels and      *)
(* transactions, with either kind of seek and under every fault.  No       *)
(* compaction, retention pass or crash leaves a transaction uncovered.  A  *)
(* restore beside a running Store never ends short of what the replica     *)
(* held when it began and never has a hole, and it fails only if a file    *)
(* was deleted meanwhile.                                                  *)
(***************************************************************************)
EXTENDS LTXRestore, WellFoundedInduction, TLAPS

-----------------------------------------------------------------------------
(* LTXStore: the inductive invariant. *)

(* Levels lv and above hold every transaction up to n. *)
Covered(lv, n) ==
  \A t \in 1..n : \E g \in remote : g.level >= lv /\ g.min <= t /\ t <= g.max

WellFormed ==
  \A f \in remote : /\ f.min <= f.max
                    /\ f.level = 0 => f.min = f.max
                    /\ f.level = SnapshotLevel => f.min = 1

(* Files of one compaction level do not overlap. *)
Disjoint ==
  \A f, g \in remote : f.level = g.level /\ f.level # SnapshotLevel =>
    f = g \/ f.max < g.min \/ g.max < f.min

(* A file never straddles the end of a file one level up. *)
Nested ==
  \A e, f \in remote : e.level \in CompactionLevels /\ f.level = e.level - 1 =>
    f.max <= e.max \/ f.min > e.max

(* A level never falls behind the level made from it. *)
SourceAhead ==
  \A e \in remote : e.level \in CompactionLevels =>
    \E f \in remote : f.level = e.level - 1 /\ f.max >= e.max

RposHeld == rpos > 0 => \E f \in remote : f.level = 0 /\ f.max >= rpos

(* A file being written belongs right after its level and is already covered
   below. *)
JobAfterLevel(l) == \A f \in remote : f.level = l => f.max < job[l].min
JobNested(l) ==
  \A f \in remote : f.level = l - 1 => f.max <= job[l].max \/ f.min > job[l].max
JobSource(l) == \E f \in remote : f.level = l - 1 /\ f.max >= job[l].max
JobBelow(l) ==
  \A k \in CompactionLevels : k = l - 1 /\ job[k] # NoInfo => job[k].min > job[l].max

JobOK ==
  \A l \in CompactionLevels : job[l] # NoInfo =>
    /\ job[l].min <= job[l].max
    /\ JobAfterLevel(l) /\ JobNested(l) /\ JobSource(l) /\ JobBelow(l)
    /\ Covered(l, job[l].min - 1)

(* A file may be deleted once the levels above hold what it holds, and never
   if it is the last of its level. *)
DelCovered(l, d) ==
  IF l = 0 THEN \E c \in remote : c.level >= 1 /\ c.max >= d.max
           ELSE \E s \in remote : s.level = SnapshotLevel /\ s.max > d.max
DelNotLast(l, d) ==
  \E h \in remote : h.level = l /\ h \notin del[l] /\ h.max >= d.max

DelOK ==
  \A l \in Levels : \A d \in del[l] : d.level = l /\ DelCovered(l, d) /\ DelNotLast(l, d)

RetentionOK ==
  /\ l0ret # 0 => \E c \in remote : c.level >= 1 /\ c.max >= l0ret
  /\ smpc = "snapshot" => smtx >= 1
  /\ smpc = "level" => smlvl >= 1
  /\ smpc = "level" /\ smtx # 0 =>
       \E s \in remote : s.level = SnapshotLevel /\ s.max >= smtx

(* What is said of the files alone. *)
RemoteOK == HistoryCovered /\ WellFormed /\ Disjoint /\ Nested /\ SourceAhead

Inv ==
  /\ TypeOK
  /\ RemoteOK
  /\ RposHeld
  /\ JobOK
  /\ DelOK
  /\ RetentionOK


-----------------------------------------------------------------------------
(* Sets of naturals and of files have extreme elements. *)

(* Every non-empty set of naturals has a least element. *)
LEMMA NatSetHasLeast ==
  ASSUME NEW T \in SUBSET Nat, T # {}
  PROVE  \E x \in T : \A y \in T : x <= y
<1> DEFINE R == OpToRel(<, Nat)
<1>1. IsWellFoundedOn(R, Nat)
  BY NatLessThanWellFounded
<1>2. PICK x \in T : \A y \in T : ~(<<y, x>> \in R)
  <2> HIDE DEF R
  <2> QED BY <1>1, WFMin
<1>3. ASSUME NEW y \in T PROVE x <= y
  <2>1. ~(y < x)
    <3>1. <<y, x>> \in Nat \X Nat
      OBVIOUS
    <3> QED BY <1>2, <3>1 DEF OpToRel
  <2> QED BY <2>1
<1> QED BY <1>3

(* Every non-empty bounded set of naturals has a greatest element. *)
LEMMA BoundedSetHasGreatest ==
  ASSUME NEW n \in Nat, NEW T \in SUBSET (0..n), T # {}
  PROVE  \E x \in T : \A y \in T : y <= x
<1> DEFINE U == {m \in Nat : \E t \in T : m = n - t}
<1>1. U \in SUBSET Nat
  OBVIOUS
<1>2. U # {}
  <2>1. PICK t \in T : TRUE
    OBVIOUS
  <2>2. n - t \in U
    OBVIOUS
  <2> QED BY <2>2
<1>3. PICK u \in U : \A v \in U : u <= v
  <2> HIDE DEF U
  <2> QED BY <1>1, <1>2, NatSetHasLeast
<1>4. PICK t \in T : u = n - t
  OBVIOUS
<1>5. ASSUME NEW y \in T PROVE y <= t
  <2>1. n - y \in U
    OBVIOUS
  <2>2. u <= n - y
    BY <1>3, <2>1
  <2> QED BY <2>2, <1>4
<1> QED BY <1>5

(* A file is determined by its level and its range. *)
LEMMA FileExtensional ==
  ASSUME NEW f \in File, NEW g \in File,
         f.level = g.level, f.min = g.min, f.max = g.max
  PROVE  f = g
<1>1. f = [level |-> f.level, min |-> f.min, max |-> f.max]
  BY DEF File
<1>2. g = [level |-> g.level, min |-> g.min, max |-> g.max]
  BY DEF File
<1> QED BY <1>1, <1>2

(* Every non-empty set of files has a file that ends last. *)
LEMMA FilesHaveLast ==
  ASSUME NEW S \in SUBSET File, S # {}
  PROVE  \E f \in S : \A g \in S : g.max <= f.max
<1> DEFINE T == {f.max : f \in S}
<1>1. T \in SUBSET (0..MaxTX) /\ T # {}
  BY DEF File
<1>2. PICK x \in T : \A y \in T : y <= x
  <2> HIDE DEF T
  <2> QED BY <1>1, TXAssumption, BoundedSetHasGreatest
<1>3. PICK f \in S : f.max = x
  OBVIOUS
<1>4. \A g \in S : g.max \in T
  OBVIOUS
<1> QED BY <1>2, <1>3, <1>4

(* MaxTXID is the end of one of the files and no file ends after it. *)
LEMMA MaxTXIDIsGreatest ==
  ASSUME NEW S \in SUBSET File
  PROVE  /\ MaxTXID(S) \in 0..MaxTX
         /\ \A f \in S : f.max <= MaxTXID(S)
         /\ S # {} => \E f \in S : f.max = MaxTXID(S)
         /\ S = {} => MaxTXID(S) = 0
<1>1. CASE S = {}
  BY <1>1, TXAssumption DEF MaxTXID
<1>2. CASE S # {}
  <2>1. PICK f \in S : \A g \in S : g.max <= f.max
    BY <1>2, FilesHaveLast
  <2> DEFINE P(t) == t \in {g.max : g \in S} /\ \A g \in S : g.max <= t
  <2>2. P(f.max)
    BY <2>1
  <2>3. MaxTXID(S) = CHOOSE t \in {g.max : g \in S} : \A g \in S : g.max <= t
    BY <1>2 DEF MaxTXID
  <2>4. P(MaxTXID(S))
    BY <2>2, <2>3
  <2>5. PICK g \in S : g.max = MaxTXID(S)
    BY <2>4
  <2> QED BY <1>2, <2>4, <2>5 DEF File
<1> QED BY <1>1, <1>2

(* The last file of a level is one of its files and ends last. *)
LEMMA LastEndsLast ==
  ASSUME NEW S \in SUBSET File, S # {}
  PROVE  Last(S) \in S /\ \A g \in S : g.max <= Last(S).max
BY FilesHaveLast DEF Last

(* BelowTXID lists files that end below the TXID, never the last one. *)
LEMMA BelowTXIDSpares ==
  ASSUME TypeOK, NEW l \in Levels, NEW txid \in Int, NEW d \in BelowTXID(l, txid)
  PROVE  /\ d \in remote /\ d.level = l /\ d.max < txid
         /\ \E h \in remote : /\ h.level = l /\ h # d /\ h.max >= d.max
                            /\ h \notin BelowTXID(l, txid)
<1>1. d \in At(l) /\ d.max < txid /\ d # Last(At(l)) /\ At(l) # {}
  BY DEF BelowTXID, At
<1>2. At(l) \in SUBSET File
  BY DEF At, TypeOK
<1>3. Last(At(l)) \in At(l) /\ d.max <= Last(At(l)).max
  BY <1>1, <1>2, LastEndsLast
<1>4. Last(At(l)) \notin BelowTXID(l, txid)
  BY <1>1 DEF BelowTXID
<1> QED BY <1>1, <1>2, <1>3, <1>4 DEF At, File

(* LowestKept is zero or the end of a snapshot that is kept. *)
LEMMA LowestKeptIsKept ==
  ASSUME TypeOK, NEW cut \in Int
  PROVE  /\ LowestKept(cut) \in 0..MaxTX
         /\ LowestKept(cut) # 0 =>
              \E s \in remote : s.level = SnapshotLevel /\ s.max = LowestKept(cut)
<1> DEFINE kept == {f \in At(SnapshotLevel) : f.max >= cut}
           ends == {f.max : f \in kept}
<1>1. CASE kept = {}
  BY <1>1, TXAssumption DEF LowestKept
<1>2. CASE kept # {}
  <2>1. ends \in SUBSET Nat /\ ends # {}
    BY <1>2 DEF At, TypeOK, File
  <2>2. PICK x \in ends : \A y \in ends : x <= y
    <3> HIDE DEF ends
    <3> QED BY <2>1, NatSetHasLeast
  <2>3. \A f \in kept : x <= f.max
    BY <2>2
  <2>4. LowestKept(cut) = CHOOSE t \in ends : \A f \in kept : t <= f.max
    BY <1>2 DEF LowestKept
  <2>5. LowestKept(cut) \in ends
    BY <2>3, <2>4
  <2>6. PICK s \in kept : s.max = LowestKept(cut)
    BY <2>5
  <2> QED BY <2>6 DEF At, TypeOK, File
<1> QED BY <1>1, <1>2

-----------------------------------------------------------------------------
(* Deleting a file that may be deleted loses nothing. *)

(* What levels lv and above cover stays covered when one file that DelOK allows
   to be deleted is deleted (DeleteLTXFiles). *)
LEMMA DeletionKeepsCovered ==
  ASSUME Inv, NEW l \in Levels, NEW d \in del[l], remote' = remote \ {d},
         NEW lv \in Int, NEW n \in Int, Covered(lv, n)
  PROVE  Covered(lv, n)'
<1> SUFFICES ASSUME NEW t \in 1..n
             PROVE  \E g \in remote' : g.level >= lv /\ g.min <= t /\ t <= g.max
  BY DEF Covered
<1>1. PICK g \in remote : g.level >= lv /\ g.min <= t /\ t <= g.max
  BY DEF Covered
<1>2. CASE g # d
  BY <1>1, <1>2
<1>3. CASE g = d /\ l = 0
  <2>1. PICK c \in remote : c.level >= 1 /\ c.max >= d.max
    BY <1>3 DEF Inv, DelOK, DelCovered
  <2>2. d.level = 0
    BY <1>3 DEF Inv, DelOK
  <2>3. t \in 1..c.max
    BY <1>1, <1>3, <2>1 DEF Inv, TypeOK, File
  <2>4. PICK h \in remote : h.level >= c.level /\ h.min <= t /\ t <= h.max
    BY <2>3 DEF Inv, RemoteOK, HistoryCovered
  <2>5. h # d /\ h.level >= lv
    BY <1>1, <1>3, <2>1, <2>2, <2>4, LevelAssumption
    DEF Inv, TypeOK, File, Levels, SnapshotLevel
  <2> QED BY <2>4, <2>5
<1>4. CASE g = d /\ l # 0
  <2>1. PICK s \in remote : s.level = SnapshotLevel /\ s.max > d.max
    BY <1>4 DEF Inv, DelOK, DelCovered
  <2>2. s # d /\ s.min = 1 /\ s.level >= lv /\ t <= s.max
    BY <1>1, <1>4, <2>1, LevelAssumption
    DEF Inv, RemoteOK, WellFormed, TypeOK, File, Levels, SnapshotLevel
  <2> QED BY <2>1, <2>2
<1> QED BY <1>2, <1>3, <1>4

(* DeleteLTXFiles, file by file, keeps the invariant. *)
LEMMA DeleteNextKeepsInv ==
  ASSUME Inv, NEW l \in Levels, DeleteNext(l)
  PROVE  Inv'
<1>1. PICK d \in del[l] : /\ remote' = remote \ {d}
                          /\ del' = [del EXCEPT ![l] = @ \ {d}]
                          /\ UNCHANGED <<writers, compactors, snapshotter>>
  BY DEF DeleteNext
<1>2. TypeOK'
  BY <1>1 DEF Inv, TypeOK, writers, compactors, snapshotter
<1>3. d.level = l /\ d \in File
  BY DEF Inv, DelOK, TypeOK
<1>4. PICK h \in remote : h.level = l /\ h \notin del[l] /\ h.max >= d.max
  BY DEF Inv, DelOK, DelNotLast
<1>5. h \in remote' /\ h # d
  BY <1>1, <1>4
<1>6. \A f \in remote : \E g \in remote' : g.level = f.level /\ g.max >= f.max
  BY <1>1, <1>3, <1>4, <1>5 DEF Inv, TypeOK, File
<1>7. \A s \in remote : s.level >= 1 =>
        \E c \in remote' : c.level >= s.level /\ c.max >= s.max /\ c.level >= 1
                           /\ (s.level = SnapshotLevel => c.level = SnapshotLevel)
  BY <1>6 DEF Inv, TypeOK, File, Levels, SnapshotLevel
<1>8. RemoteOK'
  <2>1. HistoryCovered'
    <3> SUFFICES ASSUME NEW f \in remote' PROVE Covered(f.level, f.max)'
      BY DEF HistoryCovered, Covered
    <3>1. f \in remote /\ f.level \in Int /\ f.max \in Int
      BY <1>1, LevelAssumption DEF Inv, TypeOK, File, Levels, SnapshotLevel
    <3>2. Covered(f.level, f.max)
      BY <3>1 DEF Inv, RemoteOK, HistoryCovered, Covered
    <3> QED BY <1>1, <3>1, <3>2, DeletionKeepsCovered
  <2>2. (WellFormed /\ Disjoint /\ Nested)'
    BY <1>1 DEF Inv, RemoteOK, WellFormed, Disjoint, Nested
  <2>3. SourceAhead'
    <3> SUFFICES ASSUME NEW e \in remote', e.level \in CompactionLevels
                 PROVE  \E f \in remote' : f.level = e.level - 1 /\ f.max >= e.max
      BY DEF SourceAhead
    <3>1. PICK f \in remote : f.level = e.level - 1 /\ f.max >= e.max
      BY <1>1 DEF Inv, RemoteOK, SourceAhead
    <3>2. PICK g \in remote' : g.level = f.level /\ g.max >= f.max
      BY <1>6
    <3>3. e.max \in Int /\ f.max \in Int /\ g.max \in Int
      BY <1>1 DEF Inv, TypeOK, File
    <3> QED BY <3>1, <3>2, <3>3
  <2> QED BY <2>1, <2>2, <2>3 DEF RemoteOK
<1>9. RposHeld'
  BY <1>1, <1>6 DEF Inv, RposHeld, writers, TypeOK, File
<1>10. JobOK'
  <2> SUFFICES ASSUME NEW k \in CompactionLevels, job[k] # NoInfo
               PROVE  /\ job[k].min <= job[k].max
                      /\ (JobAfterLevel(k) /\ JobNested(k) /\ JobSource(k) /\ JobBelow(k))'
                      /\ Covered(k, job[k].min - 1)'
    BY <1>1 DEF JobOK, compactors, Covered
  <2>1. /\ job[k].min <= job[k].max
        /\ JobAfterLevel(k) /\ JobNested(k) /\ JobSource(k) /\ JobBelow(k)
        /\ Covered(k, job[k].min - 1)
    BY DEF Inv, JobOK
  <2>2. job[k].min \in Int /\ job[k].max \in Int /\ k \in Int
    BY DEF Inv, TypeOK, Info, NoInfo, CompactionLevels
  <2>3. (JobAfterLevel(k) /\ JobNested(k) /\ JobBelow(k))'
    BY <1>1, <2>1 DEF JobAfterLevel, JobNested, JobBelow, compactors
  <2>4. JobSource(k)'
    <3>1. PICK f \in remote : f.level = k - 1 /\ f.max >= job[k].max
      BY <2>1 DEF JobSource
    <3>2. PICK g \in remote' : g.level = f.level /\ g.max >= f.max
      BY <1>6
    <3>3. f.max \in Int /\ g.max \in Int /\ job'[k].max = job[k].max
      BY <1>1 DEF Inv, TypeOK, File, compactors
    <3> QED BY <2>2, <3>1, <3>2, <3>3 DEF JobSource
  <2>5. Covered(k, job[k].min - 1)'
    <3> DEFINE n == job[k].min - 1
    <3>1. n \in Int /\ n' = n
      BY <1>1, <2>2 DEF compactors
    <3>2. Covered(k, n)
      BY <2>1
    <3> HIDE DEF n
    <3>3. Covered(k, n)'
      BY <1>1, <2>2, <3>1, <3>2, DeletionKeepsCovered DEF Covered
    <3> QED BY <3>1, <3>3 DEF Covered, n
  <2> QED BY <2>1, <2>3, <2>4, <2>5
<1>11. DelOK'
  <2> SUFFICES ASSUME NEW k \in Levels, NEW x \in del'[k]
               PROVE  x.level = k /\ DelCovered(k, x)' /\ DelNotLast(k, x)'
    BY DEF DelOK, DelCovered, DelNotLast
  <2>1. x \in del[k] /\ del'[k] \subseteq del[k]
    BY <1>1 DEF Inv, TypeOK
  <2>2. x.level = k /\ DelCovered(k, x) /\ DelNotLast(k, x)
    BY <2>1 DEF Inv, DelOK
  <2>3. x.max \in Int
    BY <2>1 DEF Inv, TypeOK, File
  <2>4. DelCovered(k, x)'
    <3>1. CASE k = 0
      <4>1. PICK c \in remote : c.level >= 1 /\ c.max >= x.max
        BY <2>2, <3>1 DEF DelCovered
      <4>2. PICK b \in remote' : b.level >= 1 /\ b.max >= c.max
        BY <1>7, <4>1
      <4>3. b.max \in Int /\ c.max \in Int
        BY <1>1 DEF Inv, TypeOK, File
      <4> QED BY <2>3, <3>1, <4>1, <4>2, <4>3 DEF DelCovered
    <3>2. CASE k # 0
      <4>1. PICK s \in remote : s.level = SnapshotLevel /\ s.max > x.max
        BY <2>2, <3>2 DEF DelCovered
      <4>2. PICK b \in remote' : b.level = SnapshotLevel /\ b.max >= s.max
        BY <1>6, <4>1
      <4>3. b.max \in Int /\ s.max \in Int
        BY <1>1 DEF Inv, TypeOK, File
      <4> QED BY <2>3, <3>2, <4>1, <4>2, <4>3 DEF DelCovered
    <3> QED BY <3>1, <3>2
  <2>5. DelNotLast(k, x)'
    <3>1. PICK y \in remote : y.level = k /\ y \notin del[k] /\ y.max >= x.max
      BY <2>2 DEF DelNotLast
    <3>2. y # d
      BY <1>3, <3>1
    <3> QED BY <1>1, <2>1, <3>1, <3>2 DEF DelNotLast
  <2> QED BY <2>2, <2>4, <2>5
<1>12. RetentionOK'
  <2>1. l0ret # 0 => \E c \in remote' : c.level >= 1 /\ c.max >= l0ret
    <3> SUFFICES ASSUME l0ret # 0
                 PROVE  \E c \in remote' : c.level >= 1 /\ c.max >= l0ret
      OBVIOUS
    <3>1. PICK c \in remote : c.level >= 1 /\ c.max >= l0ret
      BY DEF Inv, RetentionOK
    <3>2. PICK b \in remote' : b.level >= 1 /\ b.max >= c.max
      BY <1>7, <3>1
    <3> QED BY <1>1, <3>1, <3>2 DEF Inv, TypeOK, File
  <2>2. smpc = "level" /\ smtx # 0 =>
          \E s \in remote' : s.level = SnapshotLevel /\ s.max >= smtx
    <3> SUFFICES ASSUME smpc = "level", smtx # 0
                 PROVE  \E s \in remote' : s.level = SnapshotLevel /\ s.max >= smtx
      OBVIOUS
    <3>1. PICK s \in remote : s.level = SnapshotLevel /\ s.max >= smtx
      BY DEF Inv, RetentionOK
    <3>2. PICK b \in remote' : b.level = SnapshotLevel /\ b.max >= s.max
      BY <1>6, <3>1
    <3> QED BY <1>1, <3>1, <3>2 DEF Inv, TypeOK, File
  <2> QED BY <1>1, <2>1, <2>2 DEF Inv, RetentionOK, compactors, snapshotter
<1> QED BY <1>2, <1>8, <1>9, <1>10, <1>11, <1>12 DEF Inv

-----------------------------------------------------------------------------
(* Adding a file. *)

(* What is covered stays covered when a file is added. *)
LEMMA AdditionKeepsCovered ==
  ASSUME NEW c, remote' = remote \cup {c}, NEW lv, NEW n, Covered(lv, n)
  PROVE  Covered(lv, n)'
BY DEF Covered

(* DelOK and RetentionOK's witnesses survive an addition. *)
LEMMA AdditionKeepsDel ==
  ASSUME Inv, NEW c, remote' = remote \cup {c}, del' = del
  PROVE  DelOK'
BY DEF Inv, DelOK, DelCovered, DelNotLast

(* HistoryCovered survives the addition of a file above which nothing is
   missing. *)
LEMMA AdditionKeepsHistory ==
  ASSUME Inv, NEW c \in File, remote' = remote \cup {c}, Covered(c.level, c.min - 1)
  PROVE  HistoryCovered'
<1> SUFFICES ASSUME NEW f \in remote', NEW t \in 1..f.max
             PROVE  \E g \in remote' : g.level >= f.level /\ g.min <= t /\ t <= g.max
  BY DEF HistoryCovered
<1>1. CASE f \in remote
  BY <1>1 DEF Inv, RemoteOK, HistoryCovered
<1>2. CASE f = c /\ t < c.min
  <2>1. t \in 1..(c.min - 1)
    BY <1>2 DEF File
  <2> QED BY <1>2, <2>1 DEF Covered
<1>3. CASE f = c /\ t >= c.min
  BY <1>3, LevelAssumption DEF File, Levels, SnapshotLevel
<1> QED BY <1>1, <1>2, <1>3 DEF File

(* An L0 file for a TXID whose predecessors are held keeps the invariant of
   the files and of everyone who looks at them. *)
LEMMA UploadKeepsFiles ==
  ASSUME Inv, NEW t \in 1..MaxTX, Covered(0, t - 1),
         remote' = remote \cup {L0File(t)}, job' = job, del' = del
  PROVE  RemoteOK' /\ JobOK' /\ DelOK'
<1>1. L0File(t) \in File /\ L0File(t).level = 0 /\ L0File(t).min = t /\ L0File(t).max = t
  BY LevelAssumption DEF L0File, File, Levels
<1> DEFINE c == L0File(t)
<1> HIDE DEF c
<1>2. c \in File /\ c.level = 0 /\ c.min = t /\ c.max = t /\ remote' = remote \cup {c}
  BY <1>1 DEF c
<1>3. HistoryCovered'
  BY <1>2, AdditionKeepsHistory
<1>4. WellFormed'
  BY <1>2 DEF Inv, RemoteOK, WellFormed, SnapshotLevel
<1>5. Disjoint'
  <2> SUFFICES ASSUME NEW f \in remote', NEW g \in remote', f.level = g.level,
                      f.level # SnapshotLevel
               PROVE  f = g \/ f.max < g.min \/ g.max < f.min
    BY DEF Disjoint
  <2>1. f \in File /\ g \in File
    BY <1>2 DEF Inv, TypeOK
  <2>2. CASE f \in remote /\ g \in remote
    BY <2>2 DEF Inv, RemoteOK, Disjoint
  <2>3. CASE f.level = 0
    <3>1. f.min = f.max /\ g.min = g.max
      BY <2>3, <1>4 DEF WellFormed
    <3>2. f.min = g.min => f = g
      BY <2>1, <3>1, FileExtensional
    <3>3. f.min \in Int /\ g.min \in Int
      BY <2>1 DEF File
    <3> QED BY <3>1, <3>2, <3>3
  <2> QED BY <1>2, <2>2, <2>3
<1>6. Nested'
  <2> SUFFICES ASSUME NEW e \in remote', NEW f \in remote',
                      e.level \in CompactionLevels, f.level = e.level - 1
               PROVE  f.max <= e.max \/ f.min > e.max
    BY DEF Nested
  <2>1. e \in remote
    BY <1>2 DEF CompactionLevels
  <2>2. CASE f \in remote
    BY <2>1, <2>2 DEF Inv, RemoteOK, Nested
  <2>3. CASE f = c
    BY <1>2, <2>1, <2>3 DEF Inv, TypeOK, File
  <2> QED BY <1>2, <2>2, <2>3
<1>7. SourceAhead'
  BY <1>2 DEF Inv, RemoteOK, SourceAhead, CompactionLevels
<1>8. JobOK'
  <2> SUFFICES ASSUME NEW k \in CompactionLevels, job[k] # NoInfo
               PROVE  /\ job[k].min <= job[k].max
                      /\ (JobAfterLevel(k) /\ JobNested(k) /\ JobSource(k) /\ JobBelow(k))'
                      /\ Covered(k, job[k].min - 1)'
    BY DEF JobOK, Covered
  <2>1. /\ job[k].min <= job[k].max
        /\ JobAfterLevel(k) /\ JobNested(k) /\ JobSource(k) /\ JobBelow(k)
        /\ Covered(k, job[k].min - 1)
    BY DEF Inv, JobOK
  <2>2. job[k].min \in Int /\ job[k].max \in Int
    BY DEF Inv, TypeOK, Info, NoInfo
  <2>3. (JobAfterLevel(k) /\ JobSource(k) /\ JobBelow(k))'
    BY <1>2, <2>1 DEF JobAfterLevel, JobSource, JobBelow, CompactionLevels
  <2>4. JobNested(k)'
    BY <1>2, <2>1, <2>2 DEF JobNested
  <2>5. Covered(k, job[k].min - 1)'
    BY <1>2, <2>1 DEF Covered
  <2> QED BY <2>1, <2>3, <2>4, <2>5
<1>9. DelOK'
  BY <1>2, AdditionKeepsDel
<1> QED BY <1>3, <1>4, <1>5, <1>6, <1>7, <1>8, <1>9 DEF RemoteOK

(* A position held by L0 is covered from L0 up. *)
LEMMA RposCovered ==
  ASSUME Inv
  PROVE  Covered(0, rpos)
<1>1. CASE rpos = 0
  BY <1>1 DEF Covered
<1>2. CASE rpos # 0
  <2>1. PICK f \in remote : f.level = 0 /\ f.max >= rpos
    BY <1>2 DEF Inv, RposHeld, TypeOK
  <2>2. \A t \in 1..rpos : t \in 1..f.max
    BY <2>1 DEF Inv, TypeOK, File
  <2> QED BY <2>1, <2>2 DEF Inv, RemoteOK, HistoryCovered, Covered
<1> QED BY <1>1, <1>2

(* One iteration of Replica.Sync's loop keeps the invariant. *)
LEMMA SyncUploadKeepsInv ==
  ASSUME Inv, SyncUpload
  PROVE  Inv'
<1>1. /\ rpos + 1 <= dpos
      /\ remote' = remote \cup {L0File(rpos + 1)} /\ rpos' = rpos + 1
      /\ pos' = pos /\ dpos' \in {0, dpos} /\ job' = job /\ l0ret' = l0ret
      /\ del' = del /\ smpc' = smpc /\ smtx' = smtx /\ smlvl' = smlvl
      /\ maxInfos' = maxInfos
  BY DEF SyncUpload, Loop, compactors, snapshotter
<1>2. rpos + 1 \in 1..MaxTX /\ (rpos + 1) - 1 = rpos
  BY <1>1, TXAssumption DEF Inv, TypeOK
<1>3. L0File(rpos + 1) \in File
  BY <1>2, LevelAssumption DEF L0File, File, Levels
<1>4. TypeOK'
  BY <1>1, <1>2, <1>3, TXAssumption DEF Inv, TypeOK
<1>5. RemoteOK' /\ JobOK' /\ DelOK'
  BY <1>1, <1>2, RposCovered, UploadKeepsFiles
<1>6. RposHeld'
  <2>1. /\ L0File(rpos + 1) \in remote' /\ L0File(rpos + 1).level = 0
        /\ L0File(rpos + 1).max = rpos'
    BY <1>1 DEF L0File
  <2> QED BY <1>1, <1>2, <2>1 DEF RposHeld
<1>7. RetentionOK'
  BY <1>1 DEF Inv, RetentionOK
<1> QED BY <1>4, <1>5, <1>6, <1>7 DEF Inv

(* A failed upload keeps the invariant, whether or not the file was stored. *)
LEMMA SyncAbortedKeepsInv ==
  ASSUME Inv, SyncAborted
  PROVE  Inv'
<1>1. /\ rpos' = 0 /\ dpos' = 0 /\ pos' = pos /\ job' = job /\ l0ret' = l0ret
      /\ del' = del /\ smpc' = smpc /\ smtx' = smtx /\ smlvl' = smlvl
      /\ maxInfos' = maxInfos
  BY DEF SyncAborted, compactors, snapshotter
<1>2. RposHeld'
  BY <1>1 DEF RposHeld
<1>3. CASE remote' = remote
  BY <1>1, <1>2, <1>3, TXAssumption
  DEF Inv, TypeOK, RemoteOK, HistoryCovered, WellFormed, Disjoint, Nested, SourceAhead,
      JobOK, JobAfterLevel, JobNested, JobSource, JobBelow, Covered,
      DelOK, DelCovered, DelNotLast, RetentionOK
<1>4. CASE rpos + 1 <= dpos /\ remote' = remote \cup {L0File(rpos + 1)}
  <2>1. rpos + 1 \in 1..MaxTX /\ (rpos + 1) - 1 = rpos
    BY <1>4, TXAssumption DEF Inv, TypeOK
  <2>2. L0File(rpos + 1) \in File
    BY <2>1, LevelAssumption DEF L0File, File, Levels
  <2>3. TypeOK'
    BY <1>1, <1>4, <2>2, TXAssumption DEF Inv, TypeOK
  <2>4. RemoteOK' /\ JobOK' /\ DelOK'
    BY <1>1, <1>4, <2>1, RposCovered, UploadKeepsFiles
  <2>5. RetentionOK'
    BY <1>1, <1>4 DEF Inv, RetentionOK
  <2> QED BY <1>2, <2>3, <2>4, <2>5 DEF Inv
<1> QED BY <1>3, <1>4 DEF SyncAborted

-----------------------------------------------------------------------------
(* Compaction. *)

(* The file a compaction writes keeps the invariant of the files and of the
   other goroutines that look at them (WriteLTXFile in DB.Compact). *)
LEMMA WriteKeepsFiles ==
  ASSUME Inv, NEW dst \in CompactionLevels, job[dst] # NoInfo,
         remote' = remote \cup {Written(dst)},
         job' = [job EXCEPT ![dst] = NoInfo], del' = del
  PROVE  Written(dst) \in File /\ RemoteOK' /\ JobOK' /\ DelOK'
<1>1. job[dst] \in Info
  BY DEF Inv, TypeOK
<1>2. dst \in Int /\ dst \in Levels /\ dst # 0 /\ dst # SnapshotLevel
  BY LevelAssumption DEF CompactionLevels, Levels, SnapshotLevel
<1> DEFINE c == Written(dst)
<1>3. /\ c \in File /\ c.level = dst /\ c.min = job[dst].min /\ c.max = job[dst].max
      /\ remote' = remote \cup {c}
  BY <1>1, <1>2 DEF Written, File, Info
<1> HIDE DEF c
<1>4. /\ c.min <= c.max
      /\ \A f \in remote : f.level = dst => f.max < c.min
      /\ \A f \in remote : f.level = dst - 1 => f.max <= c.max \/ f.min > c.max
      /\ \E f \in remote : f.level = dst - 1 /\ f.max >= c.max
      /\ Covered(c.level, c.min - 1)
  BY <1>3 DEF Inv, JobOK, JobAfterLevel, JobNested, JobSource
<1>5. \A l \in CompactionLevels : l = dst + 1 /\ job[l] # NoInfo => c.min > job[l].max
  <2> SUFFICES ASSUME NEW l \in CompactionLevels, l = dst + 1, job[l] # NoInfo
               PROVE  c.min > job[l].max
    OBVIOUS
  <2>1. JobBelow(l) /\ dst = l - 1
    BY <1>2 DEF Inv, JobOK
  <2> QED BY <1>3, <2>1 DEF JobBelow
<1>6. HistoryCovered'
  BY <1>3, <1>4, AdditionKeepsHistory
<1>7. WellFormed'
  BY <1>2, <1>3, <1>4 DEF Inv, RemoteOK, WellFormed
<1>8. Disjoint'
  BY <1>3, <1>4 DEF Inv, RemoteOK, Disjoint
<1>9. Nested'
  <2> SUFFICES ASSUME NEW e \in remote', NEW f \in remote',
                      e.level \in CompactionLevels, f.level = e.level - 1
               PROVE  f.max <= e.max \/ f.min > e.max
    BY DEF Nested
  <2>1. CASE e \in remote /\ f \in remote
    BY <2>1 DEF Inv, RemoteOK, Nested
  <2>2. CASE e = c /\ f \in remote
    BY <1>3, <1>4, <2>2
  <2>3. CASE e \in remote /\ f = c
    <3>1. PICK g \in remote : g.level = e.level - 1 /\ g.max >= e.max
      BY <2>3 DEF Inv, RemoteOK, SourceAhead
    <3>2. g.max < c.min
      BY <1>3, <1>4, <2>3, <3>1
    <3>3. e.max \in Int /\ g.max \in Int /\ c.min \in Int
      BY <1>3, <2>3 DEF Inv, TypeOK, File
    <3> QED BY <2>3, <3>1, <3>2, <3>3
  <2>4. CASE e = c /\ f = c
    BY <1>2, <1>3, <2>4
  <2> QED BY <1>3, <2>1, <2>2, <2>3, <2>4
<1>10. SourceAhead'
  BY <1>3, <1>4 DEF Inv, RemoteOK, SourceAhead
<1>11. JobOK'
  <2> SUFFICES ASSUME NEW k \in CompactionLevels, job'[k] # NoInfo
               PROVE  /\ job'[k].min <= job'[k].max
                      /\ (JobAfterLevel(k) /\ JobNested(k) /\ JobSource(k) /\ JobBelow(k))'
                      /\ Covered(k, job[k].min - 1)'
    BY DEF JobOK, Covered
  <2>1. k # dst /\ job'[k] = job[k]
    BY DEF Inv, TypeOK
  <2>2. /\ job[k].min <= job[k].max
        /\ JobAfterLevel(k) /\ JobNested(k) /\ JobSource(k) /\ JobBelow(k)
        /\ Covered(k, job[k].min - 1)
    BY <2>1 DEF Inv, JobOK
  <2>3. (JobAfterLevel(k) /\ JobSource(k))'
    BY <1>3, <2>1, <2>2 DEF JobAfterLevel, JobSource
  <2>4. JobNested(k)'
    <3> SUFFICES ASSUME NEW f \in remote', f.level = k - 1
                 PROVE  f.max <= job[k].max \/ f.min > job[k].max
      BY <2>1 DEF JobNested
    <3>1. CASE f \in remote
      BY <2>2, <3>1 DEF JobNested
    <3>2. CASE f = c
      BY <1>2, <1>3, <1>5, <2>1, <3>2 DEF CompactionLevels
    <3> QED BY <1>3, <3>1, <3>2
  <2>5. JobBelow(k)'
    BY <2>1, <2>2 DEF JobBelow, Inv, TypeOK
  <2>6. Covered(k, job[k].min - 1)'
    BY <1>3, <2>1, <2>2 DEF Covered
  <2> QED BY <2>1, <2>2, <2>3, <2>4, <2>5, <2>6
<1>12. DelOK'
  BY <1>3, AdditionKeepsDel
<1> QED BY <1>3, <1>6, <1>7, <1>8, <1>9, <1>10, <1>11, <1>12 DEF RemoteOK, c

(* DB.Compact's write keeps the invariant. *)
LEMMA CompactWriteKeepsInv ==
  ASSUME Inv, NEW dst \in CompactionLevels, CompactWrite(dst)
  PROVE  Inv'
<1>1. /\ job[dst] # NoInfo /\ remote' = remote \cup {Written(dst)}
      /\ l0ret' = (IF dst = 1 THEN job[dst].max ELSE l0ret)
      /\ maxInfos' = [maxInfos EXCEPT ![dst] = job[dst]]
      /\ job' = [job EXCEPT ![dst] = NoInfo]
      /\ pos' = pos /\ rpos' = rpos /\ dpos' = dpos /\ del' = del
      /\ smpc' = smpc /\ smtx' = smtx /\ smlvl' = smlvl
  BY DEF CompactWrite, writers, snapshotter
<1>2. Written(dst) \in File /\ RemoteOK' /\ JobOK' /\ DelOK'
  BY <1>1, WriteKeepsFiles
<1>3. job[dst] \in Info
  BY <1>1 DEF Inv, TypeOK
<1>4. TypeOK'
  <2>1. maxInfos' \in Infos
    BY <1>1, <1>3 DEF Inv, TypeOK, Infos
  <2> QED BY <1>1, <1>2, <1>3, <2>1 DEF Inv, TypeOK, Info
<1>5. RposHeld'
  BY <1>1 DEF Inv, RposHeld
<1>6. RetentionOK'
  <2>1. CASE dst = 1
    <3>1. Written(dst).level >= 1 /\ Written(dst).max = job[dst].max
      BY <2>1 DEF Written
    <3>2. Written(dst).max >= l0ret' /\ Written(dst) \in remote'
      BY <1>1, <1>3, <2>1, <3>1 DEF Info
    <3> QED BY <1>1, <3>1, <3>2 DEF Inv, RetentionOK
  <2>2. CASE dst # 1
    BY <1>1, <2>2 DEF Inv, RetentionOK
  <2> QED BY <2>1, <2>2
<1> QED BY <1>2, <1>4, <1>5, <1>6 DEF Inv

(* A failed compaction keeps the invariant, whether or not the file was
   stored. *)
LEMMA CompactFailKeepsInv ==
  ASSUME Inv, NEW dst \in CompactionLevels, CompactFail(dst)
  PROVE  Inv'
<1>1. /\ job[dst] # NoInfo /\ job' = [job EXCEPT ![dst] = NoInfo]
      /\ pos' = pos /\ rpos' = rpos /\ dpos' = dpos /\ del' = del /\ l0ret' = l0ret
      /\ smpc' = smpc /\ smtx' = smtx /\ smlvl' = smlvl
      /\ maxInfos' = maxInfos
  BY DEF CompactFail, writers, snapshotter
<1>2. CASE remote' = remote \cup {Written(dst)}
  <2>1. Written(dst) \in File /\ RemoteOK' /\ JobOK' /\ DelOK'
    BY <1>1, <1>2, WriteKeepsFiles
  <2>2. TypeOK'
    BY <1>1, <1>2, <2>1 DEF Inv, TypeOK
  <2>3. RposHeld' /\ RetentionOK'
    BY <1>1, <1>2 DEF Inv, RposHeld, RetentionOK
  <2> QED BY <2>1, <2>2, <2>3 DEF Inv
<1>3. CASE remote' = remote
  <2>1. TypeOK'
    BY <1>1, <1>3 DEF Inv, TypeOK
  <2>2. RemoteOK' /\ RposHeld' /\ RetentionOK' /\ DelOK'
    BY <1>1, <1>3
    DEF Inv, RemoteOK, HistoryCovered, WellFormed, Disjoint, Nested, SourceAhead,
        RposHeld, RetentionOK, DelOK, DelCovered, DelNotLast
  <2>3. \A k \in CompactionLevels : job'[k] # NoInfo => job[k] # NoInfo /\ job'[k] = job[k]
    BY <1>1 DEF Inv, TypeOK
  <2>4. JobOK'
    BY <1>3, <2>3
    DEF Inv, JobOK, JobAfterLevel, JobNested, JobSource, JobBelow, Covered
  <2> QED BY <2>1, <2>2, <2>4 DEF Inv
<1> QED BY <1>2, <1>3 DEF CompactFail

(* What DB.Compact is about to write begins where its level and the levels
   above it leave off. *)
LEMMA InputsBeginAfterCovered ==
  ASSUME Inv, NEW dst \in CompactionLevels, NEW f \in CompactInputs(dst),
         \A h \in CompactInputs(dst) : f.min <= h.min
  PROVE  Covered(dst, f.min - 1)
<1> DEFINE seek == MaxTXID(At(dst)) + 1
<1>1. /\ At(dst) \in SUBSET File /\ remote \subseteq File
      /\ dst \in 1..8 /\ dst \in Int
  BY LevelAssumption DEF Inv, TypeOK, At, CompactionLevels
<1>2. seek \in Int /\ seek >= 1 /\ seek # 0
  BY <1>1, MaxTXIDIsGreatest, TXAssumption
<1>3. CompactInputs(dst) = LTXFiles(dst - 1, seek)
  BY DEF CompactInputs
<1> HIDE DEF seek
<1>4. /\ f \in remote /\ f.level = dst - 1 /\ f.min >= seek
      /\ PrefixSeek => f.min = seek
  BY <1>1, <1>2, <1>3 DEF LTXFiles, At, File
<1>5. f.min \in Int /\ f.max \in Int /\ f.min <= f.max
  BY <1>1, <1>4 DEF File, Inv, RemoteOK, WellFormed
<1> SUFFICES ASSUME NEW t \in 1..(f.min - 1)
             PROVE  \E g \in remote : g.level >= dst /\ g.min <= t /\ t <= g.max
  BY DEF Covered
<1>6. t \in 1..f.max /\ t \in Int /\ t < f.min
  BY <1>5
<1>7. PICK g \in remote : g.level >= f.level /\ g.min <= t /\ t <= g.max
  BY <1>4, <1>6 DEF Inv, RemoteOK, HistoryCovered
<1>8. g.level \in Int /\ g.min \in Int /\ g.max \in Int
  BY <1>1, <1>7, LevelAssumption DEF File, Levels, SnapshotLevel
<1>9. CASE g.level >= dst
  BY <1>7, <1>9
<1>10. CASE ~(g.level >= dst)
  <2>1. g.level = dst - 1
    BY <1>1, <1>4, <1>7, <1>8, <1>10
  <2>2. ASSUME g.min >= seek PROVE FALSE
    <3>1. CASE PrefixSeek
      BY <1>2, <1>4, <1>6, <1>7, <1>8, <2>2, <3>1
    <3>2. CASE ~PrefixSeek
      <4>1. g \in CompactInputs(dst)
        BY <1>3, <1>7, <2>1, <2>2, <3>2 DEF LTXFiles, At
      <4> QED BY <4>1, <1>5, <1>6, <1>7, <1>8
    <3> QED BY <3>1, <3>2
  <2>3. At(dst) # {}
    BY <1>1, <1>8, <2>2, MaxTXIDIsGreatest, <1>7 DEF seek, File
  <2>4. PICK e \in remote : e.level = dst /\ e.max = seek - 1
    BY <1>1, <2>3, MaxTXIDIsGreatest DEF At, seek
  <2>5. g.max <= e.max \/ g.min > e.max
    BY <1>7, <2>1, <2>4 DEF Inv, RemoteOK, Nested
  <2>6. t \in 1..e.max
    BY <1>2, <1>6, <1>7, <1>8, <2>2, <2>4, <2>5
  <2> QED BY <2>4, <2>6 DEF Inv, RemoteOK, HistoryCovered
<1> QED BY <1>9, <1>10

(* Starting a compaction keeps the invariant: the file it is going to write
   will fit behind its level. *)
LEMMA CompactStartKeepsInv ==
  ASSUME Inv, NEW dst \in CompactionLevels, CompactStart(dst)
  PROVE  Inv'
<1> DEFINE in == CompactInputs(dst)
<1>1. PICK f \in in : \E g \in in :
        /\ \A h \in in : f.min <= h.min /\ h.max <= g.max
        /\ job' = [job EXCEPT ![dst] = [min |-> f.min, max |-> g.max]]
  BY DEF CompactStart
<1>2. PICK g \in in :
        /\ \A h \in in : f.min <= h.min /\ h.max <= g.max
        /\ job' = [job EXCEPT ![dst] = [min |-> f.min, max |-> g.max]]
  BY <1>1
<1>3. /\ job[dst] = NoInfo /\ remote' = remote /\ pos' = pos /\ rpos' = rpos
      /\ dpos' = dpos /\ l0ret' = l0ret /\ del' = del
      /\ smpc' = smpc /\ smtx' = smtx /\ smlvl' = smlvl
      /\ maxInfos' = maxInfos
  BY DEF CompactStart, writers, snapshotter
<1>4. /\ dst \in 1..8 /\ At(dst) \in SUBSET File /\ remote \subseteq File
      /\ job \in [CompactionLevels -> Info \cup {NoInfo}]
  BY LevelAssumption DEF Inv, TypeOK, At, CompactionLevels
<1>5. /\ f \in remote /\ f.level = dst - 1 /\ g \in remote /\ g.level = dst - 1
      /\ f.min >= MaxTXID(At(dst)) + 1
  BY <1>4, MaxTXIDIsGreatest, TXAssumption DEF CompactInputs, LTXFiles, At, File
<1>6. /\ f.min \in 1..MaxTX /\ g.max \in 1..MaxTX /\ g.min \in 1..MaxTX
      /\ f.min <= g.min /\ g.min <= g.max
  BY <1>2, <1>4, <1>5 DEF File, Inv, RemoteOK, WellFormed
<1> DEFINE j == [min |-> f.min, max |-> g.max]
<1>7. /\ j \in Info /\ j.min = f.min /\ j.max = g.max /\ job'[dst] = j
      /\ \A k \in CompactionLevels : k # dst => job'[k] = job[k]
  BY <1>2, <1>4, <1>6 DEF Info
<1> HIDE DEF j, in
<1>8. TypeOK'
  <2>1. job' \in [CompactionLevels -> Info \cup {NoInfo}]
    BY <1>2, <1>4, <1>7 DEF j
  <2> QED BY <1>3, <2>1 DEF Inv, TypeOK
<1>9. RemoteOK' /\ RposHeld' /\ DelOK' /\ RetentionOK'
  BY <1>3
  DEF Inv, RemoteOK, HistoryCovered, WellFormed, Disjoint, Nested, SourceAhead,
      RposHeld, DelOK, DelCovered, DelNotLast, RetentionOK
<1>10. JobOK'
  <2> SUFFICES ASSUME NEW k \in CompactionLevels, job'[k] # NoInfo
               PROVE  /\ job'[k].min <= job'[k].max
                      /\ (JobAfterLevel(k) /\ JobNested(k) /\ JobSource(k) /\ JobBelow(k))'
                      /\ Covered(k, job[k].min - 1)'
    BY DEF JobOK
  <2>1. CASE k = dst
    <3>1. job'[k].min <= job'[k].max
      BY <1>6, <1>7, <2>1
    <3>2. JobAfterLevel(k)'
      <4> SUFFICES ASSUME NEW e \in remote, e.level = dst
                   PROVE  e.max < f.min
        BY <1>3, <1>7, <2>1 DEF JobAfterLevel
      <4>1. e.max <= MaxTXID(At(dst)) /\ e.max \in Int /\ MaxTXID(At(dst)) \in Int
        BY <1>4, MaxTXIDIsGreatest DEF At, File
      <4> QED BY <4>1, <1>5, <1>6
    <3>3. JobNested(k)'
      <4> SUFFICES ASSUME NEW h \in remote, h.level = dst - 1
                   PROVE  h.max <= g.max \/ h.min > g.max
        BY <1>3, <1>7, <2>1 DEF JobNested
      <4>1. h = g \/ h.max < g.min \/ g.max < h.min
        BY <1>4, <1>5 DEF Inv, RemoteOK, Disjoint, SnapshotLevel
      <4>2. h.max \in Int /\ h.min \in Int
        BY <1>4 DEF File
      <4> QED BY <4>1, <4>2, <1>6
    <3>4. JobSource(k)'
      BY <1>3, <1>5, <1>6, <1>7, <2>1 DEF JobSource
    <3>5. JobBelow(k)'
      <4> SUFFICES ASSUME NEW i \in CompactionLevels, i = dst - 1, job'[i] # NoInfo
                   PROVE  job'[i].min > g.max
        BY <1>7, <2>1 DEF JobBelow
      <4>1. i # dst /\ job'[i] = job[i]
        BY <1>4, <1>7
      <4>2. job[i] \in Info
        BY <4>1, <1>4
      <4>3. JobAfterLevel(i)
        BY <4>1 DEF Inv, JobOK
      <4> QED BY <4>1, <4>2, <4>3, <1>5, <1>6 DEF JobAfterLevel, Info
    <3>6. Covered(k, job[k].min - 1)'
      <4>1. Covered(dst, f.min - 1)
        BY <1>2, InputsBeginAfterCovered DEF in
      <4> QED BY <4>1, <1>3, <1>7, <2>1 DEF Covered
    <3> QED BY <3>1, <3>2, <3>3, <3>4, <3>5, <3>6
  <2>2. CASE k # dst
    <3>1. job'[k] = job[k] /\ job[k] \in Info
      BY <1>4, <1>7, <2>2
    <3>2. /\ job[k].min <= job[k].max
          /\ JobAfterLevel(k) /\ JobNested(k) /\ JobSource(k) /\ JobBelow(k)
          /\ Covered(k, job[k].min - 1)
      BY <3>1 DEF Inv, JobOK
    <3>3. (JobAfterLevel(k) /\ JobNested(k) /\ JobSource(k))' /\ Covered(k, job[k].min - 1)'
      BY <1>3, <3>1, <3>2 DEF JobAfterLevel, JobNested, JobSource, Covered
    <3>4. JobBelow(k)'
      <4> SUFFICES ASSUME NEW i \in CompactionLevels, i = k - 1, job'[i] # NoInfo
                   PROVE  job'[i].min > job[k].max
        BY <3>1 DEF JobBelow
      <4>1. CASE i # dst
        BY <4>1, <1>7, <3>2 DEF JobBelow
      <4>2. CASE i = dst
        <5>1. PICK e \in remote : e.level = k - 1 /\ e.max >= job[k].max
          BY <3>2 DEF JobSource
        <5>2. e.max <= MaxTXID(At(dst)) /\ e.max \in Int /\ MaxTXID(At(dst)) \in Int
          BY <1>4, <4>2, <5>1, MaxTXIDIsGreatest DEF At, File
        <5> QED BY <5>1, <5>2, <4>2, <1>5, <1>6, <1>7, <3>1 DEF Info
      <4> QED BY <4>1, <4>2
    <3> QED BY <3>1, <3>2, <3>3, <3>4
  <2> QED BY <2>1, <2>2
<1> QED BY <1>8, <1>9, <1>10 DEF Inv

-----------------------------------------------------------------------------
(* Steps that leave the files alone. *)

(* What is said of the files holds while nobody writes one. *)
LEMMA SameFiles ==
  ASSUME Inv, remote' = remote
  PROVE  RemoteOK'
BY DEF Inv, RemoteOK, HistoryCovered, WellFormed, Disjoint, Nested, SourceAhead

(* So does what is said of the running compactions while none starts or ends. *)
LEMMA SameJobs ==
  ASSUME Inv, remote' = remote, job' = job
  PROVE  JobOK'
BY DEF Inv, JobOK, JobAfterLevel, JobNested, JobSource, JobBelow, Covered

(* And what is said of the pending deletions while none is planned or made. *)
LEMMA SameDeletions ==
  ASSUME Inv, remote' = remote, del' = del
  PROVE  DelOK'
BY DEF Inv, DelOK, DelCovered, DelNotLast

(* What CompactDB remembers of a level is a range of TXIDs. *)
LEMMA LookupKeepsInv ==
  ASSUME Inv, NEW dst \in CompactionLevels, MaxLTXFileInfo(dst)
  PROVE  Inv'
<1>1. /\ remote' = remote /\ job' = job /\ l0ret' = l0ret /\ del' = del
      /\ pos' = pos /\ rpos' = rpos /\ dpos' = dpos
      /\ smpc' = smpc /\ smtx' = smtx /\ smlvl' = smlvl
      /\ maxInfos' = [l \in 0..MaxLevel |->
                        IF l \in {dst - 1, dst} /\ maxInfos[l] = Unknown THEN LastInfo(l)
                        ELSE maxInfos[l]]
  BY DEF MaxLTXFileInfo, writers, snapshotter
<1>2. \A l \in 0..MaxLevel : LastInfo(l) \in Info \cup {NoInfo}
  <2> SUFFICES ASSUME NEW l \in 0..MaxLevel, At(l) # {} PROVE LastInfo(l) \in Info
    BY DEF LastInfo
  <2>1. At(l) \in SUBSET File
    BY DEF At, Inv, TypeOK
  <2>2. Last(At(l)) \in File
    BY <2>1, LastEndsLast
  <2> QED BY <2>2 DEF LastInfo, File, Info
<1>3. maxInfos' \in Infos
  BY <1>1, <1>2 DEF Inv, TypeOK, Infos
<1>4. TypeOK'
  BY <1>1, <1>3 DEF Inv, TypeOK
<1>5. RposHeld' /\ RetentionOK'
  BY <1>1 DEF Inv, RposHeld, RetentionOK
<1> QED BY <1>1, <1>4, <1>5, SameFiles, SameJobs, SameDeletions DEF Inv

(* A commit, and the steps of Replica.Sync that upload nothing, keep the
   invariant; SyncStart takes its position from L0 (calcPos). *)
LEMMA SyncStepsKeepInv ==
  ASSUME Inv, DBSync \/ DBSyncFail \/ SyncStart \/ SyncClearedByOther
  PROVE  Inv'
<1>1. /\ remote' = remote /\ job' = job /\ l0ret' = l0ret /\ del' = del
      /\ smpc' = smpc /\ smtx' = smtx /\ smlvl' = smlvl
  BY DEF DBSync, DBSyncFail, SyncStart, SyncClearedByOther, writers, compactors,
         snapshotter
<1>2. RemoteOK' /\ JobOK' /\ DelOK'
  BY <1>1, SameFiles, SameJobs, SameDeletions
<1>3. RetentionOK'
  BY <1>1 DEF Inv, RetentionOK
<1>4. CASE SyncStart
  <2>1. At(0) \in SUBSET File
    BY DEF At, Inv, TypeOK
  <2>2. TypeOK'
    BY <1>1, <1>4, <2>1, MaxTXIDIsGreatest, TXAssumption DEF SyncStart, Loop, compactors, Inv, TypeOK
  <2>3. RposHeld'
    <3>1. CASE rpos # 0
      BY <1>1, <1>4, <3>1 DEF SyncStart, Loop, Inv, RposHeld
    <3>2. CASE rpos = 0 /\ At(0) = {}
      BY <1>4, <2>1, <3>2, MaxTXIDIsGreatest DEF SyncStart, Loop, RposHeld
    <3>3. CASE rpos = 0 /\ At(0) # {}
      <4>1. PICK f \in At(0) : f.max = MaxTXID(At(0))
        BY <2>1, <3>3, MaxTXIDIsGreatest
      <4>2. rpos' = f.max /\ f \in remote' /\ f.level = 0 /\ f.max \in Int
        BY <1>1, <1>4, <2>1, <3>3, <4>1 DEF SyncStart, Loop, At, File
      <4>3. f.max >= rpos'
        BY <4>2
      <4> QED BY <4>2, <4>3 DEF RposHeld
    <3> QED BY <3>1, <3>2, <3>3
  <2> QED BY <1>2, <1>3, <2>2, <2>3 DEF Inv
<1>5. CASE DBSync \/ DBSyncFail
  <2>1. rpos' = rpos
    BY <1>5 DEF DBSync, DBSyncFail, writers
  <2>2. TypeOK'
    <3>1. maxInfos \in Infos /\ pos \in 0..MaxTX
      BY DEF Inv, TypeOK
    <3>2. CASE DBSync
      <4>1. pos + 1 \in 1..MaxTX /\ pos' = pos + 1 /\ dpos' = dpos
        BY <3>1, <3>2, TXAssumption DEF DBSync
      <4>2. maxInfos' = [maxInfos EXCEPT ![0] = [min |-> pos + 1, max |-> pos + 1]]
        BY <3>2 DEF DBSync
      <4>3. maxInfos' \in Infos
        BY <3>1, <4>1, <4>2 DEF Infos, Info
      <4> QED BY <1>1, <2>1, <4>1, <4>3, TXAssumption DEF Inv, TypeOK
    <3>3. CASE DBSyncFail
      <4>1. maxInfos' = [maxInfos EXCEPT ![0] = Unknown] /\ pos' = pos /\ dpos' = dpos
        BY <3>3 DEF DBSyncFail, writers
      <4>2. maxInfos' \in Infos
        BY <3>1, <4>1 DEF Infos
      <4> QED BY <1>1, <2>1, <4>1, <4>2 DEF Inv, TypeOK
    <3> QED BY <1>5, <3>2, <3>3
  <2>3. RposHeld'
    BY <1>1, <2>1 DEF Inv, RposHeld
  <2> QED BY <1>2, <1>3, <2>2, <2>3 DEF Inv
<1>6. CASE SyncClearedByOther
  <2>1. TypeOK'
    BY <1>1, <1>6, TXAssumption DEF SyncClearedByOther, compactors, Inv, TypeOK
  <2>2. RposHeld'
    BY <1>6 DEF SyncClearedByOther, RposHeld
  <2> QED BY <1>2, <1>3, <2>1, <2>2 DEF Inv
<1> QED BY <1>4, <1>5, <1>6

-----------------------------------------------------------------------------
(* Retention. *)

(* A list of files below a TXID that a file above L0, or a snapshot for a
   level above L0, ends at may be deleted (EnforceRetentionByTXID). *)
LEMMA ListingKeepsDel ==
  ASSUME Inv, remote' = remote, NEW l \in Levels, NEW txid \in Int,
         del' = [del EXCEPT ![l] = BelowTXID(l, txid)],
         \/ txid = 0
         \/ l = 0 /\ \E c \in remote : c.level >= 1 /\ c.max >= txid
         \/ l # 0 /\ \E s \in remote : s.level = SnapshotLevel /\ s.max >= txid
  PROVE  DelOK' /\ del' \in [Levels -> SUBSET File]
<1>1. TypeOK /\ remote \subseteq File /\ del \in [Levels -> SUBSET File]
  BY DEF Inv, TypeOK
<1>2. BelowTXID(l, txid) \in SUBSET File
  BY <1>1 DEF BelowTXID, At
<1>3. del' \in [Levels -> SUBSET File]
  BY <1>1, <1>2
<1>4. ASSUME NEW k \in Levels, NEW d \in del'[k]
      PROVE  d.level = k /\ DelCovered(k, d)' /\ DelNotLast(k, d)'
  <2>1. CASE k # l
    <3>1. del'[k] = del[k]
      BY <1>1, <2>1
    <3> QED BY <3>1 DEF Inv, DelOK, DelCovered, DelNotLast
  <2>2. CASE k = l
    <3>1. del'[l] = BelowTXID(l, txid) /\ d \in BelowTXID(l, txid)
      BY <1>1, <2>2
    <3>2. /\ d \in remote /\ d.level = l /\ d.max < txid
          /\ \E h \in remote : /\ h.level = l /\ h # d /\ h.max >= d.max
                               /\ h \notin BelowTXID(l, txid)
      BY <1>1, <3>1, BelowTXIDSpares
    <3>3. DelNotLast(l, d)'
      BY <3>1, <3>2 DEF DelNotLast
    <3>4. d.max \in 1..MaxTX
      BY <1>1, <3>2 DEF File
    <3>5. DelCovered(l, d)'
      <4>1. CASE l = 0
        <5>1. PICK c \in remote : c.level >= 1 /\ c.max >= txid
          BY <3>2, <3>4, <4>1
        <5>2. c.max >= d.max
          BY <1>1, <3>2, <3>4, <5>1 DEF File
        <5> QED BY <4>1, <5>1, <5>2 DEF DelCovered
      <4>2. CASE l # 0
        <5>1. PICK s \in remote : s.level = SnapshotLevel /\ s.max >= txid
          BY <3>2, <3>4, <4>2
        <5>2. s.max > d.max
          BY <1>1, <3>2, <3>4, <5>1 DEF File
        <5> QED BY <4>2, <5>1, <5>2 DEF DelCovered
      <4> QED BY <4>1, <4>2
    <3> QED BY <2>2, <3>2, <3>3, <3>5
  <2> QED BY <2>1, <2>2
<1> QED BY <1>3, <1>4 DEF DelOK

(* Listing what L1 prunes from L0 keeps the invariant. *)
LEMMA L0RetentionKeepsInv ==
  ASSUME Inv, L0Retention
  PROVE  Inv'
<1>1. /\ l0ret # 0 /\ del' = [del EXCEPT ![0] = BelowTXID(0, l0ret)] /\ l0ret' = 0
      /\ remote' = remote /\ pos' = pos /\ rpos' = rpos /\ dpos' = dpos /\ job' = job
      /\ smpc' = smpc /\ smtx' = smtx /\ smlvl' = smlvl
      /\ maxInfos' = maxInfos
  BY DEF L0Retention, writers, snapshotter
<1>2. 0 \in Levels /\ l0ret \in Int
  BY LevelAssumption DEF Levels, Inv, TypeOK
<1>3. DelOK' /\ del' \in [Levels -> SUBSET File]
  <2>1. \E c \in remote : c.level >= 1 /\ c.max >= l0ret
    BY <1>1 DEF Inv, RetentionOK
  <2> QED BY <1>1, <1>2, <2>1, ListingKeepsDel
<1>4. TypeOK'
  BY <1>1, <1>3, TXAssumption DEF Inv, TypeOK
<1>5. RposHeld' /\ RetentionOK'
  BY <1>1 DEF Inv, RposHeld, RetentionOK
<1> QED BY <1>1, <1>3, <1>4, <1>5, SameFiles, SameJobs DEF Inv

(* Listing what one level loses to the oldest snapshot that is kept keeps the
   invariant. *)
LEMMA LevelRetentionKeepsInv ==
  ASSUME Inv, LevelRetention
  PROVE  Inv'
<1>1. /\ smpc = "level" /\ smlvl <= MaxLevel /\ smlvl' = smlvl + 1
      /\ del' = [del EXCEPT ![smlvl] = BelowTXID(smlvl, smtx)]
      /\ remote' = remote /\ pos' = pos /\ rpos' = rpos /\ dpos' = dpos /\ job' = job
      /\ l0ret' = l0ret /\ smpc' = smpc /\ smtx' = smtx
      /\ maxInfos' = maxInfos
  BY DEF LevelRetention, writers, compactors
<1>2. smlvl \in Levels /\ smlvl # 0 /\ smtx \in Int /\ smlvl \in Int
  BY <1>1, LevelAssumption DEF Levels, Inv, TypeOK, RetentionOK
<1>3. DelOK' /\ del' \in [Levels -> SUBSET File]
  <2>1. smtx # 0 => \E s \in remote : s.level = SnapshotLevel /\ s.max >= smtx
    BY <1>1 DEF Inv, RetentionOK
  <2> QED BY <1>1, <1>2, <2>1, ListingKeepsDel
<1>4. TypeOK'
  BY <1>1, <1>2, <1>3, LevelAssumption DEF Inv, TypeOK
<1>5. RposHeld' /\ RetentionOK'
  BY <1>1, <1>2, LevelAssumption DEF Inv, TypeOK, RposHeld, RetentionOK
<1> QED BY <1>1, <1>3, <1>4, <1>5, SameFiles, SameJobs DEF Inv

(* Listing the snapshots to expire keeps the invariant: the last snapshot is
   spared, and it ends after those that are not. *)
LEMMA ExpireSnapshotsKeepsInv ==
  ASSUME Inv, NEW cut \in 0..(MaxTX + 1), ExpireSnapshots(cut)
  PROVE  Inv'
<1>1. /\ del' = [del EXCEPT ![SnapshotLevel] = BelowTXID(SnapshotLevel, cut)]
      /\ smpc' = "level" /\ smlvl' = 1 /\ smtx' = LowestKept(cut)
      /\ remote' = remote /\ pos' = pos /\ rpos' = rpos /\ dpos' = dpos /\ job' = job
      /\ l0ret' = l0ret /\ maxInfos' = maxInfos
  BY DEF ExpireSnapshots, ExpiredBelow, writers, compactors
<1>2. SnapshotLevel \in Levels /\ cut \in Int /\ TypeOK /\ SnapshotLevel # 0
  BY TXAssumption DEF Levels, Inv, SnapshotLevel
<1>3. BelowTXID(SnapshotLevel, cut) \in SUBSET File /\ del \in [Levels -> SUBSET File]
  BY <1>2 DEF TypeOK, BelowTXID, At
<1>4. DelOK'
  <2> SUFFICES ASSUME NEW k \in Levels, NEW d \in del'[k]
               PROVE  d.level = k /\ DelCovered(k, d)' /\ DelNotLast(k, d)'
    BY DEF DelOK
  <2>1. CASE k # SnapshotLevel
    <3>1. del'[k] = del[k]
      BY <1>1, <1>3, <2>1
    <3> QED BY <1>1, <3>1 DEF Inv, DelOK, DelCovered, DelNotLast
  <2>2. CASE k = SnapshotLevel
    <3>1. del'[k] = BelowTXID(k, cut) /\ d \in BelowTXID(k, cut)
      BY <1>1, <1>2, <1>3, <2>2
    <3>2. /\ d \in remote /\ d.level = k
          /\ \E h \in remote : /\ h.level = k /\ h # d /\ h.max >= d.max
                               /\ h \notin BelowTXID(k, cut)
      BY <1>2, <3>1, BelowTXIDSpares
    <3>3. PICK h \in remote : /\ h.level = k /\ h # d /\ h.max >= d.max
                              /\ h \notin BelowTXID(k, cut)
      BY <3>2
    <3>4. h.min = 1 /\ d.min = 1 /\ h \in File /\ d \in File
      BY <2>2, <3>2, <3>3 DEF Inv, TypeOK, RemoteOK, WellFormed
    <3>5. h.max # d.max
      BY <3>2, <3>3, <3>4, FileExtensional
    <3>6. h.max > d.max
      BY <3>3, <3>4, <3>5 DEF File
    <3> QED BY <1>1, <1>2, <2>2, <3>1, <3>2, <3>3, <3>6 DEF DelCovered, DelNotLast
  <2> QED BY <2>1, <2>2
<1>5. LowestKept(cut) \in 0..MaxTX
  BY <1>2, LowestKeptIsKept
<1>6. TypeOK'
  <2>1. del' \in [Levels -> SUBSET File]
    BY <1>1, <1>3
  <2>2. 1 \in 0..(MaxLevel + 1)
    BY LevelAssumption
  <2> QED BY <1>1, <1>5, <2>1, <2>2 DEF Inv, TypeOK
<1>7. RposHeld'
  BY <1>1 DEF Inv, RposHeld
<1>8. RetentionOK'
  <2>1. LowestKept(cut) # 0 =>
          \E s \in remote : s.level = SnapshotLevel /\ s.max >= LowestKept(cut)
    BY <1>2, <1>5, LowestKeptIsKept
  <2> QED BY <1>1, <2>1 DEF Inv, RetentionOK
<1> QED BY <1>1, <1>4, <1>6, <1>7, <1>8, SameFiles, SameJobs DEF Inv

-----------------------------------------------------------------------------
(* Snapshots. *)

(* A snapshot disturbs no level: it covers everything up to its TXID. *)
LEMMA SnapshotKeepsFiles ==
  ASSUME Inv, smpc = "snapshot", remote' = remote \cup {Snapshot}, job' = job, del' = del
  PROVE  Snapshot \in File /\ RemoteOK' /\ JobOK' /\ DelOK'
<1> DEFINE s == Snapshot
<1>1. smtx \in 1..MaxTX
  BY DEF Inv, TypeOK, RetentionOK
<1>2. /\ s \in File /\ s.level = 9 /\ s.min = 1 /\ s.max = smtx
      /\ remote' = remote \cup {s}
  BY <1>1, TXAssumption DEF Snapshot, File, Levels, SnapshotLevel
<1> HIDE DEF s
<1>3. \A l \in CompactionLevels : l # 9 /\ l - 1 # 9 /\ l \in Int
  BY LevelAssumption DEF CompactionLevels
<1>4. HistoryCovered'
  <2>1. Covered(s.level, s.min - 1)
    BY <1>2 DEF Covered
  <2> QED BY <1>2, <2>1, AdditionKeepsHistory
<1>5. WellFormed'
  BY <1>1, <1>2 DEF Inv, RemoteOK, WellFormed, SnapshotLevel
<1>6. Disjoint'
  BY <1>2 DEF Inv, RemoteOK, Disjoint, SnapshotLevel
<1>7. Nested'
  BY <1>2, <1>3 DEF Inv, RemoteOK, Nested
<1>8. SourceAhead'
  BY <1>2, <1>3 DEF Inv, RemoteOK, SourceAhead
<1>9. JobOK'
  <2> SUFFICES ASSUME NEW k \in CompactionLevels, job[k] # NoInfo
               PROVE  /\ job[k].min <= job[k].max
                      /\ (JobAfterLevel(k) /\ JobNested(k) /\ JobSource(k) /\ JobBelow(k))'
                      /\ Covered(k, job[k].min - 1)'
    BY DEF JobOK
  <2>1. /\ job[k].min <= job[k].max
        /\ JobAfterLevel(k) /\ JobNested(k) /\ JobSource(k) /\ JobBelow(k)
        /\ Covered(k, job[k].min - 1)
    BY DEF Inv, JobOK
  <2>2. (JobAfterLevel(k) /\ JobNested(k) /\ JobSource(k) /\ JobBelow(k))'
    BY <1>2, <1>3, <2>1 DEF JobAfterLevel, JobNested, JobSource, JobBelow
  <2>3. Covered(k, job[k].min - 1)'
    BY <1>2, <2>1 DEF Covered
  <2> QED BY <2>1, <2>2, <2>3
<1>10. DelOK'
  BY <1>2, AdditionKeepsDel
<1> QED BY <1>2, <1>4, <1>5, <1>6, <1>7, <1>8, <1>9, <1>10 DEF RemoteOK, s

(* Writing a snapshot keeps the invariant, and so does failing to, whether or
   not the client stored it. *)
LEMMA SnapshotKeepsInv ==
  ASSUME Inv, SnapshotWrite \/ SnapshotFail
  PROVE  Inv'
<1>1. /\ smpc = "snapshot" /\ smpc' = "expire" /\ smtx' = 0 /\ smlvl' = smlvl
      /\ remote' = remote \/ remote' = remote \cup {Snapshot}
      /\ pos' = pos /\ rpos' = rpos /\ dpos' = dpos /\ job' = job
      /\ l0ret' = l0ret /\ del' = del /\ maxInfos' = maxInfos
  BY DEF SnapshotWrite, SnapshotFail, writers, compactors
<1>2. RemoteOK' /\ JobOK' /\ DelOK' /\ remote' \subseteq File
  <2>1. remote \subseteq File
    BY DEF Inv, TypeOK
  <2>2. CASE remote' = remote
    BY <1>1, <2>1, <2>2, SameFiles, SameJobs, SameDeletions
  <2>3. CASE remote' = remote \cup {Snapshot}
    BY <1>1, <2>1, <2>3, SnapshotKeepsFiles
  <2> QED BY <1>1, <2>2, <2>3
<1>3. TypeOK'
  BY <1>1, <1>2, TXAssumption DEF Inv, TypeOK
<1>4. RposHeld' /\ RetentionOK'
  BY <1>1 DEF Inv, RposHeld, RetentionOK
<1> QED BY <1>2, <1>3, <1>4 DEF Inv

(* The other steps of the snapshot goroutine, an abandoned deletion and a
   crash keep the invariant. *)
LEMMA OtherStepsKeepInv ==
  ASSUME Inv, \/ SnapshotStart \/ RetentionDone \/ Crash
              \/ \E level \in Levels : DeleteFail(level)
  PROVE  Inv'
<1>1. CASE SnapshotStart
  <2>1. /\ pos > 0 /\ smpc' = "snapshot" /\ smtx' = pos /\ smlvl' = smlvl
        /\ remote' = remote /\ pos' = pos /\ rpos' = rpos /\ dpos' = dpos
        /\ job' = job /\ l0ret' = l0ret /\ del' = del /\ maxInfos' = maxInfos
    BY <1>1 DEF SnapshotStart, writers, compactors
  <2>2. TypeOK'
    BY <2>1 DEF Inv, TypeOK
  <2>3. RposHeld' /\ RetentionOK'
    BY <2>1 DEF Inv, TypeOK, RposHeld, RetentionOK
  <2> QED BY <2>1, <2>2, <2>3, SameFiles, SameJobs, SameDeletions DEF Inv
<1>2. CASE RetentionDone
  <2>1. /\ smpc' = "idle" /\ smtx' = 0 /\ smlvl' = 0
        /\ remote' = remote /\ pos' = pos /\ rpos' = rpos /\ dpos' = dpos
        /\ job' = job /\ l0ret' = l0ret /\ del' = del /\ maxInfos' = maxInfos
    BY <1>2 DEF RetentionDone, writers, compactors
  <2>2. TypeOK'
    BY <2>1, TXAssumption, LevelAssumption DEF Inv, TypeOK
  <2>3. RposHeld' /\ RetentionOK'
    BY <2>1 DEF Inv, RposHeld, RetentionOK
  <2> QED BY <2>1, <2>2, <2>3, SameFiles, SameJobs, SameDeletions DEF Inv
<1>3. CASE Crash
  <2>1. /\ smpc' = "idle" /\ smtx' = 0 /\ smlvl' = 0 /\ rpos' = 0 /\ dpos' = 0
        /\ l0ret' = 0 /\ pos' = pos /\ remote' = remote
        /\ maxInfos' = [l \in 0..MaxLevel |-> Unknown]
        /\ job' = [l \in CompactionLevels |-> NoInfo] /\ del' = [l \in Levels |-> {}]
    BY <1>3 DEF Crash
  <2>2. TypeOK'
    <3>1. maxInfos' \in Infos
      BY <2>1 DEF Infos
    <3> QED BY <2>1, <3>1, TXAssumption, LevelAssumption DEF Inv, TypeOK
  <2>3. RposHeld' /\ RetentionOK' /\ DelOK' /\ JobOK'
    BY <2>1 DEF RposHeld, RetentionOK, DelOK, JobOK
  <2> QED BY <2>1, <2>2, <2>3, SameFiles DEF Inv
<1>4. CASE \E level \in Levels : DeleteFail(level)
  <2>1. PICK level \in Levels : DeleteFail(level)
    BY <1>4
  <2>2. /\ del' = [del EXCEPT ![level] = {}]
        /\ \/ smpc' = smpc /\ smtx' = smtx /\ smlvl' = smlvl
           \/ smpc' = "idle" /\ smtx' = 0 /\ smlvl' = 0
        /\ remote' = remote /\ pos' = pos /\ rpos' = rpos /\ dpos' = dpos
        /\ job' = job /\ l0ret' = l0ret /\ maxInfos' = maxInfos
    BY <2>1 DEF DeleteFail, writers, compactors, snapshotter
  <2>3. del \in [Levels -> SUBSET File]
    BY DEF Inv, TypeOK
  <2>4. TypeOK'
    BY <2>2, <2>3, TXAssumption, LevelAssumption DEF Inv, TypeOK
  <2>5. RposHeld' /\ RetentionOK'
    BY <2>2 DEF Inv, RposHeld, RetentionOK
  <2>6. \A k \in Levels : del'[k] \subseteq del[k] /\ (del'[k] # {} => del'[k] = del[k])
    BY <2>2, <2>3
  <2>7. DelOK'
    BY <2>2, <2>6 DEF Inv, DelOK, DelCovered, DelNotLast
  <2> QED BY <2>2, <2>4, <2>5, <2>7, SameFiles, SameJobs DEF Inv
<1> QED BY <1>1, <1>2, <1>3, <1>4

-----------------------------------------------------------------------------
(* The theorems. *)

(* The invariant holds before the first step. *)
LEMMA InitInv ==
  ASSUME Init
  PROVE  Inv
<1>1. TypeOK
  <2>1. maxInfos \in Infos
    BY DEF Init, Infos
  <2> QED BY <2>1, TXAssumption, LevelAssumption DEF Init, TypeOK
<1>2. RemoteOK
  BY DEF Init, RemoteOK, HistoryCovered, WellFormed, Disjoint, Nested, SourceAhead
<1>3. RposHeld /\ JobOK /\ DelOK /\ RetentionOK
  BY DEF Init, RposHeld, JobOK, DelOK, RetentionOK
<1> QED BY <1>1, <1>2, <1>3 DEF Inv

(* Every step of every goroutine, every fault included, keeps the invariant. *)
LEMMA NextKeepsInv ==
  ASSUME Inv, [Next]_vars
  PROVE  Inv'
<1>1. CASE UNCHANGED vars
  <2>1. /\ remote' = remote /\ pos' = pos /\ rpos' = rpos /\ dpos' = dpos
        /\ job' = job /\ l0ret' = l0ret /\ del' = del
        /\ smpc' = smpc /\ smtx' = smtx /\ smlvl' = smlvl /\ maxInfos' = maxInfos
    BY <1>1 DEF vars, writers, compactors, snapshotter
  <2>2. TypeOK' /\ RposHeld' /\ RetentionOK'
    BY <2>1 DEF Inv, TypeOK, RposHeld, RetentionOK
  <2> QED BY <2>1, <2>2, SameFiles, SameJobs, SameDeletions DEF Inv
<1>2. CASE DBSync \/ DBSyncFail \/ SyncStart \/ SyncClearedByOther
  BY <1>2, SyncStepsKeepInv
<1>3. CASE SyncUpload \/ SyncAborted
  BY <1>3, SyncUploadKeepsInv, SyncAbortedKeepsInv
<1>4. CASE \E dst \in CompactionLevels :
             \/ MaxLTXFileInfo(dst) \/ CompactStart(dst)
             \/ CompactWrite(dst) \/ CompactFail(dst)
  BY <1>4, LookupKeepsInv, CompactStartKeepsInv, CompactWriteKeepsInv, CompactFailKeepsInv
<1>5. CASE L0Retention \/ LevelRetention
  BY <1>5, L0RetentionKeepsInv, LevelRetentionKeepsInv
<1>6. CASE SnapshotWrite \/ SnapshotFail
  BY <1>6, SnapshotKeepsInv
<1>7. CASE \E cut \in 0..(MaxTX + 1) : ExpireSnapshots(cut)
  BY <1>7, ExpireSnapshotsKeepsInv
<1>8. CASE \E level \in Levels : DeleteNext(level)
  BY <1>8, DeleteNextKeepsInv
<1>9. CASE SnapshotStart \/ RetentionDone \/ Crash
           \/ \E level \in Levels : DeleteFail(level)
  BY <1>9, OtherStepsKeepInv
<1> QED BY <1>1, <1>2, <1>3, <1>4, <1>5, <1>6, <1>7, <1>8, <1>9 DEF Next, SyncFail

(* Inv is an invariant of the replica. *)
THEOREM Invariance == Spec => []Inv
<1>1. Init => Inv
  BY InitInv
<1>2. Inv /\ [Next]_vars => Inv'
  BY NextKeepsInv
<1> QED BY <1>1, <1>2, PTL DEF Spec

(* The variables keep their types: in particular no goroutine ever computes a
   TXID or a level that does not exist. *)
THEOREM TypeCorrect == Spec => []TypeOK
<1>1. Inv => TypeOK
  BY DEF Inv
<1> QED BY <1>1, Invariance, PTL

(* However many levels and transactions there are, and whatever fails, what
   lies below a replicated transaction is never lost (DB.Compact,
   EnforceRetentionByTXID, EnforceSnapshotRetention, Replica.Sync). *)
THEOREM HistoryNeverLost == Spec => []HistoryCovered
<1>1. Inv => HistoryCovered
  BY DEF Inv, RemoteOK
<1> QED BY <1>1, Invariance, PTL

-----------------------------------------------------------------------------
(* A step never lowers the end of a level: additions raise it, and a file that
   is deleted is not the last one. *)
LEMMA LevelEndGrows ==
  ASSUME Inv, Inv', [Next]_vars, NEW l \in Levels
  PROVE  MaxTXID(At(l))' >= MaxTXID(At(l))
<1>1. /\ At(l) \in SUBSET File /\ At(l)' \in SUBSET File
      /\ MaxTXID(At(l))' = MaxTXID(At(l)')
  BY DEF Inv, TypeOK, At, MaxTXID
<1>2. /\ MaxTXID(At(l)) \in 0..MaxTX /\ MaxTXID(At(l)') \in 0..MaxTX
      /\ \A f \in At(l)' : f.max <= MaxTXID(At(l)')
      /\ At(l) # {} => \E f \in At(l) : f.max = MaxTXID(At(l))
      /\ At(l) = {} => MaxTXID(At(l)) = 0
  BY <1>1, MaxTXIDIsGreatest
<1>3. ASSUME NEW f \in At(l)
      PROVE  \E h \in At(l)' : h.max >= f.max
  <2>1. f \in remote /\ f.level = l /\ f.max \in Int
    BY <1>1 DEF At, File
  <2>2. CASE remote \subseteq remote'
    BY <2>1, <2>2 DEF At
  <2>3. CASE \E level \in Levels : DeleteNext(level)
    <3>1. PICK level \in Levels : DeleteNext(level)
      BY <2>3
    <3>2. PICK d \in del[level] : remote' = remote \ {d}
      BY <3>1 DEF DeleteNext
    <3>3. CASE f # d
      BY <2>1, <3>2, <3>3 DEF At
    <3>4. CASE f = d
      <4>1. PICK h \in remote : h.level = level /\ h \notin del[level] /\ h.max >= d.max
        BY DEF Inv, DelOK, DelNotLast
      <4>2. d.level = level
        BY DEF Inv, DelOK
      <4>3. h \in At(l)' /\ h.max >= f.max
        BY <2>1, <3>2, <3>4, <4>1, <4>2 DEF At
      <4> QED BY <4>3
    <3> QED BY <3>3, <3>4
  <2> QED
    BY <2>2, <2>3
    DEF Next, SyncFail, DBSync, DBSyncFail, SyncStart, SyncUpload, SyncAborted,
        SyncClearedByOther, MaxLTXFileInfo, CompactStart, CompactWrite, CompactFail, L0Retention, SnapshotStart,
        SnapshotWrite, SnapshotFail, ExpireSnapshots, LevelRetention, RetentionDone,
        DeleteFail, Crash, vars
<1>4. CASE At(l) = {}
  BY <1>1, <1>2, <1>4
<1>5. CASE At(l) # {}
  <2>1. PICK f \in At(l) : f.max = MaxTXID(At(l))
    BY <1>2, <1>5
  <2>2. PICK h \in At(l)' : h.max >= f.max
    BY <1>3, <2>1
  <2>3. h.max \in Int /\ h.max <= MaxTXID(At(l)')
    BY <1>1, <1>2, <2>2 DEF File
  <2> QED BY <1>1, <1>2, <2>1, <2>2, <2>3
<1> QED BY <1>4, <1>5

(* Replica.calcPos never moves back, whatever L0 retention deletes and
   whenever the process crashes: an upload is never repeated from before the
   last TXID the replica holds. *)
THEOREM CalcPosNeverMovesBack == Spec => CalcPosMonotonic
<1>1. Inv /\ Inv' /\ [Next]_vars => [MaxTXID(At(0))' >= MaxTXID(At(0))]_vars
  <2> SUFFICES ASSUME Inv, Inv', [Next]_vars
               PROVE  MaxTXID(At(0))' >= MaxTXID(At(0))
    OBVIOUS
  <2>1. 0 \in Levels
    BY LevelAssumption DEF Levels
  <2> QED BY <2>1, LevelEndGrows
<1> QED BY <1>1, Invariance, PTL DEF Spec, CalcPosMonotonic

-----------------------------------------------------------------------------
(* CompactDB's test for new files. *)

(* What is remembered of a level that is compacted into: a range that ends no
   later than the level. *)
InfosBehind ==
  \A l \in CompactionLevels :
    maxInfos[l].min <= maxInfos[l].max /\ maxInfos[l].max <= MaxTXID(At(l))

(* Nobody but DB.Compact writes to such a level, and it remembers what it wrote;
   a level never ends earlier than it did. *)
LEMMA NextKeepsInfosBehind ==
  ASSUME Inv, Inv', InfosBehind, [Next]_vars
  PROVE  InfosBehind'
<1> SUFFICES ASSUME NEW l \in CompactionLevels
             PROVE  /\ maxInfos'[l].min <= maxInfos'[l].max
                    /\ maxInfos'[l].max <= MaxTXID(At(l))'
  BY DEF InfosBehind
<1>1. /\ l \in Levels /\ l # 0 /\ l \in 0..MaxLevel /\ maxInfos \in Infos
      /\ At(l) \in SUBSET File /\ At(l)' \in SUBSET File
      /\ MaxTXID(At(l))' = MaxTXID(At(l)')
  BY LevelAssumption DEF CompactionLevels, Levels, Inv, TypeOK, At, MaxTXID
<1>2. /\ MaxTXID(At(l)) \in Int /\ MaxTXID(At(l))' \in Int
      /\ MaxTXID(At(l))' >= MaxTXID(At(l))
      /\ \A f \in At(l)' : f.max <= MaxTXID(At(l))'
      /\ \A f \in At(l) : f.max <= MaxTXID(At(l))
      /\ MaxTXID(At(l)) >= 0
  BY <1>1, LevelEndGrows, MaxTXIDIsGreatest, TXAssumption
<1>3. maxInfos[l].min \in Int /\ maxInfos[l].max \in Int
  BY <1>1, TXAssumption DEF Infos, Info, NoInfo, Unknown
<1>4. CASE maxInfos'[l] = maxInfos[l]
  BY <1>2, <1>3, <1>4 DEF InfosBehind
<1>5. CASE \E dst \in CompactionLevels : MaxLTXFileInfo(dst)
  <2>1. remote' = remote /\ maxInfos'[l] \in {maxInfos[l], LastInfo(l)}
    BY <1>1, <1>5 DEF MaxLTXFileInfo
  <2>2. CASE maxInfos'[l] = NoInfo
    BY <1>2, <2>2, TXAssumption DEF NoInfo
  <2>3. CASE maxInfos'[l] = LastInfo(l) /\ At(l) # {}
    <3>1. Last(At(l)) \in At(l)
      BY <1>1, <2>3, LastEndsLast
    <3>2. /\ maxInfos'[l].min = Last(At(l)).min /\ maxInfos'[l].max = Last(At(l)).max
      BY <2>3 DEF LastInfo
    <3>3. Last(At(l)).min <= Last(At(l)).max /\ Last(At(l)).max \in Int
      BY <1>1, <3>1 DEF At, File, Inv, RemoteOK, WellFormed
    <3> QED BY <1>2, <3>1, <3>2, <3>3
  <2> QED BY <1>4, <2>1, <2>2, <2>3 DEF LastInfo
<1>6. CASE \E dst \in CompactionLevels : CompactWrite(dst)
  <2>1. PICK dst \in CompactionLevels : CompactWrite(dst)
    BY <1>6
  <2>2. /\ job[dst] # NoInfo /\ remote' = remote \cup {Written(dst)}
        /\ maxInfos' = [maxInfos EXCEPT ![dst] = job[dst]]
    BY <2>1 DEF CompactWrite
  <2>3. CASE l # dst
    BY <1>1, <1>4, <2>2, <2>3 DEF Infos
  <2>4. CASE l = dst
    <3>1. Written(l) \in At(l)' /\ Written(l).max = job[l].max
      BY <2>2, <2>4 DEF Written, At
    <3>2. job[l].min <= job[l].max
      BY <2>2, <2>4 DEF Inv, JobOK
    <3>3. maxInfos'[l] = job[l]
      BY <1>1, <2>2, <2>4 DEF Infos
    <3> QED BY <1>2, <3>1, <3>2, <3>3
  <2> QED BY <2>3, <2>4
<1>7. CASE Crash
  <2>1. maxInfos'[l] = Unknown
    BY <1>1, <1>7 DEF Crash
  <2>2. MaxTXID(At(l))' >= 0
    BY <1>2
  <2> QED BY <1>2, <2>1, <2>2 DEF Unknown
<1>8. CASE DBSync \/ DBSyncFail
  <2>1. maxInfos'[l] = maxInfos[l]
    BY <1>1, <1>8 DEF DBSync, DBSyncFail, Infos
  <2> QED BY <1>4, <2>1
<1>9. CASE \/ UNCHANGED vars \/ SyncStart \/ SyncUpload \/ SyncAborted
           \/ SyncClearedByOther \/ L0Retention \/ SnapshotStart \/ SnapshotWrite
           \/ SnapshotFail \/ LevelRetention \/ RetentionDone
           \/ \E dst \in CompactionLevels : CompactStart(dst) \/ CompactFail(dst)
           \/ \E cut \in 0..(MaxTX + 1) : ExpireSnapshots(cut)
           \/ \E level \in Levels : DeleteNext(level) \/ DeleteFail(level)
  <2>1. maxInfos' = maxInfos
    BY <1>9 DEF vars, compactors, SyncStart, SyncUpload, SyncAborted,
                SyncClearedByOther, L0Retention, SnapshotStart, SnapshotWrite, SnapshotFail,
                LevelRetention, RetentionDone, CompactStart, CompactFail, ExpireSnapshots,
                DeleteNext, DeleteFail
  <2> QED BY <1>4, <2>1
<1> QED BY <1>5, <1>6, <1>7, <1>8, <1>9 DEF Next, SyncFail

(* New files lie beyond the end of their destination, so the comparison with
   what is remembered of it, which is no later, finds them. *)
LEMMA BehindIsHonest ==
  ASSUME Inv, InfosBehind
  PROVE  SkipsOnlyOutdated
<1> SUFFICES ASSUME NEW dst \in CompactionLevels,
                    Unknown \notin {maxInfos[dst - 1], maxInfos[dst]},
                    CompactInputs(dst) # {}, ~Outdated(dst - 1)
             PROVE  NewFiles(dst)
  BY DEF SkipsOnlyOutdated
<1>1. /\ dst - 1 \in 0..MaxLevel /\ dst \in 0..MaxLevel /\ maxInfos \in Infos
      /\ At(dst) \in SUBSET File /\ At(dst - 1) \in SUBSET File
  BY LevelAssumption DEF CompactionLevels, Inv, TypeOK, At
<1>2. /\ maxInfos[dst - 1].max \in Int /\ maxInfos[dst].min \in Int
      /\ maxInfos[dst].max \in Int
  BY <1>1, TXAssumption DEF Infos, Info, NoInfo, Unknown
<1>3. /\ MaxTXID(At(dst)) \in 0..MaxTX /\ MaxTXID(At(dst - 1)) \in 0..MaxTX
      /\ \A f \in At(dst - 1) : f.max <= MaxTXID(At(dst - 1))
  BY <1>1, MaxTXIDIsGreatest
<1>4. PICK f \in At(dst - 1) : f.min >= MaxTXID(At(dst)) + 1
  BY <1>3, TXAssumption DEF CompactInputs, LTXFiles
<1>5. f.min \in Int /\ f.max \in Int /\ f.min <= f.max
  BY <1>1, <1>4 DEF At, File, Inv, RemoteOK, WellFormed
<1>6. maxInfos[dst - 1].max >= MaxTXID(At(dst - 1))
  BY <1>2, <1>3 DEF Outdated
<1>7. maxInfos[dst].min <= MaxTXID(At(dst))
  BY <1>2, <1>3 DEF InfosBehind
<1>8. maxInfos[dst - 1].max > maxInfos[dst].min
  BY <1>2, <1>3, <1>4, <1>5, <1>6, <1>7, TXAssumption
<1> QED BY <1>8 DEF NewFiles

(* Whatever the levels, the transactions and the faults: CompactDB passes over
   new files only while the info it remembers of their level is outdated. *)
THEOREM CompactDBSeesNewFiles == Spec => []SkipsOnlyOutdated
<1>1. Inv /\ Init => InfosBehind
  <2> SUFFICES ASSUME Inv, Init, NEW l \in CompactionLevels
               PROVE  /\ maxInfos[l].min <= maxInfos[l].max
                      /\ maxInfos[l].max <= MaxTXID(At(l))
    BY DEF InfosBehind
  <2>1. l \in 0..MaxLevel /\ At(l) = {}
    BY DEF CompactionLevels, Init, At
  <2>2. maxInfos[l] = Unknown /\ MaxTXID(At(l)) = 0
    BY <2>1 DEF Init, MaxTXID
  <2> QED BY <2>2 DEF Unknown
<1>2. Inv /\ Inv' /\ InfosBehind /\ [Next]_vars => InfosBehind'
  BY NextKeepsInfosBehind
<1>3. Inv /\ InfosBehind => SkipsOnlyOutdated
  BY BehindIsHonest
<1> QED BY <1>1, <1>2, <1>3, Invariance, PTL DEF Spec

-----------------------------------------------------------------------------
(* CalcRestorePlan. *)

(* The files of a level and of those above it. *)
From(level) == {f \in remote : f.level >= level}

(* The files of a level beyond prev follow one another if the level holds all
   that lies between prev and them. *)
LEMMA BeyondIsAppendable ==
  ASSUME Inv, NEW level \in 0..MaxLevel, NEW prev \in 0..MaxTX,
         \A f \in At(level) : \A t \in (prev + 1)..f.max :
           \E g \in At(level) : g.min <= t /\ t <= g.max
  PROVE  Appendable(prev, {f \in At(level) : f.max > prev})
<1> DEFINE a == {f \in At(level) : f.max > prev}
<1>1. /\ remote \subseteq File /\ a \in SUBSET File /\ level \in Int
      /\ level # SnapshotLevel
  BY LevelAssumption DEF Inv, TypeOK, At, SnapshotLevel
<1> SUFFICES ASSUME NEW f \in a
             PROVE  LET before == {g \in a : g.max < f.max}
                    IN  IsContiguous(IF before = {} THEN prev ELSE MaxTXID(before), f)
  BY DEF Appendable
<1> DEFINE before == {g \in a : g.max < f.max}
           m == IF before = {} THEN prev ELSE MaxTXID(before)
<1>2. before \in SUBSET File
  BY <1>1
<1>3. /\ m \in 0..MaxTX /\ prev <= m /\ m < f.max
      /\ \A g \in before : g.max <= m
  <2>1. CASE before = {}
    BY <2>1, <1>1 DEF File
  <2>2. CASE before # {}
    <3>1. PICK g \in before : g.max = MaxTXID(before)
      BY <1>2, <2>2, MaxTXIDIsGreatest
    <3>2. \A h \in before : h.max <= MaxTXID(before)
      BY <1>2, MaxTXIDIsGreatest
    <3>3. g.max \in 1..MaxTX /\ prev < g.max /\ g.max < f.max
      BY <1>1, <1>2, <3>1 DEF File
    <3> QED BY <2>2, <3>1, <3>2, <3>3
  <2> QED BY <2>1, <2>2
<1>4. /\ f \in remote /\ f.level = level /\ f.max \in 1..MaxTX /\ f.min \in 1..MaxTX
      /\ f.min <= f.max
  BY <1>1 DEF At, File, Inv, RemoteOK, WellFormed
<1>5. f.min <= m + 1
  <2> SUFFICES ASSUME f.min > m + 1 PROVE FALSE
    BY <1>3, <1>4
  <2>1. m + 1 \in (prev + 1)..f.max
    BY <1>3, <1>4
  <2>2. PICK g \in At(level) : g.min <= m + 1 /\ m + 1 <= g.max
    BY <2>1
  <2>3. g.min \in 1..MaxTX /\ g.max \in 1..MaxTX
    BY <1>1, <2>2 DEF At, File
  <2>4. g \in remote /\ g.level = level
    BY <2>2 DEF At
  <2>5. g # f /\ ~(f.max < g.min)
    BY <1>3, <1>4, <2>2, <2>3
  <2>6. g.max < f.min
    BY <1>1, <1>4, <2>2, <2>4, <2>5 DEF Inv, RemoteOK, Disjoint
  <2>7. g \in before
    BY <1>3, <1>4, <2>2, <2>3, <2>4, <2>6 DEF At
  <2> QED BY <1>3, <2>2, <2>3, <2>7
<1>6. IsContiguous(m, f)
  BY <1>3, <1>5 DEF IsContiguous
<1> QED BY <1>6

(* So listing one more level brings the plan to the end of that level and of
   those above it. *)
LEMMA PlanReachesLevel ==
  ASSUME Inv, NEW level \in 0..MaxLevel, NEW prev,
         prev = MaxTXID({f \in remote : f.level > level})
  PROVE  PlanEnd(prev, level, 0) = MaxTXID(From(level))
<1> DEFINE above == {f \in remote : f.level > level}
           a == {f \in At(level) : f.max > prev}
<1>1. /\ above \in SUBSET File /\ a \in SUBSET File /\ From(level) \in SUBSET File
      /\ Matching(level, 0) = At(level)
  BY DEF Inv, TypeOK, At, Matching, From
<1>2. /\ prev \in 0..MaxTX /\ \A f \in above : f.max <= prev
      /\ above # {} => \E f \in above : f.max = prev
      /\ above = {} => prev = 0
  BY <1>1, MaxTXIDIsGreatest
<1>3. Appendable(prev, a)
  <2> SUFFICES ASSUME NEW f \in At(level), NEW t \in (prev + 1)..f.max
               PROVE  \E g \in At(level) : g.min <= t /\ t <= g.max
    BY <1>2, BeyondIsAppendable
  <2>1. f \in remote /\ f.level = level /\ f.max \in 1..MaxTX /\ t \in 1..f.max /\ prev < t
    BY <1>2 DEF At, Inv, TypeOK, File
  <2>2. PICK g \in remote : g.level >= level /\ g.min <= t /\ t <= g.max
    BY <2>1 DEF Inv, RemoteOK, HistoryCovered
  <2>3. g.level \in Int /\ g.max \in 1..MaxTX
    BY <2>2, LevelAssumption DEF Inv, TypeOK, File, Levels, SnapshotLevel
  <2>4. ~(g.level > level)
    BY <1>2, <2>1, <2>2, <2>3
  <2> QED BY <2>2, <2>3, <2>4 DEF At
<1>4. PlanEnd(prev, level, 0) = IF a = {} THEN prev ELSE MaxTXID(a)
  <2>1. prev # -1
    BY <1>2
  <2>2. {f \in Matching(level, 0) : f.max > prev} = a
    BY <1>1
  <2> HIDE DEF a
  <2> QED BY <1>3, <2>1, <2>2 DEF PlanEnd
<1>5. /\ MaxTXID(From(level)) \in 0..MaxTX
      /\ \A f \in From(level) : f.max <= MaxTXID(From(level))
      /\ From(level) # {} => \E f \in From(level) : f.max = MaxTXID(From(level))
      /\ From(level) = {} => MaxTXID(From(level)) = 0
  BY <1>1, MaxTXIDIsGreatest
<1>6. \A f \in From(level) : (f \in above \/ f \in At(level)) /\ f.max \in 1..MaxTX
  <2> SUFFICES ASSUME NEW f \in From(level)
               PROVE  (f \in above \/ f \in At(level)) /\ f.max \in 1..MaxTX
    OBVIOUS
  <2>1. f \in File /\ f \in remote /\ f.level >= level /\ f.level \in Int
    BY <1>1, LevelAssumption DEF From, File, Levels, SnapshotLevel
  <2> QED BY <2>1 DEF At, File
<1>7. above \subseteq From(level) /\ a \subseteq From(level)
  BY <1>1, LevelAssumption DEF At, From, File, Levels, SnapshotLevel
<1>8. CASE a = {}
  <2>1. \A f \in From(level) : f.max <= prev
    BY <1>2, <1>6, <1>8
  <2>2. prev # 0 => \E f \in From(level) : f.max = prev
    BY <1>2, <1>7
  <2> QED BY <1>2, <1>4, <1>5, <1>8, <2>1, <2>2
<1>9. CASE a # {}
  <2>1. /\ MaxTXID(a) \in 0..MaxTX
        /\ \A f \in a : f.max <= MaxTXID(a)
        /\ \E f \in a : f.max = MaxTXID(a)
    BY <1>1, <1>9, MaxTXIDIsGreatest
  <2>2. PICK g \in a : g.max = MaxTXID(a)
    BY <2>1
  <2>3. g.max > prev /\ g \in From(level)
    BY <1>7, <2>2
  <2>4. \A f \in From(level) : f.max <= MaxTXID(a)
    <3> SUFFICES ASSUME NEW f \in From(level) PROVE f.max <= MaxTXID(a)
      OBVIOUS
    <3>1. prev \in Int /\ MaxTXID(a) \in Int /\ prev < MaxTXID(a)
      BY <1>2, <2>1, <2>2, <2>3
    <3>2. CASE f \in above
      BY <1>2, <1>6, <3>1, <3>2
    <3>3. CASE f \in At(level)
      <4>1. CASE f.max > prev
        <5>1. f \in a
          BY <3>3, <4>1
        <5> QED BY <2>1, <5>1
      <4>2. CASE ~(f.max > prev)
        BY <1>6, <3>1, <4>2
      <4> QED BY <4>1, <4>2
    <3> QED BY <1>6, <3>2, <3>3
  <2> QED BY <1>4, <1>5, <1>9, <2>1, <2>2, <2>3, <2>4
<1> QED BY <1>8, <1>9

(* The plan of CalcRestorePlan as a recursive equation. *)
IsPlan(p) ==
  p = [l \in 0..MaxLevel |->
         PlanEnd(IF l = MaxLevel THEN MaxTXID(Matching(SnapshotLevel, 0)) ELSE p[l + 1], l, 0)]

LEMMA PlanReachesLatest ==
  ASSUME Inv
  PROVE  RestoreReachesLatest
<1> DEFINE reach == [l \in 0..MaxLevel |-> MaxTXID(From(l))]
<1>1. MaxLevel \in 1..8 /\ \A f \in remote : f.level \in (0..MaxLevel) \cup {9}
  BY LevelAssumption DEF Inv, TypeOK, File, Levels, SnapshotLevel
<1>2. /\ {f \in remote : f.level > MaxLevel} = Matching(SnapshotLevel, 0)
      /\ From(0) = remote
  BY <1>1 DEF Matching, At, SnapshotLevel, From
<1>3. \A l \in 0..MaxLevel : l # MaxLevel => {f \in remote : f.level > l} = From(l + 1)
  BY <1>1 DEF From
<1>4. ASSUME NEW p, NEW l \in 0..MaxLevel, l # MaxLevel => p[l + 1] = MaxTXID(From(l + 1))
      PROVE  PlanEnd(IF l = MaxLevel THEN MaxTXID(Matching(SnapshotLevel, 0)) ELSE p[l + 1], l, 0)
               = MaxTXID(From(l))
  <2>1. (IF l = MaxLevel THEN MaxTXID(Matching(SnapshotLevel, 0)) ELSE p[l + 1])
          = MaxTXID({f \in remote : f.level > l})
    BY <1>2, <1>3, <1>4
  <2> QED BY <2>1, PlanReachesLevel
<1>5. IsPlan(reach)
  <2>1. \A l \in 0..MaxLevel : l # MaxLevel => reach[l + 1] = MaxTXID(From(l + 1))
    BY <1>1
  <2>2. \A l \in 0..MaxLevel :
          PlanEnd(IF l = MaxLevel THEN MaxTXID(Matching(SnapshotLevel, 0)) ELSE reach[l + 1], l, 0)
            = MaxTXID(From(l))
    BY <1>4, <2>1
  <2> QED BY <2>2 DEF IsPlan
<1>6. ASSUME NEW p, IsPlan(p)
      PROVE  p[0] = MaxTXID(remote)
  <2> DEFINE wrong == {l \in 0..MaxLevel : p[l] # MaxTXID(From(l))}
  <2>1. ASSUME wrong # {} PROVE FALSE
    <3>1. PICK l \in wrong : \A k \in wrong : k <= l
      BY <1>1, <2>1, BoundedSetHasGreatest
    <3>2. l # MaxLevel => p[l + 1] = MaxTXID(From(l + 1))
      BY <1>1, <3>1
    <3>3. p[l] = MaxTXID(From(l))
      BY <1>4, <1>6, <3>2 DEF IsPlan
    <3> QED BY <3>1, <3>3
  <2> QED BY <1>1, <1>2, <2>1
<1>7. PlanMax(0) = MaxTXID(remote)
  BY <1>5, <1>6 DEF PlanMax, IsPlan
<1> QED BY <1>7 DEF RestoreReachesLatest

(* At any moment, for any number of levels and after any fault, CalcRestorePlan
   without a target finds no gap and ends at the last transaction the replica
   holds. *)
THEOREM RestoreAlwaysReachesLatest == Spec => []RestoreReachesLatest
<1>1. Inv => RestoreReachesLatest
  BY PlanReachesLatest
<1> QED BY <1>1, Invariance, PTL

-----------------------------------------------------------------------------
(* What DB.Compact merges. *)

(* L0 holds every transaction that L1 has not taken. *)
L0Complete ==
  \A f \in At(0) : \A t \in 1..f.max :
    (\A g \in At(1) : g.max < t) => L0File(t) \in remote

(* L0 is pruned only below the end of L1. *)
PrunedBelowL1 ==
  /\ \A d \in del[0] : \E c \in At(1) : c.max >= d.max
  /\ l0ret # 0 => \E c \in At(1) : c.max >= l0ret

(* The file that L1 is about to get begins where L1 ends. *)
L1JobFollows ==
  job[1] # NoInfo => job[1].min = 1 \/ \E h \in At(1) : h.max = job[1].min - 1

(* Retention takes the files of L1 from the oldest on. *)
L1DeletedInOrder ==
  \A d \in del[1] : \A f \in At(1) : f.max < d.max => f \in del[1]

(* The chain of files from L0 to L1 and within L1. *)
ChainOK ==
  /\ L0Complete /\ PrunedBelowL1
  /\ L1JobFollows /\ L1DeletedInOrder /\ Consecutive(At(1))

(* Files of a level have their types; MaxTXID is where the level ends. *)
LEMMA LevelFiles ==
  ASSUME Inv, NEW l \in {0, 1}
  PROVE  /\ At(l) \in SUBSET File
         /\ \A f \in At(l) : f \in remote /\ f.level = l /\ f.min \in 1..MaxTX
                             /\ f.max \in 1..MaxTX /\ f.min <= f.max
         /\ \A f, g \in At(l) : f = g \/ f.max < g.min \/ g.max < f.min
  BY LevelAssumption
  DEF Inv, TypeOK, File, At, RemoteOK, WellFormed, Disjoint, SnapshotLevel

(* Level 0 holds nothing but single transactions. *)
LEMMA L0FilesAreSingle ==
  ASSUME Inv, NEW f \in At(0)
  PROVE  f.min = f.max /\ f = L0File(f.max)
<1>1. f \in File /\ f.level = 0 /\ f.min = f.max /\ f.max \in 1..MaxTX
  BY LevelFiles DEF At, Inv, RemoteOK, WellFormed
<1>2. L0File(f.max) \in File
  BY <1>1, LevelAssumption DEF L0File, File, Levels
<1> QED BY <1>1, <1>2, FileExtensional DEF L0File

(* The steps that leave L0 and L1 as they are, at most giving up what was
   planned for them, keep the chain. *)
LEMMA SameLowLevels ==
  ASSUME ChainOK, At(0)' = At(0), At(1)' = At(1),
         job'[1] \in {job[1], NoInfo}, l0ret' \in {l0ret, 0},
         del'[0] \in {del[0], {}}, del'[1] \in {del[1], {}}
  PROVE  ChainOK'
<1>1. L0Complete'
  <2>1. \A t : L0File(t).level = 0
    BY DEF L0File
  <2> QED BY <2>1 DEF ChainOK, L0Complete, At, L0File
<1>2. PrunedBelowL1'
  BY DEF ChainOK, PrunedBelowL1
<1>3. L1JobFollows'
  BY DEF ChainOK, L1JobFollows
<1>4. L1DeletedInOrder'
  BY DEF ChainOK, L1DeletedInOrder
<1>5. Consecutive(At(1))'
  BY DEF ChainOK, Consecutive
<1> QED BY <1>1, <1>2, <1>3, <1>4, <1>5 DEF ChainOK

(* An upload extends L0 by the TXID after the position, up to which L0 has all
   that L1 lacks. *)
LEMMA UploadKeepsChain ==
  ASSUME Inv, ChainOK, rpos + 1 <= MaxTX,
         remote' = remote \cup {L0File(rpos + 1)},
         job' = job, l0ret' = l0ret, del' = del
  PROVE  ChainOK'
<1>1. /\ L0File(rpos + 1).level = 0 /\ L0File(rpos + 1).max = rpos + 1
      /\ rpos \in 0..MaxTX
  BY DEF L0File, Inv, TypeOK
<1>2. At(1)' = At(1) /\ At(0)' = At(0) \cup {L0File(rpos + 1)}
  BY <1>1 DEF At
<1>3. ASSUME NEW f \in At(0)', NEW t \in 1..f.max, \A g \in At(1)' : g.max < t
      PROVE  L0File(t) \in remote'
  <2>1. CASE f \in At(0)
    BY <1>2, <1>3, <2>1 DEF ChainOK, L0Complete
  <2>2. CASE f = L0File(rpos + 1) /\ t = rpos + 1
    BY <2>2
  <2>3. CASE f = L0File(rpos + 1) /\ t <= rpos
    <3>1. PICK h \in remote : h.level = 0 /\ h.max >= rpos
      BY <1>1, <1>3, <2>3 DEF Inv, RposHeld
    <3>2. h \in At(0) /\ h.max \in 1..MaxTX
      BY <3>1, LevelFiles DEF At
    <3>3. t \in 1..h.max
      BY <1>1, <1>3, <2>3, <3>1, <3>2
    <3> QED BY <1>2, <1>3, <3>2, <3>3 DEF ChainOK, L0Complete
  <2>4. t \in Int /\ (f = L0File(rpos + 1) => t <= rpos + 1)
    BY <1>1, <1>3
  <2> QED BY <1>1, <1>2, <2>1, <2>2, <2>3, <2>4
<1>4. L0Complete'
  BY <1>3 DEF L0Complete
<1>5. /\ PrunedBelowL1' /\ L1JobFollows' /\ L1DeletedInOrder'
  BY <1>2 DEF ChainOK, PrunedBelowL1, L1JobFollows, L1DeletedInOrder
<1>6. Consecutive(At(1))'
  BY <1>2 DEF ChainOK, Consecutive
<1> QED BY <1>4, <1>5, <1>6 DEF ChainOK

(* L1 gets a file that begins where it ended. *)
LEMMA L1WriteKeepsChain ==
  ASSUME Inv, ChainOK, job[1] # NoInfo, remote' = remote \cup {Written(1)},
         job'[1] = NoInfo, del' = del, l0ret' \in {l0ret, job[1].max}
  PROVE  ChainOK'
<1> DEFINE c == Written(1)
<1>1. 1 \in CompactionLevels
  BY LevelAssumption DEF CompactionLevels
<1>2. /\ c.level = 1 /\ c.min = job[1].min /\ c.max = job[1].max
      /\ c.min \in 1..MaxTX /\ c.max \in 1..MaxTX /\ c.min <= c.max
      /\ \A f \in At(1) : f.max < c.min
  BY <1>1 DEF Written, Inv, TypeOK, Info, JobOK, JobAfterLevel, At
<1> HIDE DEF c
<1>3. At(0)' = At(0) /\ At(1)' = At(1) \cup {c} /\ c \in At(1)'
  BY <1>2 DEF At, c
<1>4. \A f \in At(1) : f.min \in 1..MaxTX /\ f.max \in 1..MaxTX /\ f.min <= f.max
  BY LevelFiles
<1>5. L0Complete'
  BY <1>3 DEF ChainOK, L0Complete
<1>6. PrunedBelowL1'
  <2>1. \A d \in del'[0] : \E e \in At(1)' : e.max >= d.max
    BY <1>3 DEF ChainOK, PrunedBelowL1
  <2>2. CASE l0ret' = job[1].max
    BY <1>2, <1>3, <2>1, <2>2 DEF PrunedBelowL1
  <2>3. CASE l0ret' = l0ret
    BY <1>3, <2>1, <2>3 DEF ChainOK, PrunedBelowL1
  <2> QED BY <2>2, <2>3
<1>7. L1JobFollows'
  BY DEF L1JobFollows
<1>8. L1DeletedInOrder'
  <2> SUFFICES ASSUME NEW d \in del[1], NEW f \in At(1)', f.max < d.max
               PROVE  f \in del[1]
    BY DEF L1DeletedInOrder
  <2>1. PICK h \in remote : h.level = 1 /\ h.max >= d.max
    BY LevelAssumption DEF Inv, DelOK, DelNotLast, Levels
  <2>2. d \in File /\ d.max \in 1..MaxTX
    BY LevelAssumption DEF Inv, TypeOK, File, Levels
  <2>3. h \in At(1) /\ h.max < c.min
    BY <1>2, <2>1 DEF At
  <2>4. f # c
    BY <1>2, <1>4, <2>1, <2>2, <2>3
  <2> QED BY <1>3, <2>4 DEF ChainOK, L1DeletedInOrder
<1>9. Consecutive(At(1))'
  <2> SUFFICES ASSUME NEW f \in At(1)'
               PROVE  \/ \A g \in At(1)' : f.min <= g.min
                      \/ \E g \in At(1)' : g.max = f.min - 1
    BY DEF Consecutive
  <2>1. CASE f = c /\ c.min = 1
    BY <1>2, <1>3, <1>4, <2>1
  <2>2. CASE f = c /\ c.min # 1
    BY <1>2, <1>3, <2>2 DEF ChainOK, L1JobFollows
  <2>3. CASE f \in At(1)
    <3>1. f.min <= c.min
      BY <1>2, <1>4, <2>3
    <3>2. \/ \A g \in At(1) : f.min <= g.min
          \/ \E g \in At(1) : g.max = f.min - 1
      BY <2>3 DEF ChainOK, Consecutive
    <3> QED BY <1>3, <3>1, <3>2
  <2> QED BY <1>3, <2>1, <2>2, <2>3
<1> QED BY <1>5, <1>6, <1>7, <1>8, <1>9 DEF ChainOK

(* L1's next file begins at the first transaction that L1 lacks. *)
LEMMA L1StartKeepsChain ==
  ASSUME Inv, ChainOK, CompactStart(1)
  PROVE  ChainOK'
<1> DEFINE in == CompactInputs(1)
           seek == MaxTXID(At(1)) + 1
<1>1. /\ remote' = remote /\ del' = del /\ l0ret' = l0ret
  BY DEF CompactStart
<1>2. PICK f \in in : \E g \in in :
        /\ \A h \in in : f.min <= h.min /\ h.max <= g.max
        /\ job' = [job EXCEPT ![1] = [min |-> f.min, max |-> g.max]]
  BY DEF CompactStart
<1>3. job'[1].min = f.min /\ \A h \in in : f.min <= h.min
  <2>1. job \in [CompactionLevels -> Info \cup {NoInfo}] /\ 1 \in CompactionLevels
    BY LevelAssumption DEF Inv, TypeOK, CompactionLevels
  <2> HIDE DEF in
  <2> QED BY <1>2, <2>1
<1>4. /\ MaxTXID(At(1)) \in 0..MaxTX
      /\ \A h \in At(1) : h.max <= MaxTXID(At(1))
      /\ At(1) # {} => \E h \in At(1) : h.max = MaxTXID(At(1))
      /\ At(1) = {} => MaxTXID(At(1)) = 0
  BY LevelFiles, MaxTXIDIsGreatest
<1>5. /\ f \in At(0) /\ f.min >= seek /\ f.min = f.max /\ f.max \in 1..MaxTX
  <2>1. f \in At(0) /\ (f.min = seek \/ f.min >= seek)
    BY <1>2, <1>4 DEF CompactInputs, LTXFiles
  <2> QED BY <1>4, <2>1, LevelFiles, L0FilesAreSingle
<1>6. f.min = seek
  <2>1. seek \in 1..f.max /\ \A g \in At(1) : g.max < seek
    BY <1>4, <1>5, LevelFiles
  <2>2. L0File(seek) \in remote
    BY <1>5, <2>1 DEF ChainOK, L0Complete
  <2>3. L0File(seek) \in in /\ L0File(seek).min = seek
    BY <1>4, <2>2 DEF CompactInputs, LTXFiles, At, L0File
  <2>4. f.min <= seek
    BY <1>3, <2>3
  <2> QED BY <1>4, <1>5, <2>4
<1>7. L1JobFollows'
  <2>1. At(1)' = At(1)
    BY <1>1 DEF At
  <2>2. CASE At(1) = {}
    BY <1>3, <1>4, <1>6, <2>2 DEF L1JobFollows
  <2>3. CASE At(1) # {}
    <3>1. PICK h \in At(1) : h.max = MaxTXID(At(1))
      BY <1>4, <2>3
    <3>2. h.max = job'[1].min - 1
      BY <1>3, <1>4, <1>6, <3>1
    <3> QED BY <2>1, <3>1, <3>2 DEF L1JobFollows
  <2> QED BY <2>2, <2>3
<1> QED BY <1>1, <1>7
        DEF ChainOK, L0Complete, PrunedBelowL1, L1DeletedInOrder, Consecutive, At

(* Listing what retention deletes from L0 or L1. *)
LEMMA ListingKeepsChain ==
  ASSUME Inv, ChainOK, L0Retention \/ LevelRetention
  PROVE  ChainOK'
<1>1. /\ remote' = remote /\ job' = job /\ At(0)' = At(0) /\ At(1)' = At(1)
  BY DEF L0Retention, LevelRetention, compactors, At
<1>2. del \in [Levels -> SUBSET File] /\ 0 \in Levels /\ 1 \in Levels
  BY LevelAssumption DEF Inv, TypeOK, Levels
<1>3. CASE L0Retention
  <2>1. /\ l0ret # 0 /\ l0ret' = 0 /\ l0ret \in 1..MaxTX
        /\ del'[0] = BelowTXID(0, l0ret) /\ del'[1] = del[1]
    BY <1>2, <1>3 DEF L0Retention, Inv, TypeOK
  <2>2. PICK c \in At(1) : c.max >= l0ret
    BY <2>1 DEF ChainOK, PrunedBelowL1
  <2>3. \A d \in del'[0] : c.max >= d.max
    <3>1. c.max \in 1..MaxTX
      BY <2>2, LevelFiles
    <3> SUFFICES ASSUME NEW d \in BelowTXID(0, l0ret) PROVE c.max >= d.max
      BY <2>1
    <3>2. d.max < l0ret /\ d \in At(0)
      BY DEF BelowTXID
    <3>3. d.max \in 1..MaxTX
      BY <3>2, LevelFiles
    <3> QED BY <2>1, <2>2, <3>1, <3>2, <3>3
  <2>4. PrunedBelowL1'
    BY <1>1, <2>1, <2>2, <2>3 DEF PrunedBelowL1
  <2> QED BY <1>1, <2>1, <2>4
          DEF ChainOK, L0Complete, L1JobFollows, L1DeletedInOrder, Consecutive
<1>4. CASE LevelRetention /\ smlvl = 1
  <2>1. /\ l0ret' = l0ret /\ del'[0] = del[0] /\ del'[1] = BelowTXID(1, smtx)
    BY <1>2, <1>4 DEF LevelRetention, compactors
  <2>2. L1DeletedInOrder'
    <3> SUFFICES ASSUME NEW d \in BelowTXID(1, smtx), NEW f \in At(1), f.max < d.max
                 PROVE  f \in BelowTXID(1, smtx)
      BY <1>1, <2>1 DEF L1DeletedInOrder
    <3>1. /\ d \in At(1) /\ d.max < smtx /\ smtx \in 0..MaxTX
          /\ d.max \in 1..MaxTX /\ f.max \in 1..MaxTX
      BY LevelFiles DEF BelowTXID, Inv, TypeOK
    <3>2. \A g \in At(1) : g.max <= Last(At(1)).max
      BY <3>1, LevelFiles, LastEndsLast
    <3>3. Last(At(1)) \in At(1) /\ Last(At(1)).max \in 1..MaxTX
      BY <3>1, LevelFiles, LastEndsLast
    <3>4. f # Last(At(1))
      BY <3>1, <3>2, <3>3
    <3> QED BY <3>1, <3>4 DEF BelowTXID
  <2> QED BY <1>1, <2>1, <2>2
          DEF ChainOK, L0Complete, PrunedBelowL1, L1JobFollows, Consecutive
<1>5. CASE LevelRetention /\ smlvl # 1
  <2>1. smlvl # 0
    BY <1>5 DEF LevelRetention, Inv, RetentionOK, TypeOK
  <2>2. l0ret' = l0ret /\ del'[0] = del[0] /\ del'[1] = del[1]
    BY <1>2, <1>5, <2>1 DEF LevelRetention, compactors
  <2> QED BY <1>1, <2>2, SameLowLevels
<1> QED BY <1>3, <1>4, <1>5

(* A deletion from L0 takes what L1 holds. *)
LEMMA L0DeletionKeepsChain ==
  ASSUME Inv, ChainOK, DeleteNext(0)
  PROVE  ChainOK'
<1>1. PICK d \in del[0] : /\ remote' = remote \ {d}
                          /\ del' = [del EXCEPT ![0] = @ \ {d}]
                          /\ UNCHANGED <<writers, compactors, snapshotter>>
  BY DEF DeleteNext
<1>2. del \in [Levels -> SUBSET File] /\ 0 \in Levels /\ 1 \in Levels
  BY LevelAssumption DEF Inv, TypeOK, Levels
<1>3. /\ d.level = 0 /\ d \in File /\ d.max \in 1..MaxTX
  BY <1>2 DEF Inv, DelOK, File
<1>4. /\ del'[0] = del[0] \ {d} /\ del'[1] = del[1]
      /\ l0ret' = l0ret /\ job' = job
      /\ At(1)' = At(1) /\ At(0)' \subseteq At(0)
  BY <1>1, <1>2, <1>3 DEF At, compactors
<1>5. L0Complete'
  <2> SUFFICES ASSUME NEW f \in At(0)', NEW t \in 1..f.max, \A g \in At(1)' : g.max < t
               PROVE  L0File(t) \in remote'
    BY DEF L0Complete
  <2>1. L0File(t) \in remote
    BY <1>4 DEF ChainOK, L0Complete
  <2>2. PICK c \in At(1) : c.max >= d.max
    BY DEF ChainOK, PrunedBelowL1
  <2>3. c.max < t /\ c.max \in 1..MaxTX /\ t \in Int
    BY <1>4, <2>2, LevelFiles
  <2>4. L0File(t).max = t
    BY DEF L0File
  <2>5. L0File(t) # d
    BY <1>3, <2>2, <2>3, <2>4
  <2> QED BY <1>1, <2>1, <2>5
<1>6. PrunedBelowL1' /\ L1JobFollows' /\ L1DeletedInOrder' /\ Consecutive(At(1))'
  BY <1>4 DEF ChainOK, PrunedBelowL1, L1JobFollows, L1DeletedInOrder, Consecutive
<1> QED BY <1>5, <1>6 DEF ChainOK

(* A deletion from L1 takes its oldest file, and never its last. *)
LEMMA L1DeletionKeepsChain ==
  ASSUME Inv, ChainOK, DeleteNext(1)
  PROVE  ChainOK'
<1>1. PICK d \in del[1] : /\ \A g \in del[1] : d.max <= g.max
                          /\ remote' = remote \ {d}
                          /\ del' = [del EXCEPT ![1] = @ \ {d}]
                          /\ UNCHANGED <<writers, compactors, snapshotter>>
  BY DEF DeleteNext
<1>2. del \in [Levels -> SUBSET File] /\ 0 \in Levels /\ 1 \in Levels
  BY LevelAssumption DEF Inv, TypeOK, Levels
<1>3. /\ d.level = 1 /\ d \in File /\ d.max \in 1..MaxTX /\ d.min \in 1..MaxTX
  BY <1>2 DEF Inv, DelOK, File
<1>4. /\ del'[1] = del[1] \ {d} /\ del'[0] = del[0]
      /\ l0ret' = l0ret /\ job' = job
      /\ At(0)' = At(0) /\ At(1)' = At(1) \ {d}
  BY <1>1, <1>2, <1>3 DEF At, compactors
<1>5. PICK h \in At(1) : h # d /\ h.max >= d.max
  BY <1>2 DEF Inv, DelOK, DelNotLast, At
<1>6. h \in At(1)' /\ h.max \in 1..MaxTX
  BY <1>4, <1>5, LevelFiles
<1>7. \A f \in At(1) : /\ f.min \in 1..MaxTX /\ f.max \in 1..MaxTX /\ f.min <= f.max
                       /\ \A g \in At(1) : f = g \/ f.max < g.min \/ g.max < f.min
  BY LevelFiles
<1>8. L0Complete'
  <2> SUFFICES ASSUME NEW f \in At(0)', NEW t \in 1..f.max, \A g \in At(1)' : g.max < t
               PROVE  L0File(t) \in remote'
    BY DEF L0Complete
  <2>1. \A g \in At(1) : g.max < t
    <3>1. h.max < t /\ t \in Int
      BY <1>6
    <3>2. d.max < t
      BY <1>3, <1>5, <1>6, <3>1
    <3> QED BY <1>4, <3>2
  <2>2. L0File(t) \in remote /\ L0File(t).level = 0
    BY <1>4, <2>1 DEF ChainOK, L0Complete, L0File
  <2> QED BY <1>1, <1>3, <2>2
<1>9. PrunedBelowL1'
  <2>1. ASSUME NEW x \in Int, NEW c \in At(1), c.max >= x
        PROVE  \E e \in At(1)' : e.max >= x
    BY <1>3, <1>4, <1>5, <1>6, <1>7, <2>1
  <2>2. \A x \in del[0] : x.max \in Int
    BY <1>2 DEF File
  <2>3. l0ret \in Int
    BY DEF Inv, TypeOK
  <2> QED BY <1>4, <2>1, <2>2, <2>3 DEF ChainOK, PrunedBelowL1
<1>10. L1JobFollows'
  <2> SUFFICES ASSUME job[1] # NoInfo, job[1].min # 1
               PROVE  \E e \in At(1)' : e.max = job[1].min - 1
    BY <1>4 DEF L1JobFollows
  <2>1. PICK e \in At(1) : e.max = job[1].min - 1
    BY DEF ChainOK, L1JobFollows
  <2>2. h.max < job[1].min /\ job[1].min \in Int
    BY <1>5, LevelAssumption
    DEF Inv, TypeOK, Info, JobOK, JobAfterLevel, CompactionLevels, At
  <2>3. CASE e = d
    <3>1. h.max = job[1].min - 1
      BY <1>5, <1>6, <2>1, <2>2, <2>3
    <3> QED BY <1>6, <3>1
  <2>4. CASE e # d
    BY <1>4, <2>1, <2>4
  <2> QED BY <2>3, <2>4
<1>11. L1DeletedInOrder'
  BY <1>4 DEF ChainOK, L1DeletedInOrder
<1>12. Consecutive(At(1))'
  <2>0. CASE d \notin At(1)
    BY <1>4, <2>0 DEF ChainOK, Consecutive
  <2> SUFFICES ASSUME d \in At(1) PROVE Consecutive(At(1))'
    BY <2>0
  <2>1. ASSUME NEW f \in At(1), f # d PROVE f.max > d.max
    <3>1. CASE f.max < d.max
      <4>1. f \in del[1]
        BY <3>1 DEF ChainOK, L1DeletedInOrder
      <4> QED BY <1>1, <1>3, <1>7, <3>1, <4>1
    <3>2. CASE f.max = d.max
      BY <1>3, <1>7, <2>1, <3>2
    <3> QED BY <1>3, <1>7, <3>1, <3>2
  <2> SUFFICES ASSUME NEW f \in At(1)'
               PROVE  \/ \A g \in At(1)' : f.min <= g.min
                      \/ \E g \in At(1)' : g.max = f.min - 1
    BY DEF Consecutive
  <2>2. \/ \A g \in At(1) : f.min <= g.min
        \/ \E g \in At(1) : g.max = f.min - 1
    BY <1>4 DEF ChainOK, Consecutive
  <2>3. CASE d.max = f.min - 1
    <3> SUFFICES ASSUME NEW g \in At(1)' PROVE f.min <= g.min
      OBVIOUS
    <3>1. g.max > d.max
      BY <1>4, <2>1
    <3> QED BY <1>3, <1>4, <1>7, <2>3, <3>1
  <2>4. CASE d.max # f.min - 1
    BY <1>4, <2>2, <2>4
  <2> QED BY <2>3, <2>4
<1> QED BY <1>8, <1>9, <1>10, <1>11, <1>12 DEF ChainOK

(* Every step keeps the chain. *)
LEMMA NextKeepsChain ==
  ASSUME Inv, ChainOK, [Next]_vars
  PROVE  ChainOK'
<1>1. /\ del \in [Levels -> SUBSET File] /\ 0 \in Levels /\ 1 \in Levels
      /\ job \in [CompactionLevels -> Info \cup {NoInfo}] /\ 1 \in CompactionLevels
      /\ SnapshotLevel \notin {0, 1}
  BY LevelAssumption DEF Inv, TypeOK, Levels, CompactionLevels, SnapshotLevel
<1>2. CASE \/ UNCHANGED vars
           \/ DBSync \/ DBSyncFail \/ SyncStart \/ SyncClearedByOther
           \/ \E dst \in CompactionLevels : MaxLTXFileInfo(dst)
           \/ SnapshotStart \/ RetentionDone
  <2>1. remote' = remote /\ job' = job /\ l0ret' = l0ret /\ del' = del
    BY <1>2 DEF vars, writers, compactors, snapshotter, DBSync, DBSyncFail, SyncStart,
                SyncClearedByOther, MaxLTXFileInfo, SnapshotStart, RetentionDone
  <2> QED BY <2>1, SameLowLevels DEF At
<1>3. CASE SyncUpload
  <2>1. rpos + 1 <= MaxTX
    BY <1>3, TXAssumption DEF SyncUpload, Inv, TypeOK
  <2> QED BY <1>3, <2>1, UploadKeepsChain DEF SyncUpload, compactors
<1>4. CASE SyncAborted
  <2>1. job' = job /\ l0ret' = l0ret /\ del' = del
    BY <1>4 DEF SyncAborted, compactors
  <2>2. CASE remote' = remote
    BY <2>1, <2>2, SameLowLevels DEF At
  <2>3. CASE rpos + 1 <= dpos /\ remote' = remote \cup {L0File(rpos + 1)}
    <3>1. rpos + 1 <= MaxTX
      BY <2>3, TXAssumption DEF Inv, TypeOK
    <3> QED BY <2>1, <2>3, <3>1, UploadKeepsChain
  <2> QED BY <1>4, <2>2, <2>3 DEF SyncAborted
<1>5. ASSUME NEW dst \in CompactionLevels, CompactStart(dst), dst # 1
      PROVE  ChainOK'
  <2>1. remote' = remote /\ l0ret' = l0ret /\ del' = del
    BY <1>5 DEF CompactStart
  <2>2. job'[1] = job[1]
    BY <1>1, <1>5 DEF CompactStart
  <2> QED BY <2>1, <2>2, SameLowLevels DEF At
<1>6. ASSUME NEW dst \in CompactionLevels, CompactWrite(dst) \/ CompactFail(dst)
      PROVE  ChainOK'
  <2>1. /\ job[dst] # NoInfo /\ job' = [job EXCEPT ![dst] = NoInfo] /\ del' = del
        /\ remote' = remote \/ remote' = remote \cup {Written(dst)}
        /\ \/ l0ret' = l0ret
           \/ dst = 1 /\ remote' = remote \cup {Written(dst)} /\ l0ret' = job[1].max
    BY <1>6 DEF CompactWrite, CompactFail
  <2>2. Written(dst).level = dst /\ dst >= 1
    BY DEF Written, CompactionLevels
  <2>3. CASE dst = 1 /\ remote' = remote \cup {Written(dst)}
    BY <1>1, <2>1, <2>3, L1WriteKeepsChain
  <2>4. CASE remote' = remote /\ l0ret' = l0ret
    <3>1. job'[1] \in {job[1], NoInfo}
      BY <1>1, <2>1
    <3> QED BY <2>1, <2>4, <3>1, SameLowLevels DEF At
  <2>5. CASE dst # 1 /\ remote' = remote \cup {Written(dst)}
    <3>1. At(0)' = At(0) /\ At(1)' = At(1)
      BY <2>2, <2>5 DEF At, CompactionLevels
    <3>2. job'[1] = job[1] /\ l0ret' = l0ret
      BY <1>1, <2>1, <2>5
    <3> QED BY <2>1, <3>1, <3>2, SameLowLevels
  <2> QED BY <2>1, <2>3, <2>4, <2>5
<1>7. CASE L0Retention \/ LevelRetention
  BY <1>7, ListingKeepsChain
<1>8. CASE SnapshotWrite \/ SnapshotFail
  <2>1. /\ job' = job /\ l0ret' = l0ret /\ del' = del
        /\ remote' = remote \/ remote' = remote \cup {Snapshot}
    BY <1>8 DEF SnapshotWrite, SnapshotFail, compactors
  <2>2. Snapshot.level = SnapshotLevel
    BY DEF Snapshot
  <2>3. At(0)' = At(0) /\ At(1)' = At(1)
    BY <1>1, <2>1, <2>2 DEF At
  <2> QED BY <2>1, <2>3, SameLowLevels
<1>9. ASSUME NEW cut \in 0..(MaxTX + 1), ExpireSnapshots(cut)
      PROVE  ChainOK'
  <2>1. remote' = remote /\ job' = job /\ l0ret' = l0ret
    BY <1>9 DEF ExpireSnapshots, compactors
  <2>2. del'[0] = del[0] /\ del'[1] = del[1]
    BY <1>1, <1>9 DEF ExpireSnapshots
  <2> QED BY <2>1, <2>2, SameLowLevels DEF At
<1>10. ASSUME NEW level \in Levels, DeleteNext(level), level \notin {0, 1}
       PROVE  ChainOK'
  <2>1. PICK d \in del[level] : /\ remote' = remote \ {d}
                                /\ del' = [del EXCEPT ![level] = @ \ {d}]
                                /\ UNCHANGED <<writers, compactors, snapshotter>>
    BY <1>10 DEF DeleteNext
  <2>2. d.level = level
    BY <1>10 DEF Inv, DelOK
  <2>3. /\ At(0)' = At(0) /\ At(1)' = At(1) /\ job' = job /\ l0ret' = l0ret
        /\ del'[0] = del[0] /\ del'[1] = del[1]
    BY <1>1, <1>10, <2>1, <2>2 DEF At, compactors
  <2> QED BY <2>3, SameLowLevels
<1>11. ASSUME NEW level \in Levels, DeleteFail(level)
       PROVE  ChainOK'
  <2>1. /\ remote' = remote /\ job' = job /\ l0ret' = l0ret
        /\ del' = [del EXCEPT ![level] = {}]
    BY <1>11 DEF DeleteFail, compactors
  <2>2. del'[0] \in {del[0], {}} /\ del'[1] \in {del[1], {}}
    BY <1>1, <2>1
  <2> QED BY <2>1, <2>2, SameLowLevels DEF At
<1>12. CASE Crash
  <2>1. /\ remote' = remote /\ l0ret' = 0 /\ job'[1] = NoInfo
        /\ del'[0] = {} /\ del'[1] = {}
    BY <1>1, <1>12 DEF Crash
  <2> QED BY <2>1, SameLowLevels DEF At
<1> QED
  BY <1>2, <1>3, <1>4, <1>5, <1>6, <1>7, <1>8, <1>9, <1>10, <1>11, <1>12,
     L1StartKeepsChain, L0DeletionKeepsChain, L1DeletionKeepsChain
  DEF Next, SyncFail

(* The files that L1 merges, and those that L2 merges, follow one another. *)
LEMMA LowInputsFollow ==
  ASSUME Inv, ChainOK, NEW dst \in CompactionLevels, dst \in {1, 2}
  PROVE  Consecutive(CompactInputs(dst))
<1> DEFINE end == MaxTXID(At(dst))
<1>1. /\ end \in 0..MaxTX /\ \A e \in At(dst) : e.max <= end
      /\ At(dst) # {} => \E e \in At(dst) : e.max = end
      /\ At(dst) = {} => end = 0
  <2>1. At(dst) \in SUBSET File
    BY DEF At, Inv, TypeOK
  <2> QED BY <2>1, MaxTXIDIsGreatest
<1>2. \A f \in CompactInputs(dst) :
        f \in At(dst - 1) /\ (f.min >= end + 1) /\ (PrefixSeek => f.min = end + 1)
  BY <1>1 DEF CompactInputs, LTXFiles
<1>3. \A f \in At(dst - 1) : ~PrefixSeek /\ f.min >= end + 1 => f \in CompactInputs(dst)
  BY DEF CompactInputs, LTXFiles
<1>4. \A f \in At(dst - 1) : f.min \in 1..MaxTX /\ f.max \in 1..MaxTX /\ f.min <= f.max
  BY LevelFiles
<1> SUFFICES ASSUME NEW f \in CompactInputs(dst), NEW k \in CompactInputs(dst), k.min < f.min
             PROVE  \E g \in CompactInputs(dst) : g.max = f.min - 1
  <2>1. \A g \in CompactInputs(dst) : g.min \in Int
    BY <1>2, <1>4
  <2> QED BY <2>1 DEF Consecutive
<1>5. /\ f \in At(dst - 1) /\ k \in At(dst - 1) /\ ~PrefixSeek
      /\ k.min >= end + 1 /\ f.min >= end + 2
  <2>1. f.min \in Int /\ k.min \in Int
    BY <1>2, <1>4
  <2> QED BY <1>1, <1>2, <2>1
<1>6. CASE dst = 1
  <2>1. f.min - 1 \in 1..f.max /\ \A g \in At(1) : g.max < f.min - 1
    <3>1. \A g \in At(1) : g.max \in Int /\ g.max <= end
      BY <1>1, <1>6, LevelFiles
    <3> QED BY <1>1, <1>4, <1>5, <1>6, <3>1
  <2>2. L0File(f.min - 1) \in remote
    BY <1>5, <1>6, <2>1 DEF ChainOK, L0Complete
  <2>3. /\ L0File(f.min - 1) \in At(0)
        /\ L0File(f.min - 1).min = f.min - 1 /\ L0File(f.min - 1).max = f.min - 1
    BY <2>2 DEF At, L0File
  <2>4. f.min - 1 >= end + 1
    BY <1>1, <1>4, <1>5
  <2> QED BY <1>3, <1>5, <1>6, <2>3, <2>4
<1>7. CASE dst = 2
  <2>1. PICK g \in At(1) : g.max = f.min - 1
    <3>1. ~(f.min <= k.min)
      BY <1>4, <1>5
    <3> QED BY <1>5, <1>7, <3>1 DEF ChainOK, Consecutive
  <2>2. g.max >= end + 1 /\ g.min \in 1..MaxTX /\ g.max \in 1..MaxTX
    BY <1>1, <1>4, <1>5, <1>7, <2>1
  <2>3. g.min >= end + 1
    <3>1. CASE At(2) = {}
      BY <1>1, <1>7, <2>2, <3>1
    <3>2. CASE At(2) # {}
      <4>1. PICK e \in At(2) : e.max = end
        BY <1>1, <1>7, <3>2
      <4>2. g.max <= e.max \/ g.min > e.max
        BY <1>7, <2>1, <4>1 DEF Inv, RemoteOK, Nested, At
      <4> QED BY <1>1, <2>2, <4>1, <4>2
    <3> QED BY <3>1, <3>2
  <2> QED BY <1>3, <1>5, <1>7, <2>1, <2>3
<1> QED BY <1>6, <1>7

(* The chain holds whatever the number of levels. *)
THEOREM ChainInvariance == Spec => []ChainOK
<1>1. Init => ChainOK
  <2> SUFFICES ASSUME Init PROVE ChainOK
    OBVIOUS
  <2>1. At(0) = {} /\ At(1) = {} /\ l0ret = 0 /\ job[1] = NoInfo /\ del[0] = {} /\ del[1] = {}
    BY LevelAssumption DEF Init, At, Levels, CompactionLevels
  <2> QED BY <2>1 DEF ChainOK, L0Complete, PrunedBelowL1, L1JobFollows, L1DeletedInOrder,
                      Consecutive
<1>2. Inv /\ ChainOK /\ [Next]_vars => ChainOK'
  BY NextKeepsChain
<1> QED BY <1>1, <1>2, Invariance, PTL DEF Spec

(* With the two compaction levels of the default configuration, or with one,
   ltx.Compactor never rejects what DB.Compact gives it: for any number of
   transactions, either kind of seek, and whatever failed or was deleted
   before. *)
THEOREM CompactionNeverRejected ==
  ASSUME MaxLevel <= 2
  PROVE  Spec => []InputsConsecutive
<1>1. Inv /\ ChainOK => InputsConsecutive
  <2>1. CompactionLevels \subseteq {1, 2}
    BY LevelAssumption DEF CompactionLevels
  <2> QED BY <2>1, LowInputsFollow DEF InputsConsecutive
<1> QED BY <1>1, Invariance, ChainInvariance, PTL

-----------------------------------------------------------------------------
(* LTXRestore: the inductive invariant. *)

Holds(g, t) == g.min <= t /\ t <= g.max

(* What a running compaction writes is still in the level below, unless
   retention deleted it because a snapshot has it; L0 is not pruned then. *)
JobSourced ==
  /\ \A k \in CompactionLevels : job[k] # NoInfo =>
       \A t \in job[k].min..job[k].max :
         \/ \E s \in At(SnapshotLevel) : s.max >= t
         \/ \E g \in At(k - 1) : Holds(g, t)
  /\ job[1] # NoInfo => del[0] = {} /\ l0ret = 0

RTypeOK ==
  /\ rspc \in {"idle", "listing", "opening"}
  /\ rlvl \in 0..MaxLevel
  /\ infos \subseteq File
  /\ reached \in 0..MaxTX /\ goal \in 0..MaxTX

(* L0, which is listed last, reaches the goal if the plan does not yet. *)
GoalAhead ==
  /\ rspc = "listing" => reached >= goal \/ \E f \in At(0) : f.max >= goal
  /\ rspc = "opening" => reached >= goal

(* The plan has no hole. *)
PlanHolds ==
  rspc = "listing" => \A t \in 1..reached : \E f \in infos : Holds(f, t)

PlanKept == rspc # "idle" /\ ~moved => infos \subseteq remote

(* Compaction levels lv and above hold what lies between the plan and n. *)
HeldBeyond(lv, n) ==
  \A t \in 1..n : t > reached =>
    \E g \in remote : lv <= g.level /\ g.level <= MaxLevel /\ Holds(g, t)

(* A level holds what lies between the plan and the range of f. *)
HeldAt(level, f) ==
  \A t \in f.min..f.max : t <= reached \/ \E g \in At(level) : Holds(g, t)

(* The level from which a running compaction's file, or a file that came to a
   level after it was listed, can still be planned. *)
StillListed(k) == IF k <= rlvl THEN k - 1 ELSE rlvl

FilesHeld == \A f \in remote : f.level <= MaxLevel => HeldBeyond(f.level, f.max)

LateFilesHeld == \A k \in CompactionLevels : k > rlvl => \A f \in At(k) : HeldAt(rlvl, f)

JobsHeld ==
  \A k \in CompactionLevels : job[k] # NoInfo =>
    HeldBeyond(k, job[k].min - 1) /\ HeldAt(StillListed(k), job[k])

(* As long as nothing was deleted, compaction beside the listing hides nothing
   from it. *)
Settled == rspc = "listing" /\ ~moved => FilesHeld /\ LateFilesHeld /\ JobsHeld

RInv == RTypeOK /\ GoalAhead /\ PlanHolds /\ PlanKept /\ Settled

-----------------------------------------------------------------------------
(* The Store beside the restore. *)

(* A restore changes nothing of the replica: every step is a step of the Store
   or leaves its variables alone. *)
LEMMA StoreBeside ==
  ASSUME [RNext]_rvars
  PROVE  [Next]_vars
BY DEF RNext, rvars, StoreStep, RestoreStart, ListLevel, OpenFile, RestoreDone, ListGap,
       OpenMissing, NotAvailable, Return

(* With Replica.Restore beside it, the Store still does what LTXStore allows, so
   that all that is proved of LTXStore holds of the files a restore meets. *)
THEOREM ImplementsStore == RSpec => Spec
<1>1. RInit => Init
  BY DEF RInit
<1>2. [RNext]_rvars => [Next]_vars
  BY StoreBeside
<1> QED BY <1>1, <1>2, PTL DEF RSpec, Spec

(* Consecutive files hold everything from the first to the last of them. *)
LEMMA ConsecutiveHold ==
  ASSUME NEW in \in SUBSET File, Consecutive(in), NEW f \in in, NEW g \in in,
         \A h \in in : f.min <= h.min, \A h \in in : h.min <= h.max,
         NEW t \in f.min..g.max
  PROVE  \E h \in in : Holds(h, t)
<1>1. /\ \A h \in in : h.min \in 1..MaxTX /\ h.max \in 1..MaxTX
      /\ t \in Int /\ f.min <= t /\ t <= g.max
  BY DEF File
<1>2. CASE g.min <= t
  BY <1>1, <1>2 DEF Holds
<1>3. CASE g.min > t
  <2> DEFINE later == {x \in Nat : \E h \in in : h.min = x /\ x > t}
  <2>1. g.min \in later
    BY <1>1, <1>3
  <2>2. PICK x \in later : \A y \in later : x <= y
    <3>1. later \in SUBSET Nat /\ later # {}
      BY <2>1
    <3> HIDE DEF later
    <3> QED BY <3>1, NatSetHasLeast
  <2>3. PICK k \in in : k.min = x /\ x > t
    BY <2>2
  <2>4. ~(k.min <= f.min)
    BY <1>1, <2>3
  <2>5. PICK p \in in : p.max = k.min - 1
    BY <2>3, <2>4 DEF Consecutive
  <2>6. p.min <= p.max /\ p.min < x /\ t <= p.max
    BY <1>1, <2>3, <2>5
  <2>7. ~(p.min > t)
    <3>1. p.min > t => p.min \in later
      BY <1>1, <2>5
    <3> QED BY <1>1, <2>2, <2>3, <2>5, <2>6, <3>1
  <2> QED BY <1>1, <2>5, <2>6, <2>7 DEF Holds
<1> QED BY <1>1, <1>2, <1>3

(* The file of a compaction that starts is in the level below. *)
LEMMA StartIsSourced ==
  ASSUME Inv, NEW dst \in CompactionLevels, CompactStart(dst)
  PROVE  \E f \in CompactInputs(dst) :
           /\ \A h \in CompactInputs(dst) : f.min <= h.min
           /\ job'[dst].min = f.min
           /\ \A t \in job'[dst].min..job'[dst].max :
                \E g \in At(dst - 1) : Holds(g, t)
           /\ \A k \in CompactionLevels : k # dst => job'[k] = job[k]
           /\ remote' = remote /\ del' = del /\ l0ret' = l0ret
<1> DEFINE in == CompactInputs(dst)
<1>1. /\ in \in SUBSET File /\ in \subseteq At(dst - 1)
      /\ \A h \in in : h.min <= h.max
  BY DEF CompactInputs, LTXFiles, At, Inv, TypeOK, RemoteOK, WellFormed
<1>2. PICK f \in in, g \in in :
        /\ \A h \in in : f.min <= h.min /\ h.max <= g.max
        /\ job' = [job EXCEPT ![dst] = [min |-> f.min, max |-> g.max]]
  BY DEF CompactStart
<1>3. Consecutive(in) /\ remote' = remote /\ del' = del /\ l0ret' = l0ret
  BY DEF CompactStart
<1> HIDE DEF in
<1>4. /\ job'[dst].min = f.min /\ job'[dst].max = g.max
      /\ \A k \in CompactionLevels : k # dst => job'[k] = job[k]
  BY <1>2 DEF Inv, TypeOK
<1>5. \A t \in f.min..g.max : \E h \in At(dst - 1) : Holds(h, t)
  BY <1>1, <1>2, <1>3, ConsecutiveHold
<1>6. \A h \in in : f.min <= h.min
  BY <1>2
<1> QED BY <1>2, <1>3, <1>4, <1>5, <1>6 DEF in

(* JobSourced survives while running compactions are at most given up, files
   are at most added, and L0's retention does not begin. *)
LEMMA GrowthKeepsSource ==
  ASSUME JobSourced, remote \subseteq remote',
         \A k \in CompactionLevels : job'[k] \in {job[k], NoInfo},
         1 \in CompactionLevels,
         job'[1] # NoInfo => del'[0] \in {del[0], {}} /\ l0ret' \in {l0ret, 0}
  PROVE  JobSourced'
<1>1. ASSUME NEW l PROVE At(l) \subseteq At(l)'
  BY DEF At
<1>2. ASSUME NEW k \in CompactionLevels, job'[k] # NoInfo,
             NEW t \in job'[k].min..job'[k].max
      PROVE  \/ \E s \in At(SnapshotLevel)' : s.max >= t
             \/ \E g \in At(k - 1)' : Holds(g, t)
  <2>1. job'[k] = job[k]
    BY <1>2
  <2>2. \/ \E s \in At(SnapshotLevel) : s.max >= t
        \/ \E g \in At(k - 1) : Holds(g, t)
    BY <1>2, <2>1 DEF JobSourced
  <2> QED BY <1>1, <2>2
<1>3. job'[1] # NoInfo => del'[0] = {} /\ l0ret' = 0
  BY DEF JobSourced
<1> QED BY <1>2, <1>3 DEF JobSourced, Holds

(* A deletion takes a source only if a snapshot holds it. *)
LEMMA DeletionKeepsSource ==
  ASSUME Inv, JobSourced, NEW level \in Levels, DeleteNext(level)
  PROVE  JobSourced'
<1>1. PICK d \in del[level] : /\ remote' = remote \ {d}
                              /\ del' = [del EXCEPT ![level] = @ \ {d}]
                              /\ UNCHANGED <<writers, compactors, snapshotter>>
  BY DEF DeleteNext
<1>2. /\ job' = job /\ l0ret' = l0ret /\ level \in Int
      /\ del \in [Levels -> SUBSET File] /\ 0 \in Levels /\ SnapshotLevel \in Levels
      /\ d \in File /\ d.level = level /\ d.min \in 1..MaxTX /\ d.max \in 1..MaxTX
  BY <1>1, LevelAssumption DEF compactors, Inv, TypeOK, Levels, SnapshotLevel, DelOK, File
<1>3. job'[1] # NoInfo => del'[0] = {} /\ l0ret' = 0
  BY <1>1, <1>2 DEF JobSourced
<1>4. ASSUME NEW t \in Int, NEW s \in At(SnapshotLevel), s.max >= t
      PROVE  \E r \in At(SnapshotLevel)' : r.max >= t
  <2>1. CASE s # d
    BY <1>1, <1>4, <2>1 DEF At
  <2>2. CASE s = d
    <3>1. level = SnapshotLevel
      BY <1>2, <2>2 DEF At
    <3>2. PICK h \in remote : h.level = SnapshotLevel /\ h # d /\ h.max >= d.max
      BY <1>1, <3>1 DEF Inv, DelOK, DelNotLast
    <3>3. h.max \in 1..MaxTX
      BY <3>2 DEF Inv, TypeOK, File
    <3> QED BY <1>1, <1>2, <1>4, <2>2, <3>2, <3>3 DEF At
  <2> QED BY <2>1, <2>2
<1>5. ASSUME NEW k \in CompactionLevels, job[k] # NoInfo, NEW t \in job[k].min..job[k].max
      PROVE  \/ \E s \in At(SnapshotLevel)' : s.max >= t
             \/ \E g \in At(k - 1)' : Holds(g, t)
  <2>1. t \in Int /\ k \in 1..8 /\ (k = 1 => job[1] # NoInfo)
    BY <1>5, LevelAssumption DEF CompactionLevels
  <2>2. CASE \E s \in At(SnapshotLevel) : s.max >= t
    BY <1>4, <2>1, <2>2
  <2>3. CASE \E g \in At(k - 1) : Holds(g, t)
    <3>1. PICK g \in At(k - 1) : Holds(g, t)
      BY <2>3
    <3>2. CASE g # d
      BY <1>1, <3>1, <3>2 DEF At
    <3>3. CASE g = d
      <4>1. level = k - 1 /\ level # SnapshotLevel
        BY <1>2, <2>1, <3>3 DEF At, SnapshotLevel
      <4>2. level # 0
        BY <1>1, <2>1, <4>1 DEF JobSourced
      <4>3. PICK s \in remote : s.level = SnapshotLevel /\ s.max > d.max
        BY <1>1, <4>2 DEF Inv, DelOK, DelCovered
      <4>4. s.max \in 1..MaxTX /\ t <= d.max
        BY <3>1, <3>3, <4>3 DEF Inv, TypeOK, File, Holds
      <4>5. s \in At(SnapshotLevel)' /\ s.max >= t
        BY <1>1, <1>2, <2>1, <4>1, <4>3, <4>4 DEF At
      <4> QED BY <4>5
    <3> QED BY <3>2, <3>3
  <2> QED BY <1>5, <2>2, <2>3 DEF JobSourced
<1> QED BY <1>2, <1>3, <1>5 DEF JobSourced, Holds

(* Every step keeps the sources. *)
LEMMA NextKeepsSource ==
  ASSUME Inv, JobSourced, [Next]_vars
  PROVE  JobSourced'
<1>1. /\ del \in [Levels -> SUBSET File] /\ 0 \in Levels /\ SnapshotLevel # 0
      /\ job \in [CompactionLevels -> Info \cup {NoInfo}] /\ 1 \in CompactionLevels
  BY LevelAssumption DEF Inv, TypeOK, Levels, CompactionLevels, SnapshotLevel
<1>2. CASE \/ UNCHANGED vars
           \/ DBSync \/ DBSyncFail \/ SyncStart \/ SyncUpload \/ SyncAborted
           \/ \E dst \in CompactionLevels : MaxLTXFileInfo(dst)
           \/ SyncClearedByOther \/ SnapshotStart \/ SnapshotWrite \/ SnapshotFail
           \/ RetentionDone
  <2>1. remote \subseteq remote' /\ job' = job /\ l0ret' = l0ret /\ del' = del
    BY <1>2 DEF vars, writers, compactors, snapshotter, DBSync, DBSyncFail, SyncStart,
                SyncUpload, SyncAborted, SyncClearedByOther, MaxLTXFileInfo, SnapshotStart, SnapshotWrite,
                SnapshotFail, RetentionDone
  <2> QED BY <1>1, <2>1, GrowthKeepsSource
<1>3. ASSUME NEW dst \in CompactionLevels, CompactStart(dst)
      PROVE  JobSourced'
  <2>1. /\ \A t \in job'[dst].min..job'[dst].max : \E g \in At(dst - 1) : Holds(g, t)
        /\ \A k \in CompactionLevels : k # dst => job'[k] = job[k]
        /\ remote' = remote /\ del' = del /\ l0ret' = l0ret
    BY <1>3, StartIsSourced
  <2>2. \A l : At(l)' = At(l)
    BY <2>1 DEF At
  <2>3. dst = 1 => l0ret = 0 /\ del[0] = {}
    BY <1>3 DEF CompactStart
  <2>4. ASSUME NEW k \in CompactionLevels, job'[k] # NoInfo,
               NEW t \in job'[k].min..job'[k].max
        PROVE  \/ \E s \in At(SnapshotLevel)' : s.max >= t
               \/ \E g \in At(k - 1)' : Holds(g, t)
    <3>1. CASE k = dst
      BY <2>1, <2>2, <2>4, <3>1
    <3>2. CASE k # dst
      <4>1. job'[k] = job[k]
        BY <2>1, <3>2
      <4>2. \/ \E s \in At(SnapshotLevel) : s.max >= t
            \/ \E g \in At(k - 1) : Holds(g, t)
        BY <2>4, <4>1 DEF JobSourced
      <4> QED BY <2>2, <4>2
    <3> QED BY <3>1, <3>2
  <2>5. job'[1] # NoInfo => del'[0] = {} /\ l0ret' = 0
    BY <1>1, <2>1, <2>3 DEF JobSourced
  <2> QED BY <2>4, <2>5 DEF JobSourced, Holds
<1>4. ASSUME NEW dst \in CompactionLevels, CompactWrite(dst) \/ CompactFail(dst)
      PROVE  JobSourced'
  <2>1. /\ job' = [job EXCEPT ![dst] = NoInfo] /\ del' = del /\ remote \subseteq remote'
        /\ dst # 1 => l0ret' = l0ret
    BY <1>4 DEF CompactWrite, CompactFail
  <2>2. /\ \A k \in CompactionLevels : job'[k] \in {job[k], NoInfo}
        /\ job'[1] # NoInfo => dst # 1
    BY <1>1, <2>1
  <2> QED BY <1>1, <2>1, <2>2, GrowthKeepsSource
<1>5. CASE L0Retention
  <2>1. l0ret # 0 /\ job' = job /\ remote' = remote
    BY <1>5 DEF L0Retention
  <2>2. job'[1] = NoInfo
    BY <2>1 DEF JobSourced
  <2> QED BY <1>1, <2>1, <2>2, GrowthKeepsSource
<1>6. CASE LevelRetention \/ \E cut \in 0..(MaxTX + 1) : ExpireSnapshots(cut)
  <2>1. smpc = "level" => smlvl # 0
    BY DEF Inv, RetentionOK, TypeOK
  <2>2. /\ remote' = remote /\ job' = job /\ l0ret' = l0ret /\ del'[0] = del[0]
    BY <1>1, <1>6, <2>1 DEF LevelRetention, ExpireSnapshots, compactors
  <2> QED BY <1>1, <2>2, GrowthKeepsSource
<1>7. ASSUME NEW level \in Levels, DeleteFail(level)
      PROVE  JobSourced'
  <2>1. /\ remote' = remote /\ job' = job /\ l0ret' = l0ret /\ del'[0] \in {del[0], {}}
    BY <1>1, <1>7 DEF DeleteFail, compactors
  <2> QED BY <1>1, <2>1, GrowthKeepsSource
<1>8. CASE Crash
  <2>1. /\ remote' = remote /\ l0ret' = 0 /\ del'[0] = {}
        /\ \A k \in CompactionLevels : job'[k] = NoInfo
    BY <1>1, <1>8 DEF Crash
  <2> QED BY <1>1, <2>1, GrowthKeepsSource
<1> QED
  BY <1>2, <1>3, <1>4, <1>5, <1>6, <1>7, <1>8, DeletionKeepsSource DEF Next, SyncFail

LEMMA SourceInvariance == Spec => []JobSourced
<1>1. Init => JobSourced
  <2> SUFFICES ASSUME Init PROVE JobSourced
    OBVIOUS
  <2>1. \A k \in CompactionLevels : job[k] = NoInfo
    BY DEF Init
  <2>2. 1 \in CompactionLevels
    BY LevelAssumption DEF CompactionLevels
  <2> QED BY <2>1, <2>2 DEF JobSourced
<1>2. Inv /\ JobSourced /\ [Next]_vars => JobSourced'
  BY NextKeepsSource
<1> QED BY <1>1, <1>2, Invariance, PTL DEF Spec

-----------------------------------------------------------------------------
(* Restore begins. *)

(* No compaction level ends after L0. *)
LEMMA L0EndsLast ==
  ASSUME Inv, NEW f \in remote, f.level <= MaxLevel
  PROVE  \E h \in At(0) : h.max >= f.max
<1> DEFINE short == {l \in 0..MaxLevel : \E e \in remote : e.level = l /\ e.max >= f.max}
<1>1. /\ f.level \in 0..MaxLevel /\ f.max \in Int /\ MaxLevel \in 1..8
      /\ \A e \in remote : e.max \in Int
  BY LevelAssumption DEF Inv, TypeOK, File, Levels, SnapshotLevel
<1>2. short \in SUBSET Nat /\ f.level \in short
  BY <1>1
<1>3. PICK l \in short : \A k \in short : l <= k
  <2> HIDE DEF short
  <2> QED BY <1>2, NatSetHasLeast
<1>4. PICK e \in remote : e.level = l /\ e.max >= f.max
  BY <1>3
<1>5. l = 0
  <2> SUFFICES ASSUME l # 0 PROVE FALSE
    OBVIOUS
  <2>1. l \in CompactionLevels
    BY <1>1, <1>3 DEF CompactionLevels
  <2>2. PICK g \in remote : g.level = l - 1 /\ g.max >= e.max
    BY <1>4, <2>1 DEF Inv, RemoteOK, SourceAhead
  <2>3. l - 1 \in short
    BY <1>1, <1>3, <1>4, <2>1, <2>2 DEF CompactionLevels
  <2> QED BY <1>3, <2>3
<1> QED BY <1>4, <1>5 DEF At

LEMMA RestoreStartKeepsRInv ==
  ASSUME Inv, JobSourced, RInv, RestoreStart
  PROVE  RInv'
<1> DEFINE snapshots == At(SnapshotLevel)
<1>1. /\ rspc' = "listing" /\ rlvl' = MaxLevel
      /\ infos' = (IF snapshots = {} THEN {} ELSE {Last(snapshots)})
      /\ reached' = MaxTXID(snapshots) /\ goal' = MaxTXID(remote)
      /\ remote' = remote /\ job' = job
  BY DEF RestoreStart, vars, compactors
<1>2. /\ snapshots \in SUBSET File /\ remote \in SUBSET File /\ MaxLevel \in 1..8
      /\ \A f \in remote : /\ f.level \in 0..MaxLevel \/ f.level = SnapshotLevel
                           /\ f.min \in 1..MaxTX /\ f.max \in 1..MaxTX
      /\ \A l : At(l)' = At(l)
  BY <1>1, LevelAssumption DEF At, Inv, TypeOK, File, Levels, SnapshotLevel
<1>3. /\ reached' \in 0..MaxTX /\ \A s \in snapshots : s.max <= reached'
      /\ snapshots # {} => \E s \in snapshots : s.max = reached'
      /\ snapshots = {} => reached' = 0
      /\ goal' \in 0..MaxTX
      /\ remote # {} => \E f \in remote : f.max = goal'
      /\ remote = {} => goal' = 0
  BY <1>1, <1>2, MaxTXIDIsGreatest
<1>4. snapshots # {} => /\ Last(snapshots) \in snapshots
                        /\ \A g \in snapshots : g.max <= Last(snapshots).max
  BY <1>2, LastEndsLast
<1> HIDE DEF snapshots
<1>5. RTypeOK'
  BY <1>1, <1>2, <1>3, <1>4 DEF RTypeOK
<1>6. GoalAhead'
  <2>1. CASE remote = {}
    BY <1>1, <1>3, <2>1 DEF GoalAhead
  <2>2. CASE remote # {}
    <3>1. PICK f \in remote : f.max = goal'
      BY <1>3, <2>2
    <3>2. CASE f.level = SnapshotLevel
      <4>1. f \in snapshots
        BY <3>1, <3>2 DEF At, snapshots
      <4> QED BY <1>1, <1>3, <3>1, <4>1 DEF GoalAhead
    <3>3. CASE f.level \in 0..MaxLevel
      <4>1. \E h \in At(0) : h.max >= f.max
        BY <1>2, <3>1, <3>3, L0EndsLast
      <4> QED BY <1>1, <1>2, <3>1, <4>1 DEF GoalAhead
    <3> QED BY <1>2, <3>1, <3>2, <3>3
  <2> QED BY <2>1, <2>2
<1>7. PlanHolds'
  <2>1. CASE snapshots = {}
    BY <1>1, <1>3, <2>1 DEF PlanHolds
  <2>2. CASE snapshots # {}
    <3>1. Last(snapshots).min = 1 /\ Last(snapshots).max = reached'
      <4>1. Last(snapshots) \in remote /\ Last(snapshots).level = SnapshotLevel
        BY <1>4, <2>2 DEF At, snapshots
      <4>2. Last(snapshots).min = 1
        BY <4>1 DEF Inv, RemoteOK, WellFormed
      <4>3. Last(snapshots).max \in 1..MaxTX
        BY <1>2, <4>1
      <4>4. PICK s \in snapshots : s.max = reached'
        BY <1>3, <2>2
      <4> QED BY <1>3, <1>4, <2>2, <4>2, <4>3, <4>4
    <3> QED BY <1>1, <1>3, <2>2, <3>1 DEF PlanHolds, Holds
  <2> QED BY <2>1, <2>2
<1>8. PlanKept'
  BY <1>1, <1>4 DEF PlanKept, At, snapshots
<1>9. Settled'
  <2>1. ASSUME NEW lv \in Int, NEW n \in Int, Covered(lv, n)
        PROVE  HeldBeyond(lv, n)'
    <3>1. SUFFICES ASSUME NEW t \in 1..n, t > reached'
                   PROVE  \E g \in remote' : lv <= g.level /\ g.level <= MaxLevel /\ Holds(g, t)
      BY DEF HeldBeyond, Holds
    <3>2. PICK g \in remote : g.level >= lv /\ g.min <= t /\ t <= g.max
      BY <2>1, <3>1 DEF Covered
    <3>3. g.level # SnapshotLevel
      <4>1. g.level = SnapshotLevel => g \in snapshots
        BY <3>2 DEF At, snapshots
      <4> QED BY <1>2, <1>3, <3>1, <3>2, <4>1
    <3>4. g.level \in 0..MaxLevel
      BY <1>2, <3>2, <3>3
    <3> QED BY <1>1, <3>2, <3>4 DEF Holds
  <2>2. ASSUME NEW f \in remote, f.level <= MaxLevel
        PROVE  HeldBeyond(f.level, f.max)'
    <3>1. Covered(f.level, f.max)
      BY <2>2 DEF Inv, RemoteOK, HistoryCovered, Covered
    <3>2. f.level \in Int /\ f.max \in Int
      BY <1>2, <2>2 DEF SnapshotLevel
    <3> QED BY <2>1, <3>1, <3>2
  <2>3. ASSUME NEW k \in CompactionLevels, job[k] # NoInfo
        PROVE  /\ HeldBeyond(k, job[k].min - 1)'
               /\ HeldAt(StillListed(k), job[k])'
    <3>1. Covered(k, job[k].min - 1) /\ k \in 1..MaxLevel /\ job[k].min \in Int
      BY <2>3 DEF Inv, JobOK, CompactionLevels, TypeOK, Info
    <3>2. HeldBeyond(k, job[k].min - 1)'
      <4>1. \A n \in Int : Covered(k, n) => HeldBeyond(k, n)'
        BY <2>1, <3>1
      <4>2. job[k].min - 1 \in Int
        BY <3>1
      <4> QED BY <1>1, <3>1, <4>1, <4>2 DEF HeldBeyond
    <3>3. StillListed(k)' = k - 1
      BY <1>1, <3>1 DEF StillListed
    <3>4. ASSUME NEW t \in job[k].min..job[k].max
          PROVE  t <= reached' \/ \E g \in At(k - 1) : Holds(g, t)
      <4>1. CASE \E s \in At(SnapshotLevel) : s.max >= t
        <5>1. PICK s \in At(SnapshotLevel) : s.max >= t
          BY <4>1
        <5>2. s.max <= reached' /\ s.max \in Int /\ t \in Int /\ reached' \in Int
          BY <1>2, <1>3, <5>1 DEF snapshots, At
        <5> QED BY <5>1, <5>2
      <4> QED BY <2>3, <3>4, <4>1 DEF JobSourced
    <3> QED BY <1>1, <1>2, <3>2, <3>3, <3>4 DEF HeldAt, Holds
  <2>4. \A k \in CompactionLevels : ~(k > rlvl')
    BY <1>1, <1>2 DEF CompactionLevels
  <2> QED BY <1>1, <2>2, <2>3, <2>4 DEF Settled, FilesHeld, LateFilesHeld, JobsHeld
<1> QED BY <1>5, <1>6, <1>7, <1>8, <1>9 DEF RInv

-----------------------------------------------------------------------------
(* CalcRestorePlan lists a level. *)

(* What a level that is listed adds leaves no hole. *)
LEMMA AppendedHolds ==
  ASSUME NEW S \in SUBSET File, NEW prev \in 0..MaxTX, Appendable(prev, S),
         NEW t \in (prev + 1)..MaxTXID(S)
  PROVE  \E f \in S : Holds(f, t)
<1>1. /\ MaxTXID(S) \in 0..MaxTX /\ (S # {} => \E f \in S : f.max = MaxTXID(S))
      /\ S = {} => MaxTXID(S) = 0
  BY MaxTXIDIsGreatest
<1>2. t \in Nat /\ prev < t /\ t <= MaxTXID(S)
  BY <1>1
<1> DEFINE ends == {x \in Nat : \E f \in S : f.max = x /\ t <= x}
<1>3. MaxTXID(S) \in ends
  BY <1>1, <1>2
<1>4. PICK x \in ends : \A y \in ends : x <= y
  <2>1. ends \in SUBSET Nat /\ ends # {}
    BY <1>3
  <2> HIDE DEF ends
  <2> QED BY <2>1, NatSetHasLeast
<1>5. PICK f \in S : f.max = x /\ t <= x
  BY <1>4
<1> DEFINE before == {g \in S : g.max < f.max}
           m == IF before = {} THEN prev ELSE MaxTXID(before)
<1>6. IsContiguous(m, f)
  BY <1>5 DEF Appendable
<1>7. \A g \in S : g.max < f.max => g.max < t
  <2>1. \A g \in S : g.max \in Nat
    BY DEF File
  <2>2. \A g \in S : t <= g.max => g.max \in ends
    BY <2>1
  <2> QED BY <1>2, <1>4, <1>5, <2>1, <2>2
<1>8. m \in Int /\ m < t
  <2>1. CASE before = {}
    BY <1>2, <2>1
  <2>2. CASE before # {}
    <3>1. MaxTXID(before) \in 0..MaxTX /\ \E g \in before : g.max = MaxTXID(before)
      <4>1. before \in SUBSET File
        OBVIOUS
      <4> HIDE DEF before
      <4> QED BY <2>2, <4>1, MaxTXIDIsGreatest
    <3> QED BY <1>7, <2>2, <3>1
  <2> QED BY <2>1, <2>2
<1> HIDE DEF m
<1>9. f.min <= t
  BY <1>2, <1>5, <1>6, <1>8 DEF IsContiguous, File
<1> QED BY <1>5, <1>9 DEF Holds

(* The plan after a level: further, without a hole, and at the end of L0 past
   the goal. *)
LEMMA ListLevelExtends ==
  ASSUME Inv, RInv, ListLevel
  PROVE  /\ reached' \in 0..MaxTX /\ reached <= reached'
         /\ \A f \in At(rlvl) : f.max <= reached'
         /\ \A t \in 1..reached' : \E f \in infos' : Holds(f, t)
         /\ infos' \subseteq File
<1>1. /\ rspc = "listing" /\ Appendable(reached, Beyond(rlvl))
      /\ infos' = infos \cup Beyond(rlvl)
      /\ reached' = IF Beyond(rlvl) = {} THEN reached ELSE MaxTXID(Beyond(rlvl))
  BY DEF ListLevel, Contiguous
<1>2. /\ Beyond(rlvl) \in SUBSET File /\ reached \in 0..MaxTX /\ infos \subseteq File
      /\ \A f \in At(rlvl) : f.max \in 1..MaxTX
      /\ \A f \in At(rlvl) : f.max > reached => f \in Beyond(rlvl)
      /\ \A f \in Beyond(rlvl) : f.max > reached
  BY DEF Beyond, At, Inv, TypeOK, File, RInv, RTypeOK
<1>3. /\ MaxTXID(Beyond(rlvl)) \in 0..MaxTX
      /\ \A f \in Beyond(rlvl) : f.max <= MaxTXID(Beyond(rlvl))
      /\ Beyond(rlvl) # {} => \E f \in Beyond(rlvl) : f.max = MaxTXID(Beyond(rlvl))
  BY <1>2, MaxTXIDIsGreatest
<1>4. reached' \in 0..MaxTX /\ reached <= reached'
  BY <1>1, <1>2, <1>3
<1>5. ASSUME NEW f \in At(rlvl) PROVE f.max <= reached'
  <2>1. CASE f.max > reached
    BY <1>1, <1>2, <1>3, <2>1
  <2>2. CASE ~(f.max > reached)
    BY <1>2, <1>4, <2>2
  <2> QED BY <2>1, <2>2
<1>6. ASSUME NEW t \in 1..reached' PROVE \E f \in infos' : Holds(f, t)
  <2>1. CASE t <= reached
    <3>1. t \in 1..reached
      BY <1>2, <1>4, <1>6, <2>1
    <3> QED BY <1>1, <3>1 DEF RInv, PlanHolds
  <2>2. CASE t > reached
    <3>1. t \in (reached + 1)..MaxTXID(Beyond(rlvl))
      BY <1>1, <1>2, <1>3, <1>4, <1>6, <2>2
    <3>2. \E f \in Beyond(rlvl) : Holds(f, t)
      BY <1>1, <1>2, <3>1, AppendedHolds
    <3> QED BY <1>1, <3>2
  <2> QED BY <1>2, <1>4, <1>6, <2>1, <2>2
<1> QED BY <1>1, <1>2, <1>4, <1>5, <1>6

LEMMA ListLevelKeepsRInv ==
  ASSUME Inv, RInv, ListLevel
  PROVE  RInv'
<1>1. /\ rspc = "listing" /\ infos' = infos \cup Beyond(rlvl)
      /\ rlvl = 0 => rspc' = "opening" /\ rlvl' = 0
      /\ rlvl # 0 => rspc' = "listing" /\ rlvl' = rlvl - 1
      /\ remote' = remote /\ job' = job /\ goal' = goal /\ moved' = moved
  BY DEF ListLevel, vars, compactors
<1>2. /\ reached' \in 0..MaxTX /\ reached <= reached'
      /\ \A f \in At(rlvl) : f.max <= reached'
      /\ \A t \in 1..reached' : \E f \in infos' : Holds(f, t)
      /\ infos' \subseteq File
  BY ListLevelExtends
<1>3. /\ rlvl \in 0..MaxLevel /\ reached \in 0..MaxTX /\ goal \in 0..MaxTX
      /\ MaxLevel \in 1..8 /\ remote \subseteq File
      /\ \A l : At(l)' = At(l)
      /\ \A f \in remote : f.min \in 1..MaxTX /\ f.max \in 1..MaxTX
  BY <1>1, LevelAssumption DEF RInv, RTypeOK, Inv, TypeOK, At, File
<1>4. RTypeOK'
  BY <1>1, <1>2, <1>3 DEF RTypeOK
<1>5. GoalAhead'
  <2>1. CASE reached >= goal
    BY <1>1, <1>2, <1>3, <2>1 DEF GoalAhead
  <2>2. CASE \E f \in At(0) : f.max >= goal
    <3>1. PICK f \in At(0) : f.max >= goal
      BY <2>2
    <3>2. CASE rlvl = 0
      <4>1. f.max <= reached' /\ f.max \in Int
        BY <1>2, <1>3, <3>1, <3>2 DEF At
      <4> QED BY <1>1, <1>2, <1>3, <3>1, <3>2, <4>1 DEF GoalAhead
    <3>3. CASE rlvl # 0
      BY <1>1, <1>3, <3>1, <3>3 DEF GoalAhead
    <3> QED BY <3>2, <3>3
  <2> QED BY <1>1, <2>1, <2>2 DEF RInv, GoalAhead
<1>6. PlanHolds'
  BY <1>2 DEF PlanHolds, Holds
<1>7. PlanKept'
  BY <1>1 DEF RInv, PlanKept, Beyond, At
<1>8. Settled'
  <2> SUFFICES ASSUME rlvl # 0, ~moved
               PROVE  Settled'
    BY <1>1 DEF Settled
  <2>1. /\ \A f \in remote : f.level <= MaxLevel => HeldBeyond(f.level, f.max)
        /\ \A k \in CompactionLevels : k > rlvl => \A f \in At(k) : HeldAt(rlvl, f)
        /\ \A k \in CompactionLevels : job[k] # NoInfo =>
             HeldBeyond(k, job[k].min - 1) /\ HeldAt(StillListed(k), job[k])
    BY <1>1 DEF RInv, Settled, FilesHeld, LateFilesHeld, JobsHeld
  <2>2. ASSUME NEW lv, NEW n \in Int, HeldBeyond(lv, n)
        PROVE  HeldBeyond(lv, n)'
    <3>1. ASSUME NEW t \in 1..n, t > reached'
          PROVE  t > reached
      BY <1>2, <1>3, <3>1
    <3> QED BY <1>1, <2>2, <3>1 DEF HeldBeyond, Holds
  <2>3. ASSUME NEW f, f.min \in Int, f.max \in Int, HeldAt(rlvl, f), NEW t \in f.min..f.max
        PROVE  t <= reached'
    <3>1. t \in Int
      BY <2>3
    <3>2. CASE t <= reached
      BY <1>2, <1>3, <3>1, <3>2
    <3>3. CASE \E g \in At(rlvl) : Holds(g, t)
      <4>1. PICK g \in At(rlvl) : Holds(g, t)
        BY <3>3
      <4>2. g.max <= reached' /\ g.max \in Int /\ t <= g.max
        BY <1>2, <1>3, <4>1 DEF Holds, At
      <4> QED BY <1>2, <3>1, <4>2
    <3> QED BY <2>3, <3>2, <3>3 DEF HeldAt
  <2>4. ASSUME NEW f \in remote, f.level <= MaxLevel
        PROVE  HeldBeyond(f.level, f.max)'
    BY <1>3, <2>1, <2>2, <2>4
  <2>5. ASSUME NEW k \in CompactionLevels, k > rlvl', NEW f \in At(k)
        PROVE  HeldAt(rlvl, f)'
    <3>1. f \in remote /\ f.min \in Int /\ f.max \in Int /\ k \in Int
      BY <1>3 DEF At, CompactionLevels
    <3>2. CASE k > rlvl
      BY <2>1, <2>3, <3>1, <3>2 DEF HeldAt
    <3>3. CASE k = rlvl
      <4>1. \A t \in f.min..f.max : t <= reached'
        BY <1>2, <1>3, <3>1, <3>3
      <4> QED BY <4>1 DEF HeldAt
    <3> QED BY <1>1, <1>3, <2>5, <3>1, <3>2, <3>3
  <2>6. ASSUME NEW k \in CompactionLevels, job[k] # NoInfo
        PROVE  HeldBeyond(k, job[k].min - 1)' /\ HeldAt(StillListed(k), job[k])'
    <3>1. job[k].min \in Int /\ job[k].max \in Int /\ k \in 1..MaxLevel
      BY <2>6 DEF Inv, TypeOK, Info, CompactionLevels
    <3>2. HeldBeyond(k, job[k].min - 1) /\ HeldAt(StillListed(k), job[k])
      BY <2>1, <2>6
    <3>3. HeldBeyond(k, job[k].min - 1)'
      <4>1. \A n \in Int : HeldBeyond(k, n) => HeldBeyond(k, n)'
        BY <2>2
      <4>2. job[k].min - 1 \in Int
        BY <3>1
      <4> QED BY <1>1, <3>2, <4>1, <4>2 DEF HeldBeyond
    <3>4. CASE k > rlvl
      <4>1. StillListed(k) = rlvl
        BY <1>3, <3>1, <3>4 DEF StillListed
      <4>2. \A t \in job[k].min..job[k].max : t <= reached'
        BY <2>3, <3>1, <3>2, <4>1
      <4> QED BY <1>1, <3>3, <4>2 DEF HeldAt
    <3>5. CASE k <= rlvl
      <4>1. StillListed(k) = k - 1 /\ StillListed(k)' = k - 1
        BY <1>1, <1>3, <3>1, <3>5 DEF StillListed
      <4>2. ASSUME NEW t \in job[k].min..job[k].max
            PROVE  t <= reached' \/ \E g \in At(k - 1) : Holds(g, t)
        <5>1. t \in Int
          BY <3>1, <4>2
        <5>2. t <= reached \/ \E g \in At(k - 1) : Holds(g, t)
          BY <3>2, <4>1, <4>2 DEF HeldAt
        <5> QED BY <1>2, <1>3, <5>1, <5>2
      <4> QED BY <1>1, <1>3, <3>3, <4>1, <4>2 DEF HeldAt, Holds
    <3> QED BY <1>3, <3>1, <3>4, <3>5
  <2> QED BY <1>1, <1>3, <2>4, <2>5, <2>6 DEF Settled, FilesHeld, LateFilesHeld, JobsHeld
<1> QED BY <1>4, <1>5, <1>6, <1>7, <1>8 DEF RInv

-----------------------------------------------------------------------------
(* The Store takes a step while a restore runs. *)

(* Files that are added take nothing away. *)
LEMMA GrowthKeepsHeld ==
  ASSUME remote \subseteq remote', reached' = reached
  PROVE  /\ \A lv, n : HeldBeyond(lv, n) => HeldBeyond(lv, n)'
         /\ \A l, f : HeldAt(l, f) => HeldAt(l, f)'
<1>1. ASSUME NEW lv, NEW n, HeldBeyond(lv, n) PROVE HeldBeyond(lv, n)'
  BY <1>1 DEF HeldBeyond, Holds
<1>2. ASSUME NEW l, NEW f, HeldAt(l, f) PROVE HeldAt(l, f)'
  BY <1>2 DEF HeldAt, Holds, At
<1> QED BY <1>1, <1>2

(* Compactions that run on, or are given up, stay settled. *)
LEMMA SameJobsHeld ==
  ASSUME JobsHeld, remote \subseteq remote', reached' = reached, rlvl' = rlvl,
         NEW k \in CompactionLevels, job'[k] \in {job[k], NoInfo}, job'[k] # NoInfo
  PROVE  (HeldBeyond(k, job[k].min - 1) /\ HeldAt(StillListed(k), job[k]))'
<1>1. PICK j : j = job[k]
  OBVIOUS
<1>2. PICK l : l = StillListed(k)
  OBVIOUS
<1>3. job'[k] = j /\ StillListed(k)' = l
  BY <1>1, <1>2 DEF StillListed
<1>4. HeldBeyond(k, j.min - 1) /\ HeldAt(l, j)
  BY <1>1, <1>2, <1>3 DEF JobsHeld
<1>5. HeldBeyond(k, j.min - 1)' /\ HeldAt(l, j)'
  BY <1>4, GrowthKeepsHeld
<1> QED BY <1>3, <1>5 DEF HeldBeyond, HeldAt, At

(* So does what is in the levels already, when a file is added that is itself
   held. *)
LEMMA AdditionKeepsSettled ==
  ASSUME FilesHeld, LateFilesHeld, JobsHeld, reached' = reached, rlvl' = rlvl,
         remote \subseteq remote',
         \A k \in CompactionLevels : job'[k] \in {job[k], NoInfo},
         \A f \in remote' \ remote : f.level <= MaxLevel =>
           /\ HeldBeyond(f.level, f.max)'
           /\ f.level > rlvl => HeldAt(rlvl, f)
  PROVE  FilesHeld' /\ LateFilesHeld' /\ JobsHeld'
<1>1. FilesHeld'
  <2> SUFFICES ASSUME NEW f \in remote', f.level <= MaxLevel
               PROVE  HeldBeyond(f.level, f.max)'
    BY DEF FilesHeld
  <2>1. CASE f \in remote
    <3>1. HeldBeyond(f.level, f.max)
      BY <2>1 DEF FilesHeld
    <3> QED BY <3>1, GrowthKeepsHeld
  <2> QED BY <2>1
<1>2. LateFilesHeld'
  <2> SUFFICES ASSUME NEW k \in CompactionLevels, k > rlvl, NEW f \in At(k)'
               PROVE  HeldAt(rlvl, f)'
    BY DEF LateFilesHeld
  <2>1. f \in remote' /\ f.level = k /\ k <= MaxLevel
    BY DEF At, CompactionLevels
  <2>2. HeldAt(rlvl, f)
    <3>1. CASE f \in remote
      BY <2>1, <3>1 DEF LateFilesHeld, At
    <3>2. CASE f \notin remote
      BY <2>1, <3>2
    <3> QED BY <3>1, <3>2
  <2>3. PICK l : l = rlvl
    OBVIOUS
  <2>4. HeldAt(l, f)'
    BY <2>2, <2>3, GrowthKeepsHeld
  <2> QED BY <2>3, <2>4 DEF HeldAt, At
<1>3. JobsHeld'
  BY SameJobsHeld DEF JobsHeld
<1> QED BY <1>1, <1>2, <1>3

(* An upload belongs right after what L0 and the levels above hold. *)
LEMMA UploadKeepsSettled ==
  ASSUME Inv, FilesHeld, LateFilesHeld, JobsHeld, reached' = reached, rlvl' = rlvl,
         rlvl \in 0..MaxLevel,
         remote' = remote \cup {L0File(rpos + 1)}, job' = job
  PROVE  FilesHeld' /\ LateFilesHeld' /\ JobsHeld'
<1>1. PICK c : c = L0File(rpos + 1)
  OBVIOUS
<1>2. /\ c.level = 0 /\ c.min = rpos + 1 /\ c.max = rpos + 1 /\ rpos \in 0..MaxTX
      /\ remote \subseteq remote' /\ c \in remote'
  BY <1>1 DEF L0File, Inv, TypeOK
<1>3. HeldBeyond(c.level, c.max)'
  <2> SUFFICES ASSUME NEW t \in 1..c.max, t > reached
               PROVE  \E g \in remote' : 0 <= g.level /\ g.level <= MaxLevel /\ Holds(g, t)
    BY <1>2 DEF HeldBeyond, Holds
  <2>1. CASE t = rpos + 1
    <3>1. Holds(c, t)
      BY <1>2, <2>1 DEF Holds
    <3> QED BY <1>2, <3>1, LevelAssumption
  <2>2. CASE t <= rpos
    <3>1. PICK f \in remote : f.level = 0 /\ f.max >= rpos
      BY <1>2, <2>2 DEF Inv, RposHeld
    <3>2. f.max \in Int /\ t \in 1..f.max
      BY <1>2, <2>2, <3>1 DEF Inv, TypeOK, File
    <3>3. HeldBeyond(0, f.max)
      BY <3>1, LevelAssumption DEF FilesHeld
    <3> QED BY <1>2, <3>2, <3>3 DEF HeldBeyond
  <2> QED BY <1>2, <2>1, <2>2
<1>4. ~(c.level > rlvl)
  BY <1>2
<1>5. ASSUME NEW f \in remote' \ remote, f.level <= MaxLevel
      PROVE  HeldBeyond(f.level, f.max)' /\ (f.level > rlvl => HeldAt(rlvl, f))
  <2>1. f = c
    BY <1>1
  <2> QED BY <1>3, <1>4, <2>1
<1>6. \A k \in CompactionLevels : job'[k] \in {job[k], NoInfo}
  OBVIOUS
<1> QED BY <1>2, <1>5, <1>6, AdditionKeepsSettled

(* What a compaction writes could still be planned from below. *)
LEMMA WriteKeepsSettled ==
  ASSUME Inv, FilesHeld, LateFilesHeld, JobsHeld, reached' = reached, rlvl' = rlvl,
         NEW dst \in CompactionLevels, job[dst] # NoInfo,
         remote' = remote \cup {Written(dst)},
         \A k \in CompactionLevels : job'[k] \in {job[k], NoInfo},
         rlvl \in 0..MaxLevel
  PROVE  FilesHeld' /\ LateFilesHeld' /\ JobsHeld'
<1>1. PICK c : c = Written(dst)
  OBVIOUS
<1>2. /\ c.level = dst /\ c.min = job[dst].min /\ c.max = job[dst].max
      /\ c.min \in 1..MaxTX /\ c.max \in 1..MaxTX /\ dst \in 1..MaxLevel
      /\ remote \subseteq remote' /\ c \in remote'
  BY <1>1 DEF Written, Inv, TypeOK, Info, CompactionLevels
<1>3. HeldBeyond(c.level, c.max)'
  <2> SUFFICES ASSUME NEW t \in 1..c.max, t > reached
               PROVE  \E g \in remote' : dst <= g.level /\ g.level <= MaxLevel /\ Holds(g, t)
    BY <1>2 DEF HeldBeyond, Holds
  <2>1. CASE t >= c.min
    BY <1>2, <2>1 DEF Holds
  <2>2. CASE t < c.min
    <3>1. t \in 1..(job[dst].min - 1)
      BY <1>2, <2>2
    <3> QED BY <1>2, <3>1 DEF JobsHeld, HeldBeyond
  <2> QED BY <1>2, <2>1, <2>2
<1>4. c.level > rlvl => HeldAt(rlvl, c)
  <2>1. c.level > rlvl => StillListed(dst) = rlvl
    BY <1>2 DEF StillListed
  <2> QED BY <1>2, <2>1 DEF JobsHeld, HeldAt
<1>5. ASSUME NEW f \in remote' \ remote, f.level <= MaxLevel
      PROVE  HeldBeyond(f.level, f.max)' /\ (f.level > rlvl => HeldAt(rlvl, f))
  <2>1. f = c
    BY <1>1
  <2> QED BY <1>3, <1>4, <2>1
<1> QED BY <1>2, <1>5, AdditionKeepsSettled

(* A compaction that starts takes files that could still be planned. *)
LEMMA StartKeepsSettled ==
  ASSUME Inv, FilesHeld, LateFilesHeld, JobsHeld, reached' = reached, rlvl' = rlvl,
         NEW dst \in CompactionLevels, CompactStart(dst), reached \in Nat,
         rlvl \in 0..MaxLevel
  PROVE  FilesHeld' /\ LateFilesHeld' /\ JobsHeld'
<1>1. PICK f \in CompactInputs(dst) :
        /\ \A h \in CompactInputs(dst) : f.min <= h.min
        /\ job'[dst].min = f.min
        /\ \A t \in job'[dst].min..job'[dst].max : \E g \in At(dst - 1) : Holds(g, t)
        /\ \A k \in CompactionLevels : k # dst => job'[k] = job[k]
        /\ remote' = remote
  BY StartIsSourced
<1>2. FilesHeld' /\ LateFilesHeld'
  BY <1>1 DEF FilesHeld, LateFilesHeld, HeldBeyond, HeldAt, At, Holds
<1> DEFINE end == MaxTXID(At(dst))
<1>3. /\ end \in 0..MaxTX /\ \A e \in At(dst) : e.max <= end
      /\ At(dst) # {} => \E e \in At(dst) : e.max = end
      /\ At(dst) = {} => end = 0
  <2>1. At(dst) \in SUBSET File
    BY DEF At, Inv, TypeOK
  <2> QED BY <2>1, MaxTXIDIsGreatest
<1>4. /\ f \in remote /\ f.level = dst - 1 /\ dst \in 1..MaxLevel /\ MaxLevel \in 1..8
      /\ f.min \in 1..MaxTX /\ f.max \in 1..MaxTX /\ f.min <= f.max
      /\ f.min >= end + 1 /\ (PrefixSeek => f.min = end + 1)
      /\ \A g \in At(dst - 1) : ~PrefixSeek /\ g.min >= end + 1 => g \in CompactInputs(dst)
      /\ \A g \in remote : g.level \in Int /\ g.min \in 1..MaxTX /\ g.max \in 1..MaxTX
  <2>1. /\ \A g \in remote : g.level \in Int /\ g.min \in 1..MaxTX /\ g.max \in 1..MaxTX
        /\ dst \in 1..MaxLevel /\ MaxLevel \in 1..8
    BY LevelAssumption DEF Inv, TypeOK, File, Levels, SnapshotLevel, CompactionLevels
  <2>2. f \in At(dst - 1) /\ f.min >= end + 1 /\ (PrefixSeek => f.min = end + 1)
    BY <1>1, <1>3 DEF CompactInputs, LTXFiles
  <2>3. f \in remote /\ f.level = dst - 1 /\ f.min <= f.max
    BY <2>2 DEF At, Inv, RemoteOK, WellFormed
  <2> QED BY <2>1, <2>2, <2>3 DEF CompactInputs, LTXFiles
<1> HIDE DEF end
<1>5. ASSUME NEW t \in 1..(f.min - 1), t > reached
      PROVE  \E g \in remote : dst <= g.level /\ g.level <= MaxLevel /\ Holds(g, t)
  <2>1. CASE t <= end
    <3>1. PICK e \in At(dst) : e.max = end
      BY <1>3, <1>5, <2>1
    <3>2. e \in remote /\ e.level = dst /\ t \in 1..e.max
      BY <1>3, <2>1, <3>1 DEF At
    <3>3. HeldBeyond(dst, e.max)
      BY <1>4, <3>2 DEF FilesHeld
    <3> QED BY <1>5, <3>2, <3>3 DEF HeldBeyond
  <2>2. CASE t > end
    <3>1. HeldBeyond(dst - 1, f.max) /\ t \in 1..f.max
      BY <1>4 DEF FilesHeld
    <3>2. PICK g \in remote : dst - 1 <= g.level /\ g.level <= MaxLevel /\ Holds(g, t)
      BY <1>5, <3>1 DEF HeldBeyond
    <3>3. CASE g.level = dst - 1
      <4>1. g.min <= t /\ t <= g.max /\ g.min < f.min
        BY <1>4, <3>2 DEF Holds
      <4>2. g.min >= end + 1
        <5>1. CASE At(dst) = {}
          BY <1>3, <1>4, <3>2, <5>1
        <5>2. CASE At(dst) # {}
          <6>1. PICK e \in At(dst) : e.max = end
            BY <1>3, <5>2
          <6>2. g.max <= e.max \/ g.min > e.max
            BY <3>2, <3>3, <6>1 DEF Inv, RemoteOK, Nested, At
          <6> QED BY <1>3, <1>4, <2>2, <3>2, <4>1, <6>1, <6>2
        <5> QED BY <5>1, <5>2
      <4>3. ~PrefixSeek
        BY <1>3, <1>4, <2>2
      <4>4. f.min <= g.min
        BY <1>1, <1>4, <3>2, <3>3, <4>2, <4>3 DEF At
      <4> QED BY <1>4, <3>2, <4>1, <4>4
    <3> QED BY <1>4, <3>2, <3>3
  <2> QED BY <1>3, <2>1, <2>2
<1>6. ASSUME NEW t \in job'[dst].min..job'[dst].max
      PROVE  t <= reached \/ \E g \in At(StillListed(dst)) : Holds(g, t)
  <2>1. PICK g \in At(dst - 1) : Holds(g, t)
    BY <1>1, <1>6
  <2>2. CASE dst - 1 > rlvl
    <3>1. StillListed(dst) = rlvl /\ dst - 1 \in CompactionLevels
      BY <1>4, <2>2 DEF StillListed, CompactionLevels
    <3>2. HeldAt(rlvl, g)
      BY <2>1, <2>2, <3>1 DEF LateFilesHeld
    <3>3. t \in g.min..g.max
      <4>1. g.min \in Int /\ g.max \in Int
        BY <1>4, <2>1 DEF At
      <4>2. t \in Int /\ g.min <= t /\ t <= g.max
        BY <1>6, <2>1 DEF Holds
      <4> QED BY <4>1, <4>2
    <3> QED BY <3>1, <3>2, <3>3 DEF HeldAt
  <2>3. CASE ~(dst - 1 > rlvl)
    <3>1. StillListed(dst) = dst - 1
      BY <1>4, <2>3 DEF StillListed
    <3> QED BY <2>1, <3>1
  <2> QED BY <2>2, <2>3
<1>7. ASSUME NEW k \in CompactionLevels, job'[k] # NoInfo
      PROVE  (HeldBeyond(k, job[k].min - 1) /\ HeldAt(StillListed(k), job[k]))'
  <2>1. CASE k = dst
    <3>1. HeldBeyond(k, job[k].min - 1)'
      BY <1>1, <1>5, <2>1 DEF HeldBeyond, Holds
    <3>2. StillListed(k)' = StillListed(k) /\ \A l : At(l)' = At(l)
      BY <1>1 DEF StillListed, At
    <3>3. HeldAt(StillListed(k), job[k])'
      BY <1>6, <2>1, <3>2 DEF HeldAt, Holds
    <3> QED BY <3>1, <3>3
  <2>2. CASE k # dst
    <3>1. remote \subseteq remote' /\ job'[k] \in {job[k], NoInfo}
      BY <1>1, <2>2
    <3> QED BY <1>7, <3>1, SameJobsHeld
  <2> QED BY <2>1, <2>2
<1> QED BY <1>2, <1>7 DEF JobsHeld

(* As long as nothing is deleted, no step of the Store hides a transaction from
   the levels still to be listed. *)
LEMMA NextKeepsSettled ==
  ASSUME Inv, FilesHeld, LateFilesHeld, JobsHeld, Next, reached' = reached, rlvl' = rlvl,
         reached \in Nat, rlvl \in 0..MaxLevel, remote \subseteq remote'
  PROVE  FilesHeld' /\ LateFilesHeld' /\ JobsHeld'
<1>1. /\ job \in [CompactionLevels -> Info \cup {NoInfo}] /\ ~(SnapshotLevel <= MaxLevel)
  BY LevelAssumption DEF Inv, TypeOK, SnapshotLevel
<1>2. ASSUME remote' = remote, \A k \in CompactionLevels : job'[k] \in {job[k], NoInfo}
      PROVE  FilesHeld' /\ LateFilesHeld' /\ JobsHeld'
  BY <1>2, AdditionKeepsSettled
<1>3. CASE SyncUpload \/ SyncAborted
  <2>1. job' = job /\ (remote' = remote \/ remote' = remote \cup {L0File(rpos + 1)})
    BY <1>3 DEF SyncUpload, SyncAborted, compactors
  <2>2. CASE remote' = remote
    BY <1>2, <2>1, <2>2
  <2>3. CASE remote' = remote \cup {L0File(rpos + 1)}
    BY <2>1, <2>3, UploadKeepsSettled
  <2> QED BY <2>1, <2>2, <2>3
<1>4. ASSUME NEW dst \in CompactionLevels, CompactWrite(dst) \/ CompactFail(dst)
      PROVE  FilesHeld' /\ LateFilesHeld' /\ JobsHeld'
  <2>1. /\ job[dst] # NoInfo /\ job' = [job EXCEPT ![dst] = NoInfo]
        /\ remote' = remote \/ remote' = remote \cup {Written(dst)}
    BY <1>4 DEF CompactWrite, CompactFail
  <2>2. \A k \in CompactionLevels : job'[k] \in {job[k], NoInfo}
    BY <1>1, <2>1
  <2>3. CASE remote' = remote
    BY <1>2, <2>2, <2>3
  <2>4. CASE remote' = remote \cup {Written(dst)}
    BY <2>1, <2>2, <2>4, WriteKeepsSettled
  <2> QED BY <2>1, <2>3, <2>4
<1>5. ASSUME NEW dst \in CompactionLevels, CompactStart(dst)
      PROVE  FilesHeld' /\ LateFilesHeld' /\ JobsHeld'
  BY <1>5, StartKeepsSettled
<1>6. CASE SnapshotWrite \/ SnapshotFail
  <2>1. job' = job /\ (remote' = remote \/ remote' = remote \cup {Snapshot})
    BY <1>6 DEF SnapshotWrite, SnapshotFail, compactors
  <2>2. \A f \in remote' \ remote : ~(f.level <= MaxLevel)
    BY <1>1, <2>1 DEF Snapshot
  <2> QED BY <2>1, <2>2, AdditionKeepsSettled
<1>7. ASSUME NEW level \in Levels, DeleteNext(level)
      PROVE  FilesHeld' /\ LateFilesHeld' /\ JobsHeld'
  <2>1. remote' = remote /\ job' = job
    BY <1>7 DEF DeleteNext, compactors
  <2> QED BY <1>2, <2>1
<1>8. CASE Crash
  <2>1. remote' = remote /\ \A k \in CompactionLevels : job'[k] = NoInfo
    BY <1>8 DEF Crash
  <2> QED BY <1>2, <2>1
<1>9. CASE \/ DBSync \/ DBSyncFail \/ SyncStart \/ SyncClearedByOther
           \/ L0Retention \/ \E dst \in CompactionLevels : MaxLTXFileInfo(dst)
           \/ SnapshotStart \/ LevelRetention \/ RetentionDone
           \/ \E cut \in 0..(MaxTX + 1) : ExpireSnapshots(cut)
           \/ \E level \in Levels : DeleteFail(level)
  <2>1. remote' = remote /\ job' = job
    BY <1>9 DEF DBSync, DBSyncFail, writers, SyncStart, SyncClearedByOther,
                L0Retention, MaxLTXFileInfo, SnapshotStart, LevelRetention, RetentionDone, ExpireSnapshots, DeleteFail, compactors
  <2> QED BY <1>2, <2>1
<1> QED BY <1>3, <1>4, <1>5, <1>6, <1>7, <1>8, <1>9 DEF Next, SyncFail

LEMMA StoreStepKeepsRInv ==
  ASSUME Inv, Inv', RInv, StoreStep
  PROVE  RInv'
<1>1. /\ Next /\ rspc' = rspc /\ rlvl' = rlvl /\ infos' = infos /\ reached' = reached
      /\ goal' = goal
      /\ rspc # "idle" /\ ~moved' => ~moved /\ remote \subseteq remote'
  BY DEF StoreStep
<1>2. RTypeOK' /\ PlanHolds'
  BY <1>1 DEF RInv, RTypeOK, PlanHolds, Holds
<1>3. GoalAhead'
  <2>1. CASE rspc = "listing" /\ \E f \in At(0) : f.max >= goal
    <3>1. PICK f \in At(0) : f.max >= goal
      BY <2>1
    <3>2. At(0) \in SUBSET File /\ At(0)' \in SUBSET File /\ MaxTXID(At(0))' = MaxTXID(At(0)')
      BY DEF Inv, TypeOK, At, MaxTXID
    <3>3. MaxTXID(At(0)') >= MaxTXID(At(0))
      BY <1>1, <3>2, LevelEndGrows, LevelAssumption DEF Levels
    <3>4. MaxTXID(At(0)) \in 0..MaxTX /\ f.max <= MaxTXID(At(0)) /\ f.max \in 1..MaxTX
      BY <3>1, <3>2, MaxTXIDIsGreatest DEF File
    <3>5. /\ MaxTXID(At(0)') \in 0..MaxTX
          /\ At(0)' # {} => \E g \in At(0)' : g.max = MaxTXID(At(0)')
          /\ At(0)' = {} => MaxTXID(At(0)') = 0
      BY <3>2, MaxTXIDIsGreatest
    <3>6. PICK g \in At(0)' : g.max = MaxTXID(At(0)')
      BY <3>3, <3>4, <3>5
    <3>7. g.max >= goal
      BY <3>1, <3>3, <3>4, <3>5, <3>6 DEF RInv, RTypeOK
    <3> QED BY <1>1, <2>1, <3>6, <3>7 DEF GoalAhead
  <2> QED BY <1>1, <2>1 DEF RInv, GoalAhead
<1>4. PlanKept'
  BY <1>1 DEF RInv, PlanKept
<1>5. Settled'
  <2> SUFFICES ASSUME rspc = "listing", ~moved'
               PROVE  FilesHeld' /\ LateFilesHeld' /\ JobsHeld'
    BY <1>1 DEF Settled
  <2>1. FilesHeld /\ LateFilesHeld /\ JobsHeld /\ remote \subseteq remote'
    BY <1>1 DEF RInv, Settled
  <2>2. reached \in Nat /\ rlvl \in 0..MaxLevel
    BY DEF RInv, RTypeOK
  <2> QED BY <1>1, <2>1, <2>2, NextKeepsSettled
<1> QED BY <1>2, <1>3, <1>4, <1>5 DEF RInv

-----------------------------------------------------------------------------
(* Every step. *)

LEMMA ReturnKeepsRInv ==
  ASSUME Return
  PROVE  RInv'
<1>1. rspc' = "idle" /\ rlvl' = 0 /\ infos' = {} /\ reached' = 0 /\ goal' = 0
  BY DEF Return
<1>2. 0 \in 0..MaxLevel /\ 0 \in 0..MaxTX
  BY LevelAssumption, TXAssumption
<1> QED BY <1>1, <1>2 DEF RInv, RTypeOK, GoalAhead, PlanHolds, PlanKept, Settled

LEMMA OpenFileKeepsRInv ==
  ASSUME RInv, OpenFile
  PROVE  RInv'
<1>1. /\ rspc = "opening" /\ rspc' = rspc /\ rlvl' = rlvl /\ reached' = reached
      /\ goal' = goal /\ moved' = moved /\ remote' = remote /\ infos' \subseteq infos
  BY DEF OpenFile, vars
<1> QED BY <1>1 DEF RInv, RTypeOK, GoalAhead, PlanHolds, PlanKept, Settled

LEMMA RestoreKeepsRInv ==
  ASSUME Inv, Inv', JobSourced, RInv, [RNext]_rvars
  PROVE  RInv'
<1>1. CASE UNCHANGED rvars
  BY <1>1 DEF rvars, vars, restorer, compactors, RInv, RTypeOK, GoalAhead, PlanHolds, PlanKept,
              Settled, FilesHeld, LateFilesHeld, JobsHeld, HeldBeyond, HeldAt, StillListed, At,
              Holds
<1>2. CASE ListGap \/ OpenMissing \/ NotAvailable \/ RestoreDone
  <2>1. Return
    BY <1>2 DEF ListGap, OpenMissing, NotAvailable, RestoreDone
  <2> QED BY <2>1, ReturnKeepsRInv
<1> QED
  BY <1>1, <1>2, StoreStepKeepsRInv, RestoreStartKeepsRInv, ListLevelKeepsRInv,
     OpenFileKeepsRInv DEF RNext

(* What a restore knows of its plan while the Store goes on. *)
THEOREM RestoreInvariance == RSpec => []RInv
<1>1. RInit => RInv
  <2> SUFFICES ASSUME RInit PROVE RInv
    OBVIOUS
  <2>1. 0 \in 0..MaxLevel /\ 0 \in 0..MaxTX
    BY LevelAssumption, TXAssumption
  <2> QED BY <2>1 DEF RInit, RInv, RTypeOK, GoalAhead, PlanHolds, PlanKept, Settled
<1>2. Inv /\ Inv' /\ JobSourced /\ RInv /\ [RNext]_rvars => RInv'
  BY RestoreKeepsRInv
<1> QED BY <1>1, <1>2, ImplementsStore, Invariance, SourceInvariance, PTL DEF RSpec

-----------------------------------------------------------------------------
(* What it means for a restore. *)

(* The plan reaches what lay on the replica when Restore began, however the
   files moved while CalcRestorePlan listed them level by level, and when the
   listing ends there is a file for every transaction up to its end. *)
THEOREM RestoreNeverBehind == RSpec => RestoreNotBehind
<1>1. Inv /\ RInv /\ [RNext]_rvars =>
        [/\ RestoreDone => reached >= goal
         /\ rspc = "listing" /\ rspc' = "opening" =>
              \A t \in 1..reached' : \E f \in infos' : f.min <= t /\ t <= f.max]_rvars
  <2> SUFFICES ASSUME Inv, RInv, RNext
               PROVE  /\ RestoreDone => reached >= goal
                      /\ rspc = "listing" /\ rspc' = "opening" =>
                           \A t \in 1..reached' : \E f \in infos' : f.min <= t /\ t <= f.max
    OBVIOUS
  <2>1. RestoreDone => reached >= goal
    BY DEF RestoreDone, RInv, GoalAhead
  <2>2. rspc = "listing" /\ rspc' = "opening" => ListLevel
    BY DEF RNext, StoreStep, RestoreStart, OpenFile, RestoreDone, ListGap, OpenMissing,
           NotAvailable, Return
  <2>3. ListLevel => \A t \in 1..reached' : \E f \in infos' : Holds(f, t)
    BY ListLevelExtends
  <2> QED BY <2>1, <2>2, <2>3 DEF Holds
<1> QED BY <1>1, ImplementsStore, Invariance, RestoreInvariance, PTL DEF RSpec, RestoreNotBehind

(* As long as nothing was deleted, the files of the next level follow one
   another and the plan. *)
LEMMA SettledIsContiguous ==
  ASSUME Inv, RInv, rspc = "listing", ~moved
  PROVE  Contiguous
<1>1. /\ rlvl \in 0..MaxLevel /\ reached \in 0..MaxTX
      /\ \A g \in remote : g.level \in Int /\ g.min \in 1..MaxTX /\ g.max \in 1..MaxTX
  BY LevelAssumption DEF RInv, RTypeOK, Inv, TypeOK, File, Levels, SnapshotLevel
<1>2. FilesHeld /\ LateFilesHeld
  BY DEF RInv, Settled
<1>3. ASSUME NEW f \in At(rlvl), NEW t \in (reached + 1)..f.max
      PROVE  \E g \in At(rlvl) : g.min <= t /\ t <= g.max
  <2>1. f \in remote /\ f.level = rlvl
    BY DEF At
  <2>2. t \in Int /\ t > reached /\ t \in 1..f.max
    BY <1>1, <2>1
  <2>3. HeldBeyond(rlvl, f.max)
    BY <1>1, <1>2, <2>1 DEF FilesHeld
  <2>4. PICK g \in remote : rlvl <= g.level /\ g.level <= MaxLevel /\ Holds(g, t)
    BY <2>2, <2>3 DEF HeldBeyond
  <2>5. CASE g.level = rlvl
    BY <2>4, <2>5 DEF At, Holds
  <2>6. CASE g.level > rlvl
    <3>1. g.level \in CompactionLevels /\ g \in At(g.level)
      BY <1>1, <2>4, <2>6, LevelAssumption DEF CompactionLevels, At
    <3>2. HeldAt(rlvl, g)
      BY <1>2, <2>6, <3>1 DEF LateFilesHeld
    <3>3. t \in g.min..g.max
      BY <1>1, <2>2, <2>4 DEF Holds
    <3> QED BY <1>1, <2>2, <3>2, <3>3 DEF HeldAt, Holds
  <2> QED BY <1>1, <2>4, <2>5, <2>6
<1>4. Appendable(reached, {f \in At(rlvl) : f.max > reached})
  BY <1>1, <1>3, BeyondIsAppendable
<1> QED BY <1>4 DEF Contiguous, Beyond

(* A restore fails only if a file was deleted while it ran or there was nothing
   to restore: uploads, compactions and snapshots beside it never make it find a
   gap, lose a file it planned, or end with an empty plan. *)
THEOREM OnlyDeletionFailsRestore == RSpec => FailsOnlyIfMoved
<1>1. Inv /\ RInv /\ [RNext]_rvars => [Failure => moved \/ goal = 0]_rvars
  <2> SUFFICES ASSUME Inv, RInv, Failure, ~moved
               PROVE  goal = 0
    OBVIOUS
  <2>1. CASE ListGap
    BY <2>1, SettledIsContiguous DEF ListGap
  <2>2. CASE OpenMissing
    BY <2>2 DEF OpenMissing, RInv, PlanKept
  <2>3. CASE NotAvailable
    <3>1. reached = 0 /\ reached >= goal /\ goal \in 0..MaxTX
      BY <2>3 DEF NotAvailable, RInv, GoalAhead, RTypeOK
    <3> QED BY <3>1, TXAssumption
  <2> QED BY <2>1, <2>2, <2>3 DEF Failure
<1> QED BY <1>1, ImplementsStore, Invariance, RestoreInvariance, PTL DEF RSpec, FailsOnlyIfMoved

=============================================================================
