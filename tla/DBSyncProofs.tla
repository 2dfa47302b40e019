----------------------------- MODULE DBSyncProofs -----------------------------
(***************************************************************************)
(* Proofs about DBSync: for any database, any number of commits and any    *)
(* interleaving with applications and checkpoints, the L0 files restore to *)
(* a state the database had, a snapshot is one, a sync that skips has      *)
(* nothing to add, and after a power loss no file is put on top of files   *)
(* that the WAL does not continue.                                         *)
(***************************************************************************)
EXTENDS DBSync, SequenceTheorems, FiniteSetTheorems, WellFoundedInduction, TLAPS

-----------------------------------------------------------------------------
(* The inductive invariant. *)

(* The last frame of page p, and the database with the first k frames. *)
LastIn(w, p, from, to) ==
  LET at == {i \in from..to : w[i].pgno = p}
  IN  IF at = {} THEN 0 ELSE CHOOSE i \in at : \A j \in at : j <= i
View(w, d, k) ==
  [p \in Pages |-> IF LastIn(w, p, 1, k) = 0 THEN d[p] ELSE w[LastIn(w, p, 1, k)].version]

(* Page p has no frame after the a-th up to the k-th; its last one is the i-th. *)
Absent(w, p, a, k) == \A i \in a + 1..k : w[i].pgno # p
IsLast(w, p, i, k) == w[i].pgno = p /\ \A j \in i + 1..k : w[j].pgno # p

(* The types, with the WAL as a sequence and records as records. *)
SQLiteShape ==
  /\ version \in Nat /\ version \in Version /\ committed \subseteq State
  /\ dbfile \in State /\ \A p \in Pages : dbfile[p] <= version
  /\ wal \in Seq(Frame) /\ hdr \in Nat /\ hdr <= version
  /\ mx \in Nat /\ mx <= Len(wal) /\ nbackfill \in Nat /\ nbackfill <= mx

DBShape ==
  /\ rmark \in Int /\ rmark >= -1 /\ rmark <= mx
  /\ pc \in {"down", "idle", "verify", "verified", "copying", "exec", "pragma",
             "reacquire", "bump", "lock"}
  /\ chk \in {"sync", "before", "after"}
  /\ info.offset \in Nat /\ info.salt \in Nat /\ info.salt <= version
  /\ info.snapshotting \in BOOLEAN
  /\ \A p \in DOMAIN pageMap : p \in Pages /\ pageMap[p] \in Nat /\ pageMap[p] > 0
  /\ DOMAIN buf \subseteq Pages /\ buf = [p \in DOMAIN buf |-> buf[p]]
  /\ \A p \in DOMAIN buf : buf[p] \in Nat /\ buf[p] <= version
  /\ pc # "copying" => buf = <<>>
  /\ end \in Nat /\ hdr0 \in Nat /\ hdr0 <= version
  /\ last.salt \in Nat /\ last.salt <= version /\ last.end \in Nat
  /\ replay \in State /\ \A p \in Pages : replay[p] <= version
  /\ overrun \subseteq {"files", "copy", "torn", "loss", "tail"}

(* How far litestream's own commits go past the applications' bound. *)
VersionOK ==
  \/ version <= MaxVersion
  \/ /\ version = MaxVersion + 1 /\ hdr # 0
     /\ pc \notin {"exec", "pragma", "reacquire", "bump"}
     /\ ~(chk = "before" /\ pc \in {"verify", "verified", "copying"})

(* The PRAGMA runs without the read lock. *)
LockOK == pc \in {"down", "pragma", "reacquire"} => rmark = -1

(* The WAL holds mx frames of its salt and then none; every salt and every
   version was used before. *)
LogOK ==
  /\ hdr = 0 => Len(wal) = 0
  /\ \A i \in 1..mx : wal[i].salt = hdr
  /\ \A i \in mx + 1..Len(wal) : wal[i].salt # hdr
  /\ \A i \in 1..Len(wal) : wal[i].salt \in 1..version /\ wal[i].version \in 1..version

(* The backfilled frames are in the database file, and the database was in the
   state that each transaction of the WAL after them leads to. *)
Boundary(w, m, k) == k = 0 \/ k = m \/ w[k].version # w[k + 1].version
States(w, d, nb, m, C) == \A k \in nb..m : Boundary(w, m, k) => View(w, d, k) \in C
DatabaseOK ==
  /\ View(wal, dbfile, nbackfill) = dbfile
  /\ States(wal, dbfile, nbackfill, mx, committed)

SQLiteInv == SQLiteShape /\ LogOK /\ DatabaseOK

(* State r, continued by the frames after the first a, is the database; *)
Continued(w, d, nb, m, r, a) ==
  \A k \in nb..m : k >= a =>
    \A p \in Pages : Absent(w, p, a, k) => r[p] = View(w, d, k)[p]
Continues(r, a) == Continued(wal, dbfile, nbackfill, mx, r, a)
(* and these frames are newer. *)
NewerIn(w, m, r, a) == \A i \in a + 1..m : \A p \in Pages : r[p] < w[i].version
Newer(r, a) == NewerIn(wal, mx, r, a)

(* Nothing happened that the files cannot be blamed for. *)
Sound == overrun \cap {"files", "torn", "tail"} = {}

(* Where the files end in the WAL. *)
Base == IF hdr = last.salt THEN last.end ELSE 0

FilesOK ==
  last # NoFile /\ Sound =>
    /\ replay \in committed
    /\ Continues(replay, Base)
    /\ hdr = last.salt => Newer(replay, last.end)
    /\ hdr # last.salt => \A i \in 1..Len(wal) : i > last.end => wal[i].salt # last.salt

(* The frame that verify looks up is the one it finds, unless lost. *)
LastOK ==
  /\ last # NoFile => last.salt # 0
  /\ "tail" \notin overrun /\ last.salt # 0 /\ hdr = last.salt =>
       /\ last.end <= mx
       /\ last.end > 0 => /\ wal[last.end].pgno \in DOMAIN last.pages
                          /\ last.pages[wal[last.end].pgno] = wal[last.end].version

SnapshotOK == last.snapshot /\ overrun \cap {"torn", "tail"} = {} => last.pages \in committed

(* What verify found still holds when the page map is read: a snapshot has no
   frame to go on from, *)
VerifiedOK ==
  pc = "verified" /\ "tail" \notin overrun =>
    /\ info.snapshotting /\ info.offset > 0 =>
         /\ info.salt # 0 /\ info.salt # hdr
         /\ info.offset <= Len(wal) => wal[info.offset].salt # info.salt
    /\ ~info.snapshotting =>
         /\ last # NoFile
         /\ \/ info.offset = 0 /\ hdr # last.salt
            \/ info.offset = last.end /\ info.salt = last.salt

(* What the file being written will restore to. *)
Source(p) == IF info.snapshotting THEN dbfile[p] ELSE replay[p]
Target == [p \in Pages |-> IF p \in DOMAIN pageMap THEN wal[pageMap[p]].version ELSE Source(p)]

(* Nothing happened that the file being written cannot be blamed for. *)
Clean ==
  /\ overrun \cap {"copy", "tail"} = {}
  /\ info.snapshotting \/ overrun \cap {"files", "torn"} = {}

MapOK ==
  info.salt = hdr =>
    /\ end <= mx
    /\ \A p \in DOMAIN pageMap : pageMap[p] <= end
    /\ \A p \in DOMAIN pageMap \cap DOMAIN buf : buf[p] = wal[pageMap[p]].version
    /\ "tail" \notin overrun /\ end > 0 =>
         wal[end].pgno \in DOMAIN pageMap /\ pageMap[wal[end].pgno] = end

TargetOK ==
  /\ info.salt = hdr
  /\ Target \in committed /\ Continues(Target, end) /\ Newer(Target, end)
  /\ \A p \in DOMAIN buf : buf[p] = Target[p]
  /\ info.snapshotting =>
       /\ nbackfill <= end /\ rmark <= end
       /\ \A i \in 1..end : wal[i].pgno \in DOMAIN pageMap

CopyOK ==
  pc = "copying" =>
    /\ info.salt # 0 /\ MapOK
    /\ Clean => TargetOK

Inv ==
  /\ SQLiteShape /\ DBShape /\ VersionOK /\ LockOK /\ LogOK /\ DatabaseOK
  /\ FilesOK /\ LastOK /\ SnapshotOK /\ VerifiedOK /\ CopyOK

-----------------------------------------------------------------------------
(* Numbers and sequences. *)

LEMMA NatSetHasLeast ==
  ASSUME NEW S \in SUBSET Nat, S # {}
  PROVE  \E x \in S : \A y \in S : x <= y
<1>1. PICK x \in S : \A y \in S : ~(<<y, x>> \in OpToRel(<, Nat))
  BY NatLessThanWellFounded, WFMin
<1>2. \A y \in S : ~(y < x)
  BY <1>1 DEF OpToRel
<1> QED
  BY <1>2

(* A sequence of which the elements after the first t are overwritten by u. *)
Over(s, u, t) == SubSeq(s, 1, t) \o u \o SubSeq(s, t + Len(u) + 1, Len(s))

Overwritten(x, S, s, u, t) ==
  /\ x \in Seq(S)
  /\ Len(x) = IF t + Len(u) <= Len(s) THEN Len(s) ELSE t + Len(u)
  /\ \A i \in 1..Len(x) :
       x[i] = IF i <= t THEN s[i] ELSE IF i <= t + Len(u) THEN u[i - t] ELSE s[i]

LEMMA Overwrite ==
  ASSUME NEW S, NEW s \in Seq(S), NEW u \in Seq(S), NEW t \in Nat, t <= Len(s),
         NEW x, x = Over(s, u, t)
  PROVE  Overwritten(x, S, s, u, t)
<1> DEFINE a == SubSeq(s, 1, t)
           c == SubSeq(s, t + Len(u) + 1, Len(s))
           n == Len(u)
<1>0. n \in Nat /\ Len(s) \in Nat
  OBVIOUS
<1>e. \A i \in 1..Len(s) : s[i] \in S
  OBVIOUS
<1>1. a \in Seq(S) /\ Len(a) = t /\ \A i \in 1..t : a[i] = s[i]
  <2>1. \A i \in 1..t : s[i] \in S
    BY <1>e, <1>0
  <2> QED
    BY <2>1, SubSeqProperties
<1>2. /\ c \in Seq(S)
      /\ Len(c) = IF t + n <= Len(s) THEN Len(s) - t - n ELSE 0
      /\ \A i \in 1..Len(c) : c[i] = s[t + n + i]
  <2>1. \A i \in t + n + 1..Len(s) : s[i] \in S
    BY <1>e, <1>0
  <2>2. /\ c \in Seq(S)
        /\ Len(c) = IF t + n + 1 <= Len(s) THEN Len(s) - (t + n + 1) + 1 ELSE 0
        /\ \A i \in 1..Len(s) - (t + n + 1) + 1 : c[i] = s[t + n + 1 + i - 1]
    BY <2>1, <1>0, SubSeqProperties
  <2> QED
    BY <2>2, <1>0
<1> HIDE DEF a, c, n
<1> DEFINE b == a \o u
           r == b \o c
<1>3. b \in Seq(S) /\ Len(b) = t + n
      /\ \A i \in 1..t + n : b[i] = IF i <= t THEN a[i] ELSE u[i - t]
  BY <1>1, <1>0, ConcatProperties DEF n
<1> HIDE DEF b
<1>4. r \in Seq(S) /\ Len(r) = Len(b) + Len(c)
      /\ \A i \in 1..Len(b) + Len(c) : r[i] = IF i <= Len(b) THEN b[i] ELSE c[i - Len(b)]
  <2>1. b \in Seq(S) /\ c \in Seq(S)
    BY <1>2, <1>3
  <2> QED
    BY <2>1, ConcatProperties
<1> HIDE DEF r
<1>l. Len(r) = t + n + Len(c)
  BY <1>4, <1>3
<1>k. Len(c) \in Nat /\ (t + n <= Len(s) => Len(c) = Len(s) - t - n) /\ (~(t + n <= Len(s)) => Len(c) = 0)
  BY <1>2, <1>0
<1>5. Len(r) = IF t + n <= Len(s) THEN Len(s) ELSE t + n
  BY <1>l, <1>k, <1>0
<1>6. ASSUME NEW i \in 1..Len(r)
      PROVE  r[i] = IF i <= t THEN s[i] ELSE IF i <= t + n THEN u[i - t] ELSE s[i]
  <2>0. i \in 1..Len(b) + Len(c) /\ i \in Nat /\ 1 <= i
    BY <1>4
  <2>1. CASE i <= t
    <3>1. i \in 1..t + n /\ i <= Len(b) /\ i \in 1..t
      BY <2>0, <2>1, <1>3, <1>0
    <3>2. r[i] = b[i]
      BY <3>1, <2>0, <1>4
    <3>3. b[i] = a[i]
      BY <3>1, <2>1, <1>3
    <3>4. a[i] = s[i]
      BY <3>1, <1>1
    <3> QED
      BY <3>2, <3>3, <3>4, <2>1
  <2>2. CASE t < i /\ i <= t + n
    <3>1. i \in 1..t + n /\ i <= Len(b) /\ ~(i <= t)
      BY <2>0, <2>2, <1>3, <1>0
    <3>2. r[i] = b[i]
      BY <3>1, <2>0, <1>4
    <3>3. b[i] = u[i - t]
      BY <3>1, <1>3
    <3> QED
      BY <3>1, <3>2, <3>3, <2>2
  <2>3. CASE t + n < i
    <3>1. r[i] = c[i - (t + n)] /\ i - (t + n) \in 1..Len(c)
      BY <2>3, <1>3, <1>4, <1>l, <1>k, <1>0
    <3>2. PICK j \in 1..Len(c) : j = i - (t + n)
      BY <3>1
    <3>3. r[i] = c[j] /\ c[j] = s[t + n + j]
      BY <3>1, <3>2, <1>2
    <3>4. t + n + j = i /\ ~(i <= t) /\ ~(i <= t + n)
      BY <3>2, <2>3, <2>0, <1>0
    <3> QED
      BY <3>3, <3>4
  <2> QED
    BY <2>1, <2>2, <2>3, <1>0
<1>7. x = r
  BY DEF Over, a, b, c, n, r
<1> QED
  BY <1>4, <1>5, <1>6, <1>7 DEF n, Overwritten

LEMMA LastThere ==
  ASSUME NEW w, NEW a \in Nat, NEW k \in Nat, NEW p
  PROVE  Absent(w, p, a, k) \/ \E i \in a + 1..k : IsLast(w, p, i, k)
<1> DEFINE S == {k - i : i \in {j \in a + 1..k : w[j].pgno = p}}
<1>1. CASE S = {}
  BY <1>1 DEF Absent
<1>2. CASE S # {}
  <2>1. S \in SUBSET Nat
    OBVIOUS
  <2>2. PICK x \in S : \A y \in S : x <= y
    <3> HIDE DEF S
    <3> QED
      BY <1>2, <2>1, NatSetHasLeast
  <2>3. PICK i \in a + 1..k : w[i].pgno = p /\ x = k - i
    BY <2>2
  <2>4. ASSUME NEW j \in i + 1..k, w[j].pgno = p PROVE FALSE
    <3>1. k - j \in S /\ k - j < k - i
      BY <2>3, <2>4
    <3>2. x <= k - j
      <4> HIDE DEF S
      <4> QED
        BY <3>1, <2>2
    <3>3. x = k - i /\ i \in Int /\ j \in Int /\ k \in Int
      BY <2>3
    <3> HIDE DEF S
    <3> QED
      BY <3>1, <3>2, <3>3
  <2> QED
    BY <2>3, <2>4 DEF IsLast
<1> QED
  BY <1>1, <1>2

LEMMA LastInIs ==
  ASSUME NEW w, NEW a \in Nat, NEW k \in Nat, NEW p
  PROVE  /\ Absent(w, p, a, k) => LastIn(w, p, a + 1, k) = 0
         /\ \A i \in a + 1..k : IsLast(w, p, i, k) => LastIn(w, p, a + 1, k) = i
<1> DEFINE at == {i \in a + 1..k : w[i].pgno = p}
<1>1. ASSUME Absent(w, p, a, k) PROVE LastIn(w, p, a + 1, k) = 0
  BY <1>1 DEF LastIn, Absent
<1>2. ASSUME NEW i \in a + 1..k, IsLast(w, p, i, k)
      PROVE  LastIn(w, p, a + 1, k) = i
  <2>1. i \in at
    BY <1>2 DEF IsLast
  <2>2. \A j \in at : j <= i
    BY <1>2 DEF IsLast
  <2>3. \A h \in at : (\A j \in at : j <= h) => h = i
    BY <2>1, <2>2
  <2> HIDE DEF at
  <2>4. (CHOOSE h \in at : \A j \in at : j <= h) = i
    BY <2>1, <2>2, <2>3
  <2> QED
    BY <2>1, <2>4 DEF LastIn, at
<1> QED
  BY <1>1, <1>2

LEMMA ViewAt ==
  ASSUME NEW w, NEW d, NEW k \in Nat, NEW p \in Pages
  PROVE  /\ Absent(w, p, 0, k) => View(w, d, k)[p] = d[p]
         /\ \A i \in 1..k : IsLast(w, p, i, k) => View(w, d, k)[p] = w[i].version
         /\ Absent(w, p, 0, k) \/ \E i \in 1..k : IsLast(w, p, i, k)
<1>0. PICK a \in Nat : a = 0
  OBVIOUS
<1>1. /\ Absent(w, p, a, k) => LastIn(w, p, a + 1, k) = 0
      /\ \A i \in a + 1..k : IsLast(w, p, i, k) => LastIn(w, p, a + 1, k) = i
  BY LastInIs
<1>2. View(w, d, k)[p] = IF LastIn(w, p, 1, k) = 0 THEN d[p] ELSE w[LastIn(w, p, 1, k)].version
  BY DEF View
<1>3. \A i \in 1..k : i # 0
  OBVIOUS
<1>4. Absent(w, p, a, k) \/ \E i \in a + 1..k : IsLast(w, p, i, k)
  BY LastThere
<1>5. a + 1 = 1
  BY <1>0
<1> QED
  BY <1>0, <1>1, <1>2, <1>3, <1>4, <1>5

LEMMA ViewType ==
  ASSUME NEW w \in Seq(Frame), NEW d \in State, NEW k \in Nat, k <= Len(w)
  PROVE  View(w, d, k) \in State
<1>1. ASSUME NEW p \in Pages PROVE View(w, d, k)[p] \in Version
  <2>1. CASE Absent(w, p, 0, k)
    <3>1. View(w, d, k)[p] = d[p]
      BY <2>1, ViewAt
    <3> QED
      BY <3>1 DEF State
  <2>2. ASSUME NEW i \in 1..k, IsLast(w, p, i, k)
        PROVE  View(w, d, k)[p] \in Version
    <3>1. View(w, d, k)[p] = w[i].version
      BY <2>2, ViewAt
    <3>2. w[i] \in Frame
      OBVIOUS
    <3> QED
      BY <3>1, <3>2 DEF Frame
  <2> QED
    BY <2>1, <2>2, ViewAt
<1>2. View(w, d, k) = [p \in Pages |-> View(w, d, k)[p]]
  BY DEF View
<1> QED
  BY <1>1, <1>2 DEF State

(* Pages without a frame after the n-th are as they were at the n-th. *)
LEMMA ViewLater ==
  ASSUME NEW w, NEW d, NEW n \in Nat, NEW k \in Nat, n <= k, NEW p \in Pages,
         Absent(w, p, n, k)
  PROVE  View(w, d, k)[p] = View(w, d, n)[p]
<1>1. CASE Absent(w, p, 0, n)
  <2>1. Absent(w, p, 0, k)
    BY <1>1 DEF Absent
  <2> QED
    BY <1>1, <2>1, ViewAt
<1>2. ASSUME NEW i \in 1..n, IsLast(w, p, i, n)
      PROVE  View(w, d, k)[p] = View(w, d, n)[p]
  <2>1. i \in 1..k /\ IsLast(w, p, i, k)
    BY <1>2 DEF IsLast, Absent
  <2> QED
    BY <1>2, <2>1, ViewAt
<1> QED
  BY <1>1, <1>2, ViewAt

(* Only the first k frames count. *)
LEMMA ViewSame ==
  ASSUME NEW w, NEW v, NEW d, NEW k \in Nat, \A i \in 1..k : w[i] = v[i]
  PROVE  View(w, d, k) = View(v, d, k)
<1>1. ASSUME NEW p \in Pages PROVE View(w, d, k)[p] = View(v, d, k)[p]
  <2>1. CASE Absent(w, p, 0, k)
    <3>1. Absent(v, p, 0, k)
      BY <2>1 DEF Absent
    <3> QED
      BY <2>1, <3>1, ViewAt
  <2>2. ASSUME NEW i \in 1..k, IsLast(w, p, i, k)
        PROVE  View(w, d, k)[p] = View(v, d, k)[p]
    <3>1. v[i] = w[i] /\ IsLast(v, p, i, k)
      BY <2>2 DEF IsLast
    <3> QED
      BY <2>2, <3>1, ViewAt
  <2> QED
    BY <2>1, <2>2, ViewAt
<1>2. /\ View(w, d, k) = [p \in Pages |-> View(w, d, k)[p]]
      /\ View(v, d, k) = [p \in Pages |-> View(v, d, k)[p]]
  BY DEF View
<1> QED
  BY <1>1, <1>2

(* Backfilling changes nothing after the frames that are backfilled. *)
LEMMA ViewFill ==
  ASSUME NEW w, NEW d, NEW n \in Nat, NEW k \in Nat, n <= k
  PROVE  View(w, View(w, d, n), k) = View(w, d, k)
<1> DEFINE e == View(w, d, n)
<1>1. ASSUME NEW p \in Pages PROVE View(w, e, k)[p] = View(w, d, k)[p]
  <2>1. CASE Absent(w, p, 0, k)
    <3>1. Absent(w, p, 0, n)
      BY <2>1 DEF Absent
    <3>2. e[p] = d[p]
      BY <3>1, ViewAt
    <3> HIDE DEF e
    <3> QED
      BY <2>1, <3>2, ViewAt
  <2>2. ASSUME NEW i \in 1..k, IsLast(w, p, i, k)
        PROVE  View(w, e, k)[p] = View(w, d, k)[p]
    <3> HIDE DEF e
    <3> QED
      BY <2>2, ViewAt
  <2> QED
    BY <2>1, <2>2, ViewAt
<1>2. /\ View(w, e, k) = [p \in Pages |-> View(w, e, k)[p]]
      /\ View(w, d, k) = [p \in Pages |-> View(w, d, k)[p]]
  BY DEF View
<1> QED
  BY <1>1, <1>2

(* Overlay is the view of the WAL and the database file. *)
LEMMA OverlayIsView ==
  /\ \A k : Overlay(k) = View(wal, dbfile, k)
  /\ Current = View(wal, dbfile, mx)
BY DEF Overlay, View, LastFrame, LastIn, Current

-----------------------------------------------------------------------------
(* The frames of a transaction: each of its pages once. *)
LEMMA RankInjective ==
  ASSUME NEW P \in SUBSET Nat, IsFiniteSet(P), NEW p \in P, NEW q \in P, p # q
  PROVE  Cardinality({x \in P : x < p}) # Cardinality({x \in P : x < q})
<1>1. ASSUME NEW a \in P, NEW b \in P, a < b
      PROVE  Cardinality({x \in P : x < a}) # Cardinality({x \in P : x < b})
  <2> DEFINE A == {x \in P : x < a}
             B == {x \in P : x < b}
  <2>0. \A x \in P : x < a => x < b
    BY <1>1
  <2>1. A \in SUBSET B /\ a \in B /\ a \notin A /\ B \in SUBSET P
    <3>1. A \subseteq B
      BY <2>0
    <3>2. a \in B /\ a \notin A
      BY <1>1
    <3> QED
      BY <3>1, <3>2
  <2>2. IsFiniteSet(B)
    BY <2>1, FS_Subset
  <2>3. Cardinality(B) = Cardinality(A) => B = A
    BY <2>1, <2>2, FS_Subset
  <2> QED
    BY <2>1, <2>3
<1>2. CASE p < q
  BY <1>1, <1>2
<1>3. CASE q < p
  BY <1>1, <1>3
<1> QED
  BY <1>2, <1>3

LEMMA RankOnto ==
  ASSUME NEW P \in SUBSET Nat, IsFiniteSet(P), NEW r \in Nat, r < Cardinality(P)
  PROVE  \E p \in P : Cardinality({x \in P : x < p}) = r
<1> DEFINE n == Cardinality(P)
           rank == [p \in P |-> Cardinality({x \in P : x < p})]
           T == (0..n - 1) \ {r}
<1>0. n \in Nat
  BY FS_CardinalityType
<1>1. SUFFICES ASSUME \A p \in P : rank[p] # r PROVE FALSE
  OBVIOUS
<1>2. ASSUME NEW p \in P PROVE rank[p] \in 0..n - 1
  <2> DEFINE B == {x \in P : x < p}
  <2>1. B \in SUBSET P /\ B # P
    OBVIOUS
  <2>2. IsFiniteSet(B) /\ Cardinality(B) <= n /\ Cardinality(B) # n /\ Cardinality(B) \in Nat
    BY <2>1, FS_Subset, FS_CardinalityType
  <2> HIDE DEF B, n
  <2>3. Cardinality(B) \in 0..n - 1
    BY <2>2, <1>0
  <2> QED
    BY <2>3 DEF B
<1>3. rank \in [P -> T]
  BY <1>1, <1>2
<1>4. IsFiniteSet(T) /\ Cardinality(T) = n - 1
  <2>1. IsFiniteSet(0..n - 1) /\ Cardinality(0..n - 1) = IF 0 > n - 1 THEN 0 ELSE n - 1 - 0 + 1
    <3> HIDE DEF n
    <3>1. PICK a \in Int, b \in Int : a = 0 /\ b = n - 1
      BY <1>0
    <3>2. IsFiniteSet(a..b) /\ Cardinality(a..b) = IF a > b THEN 0 ELSE b - a + 1
      BY FS_Interval
    <3> QED
      BY <3>1, <3>2
  <2> HIDE DEF n
  <2>h. r < n
    BY DEF n
  <2>2. r \in 0..n - 1 /\ Cardinality(0..n - 1) = n
    <3>1. r \in 0..n - 1
      BY <2>h, <1>0
    <3>2. ~(0 > n - 1) /\ n - 1 - 0 + 1 = n
      BY <2>h, <1>0
    <3> QED
      BY <2>1, <3>1, <3>2
  <2> DEFINE I == 0..n - 1
  <2>3. IsFiniteSet(I) /\ r \in I /\ Cardinality(I) = n
    BY <2>1, <2>2
  <2> HIDE DEF I
  <2>4. IsFiniteSet(I \ {r}) /\ Cardinality(I \ {r}) = Cardinality(I) - 1
    BY <2>3, FS_RemoveElement
  <2> QED
    BY <2>3, <2>4 DEF I
<1>5. Cardinality(T) < Cardinality(P)
  BY <1>0, <1>4
<1> HIDE DEF T, rank, n
<1>6. PICK p, q \in P : p # q /\ rank[p] = rank[q]
  BY <1>3, <1>4, <1>5, FS_PigeonHole
<1>7. Cardinality({x \in P : x < p}) = Cardinality({x \in P : x < q})
  BY <1>6 DEF rank
<1> QED
  BY <1>6, <1>7, RankInjective

FramesHold(f, P, v, salt) ==
  /\ f \in Seq(Frame) /\ Len(f) = Cardinality(P) /\ Len(f) \in Nat /\ Len(f) > 0
  /\ \A i \in 1..Len(f) : f[i].pgno \in P /\ f[i].version = v /\ f[i].salt = salt
  /\ \A p \in P : \E i \in 1..Len(f) : f[i].pgno = p

LEMMA FramesAre ==
  ASSUME version \in Nat, version + 1 \in Version,
         NEW P \in SUBSET Pages, P # {}, NEW salt \in Version,
         NEW f, f = FramesOf(P, salt)
  PROVE  FramesHold(f, P, version + 1, salt)
<1> DEFINE n == Cardinality(P)
           rank(p) == Cardinality({q \in P : q < p})
           page(i) == CHOOSE p \in P : rank(p) = i - 1
           u == [i \in 1..n |-> [pgno |-> page(i), version |-> version + 1, salt |-> salt]]
<1>0. P \in SUBSET Nat /\ IsFiniteSet(P)
  BY PagesAssumption, FS_Subset
<1>1. n \in Nat /\ n > 0
  <2>1. n \in Nat /\ n # 0
    BY <1>0, FS_CardinalityType, FS_EmptySet
  <2> QED
    BY <2>1
<1>2. ASSUME NEW i \in 1..n PROVE page(i) \in P /\ rank(page(i)) = i - 1
  <2>1. i - 1 \in Nat /\ i - 1 < n
    BY <1>1
  <2>2. \E p \in P : Cardinality({q \in P : q < p}) = i - 1
    BY <2>1, <1>0, RankOnto
  <2>3. \E p \in P : rank(p) = i - 1
    BY <2>2
  <2> HIDE DEF rank
  <2> QED
    BY <2>3
<1>3. ASSUME NEW p \in P PROVE \E i \in 1..n : page(i) = p
  <2> DEFINE B == {q \in P : q < p}
  <2>1. B \in SUBSET P /\ B # P
    BY <1>0
  <2>2. Cardinality(B) <= n /\ Cardinality(B) # n /\ Cardinality(B) \in Nat
    BY <2>1, <1>0, FS_Subset, FS_CardinalityType
  <2>3. PICK i \in 1..n : i - 1 = rank(p)
    <3> HIDE DEF B, n
    <3>1. PICK c : c = Cardinality(B)
      OBVIOUS
    <3>2. c + 1 \in 1..n /\ (c + 1) - 1 = c
      BY <2>2, <1>1, <3>1
    <3>3. c = rank(p)
      BY <3>1 DEF B
    <3> HIDE DEF rank
    <3> QED
      BY <3>2, <3>3
  <2>4. page(i) \in P /\ rank(page(i)) = rank(p)
    BY <2>3, <1>2
  <2>5. page(i) = p
    <3>1. PICK r : r = page(i)
      OBVIOUS
    <3>2. r \in P /\ Cardinality({x \in P : x < r}) = Cardinality({x \in P : x < p})
      BY <2>4, <3>1
    <3>3. r = p
      BY <3>2, <1>0, RankInjective
    <3> QED
      BY <3>1, <3>3
  <2> QED
    BY <2>5
<1> HIDE DEF page, n, rank
<1>4. ASSUME NEW i \in 1..n PROVE u[i] \in Frame
  <2>1. u[i] = [pgno |-> page(i), version |-> version + 1, salt |-> salt]
    OBVIOUS
  <2>2. page(i) \in Pages
    BY <1>2
  <2> QED
    BY <2>1, <2>2 DEF Frame
<1>5. u \in Seq(Frame) /\ Len(u) = n
  <2>1. u \in [1..n -> Frame]
    BY <1>4
  <2> HIDE DEF u
  <2> QED
    BY <2>1, <1>1
<1>6. \A i \in 1..n : u[i].pgno = page(i) /\ u[i].version = version + 1 /\ u[i].salt = salt
  OBVIOUS
<1>7. f = u
  BY DEF FramesOf, u, n, page, rank
<1> HIDE DEF u
<1>8. f \in Seq(Frame) /\ Len(f) = Cardinality(P) /\ Len(f) \in Nat /\ Len(f) > 0
  BY <1>1, <1>5, <1>7 DEF n
<1>9. \A i \in 1..Len(f) : f[i].pgno \in P /\ f[i].version = version + 1 /\ f[i].salt = salt
  BY <1>2, <1>5, <1>6, <1>7
<1>10. ASSUME NEW p \in P PROVE \E i \in 1..Len(f) : f[i].pgno = p
  <2>1. PICK i \in 1..n : page(i) = p
    BY <1>3
  <2>2. i \in 1..Len(f) /\ f[i].pgno = p
    BY <2>1, <1>5, <1>6, <1>7
  <2> QED
    BY <2>2
<1> QED
  BY <1>8, <1>9, <1>10 DEF FramesHold

(* Where PageMap stops. *)
LEMMA ReadToIs ==
  ASSUME wal \in Seq(Frame), Reader.offset \in Nat, Reader.offset <= Len(wal)
  PROVE  /\ ReadTo \in Nat /\ ReadTo >= Reader.offset /\ ReadTo <= Len(wal)
         /\ \A i \in Reader.offset + 1..ReadTo : wal[i].salt = Reader.salt
         /\ ReadTo < Len(wal) => wal[ReadTo + 1].salt # Reader.salt
<1>1. PICK o, s : o = Reader.offset /\ s = Reader.salt
  OBVIOUS
<1>2. o \in Nat /\ o <= Len(wal) /\ Len(wal) \in Nat
  BY <1>1
<1> DEFINE R(n) == /\ \A i \in o + 1..n : wal[i].salt = s
                   /\ n < Len(wal) => wal[n + 1].salt # s
           S == {n \in o..Len(wal) : n < Len(wal) => wal[n + 1].salt # s}
<1>3. Len(wal) \in S /\ S \in SUBSET Nat
  BY <1>2
<1>4. PICK n \in S : \A k \in S : n <= k
  <2> HIDE DEF S
  <2> QED
    BY <1>3, NatSetHasLeast
<1>5. R(n)
  <2>1. ASSUME NEW i \in o + 1..n, wal[i].salt # s PROVE FALSE
    <3>1. i - 1 \in S /\ i - 1 < n
      BY <2>1, <1>2
    <3> QED
      BY <3>1, <1>4
  <2> QED
    BY <2>1, <1>4
<1>6. ReadTo = CHOOSE k \in o..Len(wal) : R(k)
  BY <1>1 DEF ReadTo
<1>7. ReadTo \in o..Len(wal) /\ R(ReadTo)
  <2> HIDE DEF R
  <2>1. \E k \in o..Len(wal) : R(k)
    BY <1>5
  <2> QED
    BY <1>6, <2>1
<1> QED
  BY <1>1, <1>2, <1>7

-----------------------------------------------------------------------------
(* What the steps of SQLite do to its files: frames are appended, *)
Appends(P) ==
  /\ version' = version + 1 /\ UNCHANGED <<hdr, nbackfill, dbfile, overrun>>
  /\ wal' \in Seq(Frame) /\ Len(wal') >= Len(wal) /\ mx > 0
  /\ mx' \in Nat /\ mx' > mx /\ mx' <= Len(wal')
  /\ \A i \in 1..mx : wal'[i] = wal[i]
  /\ \A i \in mx + 1..mx' : /\ wal'[i].pgno \in P
                            /\ wal'[i].version = version + 1 /\ wal'[i].salt = hdr
  /\ \A i \in mx' + 1..Len(wal') : i <= Len(wal) /\ wal'[i] = wal[i]
  /\ \A p \in P : \E i \in mx + 1..mx' : wal'[i].pgno = p
  /\ committed' = committed \cup {View(wal', dbfile, mx')}

(* the WAL is restarted or truncated, *)
Resets ==
  /\ version' \in {version, version + 1} /\ version' \in Version
  /\ hdr' = 0 \/ (hdr' = version + 1 /\ version' = version + 1)
  /\ nbackfill' = 0 /\ dbfile' = View(wal, dbfile, mx)
  /\ wal' \in Seq(Frame) /\ mx' \in Nat /\ mx' <= Len(wal')
  /\ \A i \in 1..mx' : wal'[i].salt = hdr' /\ wal'[i].version = version'
  /\ \A i \in mx' + 1..Len(wal') : i <= Len(wal) /\ wal'[i] = wal[i]
  /\ hdr' = 0 => Len(wal') = 0
  /\ hdr' # 0 => mx' > 0 /\ Len(wal') >= Len(wal)
  /\ committed' = committed \cup {View(wal', dbfile', mx')}
  /\ overrun' = Overrun

(* frames are copied into the database file, *)
Fills(n) ==
  /\ n >= nbackfill /\ n <= mx /\ nbackfill' = n /\ dbfile' = View(wal, dbfile, n)
  /\ overrun' = overrun \/ overrun' = overrun \cup {"copy"}
  /\ UNCHANGED <<version, wal, hdr, mx, committed>>

(* or a power loss cuts the WAL at the end of a transaction. *)
Cuts(n) ==
  /\ n >= nbackfill /\ n < mx /\ Boundary(wal, mx, n) /\ mx' = n
  /\ wal' \in Seq(Frame) /\ Len(wal') = n /\ \A i \in 1..n : wal'[i] = wal[i]
  /\ UNCHANGED <<version, dbfile, hdr, nbackfill, committed>>
  /\ overrun' = (overrun \ {"copy"}) \cup {"loss"}
                  \cup (IF last.salt = hdr /\ last.end > n THEN {"tail"} ELSE {})

(* The frames after the k-th up to the n-th are a transaction of pages P, *)
Transaction(w, P, v, k, n) ==
  /\ \A i \in k + 1..n : w[i].pgno \in P /\ w[i].version = v
  /\ \A p \in P : \E i \in k + 1..n : w[i].pgno = p

(* and the database after it. *)
LEMMA ViewAfter ==
  ASSUME NEW w, NEW d, NEW v, NEW P \in SUBSET Pages,
         NEW k \in Nat, NEW n \in Nat, k <= n, Transaction(w, P, v, k, n)
  PROVE  View(w, d, n) = [p \in Pages |-> IF p \in P THEN v ELSE View(w, d, k)[p]]
<1>0. /\ \A i \in k + 1..n : w[i].pgno \in P /\ w[i].version = v
      /\ \A p \in P : \E i \in k + 1..n : w[i].pgno = p
  BY DEF Transaction
<1>1. ASSUME NEW p \in P PROVE View(w, d, n)[p] = v
  <2>1. PICK i \in 1..n : IsLast(w, p, i, n)
    <3>1. PICK j \in k + 1..n : w[j].pgno = p
      BY <1>0
    <3>2. j \in 0 + 1..n
      OBVIOUS
    <3>3. ~Absent(w, p, 0, n)
      BY <3>1, <3>2 DEF Absent
    <3> QED
      BY <3>3, ViewAt
  <2>2. i \in k + 1..n
    <3>1. PICK j \in k + 1..n : w[j].pgno = p
      BY <1>0
    <3> QED
      BY <2>1, <3>1 DEF IsLast
  <2>3. View(w, d, n)[p] = w[i].version
    BY <2>1, ViewAt
  <2> QED
    BY <1>0, <2>2, <2>3
<1>2. ASSUME NEW p \in Pages \ P PROVE View(w, d, n)[p] = View(w, d, k)[p]
  <2>1. Absent(w, p, k, n)
    BY <1>0 DEF Absent
  <2> QED
    BY <2>1, ViewLater
<1>3. View(w, d, n) = [p \in Pages |-> View(w, d, n)[p]]
  BY DEF View
<1> HIDE DEF View
<1> QED
  BY <1>1, <1>2, <1>3

LEMMA CommitAppends ==
  ASSUME SQLiteInv, version + 1 \in Version, NEW P \in SUBSET Pages, P # {}, Commit(P),
         mx > 0,
         NEW u, u = FramesOf(P, hdr), wal' = Over(wal, u, mx),
         mx' = mx + Cardinality(P), UNCHANGED <<hdr, nbackfill, overrun>>
  PROVE  Appends(P)
<1>2. /\ version \in Nat /\ wal \in Seq(Frame) /\ mx \in Nat /\ mx <= Len(wal) /\ Len(wal) \in Nat
      /\ hdr \in Version /\ dbfile \in State
  <2>1. /\ version \in Nat /\ wal \in Seq(Frame) /\ mx \in Nat /\ mx <= Len(wal)
        /\ hdr \in Nat /\ hdr <= version /\ version \in Version /\ dbfile \in State
    BY DEF SQLiteInv, SQLiteShape
  <2>2. hdr \in Version
    BY <2>1, VersionAssumption DEF Version
  <2> QED
    BY <2>1, <2>2
<1>3. /\ u \in Seq(Frame) /\ Len(u) = Cardinality(P) /\ Len(u) \in Nat /\ Len(u) > 0
      /\ \A i \in 1..Len(u) : u[i].pgno \in P /\ u[i].version = version + 1 /\ u[i].salt = hdr
      /\ \A p \in P : \E i \in 1..Len(u) : u[i].pgno = p
  <2>1. PICK salt : salt = hdr
    OBVIOUS
  <2>2. salt \in Version /\ u = FramesOf(P, salt) /\ version \in Nat
    BY <2>1, <1>2
  <2>3. FramesHold(u, P, version + 1, salt)
    BY <2>2, FramesAre
  <2> QED
    BY <2>1, <2>3 DEF FramesHold
<1>4. mx' = mx + Len(u)
  BY <1>3
<1>5. /\ wal' \in Seq(Frame)
      /\ Len(wal') = IF mx + Len(u) <= Len(wal) THEN Len(wal) ELSE mx + Len(u)
      /\ \A i \in 1..Len(wal') :
           wal'[i] = IF i <= mx THEN wal[i] ELSE IF i <= mx + Len(u) THEN u[i - mx] ELSE wal[i]
  <2>1. PICK w, x : w = wal /\ x = wal'
    OBVIOUS
  <2>2. PICK t : t = mx
    OBVIOUS
  <2>3. /\ w \in Seq(Frame) /\ u \in Seq(Frame) /\ t \in Nat /\ t <= Len(w)
        /\ x = Over(w, u, t)
    BY <2>1, <2>2, <1>2, <1>3, <1>4
  <2>4. Overwritten(x, Frame, w, u, t)
    BY <2>3, Overwrite
  <2> QED
    BY <2>1, <2>2, <2>4 DEF Overwritten
<1>6. PICK n, l : n = mx' /\ l = Len(wal')
  OBVIOUS
<1>7. n \in Nat /\ l \in Nat /\ n > mx /\ n <= l /\ l >= Len(wal) /\ n = mx + Len(u)
      /\ (l = Len(wal) \/ l = n)
  BY <1>2, <1>3, <1>4, <1>5, <1>6
<1>8. \A i \in 1..mx : wal'[i] = wal[i]
  <2>1. \A i \in 1..mx : i \in 1..l /\ i <= mx
    BY <1>2, <1>7
  <2> QED
    BY <2>1, <1>5, <1>6
<1>9. ASSUME NEW i \in mx + 1..n
      PROVE  wal'[i] = u[i - mx] /\ i - mx \in 1..Len(u)
  <2>1. i \in 1..l /\ ~(i <= mx) /\ i <= mx + Len(u) /\ i - mx \in 1..Len(u)
    BY <1>2, <1>3, <1>7
  <2> QED
    BY <2>1, <1>5, <1>6
<1>10. \A i \in mx + 1..n : wal'[i].pgno \in P /\ wal'[i].version = version + 1 /\ wal'[i].salt = hdr
  BY <1>3, <1>9
<1>11. ASSUME NEW i \in n + 1..l PROVE i <= Len(wal) /\ wal'[i] = wal[i]
  <2>1. i \in 1..l /\ ~(i <= mx) /\ ~(i <= mx + Len(u)) /\ i <= Len(wal)
    BY <1>2, <1>3, <1>7
  <2> QED
    BY <2>1, <1>5, <1>6
<1>12. ASSUME NEW p \in P PROVE \E i \in mx + 1..n : wal'[i].pgno = p
  <2>1. PICK i \in 1..Len(u) : u[i].pgno = p
    BY <1>3
  <2>2. mx + i \in mx + 1..n /\ (mx + i) - mx = i
    BY <1>2, <1>3, <1>7
  <2>3. wal'[mx + i] = u[i]
    BY <2>2, <1>9
  <2> QED
    BY <2>1, <2>2, <2>3
<1>13. committed' = committed \cup {View(wal', dbfile, n)}
  <2>1. View(wal', dbfile, mx) = View(wal, dbfile, mx)
    BY <1>2, <1>8, ViewSame
  <2>2. Current = View(wal, dbfile, mx)
    BY OverlayIsView
  <2>3. View(wal', dbfile, n) = [p \in Pages |-> IF p \in P THEN version + 1 ELSE Current[p]]
    <3>1. PICK k, v, w : k = mx /\ v = version + 1 /\ w = wal'
      OBVIOUS
    <3>2. k \in Nat /\ n \in Nat /\ k <= n /\ Transaction(w, P, v, k, n)
      BY <3>1, <1>2, <1>7, <1>10, <1>12 DEF Transaction
    <3>3. View(w, dbfile, n) = [p \in Pages |-> IF p \in P THEN v ELSE View(w, dbfile, k)[p]]
      BY <3>2, ViewAfter
    <3> QED
      BY <3>1, <3>3, <2>1, <2>2
  <2>4. committed' = committed \cup {[p \in Pages |-> IF p \in P THEN version + 1 ELSE Current[p]]}
    BY DEF Commit
  <2> QED
    BY <2>3, <2>4
<1>14. version' = version + 1 /\ dbfile' = dbfile
  BY DEF Commit
<1> QED
  BY <1>5, <1>6, <1>7, <1>8, <1>10, <1>11, <1>12, <1>13, <1>14 DEF Appends

LEMMA CommitResets ==
  ASSUME SQLiteInv, version + 1 \in Version, NEW P \in SUBSET Pages, P # {}, Commit(P),
         mx = 0 \/ MayRestart, NEW salt, salt = version + 1, NEW u, u = FramesOf(P, salt),
         NEW t, t = 0, wal' = Over(wal, u, t),
         hdr' = version + 1, mx' = Len(u), nbackfill' = 0, overrun' = Overrun
  PROVE  Resets
<1>2. /\ version \in Nat /\ wal \in Seq(Frame) /\ mx \in Nat /\ mx <= Len(wal) /\ Len(wal) \in Nat
      /\ dbfile \in State /\ nbackfill \in Nat /\ nbackfill <= mx
  BY DEF SQLiteInv, SQLiteShape
<1>3. /\ u \in Seq(Frame) /\ Len(u) = Cardinality(P) /\ Len(u) \in Nat /\ Len(u) > 0
      /\ \A i \in 1..Len(u) :
           u[i].pgno \in P /\ u[i].version = version + 1 /\ u[i].salt = version + 1
      /\ \A p \in P : \E i \in 1..Len(u) : u[i].pgno = p
  <2>1. salt \in Version /\ version \in Nat
    BY <1>2
  <2>2. FramesHold(u, P, version + 1, salt)
    BY <2>1, FramesAre
  <2> QED
    BY <2>2 DEF FramesHold
<1>4. t = 0
  OBVIOUS
<1>5. wal' = Over(wal, u, t)
  OBVIOUS
<1>6. /\ wal' \in Seq(Frame)
      /\ Len(wal') = IF t + Len(u) <= Len(wal) THEN Len(wal) ELSE t + Len(u)
      /\ \A i \in 1..Len(wal') :
           wal'[i] = IF i <= t THEN wal[i] ELSE IF i <= t + Len(u) THEN u[i - t] ELSE wal[i]
  <2>1. t \in Nat /\ t <= Len(wal)
    BY <1>2, <1>4
  <2>2. PICK w, x : w = wal /\ x = wal'
    OBVIOUS
  <2>3. /\ w \in Seq(Frame) /\ u \in Seq(Frame) /\ t \in Nat /\ t <= Len(w)
        /\ x = Over(w, u, t)
    BY <2>1, <2>2, <1>2, <1>3, <1>5
  <2>4. Overwritten(x, Frame, w, u, t)
    BY <2>3, Overwrite
  <2> QED
    BY <2>2, <2>4 DEF Overwritten
<1>7. PICK n, l : n = mx' /\ l = Len(wal')
  OBVIOUS
<1>8. n \in Nat /\ l \in Nat /\ n <= l /\ n = Len(u) /\ (l = Len(wal) \/ l = n)
  BY <1>2, <1>3, <1>4, <1>6, <1>7
<1>9. ASSUME NEW i \in 1..n PROVE wal'[i] = u[i]
  <2>1. i \in 1..l /\ ~(i <= t) /\ i <= t + Len(u) /\ i - t = i
    BY <1>4, <1>3, <1>8
  <2> QED
    BY <2>1, <1>6, <1>7
<1>10. ASSUME NEW i \in n + 1..l PROVE i <= Len(wal) /\ wal'[i] = wal[i]
  <2>1. i \in 1..l /\ ~(i <= t) /\ ~(i <= t + Len(u)) /\ i <= Len(wal)
    BY <1>2, <1>3, <1>4, <1>8
  <2> QED
    BY <2>1, <1>6, <1>7
<1>11. View(wal, dbfile, mx) = dbfile
  BY <1>2 DEF SQLiteInv, DatabaseOK, MayRestart
<1>12. committed' = committed \cup {View(wal', dbfile, n)}
  <2>1. \A p \in Pages : View(wal', dbfile, t)[p] = dbfile[p]
    <3>1. \A p \in Pages : Absent(wal', p, 0, t)
      BY <1>4 DEF Absent
    <3>2. t \in Nat
      BY <1>4
    <3> QED
      BY <3>1, <3>2, ViewAt
  <2>2. PICK v : v = version + 1
    OBVIOUS
  <2>3. View(wal', dbfile, n) = [p \in Pages |-> IF p \in P THEN v ELSE dbfile[p]]
    <3>1. \A i \in t + 1..n : i \in 1..n
      BY <1>4, <1>8
    <3>2. \A i \in 1..n : i \in t + 1..n
      BY <1>4, <1>8
    <3>3. PICK w : w = wal'
      OBVIOUS
    <3>4. t \in Nat /\ t <= n /\ n \in Nat /\ Transaction(w, P, v, t, n)
      <4>1. \A i \in 1..n : i \in 1..Len(u) /\ w[i] = u[i]
        BY <3>3, <1>8, <1>9
      <4>2. \A i \in t + 1..n : w[i].pgno \in P /\ w[i].version = v
        BY <4>1, <3>1, <2>2, <1>3
      <4>3. ASSUME NEW p \in P PROVE \E i \in t + 1..n : w[i].pgno = p
        <5>1. PICK i \in 1..Len(u) : u[i].pgno = p
          BY <1>3
        <5>2. i \in 1..n
          BY <1>8
        <5> QED
          BY <5>1, <5>2, <4>1, <3>2
      <4>4. t \in Nat /\ t <= n /\ n \in Nat
        BY <1>4, <1>8
      <4> QED
        BY <4>2, <4>3, <4>4 DEF Transaction
    <3>5. View(w, dbfile, n) = [p \in Pages |-> IF p \in P THEN v ELSE View(w, dbfile, t)[p]]
      BY <3>4, ViewAfter
    <3> QED
      BY <3>3, <3>5, <2>1
  <2>4. committed' = committed \cup {[p \in Pages |-> IF p \in P THEN version + 1 ELSE Current[p]]}
    BY DEF Commit
  <2>5. Current = dbfile
    BY <1>11, OverlayIsView
  <2> QED
    BY <2>2, <2>3, <2>4, <2>5
<1>13. version' = version + 1 /\ dbfile' = dbfile
  BY DEF Commit
<1>14. \A i \in 1..mx' : wal'[i].salt = hdr' /\ wal'[i].version = version'
  BY <1>3, <1>7, <1>8, <1>9, <1>13
<1>15. hdr' # 0 /\ n > 0 /\ l >= Len(wal)
  BY <1>2, <1>3, <1>4, <1>6, <1>7, <1>8
<1> QED
  BY <1>6, <1>7, <1>8, <1>10, <1>11, <1>12, <1>13, <1>14, <1>15 DEF Resets

LEMMA CommitIs ==
  ASSUME SQLiteInv, version + 1 \in Version, NEW P \in SUBSET Pages, P # {}, Commit(P)
  PROVE  Appends(P) \/ (Resets /\ (mx = 0 \/ MayRestart) /\ hdr' # 0)
<1>0. /\ version \in Nat /\ wal \in Seq(Frame) /\ version \in Version
      /\ hdr \in Nat /\ hdr <= version
  BY DEF SQLiteInv, SQLiteShape
<1>1. CASE /\ mx = 0 \/ MayRestart
           /\ wal' = FramesOf(P, version + 1)
                       \o SubSeq(wal, Len(FramesOf(P, version + 1)) + 1, Len(wal))
           /\ hdr' = version + 1 /\ mx' = Len(FramesOf(P, version + 1)) /\ nbackfill' = 0
           /\ overrun' = Overrun
  <2>1. PICK u : u = FramesOf(P, version + 1)
    OBVIOUS
  <2>2. u \in Seq(Frame) /\ Len(u) \in Nat
    <3>1. PICK salt : salt = version + 1
      OBVIOUS
    <3> QED
      BY <2>1, <3>1, <1>0, FramesAre DEF FramesHold
  <2>3. wal' = Over(wal, u, 0)
    <3>1. SubSeq(wal, 1, 0) = <<>>
      BY SubSeqEmpty
    <3>2. SubSeq(wal, 1, 0) \o u = u
      BY <3>1, <2>2, ConcatEmptySeq
    <3>3. 0 + Len(u) + 1 = Len(u) + 1
      BY <2>2
    <3> QED
      BY <1>1, <2>1, <3>2, <3>3 DEF Over
  <2>4. Resets
    <3>1. PICK salt, t : salt = version + 1 /\ t = 0
      OBVIOUS
    <3>2. u = FramesOf(P, salt) /\ wal' = Over(wal, u, t) /\ mx' = Len(u)
      BY <1>1, <2>1, <2>3, <3>1
    <3> QED
      BY <1>1, <3>1, <3>2, CommitResets
  <2> QED
    BY <1>0, <1>1, <2>4
<1>2. CASE /\ mx > 0
           /\ wal' = SubSeq(wal, 1, mx) \o FramesOf(P, hdr)
                       \o SubSeq(wal, mx + Cardinality(P) + 1, Len(wal))
           /\ mx' = mx + Cardinality(P)
           /\ UNCHANGED <<hdr, nbackfill, overrun>>
  <2>1. PICK u : u = FramesOf(P, hdr)
    OBVIOUS
  <2>2. Len(u) = Cardinality(P)
    <3>1. PICK salt : salt = hdr
      OBVIOUS
    <3>2. salt \in Version
      BY <3>1, <1>0, VersionAssumption DEF Version
    <3> QED
      BY <2>1, <3>1, <3>2, <1>0, FramesAre DEF FramesHold
  <2>3. wal' = Over(wal, u, mx)
    BY <1>2, <2>1, <2>2 DEF Over
  <2> QED
    BY <1>2, <2>1, <2>3, CommitAppends
<1> QED
  BY <1>1, <1>2 DEF Commit

LEMMA TruncateIs ==
  ASSUME SQLiteInv, dbfile' = View(wal, dbfile, mx),
         wal' = <<>>, hdr' = 0, mx' = 0, nbackfill' = 0, overrun' = Overrun,
         UNCHANGED <<version, committed>>
  PROVE  Resets
<1>1. wal' \in Seq(Frame) /\ Len(wal') = 0
  OBVIOUS
<1>2. View(wal, dbfile, mx) \in committed /\ mx \in Nat
  <2>1. mx \in nbackfill..mx /\ Boundary(wal, mx, mx)
    BY DEF SQLiteInv, SQLiteShape, Boundary
  <2> QED
    BY <2>1 DEF SQLiteInv, DatabaseOK, States, SQLiteShape
<1>3. View(wal', dbfile', 0) = dbfile'
  <2>1. ASSUME NEW p \in Pages PROVE View(wal', dbfile', 0)[p] = dbfile'[p]
    <3>1. Absent(wal', p, 0, 0)
      BY DEF Absent
    <3> QED
      BY <3>1, ViewAt
  <2>2. /\ View(wal', dbfile', 0) = [p \in Pages |-> View(wal', dbfile', 0)[p]]
        /\ dbfile' = [p \in Pages |-> dbfile'[p]]
    BY DEF View
  <2> QED
    BY <2>1, <2>2
<1>4. committed' = committed \cup {View(wal', dbfile', mx')}
  BY <1>2, <1>3
<1> QED
  BY <1>1, <1>4 DEF Resets, SQLiteInv, SQLiteShape

-----------------------------------------------------------------------------
(* The views and the states of the database under these steps. *)

LEMMA ViewBound ==
  ASSUME NEW w, NEW d, NEW k \in Nat, NEW v, NEW p \in Pages, d[p] <= v,
         \A i \in 1..k : w[i].version <= v
  PROVE  View(w, d, k)[p] <= v
<1>1. CASE Absent(w, p, 0, k)
  <2>1. View(w, d, k)[p] = d[p]
    BY <1>1, ViewAt
  <2> QED
    BY <2>1
<1>2. ASSUME NEW i \in 1..k, IsLast(w, p, i, k) PROVE View(w, d, k)[p] <= v
  <2>1. View(w, d, k)[p] = w[i].version
    BY <1>2, ViewAt
  <2> QED
    BY <2>1
<1> QED
  BY <1>1, <1>2, ViewAt

LEMMA ViewNone ==
  ASSUME NEW w, NEW d \in State
  PROVE  View(w, d, 0) = d
<1>1. ASSUME NEW p \in Pages PROVE View(w, d, 0)[p] = d[p]
  <2>1. Absent(w, p, 0, 0)
    BY DEF Absent
  <2> QED
    BY <2>1, ViewAt
<1>2. /\ View(w, d, 0) = [p \in Pages |-> View(w, d, 0)[p]]
      /\ d = [p \in Pages |-> d[p]]
  BY DEF View, State
<1> QED
  BY <1>1, <1>2

(* The first m frames are kept and those up to the n-th are one transaction. *)
LEMMA StatesAppend ==
  ASSUME NEW w, NEW x, NEW d, NEW C, NEW nb \in Nat, NEW m \in Nat, NEW n \in Nat,
         nb <= m, m <= n, NEW v,
         \A i \in 1..m : x[i] = w[i],
         \A i \in m + 1..n : x[i].version = v,
         States(w, d, nb, m, C)
  PROVE  States(x, d, nb, n, C \cup {View(x, d, n)})
<1> SUFFICES ASSUME NEW k \in nb..n, Boundary(x, n, k)
             PROVE  View(x, d, k) \in C \cup {View(x, d, n)}
  BY DEF States
<1>1. CASE k = n
  BY <1>1
<1>2. CASE k <= m /\ k # n
  <2>1. Boundary(w, m, k)
    <3>1. CASE k = 0 \/ k = m
      BY <3>1 DEF Boundary
    <3>2. CASE k > 0 /\ k < m
      <4>1. k \in 1..m /\ k + 1 \in 1..m
        BY <3>2
      <4>2. x[k] = w[k] /\ x[k + 1] = w[k + 1]
        BY <4>1
      <4> QED
        BY <4>2, <3>2, <1>2 DEF Boundary
    <3> QED
      BY <3>1, <3>2, <1>2
  <2>2. View(w, d, k) \in C
    BY <2>1, <1>2 DEF States
  <2>3. k \in Nat /\ \A i \in 1..k : x[i] = w[i]
    BY <1>2
  <2>4. View(x, d, k) = View(w, d, k)
    BY <2>3, ViewSame
  <2> QED
    BY <2>2, <2>4
<1>3. CASE m < k /\ k < n
  <2>1. k \in m + 1..n /\ k + 1 \in m + 1..n
    BY <1>3
  <2>2. x[k].version = x[k + 1].version
    BY <2>1
  <2> QED
    BY <2>2, <1>3 DEF Boundary
<1> QED
  BY <1>1, <1>2, <1>3

LEMMA StatesCut ==
  ASSUME NEW w, NEW x, NEW d, NEW C, NEW nb \in Nat, NEW m \in Nat, NEW n \in Nat,
         nb <= n, n <= m, Boundary(w, m, n),
         \A i \in 1..n : x[i] = w[i],
         States(w, d, nb, m, C)
  PROVE  States(x, d, nb, n, C)
<1> SUFFICES ASSUME NEW k \in nb..n, Boundary(x, n, k)
             PROVE  View(x, d, k) \in C
  BY DEF States
<1>1. Boundary(w, m, k)
  <2>1. CASE k = 0 \/ k = n
    BY <2>1 DEF Boundary
  <2>2. CASE k > 0 /\ k < n
    <3>1. k \in 1..n /\ k + 1 \in 1..n
      BY <2>2
    <3>2. x[k] = w[k] /\ x[k + 1] = w[k + 1]
      BY <3>1
    <3> QED
      BY <3>2, <2>2 DEF Boundary
  <2> QED
    BY <2>1, <2>2
<1>2. View(w, d, k) \in C
  BY <1>1 DEF States
<1>3. k \in Nat /\ \A i \in 1..k : x[i] = w[i]
  OBVIOUS
<1>4. View(x, d, k) = View(w, d, k)
  BY <1>3, ViewSame
<1> QED
  BY <1>2, <1>4

LEMMA StatesFill ==
  ASSUME NEW w, NEW d, NEW C, NEW nb \in Nat, NEW m \in Nat, NEW n \in Nat,
         nb <= n, n <= m, States(w, d, nb, m, C)
  PROVE  States(w, View(w, d, n), n, m, C)
<1> SUFFICES ASSUME NEW k \in n..m, Boundary(w, m, k)
             PROVE  View(w, View(w, d, n), k) \in C
  BY DEF States
<1>1. k \in nb..m /\ k \in Nat /\ n <= k
  OBVIOUS
<1>2. View(w, d, k) \in C
  BY <1>1 DEF States
<1> QED
  BY <1>1, <1>2, ViewFill

LEMMA ContinuedAppend ==
  ASSUME NEW w, NEW x, NEW d, NEW nb \in Nat, NEW m \in Nat, NEW n \in Nat,
         nb <= m, m <= n, \A i \in 1..m : x[i] = w[i],
         NEW r, NEW a \in Nat, a <= m, Continued(w, d, nb, m, r, a)
  PROVE  Continued(x, d, nb, n, r, a)
<1> SUFFICES ASSUME NEW k \in nb..n, k >= a, NEW p \in Pages, Absent(x, p, a, k)
             PROVE  r[p] = View(x, d, k)[p]
  BY DEF Continued
<1>1. PICK j \in nb..m : j >= a /\ j <= k /\ (k <= m => j = k) /\ (k > m => j = m)
  <2>1. CASE k <= m
    BY <2>1
  <2>2. CASE k > m
    BY <2>2
  <2> QED
    BY <2>1, <2>2
<1>2. Absent(w, p, a, j)
  BY <1>1 DEF Absent
<1>3. r[p] = View(w, d, j)[p]
  BY <1>1, <1>2 DEF Continued
<1>4. View(x, d, j) = View(w, d, j)
  <2>1. j \in Nat /\ \A i \in 1..j : x[i] = w[i]
    BY <1>1
  <2> QED
    BY <2>1, ViewSame
<1>5. View(x, d, k)[p] = View(x, d, j)[p]
  <2>1. Absent(x, p, j, k) /\ j \in Nat /\ k \in Nat /\ j <= k
    BY <1>1 DEF Absent
  <2> QED
    BY <2>1, ViewLater
<1> QED
  BY <1>3, <1>4, <1>5

LEMMA ContinuedCut ==
  ASSUME NEW w, NEW x, NEW d, NEW nb \in Nat, NEW m \in Nat, NEW n \in Nat,
         nb <= n, n <= m, \A i \in 1..n : x[i] = w[i],
         NEW r, NEW a \in Nat, Continued(w, d, nb, m, r, a)
  PROVE  Continued(x, d, nb, n, r, a)
<1> SUFFICES ASSUME NEW k \in nb..n, k >= a, NEW p \in Pages, Absent(x, p, a, k)
             PROVE  r[p] = View(x, d, k)[p]
  BY DEF Continued
<1>1. k \in Nat /\ k \in nb..m /\ \A i \in 1..k : x[i] = w[i]
  OBVIOUS
<1>2. Absent(w, p, a, k)
  BY <1>1 DEF Absent
<1>3. r[p] = View(w, d, k)[p]
  BY <1>1, <1>2 DEF Continued
<1>4. View(x, d, k) = View(w, d, k)
  BY <1>1, ViewSame
<1> QED
  BY <1>3, <1>4

LEMMA ContinuedFill ==
  ASSUME NEW w, NEW d, NEW nb \in Nat, NEW m \in Nat, NEW n \in Nat,
         nb <= n, n <= m, NEW r, NEW a \in Nat, Continued(w, d, nb, m, r, a)
  PROVE  Continued(w, View(w, d, n), n, m, r, a)
<1> SUFFICES ASSUME NEW k \in n..m, k >= a, NEW p \in Pages, Absent(w, p, a, k)
             PROVE  r[p] = View(w, View(w, d, n), k)[p]
  BY DEF Continued
<1>1. k \in nb..m /\ k \in Nat /\ n <= k
  OBVIOUS
<1>2. r[p] = View(w, d, k)[p]
  BY <1>1 DEF Continued
<1> QED
  BY <1>1, <1>2, ViewFill

(* A state that is the database file is continued by a WAL that is new. *)
LEMMA ContinuedNew ==
  ASSUME NEW w, NEW d, NEW m \in Nat
  PROVE  Continued(w, d, 0, m, d, 0)
<1> SUFFICES ASSUME NEW k \in 0..m, NEW p \in Pages, Absent(w, p, 0, k)
             PROVE  d[p] = View(w, d, k)[p]
  BY DEF Continued
<1> QED
  BY ViewAt

-----------------------------------------------------------------------------
(* SQLite's files under the four steps. *)

LEMMA AppendsKeeps ==
  ASSUME SQLiteInv, version + 1 \in Version, NEW P \in SUBSET Pages, Appends(P)
  PROVE  SQLiteInv' /\ hdr # 0
<1>1. PICK n, l, L, w, x :
        n = mx' /\ l = Len(wal) /\ L = Len(wal') /\ w = wal /\ x = wal'
  OBVIOUS
<1>2. /\ version \in Nat /\ version \in Version /\ committed \subseteq State
      /\ dbfile \in State /\ \A p \in Pages : dbfile[p] <= version
      /\ wal \in Seq(Frame) /\ hdr \in Nat /\ hdr <= version
      /\ mx \in Nat /\ mx <= l /\ nbackfill \in Nat /\ nbackfill <= mx
  BY <1>1 DEF SQLiteInv, SQLiteShape
<1>3. /\ version' = version + 1 /\ hdr' = hdr /\ nbackfill' = nbackfill
      /\ dbfile' = dbfile /\ overrun' = overrun
      /\ wal' \in Seq(Frame) /\ L >= l /\ mx > 0 /\ n \in Nat /\ n > mx /\ n <= L
      /\ \A i \in 1..mx : x[i] = w[i]
      /\ \A i \in mx + 1..n : /\ x[i].pgno \in P
                              /\ x[i].version = version + 1 /\ x[i].salt = hdr
      /\ \A i \in n + 1..L : i <= l /\ x[i] = w[i]
      /\ committed' = committed \cup {View(x, dbfile, n)}
  BY <1>1 DEF Appends
<1>4. l \in Nat /\ L \in Nat
  BY <1>1, <1>2, <1>3
<1>5. /\ hdr = 0 => l = 0
      /\ \A i \in 1..mx : w[i].salt = hdr
      /\ \A i \in mx + 1..l : w[i].salt # hdr
      /\ \A i \in 1..l : w[i].salt \in 1..version /\ w[i].version \in 1..version
  BY <1>1 DEF SQLiteInv, LogOK
<1>6. hdr # 0
  BY <1>2, <1>3, <1>5, <1>4
<1>7. View(x, dbfile, n) \in State
  <2>1. x \in Seq(Frame) /\ n <= Len(x)
    BY <1>1, <1>3
  <2> QED
    BY <2>1, <1>2, <1>3, ViewType
<1>8. SQLiteShape'
  <2>1. /\ version' \in Nat /\ version' \in Version /\ committed' \subseteq State
        /\ dbfile' \in State /\ \A p \in Pages : dbfile'[p] <= version'
    <3>1. committed' \subseteq State
      BY <1>2, <1>3, <1>7
    <3>2. \A p \in Pages : dbfile[p] <= version + 1
      <4>1. \A p \in Pages : dbfile[p] \in Int
        BY <1>2 DEF State, Version
      <4> QED
        BY <4>1, <1>2
    <3> QED
      BY <3>1, <3>2, <1>2, <1>3
  <2>2. /\ wal' \in Seq(Frame) /\ hdr' \in Nat /\ hdr' <= version'
        /\ mx' \in Nat /\ mx' <= Len(wal') /\ nbackfill' \in Nat /\ nbackfill' <= mx'
    BY <1>1, <1>2, <1>3
  <2> QED
    BY <2>1, <2>2 DEF SQLiteShape
<1>9. LogOK'
  <2>1. \A i \in 1..n : x[i].salt = hdr
    <3>1. \A i \in 1..n : i \in 1..mx \/ i \in mx + 1..n
      BY <1>2, <1>3
    <3> QED
      BY <3>1, <1>3, <1>5
  <2>2. \A i \in n + 1..L : x[i].salt # hdr
    <3>1. \A i \in n + 1..L : i <= l => i \in mx + 1..l
      BY <1>2, <1>3, <1>4
    <3> QED
      BY <3>1, <1>3, <1>5
  <2>3. ASSUME NEW i \in 1..L
        PROVE  x[i].salt \in 1..version + 1 /\ x[i].version \in 1..version + 1
    <3>1. CASE i <= mx
      <4>1. i \in 1..mx /\ i \in 1..l
        BY <3>1, <1>2, <1>4
      <4> QED
        BY <4>1, <1>2, <1>3, <1>5
    <3>2. CASE mx < i /\ i <= n
      <4>1. i \in mx + 1..n
        BY <3>2, <1>2, <1>3
      <4> QED
        BY <4>1, <1>2, <1>3, <1>6
    <3>3. CASE n < i
      <4>1. i \in n + 1..L
        BY <3>3, <1>3, <1>4
      <4>2. i \in 1..l /\ x[i] = w[i]
        BY <4>1, <1>3, <1>4
      <4> QED
        BY <4>2, <1>2, <1>5
    <3> QED
      BY <3>1, <3>2, <3>3, <1>2, <1>3
  <2> QED
    BY <2>1, <2>2, <2>3, <1>1, <1>3, <1>6 DEF LogOK
<1>10. DatabaseOK'
  <2>1. View(w, dbfile, nbackfill) = dbfile /\ States(w, dbfile, nbackfill, mx, committed)
    BY <1>1 DEF SQLiteInv, DatabaseOK
  <2>2. View(x, dbfile, nbackfill) = View(w, dbfile, nbackfill)
    <3>1. \A i \in 1..nbackfill : x[i] = w[i]
      BY <1>2, <1>3
    <3> QED
      BY <3>1, <1>2, ViewSame
  <2>3. States(x, dbfile, nbackfill, n, committed \cup {View(x, dbfile, n)})
    <3>1. PICK d, C, nb, m, v : /\ d = dbfile /\ C = committed /\ nb = nbackfill
                                /\ m = mx /\ v = version + 1
      OBVIOUS
    <3>2. /\ nb \in Nat /\ m \in Nat /\ n \in Nat /\ nb <= m /\ m <= n
          /\ \A i \in 1..m : x[i] = w[i]
          /\ \A i \in m + 1..n : x[i].version = v
          /\ States(w, d, nb, m, C)
      BY <3>1, <2>1, <1>2, <1>3
    <3>3. States(x, d, nb, n, C \cup {View(x, d, n)})
      BY <3>2, StatesAppend
    <3> QED
      BY <3>1, <3>3
  <2> QED
    BY <2>1, <2>2, <2>3, <1>1, <1>3 DEF DatabaseOK
<1> QED
  BY <1>6, <1>8, <1>9, <1>10 DEF SQLiteInv

LEMMA ResetsKeeps ==
  ASSUME SQLiteInv, Resets
  PROVE  SQLiteInv'
<1>1. PICK n, l, L, w, x :
        n = mx' /\ l = Len(wal) /\ L = Len(wal') /\ w = wal /\ x = wal'
  OBVIOUS
<1>2. /\ version \in Nat /\ version \in Version /\ committed \subseteq State
      /\ dbfile \in State /\ \A p \in Pages : dbfile[p] <= version
      /\ wal \in Seq(Frame) /\ hdr \in Nat /\ hdr <= version
      /\ mx \in Nat /\ mx <= l /\ nbackfill \in Nat /\ nbackfill <= mx
  BY <1>1 DEF SQLiteInv, SQLiteShape
<1>3. PICK v, h, d : v = version' /\ h = hdr' /\ d = dbfile'
  OBVIOUS
<1>4. /\ v \in {version, version + 1} /\ v \in Version
      /\ h = 0 \/ (h = version + 1 /\ v = version + 1)
      /\ nbackfill' = 0 /\ d = View(w, dbfile, mx)
      /\ wal' \in Seq(Frame) /\ n \in Nat /\ n <= L
      /\ \A i \in 1..n : x[i].salt = h /\ x[i].version = v
      /\ \A i \in n + 1..L : i <= l /\ x[i] = w[i]
      /\ h = 0 => L = 0
      /\ committed' = committed \cup {View(x, d, n)}
  BY <1>1, <1>3 DEF Resets
<1>5. l \in Nat /\ L \in Nat /\ v \in Nat /\ h \in Nat /\ v >= version /\ h <= v
  BY <1>1, <1>2, <1>4
<1>6. /\ \A i \in 1..l : w[i].salt \in 1..version /\ w[i].version \in 1..version
      /\ View(w, dbfile, mx) \in committed
  <2>1. \A i \in 1..l : w[i].salt \in 1..version /\ w[i].version \in 1..version
    BY <1>1 DEF SQLiteInv, LogOK
  <2>2. mx \in nbackfill..mx /\ Boundary(wal, mx, mx)
    BY <1>2 DEF Boundary
  <2>3. View(wal, dbfile, mx) \in committed
    BY <2>2 DEF SQLiteInv, DatabaseOK, States
  <2> QED
    BY <1>1, <2>1, <2>3
<1>7. d \in State /\ d \in committed
  BY <1>2, <1>4, <1>6
<1>8. \A p \in Pages : d[p] <= v
  <2>1. ASSUME NEW p \in Pages PROVE d[p] <= v
    <3>1. \A i \in 1..mx : w[i].version <= version
      BY <1>2, <1>5, <1>6
    <3>2. PICK e, u, m : e = dbfile /\ u = version /\ m = mx
      OBVIOUS
    <3>3. e[p] <= u /\ m \in Nat /\ \A i \in 1..m : w[i].version <= u
      BY <3>1, <3>2, <1>2
    <3>4. View(w, e, m)[p] <= u
      BY <3>3, ViewBound
    <3>5. d[p] <= version /\ d[p] \in Int
      BY <3>2, <3>4, <1>4, <1>7 DEF State, Version
    <3> QED
      BY <3>5, <1>2, <1>5
  <2> QED
    BY <2>1
<1>9. SQLiteShape'
  <2>1. x \in Seq(Frame) /\ n <= Len(x)
    BY <1>1, <1>4
  <2>2. View(x, d, n) \in State
    BY <2>1, <1>4, <1>7, ViewType
  <2>3. committed' \subseteq State
    BY <2>2, <1>2, <1>4
  <2> QED
    BY <2>3, <1>1, <1>3, <1>4, <1>5, <1>7, <1>8 DEF SQLiteShape
<1>10. LogOK'
  <2>1. \A i \in n + 1..L : i \in 1..l /\ x[i] = w[i]
    BY <1>4, <1>5
  <2>2. \A i \in n + 1..L : x[i].salt # h
    BY <2>1, <1>2, <1>4, <1>5, <1>6
  <2>3. ASSUME NEW i \in 1..L
        PROVE  x[i].salt \in 1..v /\ x[i].version \in 1..v
    <3>0. h = version + 1 /\ v = version + 1
      BY <1>4, <1>5
    <3>1. CASE i <= n
      <4>1. i \in 1..n
        BY <3>1, <1>4
      <4> QED
        BY <4>1, <3>0, <1>2, <1>4
    <3>2. CASE n < i
      <4>1. i \in n + 1..L
        BY <3>2, <1>4, <1>5
      <4> QED
        BY <4>1, <2>1, <1>2, <1>5, <1>6
    <3> QED
      BY <3>1, <3>2, <1>4
  <2> QED
    BY <2>2, <2>3, <1>1, <1>3, <1>4 DEF LogOK
<1>11. DatabaseOK'
  <2>1. View(x, d, 0) = d
    BY <1>7, ViewNone
  <2>2. ASSUME NEW k \in 0..n, Boundary(x, n, k)
        PROVE  View(x, d, k) \in committed \cup {View(x, d, n)}
    <3>1. CASE k = 0
      BY <3>1, <2>1, <1>7
    <3>2. CASE k = n
      BY <3>2
    <3>3. CASE k > 0 /\ k < n
      <4>1. k \in 1..n /\ k + 1 \in 1..n
        BY <3>3, <1>4
      <4>2. x[k].version = x[k + 1].version
        BY <4>1, <1>4
      <4> QED
        BY <4>2, <3>3, <2>2 DEF Boundary
    <3> QED
      BY <3>1, <3>2, <3>3, <1>4
  <2>3. States(x, d, 0, n, committed \cup {View(x, d, n)})
    BY <2>2 DEF States
  <2> QED
    BY <2>1, <2>3, <1>1, <1>3, <1>4 DEF DatabaseOK
<1> QED
  BY <1>9, <1>10, <1>11 DEF SQLiteInv

LEMMA FillsKeeps ==
  ASSUME SQLiteInv, NEW n \in Nat, Fills(n)
  PROVE  SQLiteInv'
<1>1. PICK w, d, m, v : w = wal /\ d = dbfile /\ m = mx /\ v = version
  OBVIOUS
<1>2. /\ n >= nbackfill /\ n <= m /\ nbackfill' = n /\ dbfile' = View(w, d, n)
      /\ version' = version /\ wal' = wal /\ hdr' = hdr /\ mx' = mx
      /\ committed' = committed
  BY <1>1 DEF Fills
<1>3. /\ v \in Nat /\ w \in Seq(Frame) /\ m \in Nat /\ m <= Len(w) /\ nbackfill \in Nat
      /\ d \in State /\ \A p \in Pages : d[p] <= v
  BY <1>1 DEF SQLiteInv, SQLiteShape
<1>4. n <= Len(w)
  BY <1>2, <1>3
<1>5. View(w, d, n) \in State
  BY <1>3, <1>4, ViewType
<1>6. ASSUME NEW p \in Pages PROVE View(w, d, n)[p] <= v
  <2>1. \A i \in 1..Len(w) : w[i].version \in 1..v
    BY <1>1 DEF SQLiteInv, LogOK
  <2>2. \A i \in 1..n : w[i].version <= v
    BY <2>1, <1>3, <1>4
  <2>3. d[p] <= v
    BY <1>3
  <2> QED
    BY <2>2, <2>3, ViewBound
<1>7. SQLiteShape'
  BY <1>1, <1>2, <1>5, <1>6 DEF SQLiteInv, SQLiteShape
<1>8. LogOK'
  BY <1>2 DEF SQLiteInv, LogOK
<1>9. View(w, View(w, d, n), n) = View(w, d, n)
  BY ViewFill
<1>10. States(w, View(w, d, n), n, m, committed)
  <2>1. PICK nb, C : nb = nbackfill /\ C = committed
    OBVIOUS
  <2>2. nb \in Nat /\ nb <= n /\ n <= m /\ States(w, d, nb, m, C)
    BY <2>1, <1>1, <1>2, <1>3 DEF SQLiteInv, DatabaseOK
  <2>3. States(w, View(w, d, n), n, m, C)
    BY <2>2, <1>3, StatesFill
  <2> QED
    BY <2>1, <2>3
<1>11. DatabaseOK'
  BY <1>1, <1>2, <1>9, <1>10 DEF DatabaseOK
<1> QED
  BY <1>7, <1>8, <1>11 DEF SQLiteInv

LEMMA CutsKeeps ==
  ASSUME SQLiteInv, NEW n \in Nat, Cuts(n)
  PROVE  SQLiteInv'
<1>1. PICK w, x, d, m, v : w = wal /\ x = wal' /\ d = dbfile /\ m = mx /\ v = version
  OBVIOUS
<1>2. /\ n >= nbackfill /\ n < m /\ Boundary(w, m, n) /\ mx' = n
      /\ x \in Seq(Frame) /\ Len(x) = n /\ \A i \in 1..n : x[i] = w[i]
      /\ version' = version /\ dbfile' = dbfile /\ hdr' = hdr
      /\ nbackfill' = nbackfill /\ committed' = committed
  BY <1>1 DEF Cuts
<1>3. w \in Seq(Frame) /\ m \in Nat /\ m <= Len(w) /\ Len(w) \in Nat /\ nbackfill \in Nat
  BY <1>1 DEF SQLiteInv, SQLiteShape
<1>4. SQLiteShape'
  BY <1>1, <1>2, <1>3 DEF SQLiteInv, SQLiteShape
<1>5. LogOK'
  <2>1. /\ hdr = 0 => Len(w) = 0
        /\ \A i \in 1..m : w[i].salt = hdr
        /\ \A i \in 1..Len(w) : w[i].salt \in 1..version /\ w[i].version \in 1..version
    BY <1>1 DEF SQLiteInv, LogOK
  <2>2. \A i \in 1..n : i \in 1..m /\ i \in 1..Len(w)
    BY <1>2, <1>3
  <2>3. \A i \in n + 1..Len(x) : FALSE
    BY <1>2
  <2>4. hdr # 0
    BY <2>1, <1>2, <1>3
  <2> QED
    BY <2>1, <2>2, <2>3, <2>4, <1>1, <1>2 DEF LogOK
<1>6. DatabaseOK'
  <2>1. PICK nb, C : nb = nbackfill /\ C = committed
    OBVIOUS
  <2>2. View(w, d, nb) = d /\ States(w, d, nb, m, C) /\ nb \in Nat
    BY <2>1, <1>1, <1>3 DEF SQLiteInv, DatabaseOK
  <2>3. View(x, d, nb) = View(w, d, nb)
    <3>1. \A i \in 1..nb : x[i] = w[i]
      BY <2>1, <2>2, <1>2
    <3> QED
      BY <3>1, <2>2, ViewSame
  <2>4. States(x, d, nb, n, C)
    <3>1. nb <= n /\ n <= m
      BY <2>1, <1>2, <1>3
    <3> QED
      BY <3>1, <2>2, <1>2, <1>3, StatesCut
  <2> QED
    BY <2>1, <2>2, <2>3, <2>4, <1>1, <1>2 DEF DatabaseOK
<1> QED
  BY <1>4, <1>5, <1>6 DEF SQLiteInv

-----------------------------------------------------------------------------
(* The L0 files under the four steps. *)
FilesInv == FilesOK /\ LastOK /\ SnapshotOK

LEMMA BaseBound ==
  ASSUME SQLiteInv, DBShape, LastOK, last # NoFile, Sound
  PROVE  Base \in Nat /\ Base <= mx /\ last.salt # 0
<1>1. "tail" \notin overrun
  BY DEF Sound
<1>2. last.salt # 0 /\ (hdr = last.salt => last.end <= mx)
  BY <1>1 DEF LastOK
<1> QED
  BY <1>2 DEF Base, DBShape, SQLiteInv, SQLiteShape

LEMMA FilesAppend ==
  ASSUME SQLiteInv, DBShape, FilesInv, NEW P \in SUBSET Pages, Appends(P), UNCHANGED files
  PROVE  FilesInv'
<1>1. PICK n, l, L, w, x :
        n = mx' /\ l = Len(wal) /\ L = Len(wal') /\ w = wal /\ x = wal'
  OBVIOUS
<1>2. /\ version \in Nat /\ mx \in Nat /\ mx <= l /\ nbackfill \in Nat /\ nbackfill <= mx
      /\ l \in Nat
  BY <1>1 DEF SQLiteInv, SQLiteShape
<1>3. /\ hdr' = hdr /\ nbackfill' = nbackfill
      /\ dbfile' = dbfile /\ overrun' = overrun
      /\ wal' \in Seq(Frame) /\ L >= l /\ n \in Nat /\ n > mx /\ n <= L
      /\ \A i \in 1..mx : x[i] = w[i]
      /\ \A i \in mx + 1..n : x[i].version = version + 1 /\ x[i].salt = hdr
      /\ \A i \in n + 1..L : i <= l /\ x[i] = w[i]
      /\ committed \subseteq committed'
  BY <1>1 DEF Appends
<1>4. last' = last /\ replay' = replay
  BY DEF files
<1>5. L \in Nat
  BY <1>1, <1>3
<1>6. LastOK'
  <2>1. SUFFICES ASSUME "tail" \notin overrun, last.salt # 0, hdr = last.salt
                 PROVE  /\ last.end <= n
                        /\ last.end > 0 =>
                             /\ x[last.end].pgno \in DOMAIN last.pages
                             /\ last.pages[x[last.end].pgno] = x[last.end].version
    BY <1>1, <1>3, <1>4 DEF LastOK, FilesInv
  <2>2. /\ last.end <= mx
        /\ last.end > 0 => /\ w[last.end].pgno \in DOMAIN last.pages
                           /\ last.pages[w[last.end].pgno] = w[last.end].version
    BY <2>1, <1>1 DEF LastOK, FilesInv
  <2>3. last.end \in Nat
    BY DEF DBShape
  <2>4. last.end > 0 => last.end \in 1..mx
    BY <2>2, <2>3, <1>2
  <2>5. last.end > 0 => x[last.end] = w[last.end]
    BY <2>4, <1>3
  <2> QED
    BY <2>2, <2>3, <2>5, <1>2, <1>3
<1>7. SnapshotOK'
  BY <1>3, <1>4 DEF SnapshotOK, FilesInv
<1>8. ASSUME last # NoFile, Sound
      PROVE  /\ replay \in committed
             /\ Continued(x, dbfile, nbackfill, n, replay, Base)
             /\ hdr = last.salt => NewerIn(x, n, replay, last.end)
             /\ hdr # last.salt => \A i \in 1..L : i > last.end => x[i].salt # last.salt
  <2>1. /\ replay \in committed
        /\ Continues(replay, Base)
        /\ hdr = last.salt => Newer(replay, last.end)
        /\ hdr # last.salt => \A i \in 1..l : i > last.end => w[i].salt # last.salt
    BY <1>1, <1>8 DEF FilesOK, FilesInv
  <2>2. Continued(x, dbfile, nbackfill, n, replay, Base)
    <3>1. PICK d, nb, m, r, a : d = dbfile /\ nb = nbackfill /\ m = mx /\ r = replay /\ a = Base
      OBVIOUS
    <3>2. a \in Nat /\ a <= m
      BY <3>1, <1>8, BaseBound DEF FilesInv
    <3>3. /\ nb \in Nat /\ m \in Nat /\ n \in Nat /\ nb <= m /\ m <= n
          /\ \A i \in 1..m : x[i] = w[i]
          /\ Continued(w, d, nb, m, r, a)
      BY <3>1, <2>1, <1>1, <1>2, <1>3 DEF Continues
    <3>4. Continued(x, d, nb, n, r, a)
      BY <3>2, <3>3, ContinuedAppend
    <3> QED
      BY <3>1, <3>4
  <2>3. ASSUME hdr = last.salt PROVE NewerIn(x, n, replay, last.end)
    <3> SUFFICES ASSUME NEW i \in last.end + 1..n, NEW p \in Pages
                 PROVE  replay[p] < x[i].version
      BY DEF NewerIn
    <3>1. last.end \in Nat /\ replay[p] <= version /\ replay[p] \in Int
      BY DEF DBShape, State, Version
    <3>2. CASE i <= mx
      <4>1. i \in last.end + 1..mx /\ i \in 1..mx
        BY <3>1, <3>2, <1>2
      <4>2. replay[p] < w[i].version
        BY <4>1, <2>1, <2>3, <1>1 DEF Newer, NewerIn
      <4> QED
        BY <4>1, <4>2, <1>3
    <3>3. CASE mx < i
      <4>1. i \in mx + 1..n
        BY <3>1, <3>3, <1>2, <1>3
      <4>2. x[i].version = version + 1
        BY <4>1, <1>3
      <4> QED
        BY <4>2, <3>1, <1>2
    <3> QED
      BY <3>1, <3>2, <3>3, <1>2, <1>3
  <2>4. ASSUME hdr # last.salt, NEW i \in 1..L, i > last.end PROVE x[i].salt # last.salt
    <3>1. CASE i <= mx
      <4>1. i \in 1..mx /\ i \in 1..l
        BY <3>1, <1>2
      <4> QED
        BY <4>1, <2>1, <2>4, <1>3
    <3>2. CASE mx < i /\ i <= n
      <4>1. i \in mx + 1..n
        BY <3>2, <1>2, <1>3
      <4> QED
        BY <4>1, <2>4, <1>3
    <3>3. CASE n < i
      <4>1. i \in n + 1..L
        BY <3>3, <1>3, <1>5
      <4>2. i \in 1..l
        BY <4>1, <1>2, <1>3
      <4> QED
        BY <4>1, <4>2, <2>1, <2>4, <1>3
    <3> QED
      BY <3>1, <3>2, <3>3, <1>2, <1>3
  <2> QED
    BY <2>1, <2>2, <2>3, <2>4
<1>9. FilesOK'
  <2>1. Sound' = Sound /\ Base' = Base
    BY <1>3, <1>4 DEF Sound, Base
  <2> QED
    BY <2>1, <1>1, <1>3, <1>4, <1>8 DEF FilesOK, Continues, Newer
<1> QED
  BY <1>6, <1>7, <1>9 DEF FilesInv

(* Files that restore to the current state end where the WAL ends. *)
LEMMA NothingBeyond ==
  ASSUME SQLiteInv, DBShape, hdr = last.salt, Newer(replay, last.end),
         replay = View(wal, dbfile, mx)
  PROVE  \A i \in 1..mx : i <= last.end
<1> SUFFICES ASSUME NEW i \in 1..mx, i > last.end PROVE FALSE
  BY DEF DBShape, SQLiteInv, SQLiteShape
<1>1. PICK w, d, m, r, e : w = wal /\ d = dbfile /\ m = mx /\ r = replay /\ e = last.end
  OBVIOUS
<1>2. /\ m \in Nat /\ w \in Seq(Frame) /\ m <= Len(w) /\ i \in 1..m /\ e \in Nat /\ i > e
      /\ r = View(w, d, m) /\ \A j \in e + 1..m : \A p \in Pages : r[p] < w[j].version
  BY <1>1 DEF DBShape, SQLiteInv, SQLiteShape, Newer, NewerIn
<1>3. w[i] \in Frame
  BY <1>2
<1>4. PICK p \in Pages : w[i].pgno = p
  BY <1>3 DEF Frame
<1>5. ~Absent(w, p, 0, m)
  BY <1>2, <1>4 DEF Absent
<1>6. PICK j \in 1..m : IsLast(w, p, j, m)
  BY <1>2, <1>5, ViewAt
<1>7. View(w, d, m)[p] = w[j].version
  BY <1>2, <1>6, ViewAt
<1>8. j \in e + 1..m
  BY <1>2, <1>4, <1>6 DEF IsLast
<1>9. w[j].version \in Nat
  <2>1. w[j] \in Frame
    BY <1>2
  <2> QED
    BY <2>1 DEF Frame, Version
<1> QED
  BY <1>2, <1>7, <1>8, <1>9

LEMMA FilesReset ==
  ASSUME SQLiteInv, DBShape, FilesInv, Resets, UNCHANGED files
  PROVE  FilesInv'
<1>1. PICK n, l, L, w, x, h, d :
        /\ n = mx' /\ l = Len(wal) /\ L = Len(wal') /\ w = wal /\ x = wal'
        /\ h = hdr' /\ d = dbfile'
  OBVIOUS
<1>2. version \in Nat /\ mx \in Nat /\ mx <= l /\ l \in Nat
  BY <1>1 DEF SQLiteInv, SQLiteShape
<1>3. /\ h = 0 \/ h = version + 1
      /\ nbackfill' = 0 /\ d = View(w, dbfile, mx)
      /\ wal' \in Seq(Frame) /\ n \in Nat /\ n <= L
      /\ \A i \in 1..n : x[i].salt = h
      /\ \A i \in n + 1..L : i <= l /\ x[i] = w[i]
      /\ committed \subseteq committed'
      /\ overrun' = Overrun
  BY <1>1 DEF Resets
<1>4. last' = last /\ replay' = replay
  BY DEF files
<1>5. L \in Nat
  BY <1>1, <1>3
<1>6. last.salt \in Nat /\ last.salt <= version /\ last.end \in Nat
  BY DEF DBShape
<1>7. last.salt # 0 => h # last.salt
  BY <1>2, <1>3, <1>6
<1>8. /\ "tail" \in overrun' <=> "tail" \in overrun
      /\ "torn" \in overrun' <=> "torn" \in overrun
      /\ "files" \in overrun => "files" \in overrun'
      /\ last # NoFile /\ "files" \notin overrun' => replay = Current
  BY <1>3 DEF Overrun
<1>9. LastOK'
  BY <1>1, <1>4, <1>7 DEF LastOK, FilesInv
<1>10. SnapshotOK'
  BY <1>3, <1>4, <1>8 DEF SnapshotOK, FilesInv
<1>11. ASSUME last # NoFile, Sound'
       PROVE  /\ replay \in committed
              /\ Continued(x, d, 0, n, replay, 0)
              /\ h # last.salt
              /\ \A i \in 1..L : i > last.end => x[i].salt # last.salt
  <2>1. Sound /\ replay = d /\ replay = View(wal, dbfile, mx)
    <3>1. replay = Current /\ Sound
      BY <1>8, <1>11 DEF Sound
    <3> QED
      BY <3>1, <1>1, <1>3, OverlayIsView
  <2>2. last.salt # 0
    BY <1>11 DEF LastOK, FilesInv
  <2>3. /\ replay \in committed
        /\ hdr = last.salt => Newer(replay, last.end)
        /\ hdr # last.salt => \A i \in 1..l : i > last.end => w[i].salt # last.salt
    BY <1>1, <1>11, <2>1 DEF FilesOK, FilesInv
  <2>4. ASSUME NEW i \in 1..L, i > last.end PROVE x[i].salt # last.salt
    <3>1. CASE i <= n
      <4>1. i \in 1..n
        BY <3>1, <1>3
      <4> QED
        BY <4>1, <2>2, <1>3, <1>7
    <3>2. CASE n < i
      <4>1. i \in n + 1..L
        BY <3>2, <1>3, <1>5
      <4>2. i \in 1..l /\ x[i] = w[i]
        BY <4>1, <1>2, <1>3
      <4>3. CASE hdr # last.salt
        BY <4>2, <4>3, <2>3, <2>4
      <4>4. CASE hdr = last.salt
        <5>1. \A j \in 1..mx : j <= last.end
          BY <4>4, <2>1, <2>3, NothingBeyond
        <5>2. i \in mx + 1..l
          BY <5>1, <4>2, <2>4, <1>2, <1>6
        <5>3. w[i].salt # hdr
          BY <5>2, <1>1 DEF SQLiteInv, LogOK
        <5> QED
          BY <5>3, <4>2, <4>4
      <4> QED
        BY <4>3, <4>4
    <3> QED
      BY <3>1, <3>2, <1>3
  <2>5. Continued(x, d, 0, n, d, 0)
    BY <1>3, ContinuedNew
  <2> QED
    BY <2>1, <2>2, <2>3, <2>4, <2>5, <1>7
<1>12. FilesOK'
  <2> SUFFICES ASSUME last' # NoFile, Sound'
               PROVE  /\ replay' \in committed'
                      /\ Continues(replay, Base)'
                      /\ hdr' # last'.salt
                      /\ \A i \in 1..Len(wal') : i > last'.end => wal'[i].salt # last'.salt
    BY DEF FilesOK
  <2>1. Base' = 0
    BY <1>1, <1>4, <1>11 DEF Base
  <2> QED
    BY <2>1, <1>1, <1>3, <1>4, <1>11 DEF Continues
<1> QED
  BY <1>9, <1>10, <1>12 DEF FilesInv

LEMMA FilesFill ==
  ASSUME SQLiteInv, DBShape, FilesInv, NEW n \in Nat, Fills(n), UNCHANGED files
  PROVE  FilesInv'
<1>1. PICK w, d, m, nb : w = wal /\ d = dbfile /\ m = mx /\ nb = nbackfill
  OBVIOUS
<1>2. /\ n >= nb /\ n <= m /\ nbackfill' = n /\ dbfile' = View(w, d, n)
      /\ wal' = wal /\ hdr' = hdr /\ mx' = mx
      /\ committed' = committed
      /\ last' = last /\ replay' = replay
      /\ overrun' \cap {"files", "torn", "tail"} = overrun \cap {"files", "torn", "tail"}
      /\ overrun' \cap {"torn", "tail"} = overrun \cap {"torn", "tail"}
      /\ "tail" \in overrun' <=> "tail" \in overrun
  BY <1>1 DEF Fills, files
<1>3. m \in Nat /\ nb \in Nat
  BY <1>1 DEF SQLiteInv, SQLiteShape
<1>4. LastOK' /\ SnapshotOK'
  BY <1>2 DEF LastOK, SnapshotOK, FilesInv
<1>5. ASSUME last # NoFile, Sound PROVE Continued(w, View(w, d, n), n, m, replay, Base)
  <2>1. PICK r, a : r = replay /\ a = Base
    OBVIOUS
  <2>2. a \in Nat /\ Continued(w, d, nb, m, r, a)
    BY <2>1, <1>1, <1>5, BaseBound DEF FilesOK, FilesInv, Continues
  <2>3. Continued(w, View(w, d, n), n, m, r, a)
    BY <2>2, <1>2, <1>3, ContinuedFill
  <2> QED
    BY <2>1, <2>3
<1>6. FilesOK'
  <2>1. Sound' = Sound /\ Base' = Base
    BY <1>2 DEF Sound, Base
  <2>2. SUFFICES ASSUME last # NoFile, Sound
                 PROVE  Continues(replay, Base)'
    BY <2>1, <1>2 DEF FilesOK, FilesInv, Newer
  <2> QED
    BY <2>1, <2>2, <1>1, <1>2, <1>5 DEF Continues
<1> QED
  BY <1>4, <1>6 DEF FilesInv

LEMMA FilesCut ==
  ASSUME SQLiteInv, DBShape, FilesInv, NEW n \in Nat, Cuts(n), UNCHANGED files
  PROVE  FilesInv'
<1>1. PICK w, x, d, m, nb : w = wal /\ x = wal' /\ d = dbfile /\ m = mx /\ nb = nbackfill
  OBVIOUS
<1>2. /\ n >= nb /\ n < m /\ mx' = n
      /\ Len(x) = n /\ \A i \in 1..n : x[i] = w[i]
      /\ dbfile' = dbfile /\ hdr' = hdr
      /\ nbackfill' = nbackfill /\ committed' = committed
      /\ last' = last /\ replay' = replay
  BY <1>1 DEF Cuts, files
<1>3. w \in Seq(Frame) /\ m \in Nat /\ m <= Len(w) /\ Len(w) \in Nat /\ nb \in Nat
  BY <1>1 DEF SQLiteInv, SQLiteShape
<1>4. /\ "tail" \notin overrun' =>
           "tail" \notin overrun /\ (last.salt = hdr => ~(last.end > n))
      /\ "torn" \in overrun' <=> "torn" \in overrun
      /\ "files" \in overrun' <=> "files" \in overrun
  BY DEF Cuts
<1>5. last.end \in Nat
  BY DEF DBShape
<1>6. LastOK'
  <2> SUFFICES ASSUME "tail" \notin overrun', last.salt # 0, hdr = last.salt
               PROVE  /\ last.end <= n
                      /\ last.end > 0 =>
                           /\ x[last.end].pgno \in DOMAIN last.pages
                           /\ last.pages[x[last.end].pgno] = x[last.end].version
    BY <1>1, <1>2 DEF LastOK, FilesInv
  <2>1. last.end <= n
    BY <1>4, <1>5
  <2>2. last.end > 0 => /\ w[last.end].pgno \in DOMAIN last.pages
                        /\ last.pages[w[last.end].pgno] = w[last.end].version
    BY <1>1, <1>4 DEF LastOK, FilesInv
  <2>3. last.end > 0 => last.end \in 1..n
    BY <2>1, <1>5
  <2>4. last.end > 0 => x[last.end] = w[last.end]
    BY <2>3, <1>2
  <2> QED
    BY <2>1, <2>2, <2>4
<1>7. SnapshotOK'
  BY <1>2, <1>4 DEF SnapshotOK, FilesInv
<1>8. ASSUME last # NoFile, Sound'
      PROVE  /\ replay \in committed
             /\ Continued(x, d, nb, n, replay, Base)
             /\ hdr = last.salt => NewerIn(x, n, replay, last.end)
             /\ hdr # last.salt => \A i \in 1..n : i > last.end => x[i].salt # last.salt
  <2>0. Sound
    BY <1>4, <1>8 DEF Sound
  <2>1. /\ replay \in committed
        /\ Continued(w, d, nb, m, replay, Base)
        /\ hdr = last.salt => NewerIn(w, m, replay, last.end)
        /\ hdr # last.salt => \A i \in 1..Len(w) : i > last.end => w[i].salt # last.salt
    BY <2>0, <1>1, <1>8 DEF FilesOK, FilesInv, Continues, Newer
  <2>2. Continued(x, d, nb, n, replay, Base)
    <3>1. PICK r, a : r = replay /\ a = Base
      OBVIOUS
    <3>2. a \in Nat /\ Continued(w, d, nb, m, r, a) /\ nb <= n /\ n <= m
      BY <3>1, <2>0, <2>1, <1>2, <1>3, <1>8, BaseBound DEF FilesInv
    <3>3. Continued(x, d, nb, n, r, a)
      BY <3>2, <1>2, <1>3, ContinuedCut
    <3> QED
      BY <3>1, <3>3
  <2>3. ASSUME hdr = last.salt PROVE NewerIn(x, n, replay, last.end)
    <3>1. \A i \in last.end + 1..n : i \in last.end + 1..m /\ x[i] = w[i]
      BY <1>2, <1>3, <1>5
    <3> QED
      BY <3>1, <2>1, <2>3 DEF NewerIn
  <2>4. \A i \in 1..n : i \in 1..Len(w) /\ x[i] = w[i]
    BY <1>2, <1>3
  <2> QED
    BY <2>1, <2>2, <2>3, <2>4
<1>9. FilesOK'
  <2>1. Base' = Base
    BY <1>2 DEF Base
  <2> QED
    BY <2>1, <1>1, <1>2, <1>8 DEF FilesOK, Continues, Newer
<1> QED
  BY <1>6, <1>7, <1>9 DEF FilesInv

-----------------------------------------------------------------------------
(* A sync in progress under these steps. *)
SyncInv == VerifiedOK /\ CopyOK

(* The sync does not move, or is not at a point where it has read anything. *)
Aside ==
  /\ UNCHANGED <<rmark, syncing, files>>
  /\ pc' = pc \/ pc' \notin {"verified", "copying"}

LEMMA SyncAppend ==
  ASSUME SQLiteInv, DBShape, SyncInv, NEW P \in SUBSET Pages, Appends(P), hdr # 0, Aside
  PROVE  SyncInv'
<1>1. PICK n, l, L, w, x :
        n = mx' /\ l = Len(wal) /\ L = Len(wal') /\ w = wal /\ x = wal'
  OBVIOUS
<1>2. /\ version \in Nat /\ mx \in Nat /\ mx <= l /\ nbackfill \in Nat /\ nbackfill <= mx
      /\ l \in Nat
  BY <1>1 DEF SQLiteInv, SQLiteShape
<1>3. /\ hdr' = hdr /\ nbackfill' = nbackfill
      /\ dbfile' = dbfile /\ overrun' = overrun
      /\ wal' \in Seq(Frame) /\ L >= l /\ n \in Nat /\ n > mx /\ n <= L
      /\ \A i \in 1..mx : x[i] = w[i]
      /\ \A i \in mx + 1..n : x[i].version = version + 1 /\ x[i].salt = hdr
      /\ \A i \in n + 1..L : i <= l /\ x[i] = w[i]
      /\ committed \subseteq committed'
  BY <1>1 DEF Appends
<1>4. /\ last' = last /\ replay' = replay /\ info' = info /\ pageMap' = pageMap
      /\ buf' = buf /\ end' = end /\ rmark' = rmark
      /\ pc' = pc \/ pc' \notin {"verified", "copying"}
  BY DEF Aside, files, syncing
<1>5. L \in Nat
  BY <1>1, <1>3
<1>6. VerifiedOK'
  <2> SUFFICES ASSUME pc = "verified", "tail" \notin overrun
               PROVE  VerifiedOK'
    BY <1>3, <1>4 DEF VerifiedOK
  <2>1. /\ info.snapshotting /\ info.offset > 0 =>
             /\ info.salt # 0 /\ info.salt # hdr
             /\ info.offset <= l => w[info.offset].salt # info.salt
        /\ ~info.snapshotting =>
             /\ last # NoFile
             /\ \/ info.offset = 0 /\ hdr # last.salt
                \/ info.offset = last.end /\ info.salt = last.salt
    BY <1>1 DEF SyncInv, VerifiedOK
  <2>2. ASSUME info.snapshotting, info.offset > 0, info.offset <= L
        PROVE  x[info.offset].salt # info.salt
    <3>1. PICK i : i = info.offset
      OBVIOUS
    <3>2. i \in 1..L /\ info.salt # hdr /\ (i <= l => w[i].salt # info.salt)
      BY <3>1, <2>1, <2>2, <1>5 DEF DBShape
    <3>3. CASE i <= mx
      <4>1. i \in 1..mx /\ i <= l
        BY <3>2, <3>3, <1>2
      <4> QED
        BY <4>1, <3>1, <3>2, <1>3
    <3>4. CASE mx < i /\ i <= n
      <4>1. i \in mx + 1..n
        BY <3>2, <3>4, <1>2, <1>3
      <4> QED
        BY <4>1, <3>1, <3>2, <1>3
    <3>5. CASE n < i
      <4>1. i \in n + 1..L
        BY <3>2, <3>5, <1>3, <1>5
      <4> QED
        BY <4>1, <3>1, <3>2, <1>3
    <3> QED
      BY <3>2, <3>3, <3>4, <3>5, <1>2, <1>3
  <2> QED
    BY <2>1, <2>2, <1>1, <1>3, <1>4 DEF VerifiedOK
<1>7. CopyOK'
  <2> SUFFICES ASSUME pc = "copying"
               PROVE  info.salt # 0 /\ MapOK' /\ (Clean => TargetOK')
    <3>1. Clean' = Clean
      BY <1>3, <1>4 DEF Clean
    <3> QED
      BY <3>1, <1>4 DEF CopyOK
  <2>1. info.salt # 0 /\ MapOK /\ (Clean => TargetOK)
    BY DEF SyncInv, CopyOK
  <2>2. \A p \in DOMAIN pageMap : pageMap[p] \in Nat /\ pageMap[p] > 0
    BY DEF DBShape
  <2>3. ASSUME info.salt = hdr
        PROVE  /\ end \in Nat /\ end <= mx
               /\ \A p \in DOMAIN pageMap : x[pageMap[p]] = w[pageMap[p]]
               /\ \A i \in 1..end : x[i] = w[i]
    <3>1. end \in Nat /\ end <= mx /\ \A p \in DOMAIN pageMap : pageMap[p] <= end
      BY <2>1, <2>3 DEF MapOK, DBShape
    <3>2. \A p \in DOMAIN pageMap : pageMap[p] \in 1..mx
      BY <3>1, <2>2, <1>2
    <3>3. \A i \in 1..end : i \in 1..mx
      BY <3>1, <1>2
    <3> QED
      BY <3>1, <3>2, <3>3, <1>3
  <2>4. MapOK'
    <3> SUFFICES ASSUME info.salt = hdr
                 PROVE  /\ end <= n
                        /\ \A p \in DOMAIN pageMap : pageMap[p] <= end
                        /\ \A p \in DOMAIN pageMap \cap DOMAIN buf : buf[p] = x[pageMap[p]].version
                        /\ "tail" \notin overrun /\ end > 0 =>
                             x[end].pgno \in DOMAIN pageMap /\ pageMap[x[end].pgno] = end
      BY <1>1, <1>3, <1>4 DEF MapOK
    <3>1. /\ \A p \in DOMAIN pageMap : pageMap[p] <= end
          /\ \A p \in DOMAIN pageMap \cap DOMAIN buf : buf[p] = w[pageMap[p]].version
          /\ "tail" \notin overrun /\ end > 0 =>
               w[end].pgno \in DOMAIN pageMap /\ pageMap[w[end].pgno] = end
      BY <2>1, <1>1 DEF MapOK
    <3>2. end > 0 => end \in 1..end
      BY <2>3
    <3>3. end <= n
      BY <2>3, <1>2, <1>3
    <3> QED
      BY <3>1, <3>2, <3>3, <2>3
  <2>5. ASSUME Clean PROVE TargetOK'
    <3>1. TargetOK /\ info.salt = hdr
      BY <2>1, <2>5 DEF TargetOK
    <3>2. Target' = Target
      <4>1. \A p \in DOMAIN pageMap : wal'[pageMap[p]] = wal[pageMap[p]]
        BY <3>1, <2>3, <1>1
      <4> QED
        BY <4>1, <1>3, <1>4 DEF Target, Source
    <3>3. Continued(x, dbfile, nbackfill, n, Target, end)
      <4>1. PICK d, nb, m, r, a : d = dbfile /\ nb = nbackfill /\ m = mx /\ r = Target /\ a = end
        OBVIOUS
      <4>2. /\ a \in Nat /\ a <= m /\ nb \in Nat /\ m \in Nat /\ n \in Nat /\ nb <= m /\ m <= n
            /\ \A i \in 1..m : x[i] = w[i]
            /\ Continued(w, d, nb, m, r, a)
        BY <4>1, <3>1, <2>3, <1>1, <1>2, <1>3 DEF TargetOK, Continues
      <4>3. Continued(x, d, nb, n, r, a)
        BY <4>2, ContinuedAppend
      <4> QED
        BY <4>1, <4>3
    <3>4. NewerIn(x, n, Target, end)
      <4> SUFFICES ASSUME NEW i \in end + 1..n, NEW p \in Pages
                   PROVE  Target[p] < x[i].version
        BY DEF NewerIn
      <4>1. end \in Nat
        BY DEF DBShape
      <4>2. CASE i <= mx
        <5>1. i \in end + 1..mx /\ i \in 1..mx
          BY <4>1, <4>2, <1>2
        <5>2. Target[p] < w[i].version
          BY <5>1, <3>1, <1>1 DEF TargetOK, Newer, NewerIn
        <5> QED
          BY <5>1, <5>2, <1>3
      <4>3. CASE mx < i
        <5>1. i \in mx + 1..n
          BY <4>1, <4>3, <1>2, <1>3
        <5>2. x[i].version = version + 1
          BY <5>1, <1>3
        <5>3. Target[p] <= version /\ Target[p] \in Int
          <6>1. CASE p \in DOMAIN pageMap
            <7>1. pageMap[p] \in 1..l
              BY <6>1, <3>1, <2>2, <2>3, <1>2, <2>1 DEF MapOK
            <7>2. Target[p] = w[pageMap[p]].version
              BY <6>1, <1>1 DEF Target
            <7>3. \A j \in 1..l : w[j].version \in 1..version
              BY <1>1 DEF SQLiteInv, LogOK
            <7> QED
              BY <7>1, <7>2, <7>3, <1>2
          <6>2. CASE p \notin DOMAIN pageMap
            <7>1. Target[p] = IF info.snapshotting THEN dbfile[p] ELSE replay[p]
              BY <6>2 DEF Target, Source
            <7>2. dbfile[p] <= version /\ dbfile[p] \in Int /\ replay[p] <= version /\ replay[p] \in Int
              BY DEF SQLiteInv, SQLiteShape, DBShape, State, Version
            <7> QED
              BY <7>1, <7>2
          <6> QED
            BY <6>1, <6>2
        <5> QED
          BY <5>2, <5>3, <1>2
      <4> QED
        BY <4>1, <4>2, <4>3, <1>2, <1>3
    <3>5. info.snapshotting => \A i \in 1..end : x[i].pgno \in DOMAIN pageMap
      BY <3>1, <2>3, <1>1 DEF TargetOK
    <3> QED
      BY <3>1, <3>2, <3>3, <3>4, <3>5, <1>1, <1>3, <1>4 DEF TargetOK, Continues, Newer
  <2> QED
    BY <2>1, <2>4, <2>5
<1> QED
  BY <1>6, <1>7 DEF SyncInv

LEMMA SyncReset ==
  ASSUME SQLiteInv, DBShape, LastOK, SyncInv, Resets, Aside
  PROVE  SyncInv'
<1>1. PICK n, l, L, w, x, h :
        n = mx' /\ l = Len(wal) /\ L = Len(wal') /\ w = wal /\ x = wal' /\ h = hdr'
  OBVIOUS
<1>2. version \in Nat /\ mx \in Nat /\ mx <= l /\ l \in Nat
  BY <1>1 DEF SQLiteInv, SQLiteShape
<1>3. /\ h = 0 \/ h = version + 1
      /\ wal' \in Seq(Frame) /\ n \in Nat /\ n <= L
      /\ \A i \in 1..n : x[i].salt = h
      /\ \A i \in n + 1..L : i <= l /\ x[i] = w[i]
      /\ overrun' = Overrun
  BY <1>1 DEF Resets
<1>4. /\ last' = last /\ info' = info
      /\ pc' = pc \/ pc' \notin {"verified", "copying"}
  BY DEF Aside, files, syncing
<1>5. L \in Nat
  BY <1>1, <1>3
<1>6. /\ last.salt # 0 => h # last.salt
      /\ info.salt # 0 => h # info.salt
  BY <1>2, <1>3 DEF DBShape
<1>7. VerifiedOK'
  <2> SUFFICES ASSUME pc = "verified", "tail" \notin overrun
               PROVE  VerifiedOK'
    BY <1>3, <1>4 DEF VerifiedOK, Overrun
  <2>1. /\ info.snapshotting /\ info.offset > 0 =>
             /\ info.salt # 0 /\ info.salt # hdr
             /\ info.offset <= l => w[info.offset].salt # info.salt
        /\ ~info.snapshotting =>
             /\ last # NoFile
             /\ \/ info.offset = 0 /\ hdr # last.salt
                \/ info.offset = last.end /\ info.salt = last.salt
    BY <1>1 DEF SyncInv, VerifiedOK
  <2>2. ASSUME info.snapshotting, info.offset > 0, info.offset <= L
        PROVE  x[info.offset].salt # info.salt
    <3>1. PICK i : i = info.offset
      OBVIOUS
    <3>2. i \in 1..L /\ info.salt # 0 /\ (i <= l => w[i].salt # info.salt)
      BY <3>1, <2>1, <2>2, <1>5 DEF DBShape
    <3>3. CASE i <= n
      <4>1. i \in 1..n
        BY <3>2, <3>3, <1>3
      <4> QED
        BY <4>1, <3>1, <3>2, <1>3, <1>6
    <3>4. CASE n < i
      <4>1. i \in n + 1..L
        BY <3>2, <3>4, <1>3, <1>5
      <4> QED
        BY <4>1, <3>1, <3>2, <1>3
    <3> QED
      BY <3>2, <3>3, <3>4, <1>3
  <2>3. last # NoFile => h # last.salt
    BY <1>6 DEF LastOK
  <2> QED
    BY <2>1, <2>2, <2>3, <1>1, <1>4, <1>6 DEF VerifiedOK
<1>8. CopyOK'
  <2> SUFFICES ASSUME pc = "copying", pc' = "copying"
               PROVE  info.salt # 0 /\ info.salt # h /\ ~Clean'
    BY <1>1, <1>4 DEF CopyOK, MapOK
  <2>1. info.salt # 0
    BY DEF SyncInv, CopyOK
  <2>2. "copy" \in overrun'
    BY <1>3 DEF Overrun
  <2> QED
    BY <2>1, <2>2, <1>6 DEF Clean
<1> QED
  BY <1>7, <1>8 DEF SyncInv

(* The frames that are copied into the database file are in the page map. *)
LEMMA SyncFill ==
  ASSUME SQLiteInv, DBShape, SyncInv, NEW n \in Nat, Fills(n), Aside,
         pc = "copying" /\ info.snapshotting => n <= rmark \/ "copy" \in overrun'
  PROVE  SyncInv'
<1>1. PICK w, d, m, nb : w = wal /\ d = dbfile /\ m = mx /\ nb = nbackfill
  OBVIOUS
<1>2. /\ n >= nb /\ n <= m /\ nbackfill' = n /\ dbfile' = View(w, d, n)
      /\ wal' = wal /\ hdr' = hdr /\ mx' = mx /\ committed' = committed
      /\ overrun' = overrun \/ overrun' = overrun \cup {"copy"}
  BY <1>1 DEF Fills
<1>3. m \in Nat /\ nb \in Nat
  BY <1>1 DEF SQLiteInv, SQLiteShape
<1>4. /\ last' = last /\ replay' = replay /\ info' = info /\ pageMap' = pageMap
      /\ buf' = buf /\ end' = end /\ rmark' = rmark
      /\ pc' = pc \/ pc' \notin {"verified", "copying"}
  BY DEF Aside, files, syncing
<1>5. VerifiedOK'
  BY <1>2, <1>4 DEF VerifiedOK, SyncInv
<1>6. CopyOK'
  <2> SUFFICES ASSUME pc = "copying"
               PROVE  info.salt # 0 /\ MapOK' /\ (Clean' => TargetOK')
    BY <1>4 DEF CopyOK
  <2>1. info.salt # 0 /\ MapOK /\ (Clean => TargetOK)
    BY DEF SyncInv, CopyOK
  <2>2. MapOK'
    BY <2>1, <1>2, <1>4 DEF MapOK
  <2>3. ASSUME Clean' PROVE TargetOK'
    <3>0. Clean /\ "copy" \notin overrun'
      BY <2>3, <1>2, <1>4 DEF Clean
    <3>1. TargetOK
      BY <2>1, <3>0
    <3>2. info.snapshotting => n <= end
      BY <3>0, <3>1 DEF TargetOK, DBShape
    <3>3. ASSUME NEW p \in Pages PROVE Target'[p] = Target[p]
      <4>1. CASE p \in DOMAIN pageMap \/ ~info.snapshotting
        BY <4>1, <1>2, <1>4 DEF Target, Source
      <4>2. CASE p \notin DOMAIN pageMap /\ info.snapshotting
        <5>1. \A i \in 1..n : w[i].pgno # p
          <6>1. \A i \in 1..end : w[i].pgno \in DOMAIN pageMap
            BY <3>1, <4>2, <1>1 DEF TargetOK
          <6>2. \A i \in 1..n : i \in 1..end
            BY <3>2, <4>2 DEF DBShape
          <6> QED
            BY <6>1, <6>2, <4>2
        <5>2. Absent(w, p, 0, n)
          BY <5>1 DEF Absent
        <5>3. View(w, d, n)[p] = d[p]
          BY <5>2, ViewAt
        <5> QED
          BY <5>3, <4>2, <1>1, <1>2, <1>4 DEF Target, Source
      <4> QED
        BY <4>1, <4>2
    <3>4. Target' = Target
      <4>1. Target = [p \in Pages |-> Target[p]] /\ Target' = [p \in Pages |-> Target'[p]]
        BY DEF Target
      <4> QED
        BY <4>1, <3>3
    <3>5. Continued(w, View(w, d, n), n, m, Target, end)
      <4>1. PICK r, a : r = Target /\ a = end
        OBVIOUS
      <4>2. a \in Nat /\ Continued(w, d, nb, m, r, a)
        BY <4>1, <3>1, <1>1 DEF TargetOK, Continues, DBShape
      <4>3. Continued(w, View(w, d, n), n, m, r, a)
        BY <4>2, <1>2, <1>3, ContinuedFill
      <4> QED
        BY <4>1, <4>3
    <3> QED
      BY <3>1, <3>2, <3>4, <3>5, <1>1, <1>2, <1>4 DEF TargetOK, Continues, Newer
  <2> QED
    BY <2>1, <2>2, <2>3
<1> QED
  BY <1>5, <1>6 DEF SyncInv

-----------------------------------------------------------------------------
(* The steps of SQLite, as the actions take them. *)

LEMMA InvIs ==
  Inv <=> SQLiteInv /\ DBShape /\ VersionOK /\ LockOK /\ FilesInv /\ SyncInv
BY DEF Inv, SQLiteInv, FilesInv, SyncInv

LEMMA CommitStep ==
  ASSUME Inv, version <= MaxVersion, NEW P \in SUBSET Pages, P # {}, Commit(P), Aside
  PROVE  /\ SQLiteInv' /\ FilesInv' /\ SyncInv'
         /\ hdr' # 0 /\ version' = version + 1 /\ rmark <= mx'
         /\ overrun' \subseteq {"files", "copy", "torn", "loss", "tail"}
<1>1. SQLiteInv /\ DBShape /\ FilesInv /\ SyncInv /\ LastOK
  BY InvIs DEF FilesInv
<1>2. version + 1 \in Version /\ version \in Nat
  BY <1>1, VersionAssumption DEF SQLiteInv, SQLiteShape, Version
<1>3. version' = version + 1
  BY DEF Commit
<1>4. UNCHANGED files
  BY DEF Aside, files
<1>5. CASE Appends(P)
  <2>1. SQLiteInv' /\ hdr # 0
    BY <1>1, <1>2, <1>5, AppendsKeeps
  <2>2. FilesInv'
    BY <1>1, <1>4, <1>5, FilesAppend
  <2>3. SyncInv'
    BY <1>1, <1>5, <2>1, SyncAppend
  <2>4. rmark <= mx' /\ hdr' = hdr /\ overrun' = overrun
    BY <1>1, <1>5 DEF Appends, DBShape, SQLiteInv, SQLiteShape
  <2> QED
    BY <2>1, <2>2, <2>3, <2>4, <1>1, <1>3 DEF DBShape
<1>6. CASE Resets /\ (mx = 0 \/ MayRestart) /\ hdr' # 0
  <2>1. SQLiteInv'
    BY <1>1, <1>6, ResetsKeeps
  <2>2. FilesInv'
    BY <1>1, <1>4, <1>6, FilesReset
  <2>3. SyncInv'
    BY <1>1, <1>6, SyncReset
  <2>4. rmark <= 0 /\ rmark \in Int /\ mx' \in Nat
    BY <1>1, <1>6 DEF MayRestart, DBShape, Resets
  <2>5. overrun' \subseteq {"files", "copy", "torn", "loss", "tail"}
    BY <1>1, <1>6 DEF Resets, Overrun, DBShape
  <2> QED
    BY <2>1, <2>2, <2>3, <2>4, <2>5, <1>3, <1>6
<1> QED
  BY <1>1, <1>2, <1>5, <1>6, CommitIs

LEMMA TruncateStep ==
  ASSUME Inv, rmark <= 0, dbfile' = View(wal, dbfile, mx),
         wal' = <<>>, hdr' = 0, mx' = 0, nbackfill' = 0, overrun' = Overrun,
         UNCHANGED <<version, committed>>, Aside
  PROVE  /\ SQLiteInv' /\ FilesInv' /\ SyncInv'
         /\ overrun' \subseteq {"files", "copy", "torn", "loss", "tail"}
<1>1. SQLiteInv /\ DBShape /\ FilesInv /\ SyncInv /\ LastOK
  BY InvIs DEF FilesInv
<1>2. Resets
  BY <1>1, TruncateIs
<1>3. UNCHANGED files
  BY DEF Aside, files
<1>4. SQLiteInv'
  BY <1>1, <1>2, ResetsKeeps
<1>5. FilesInv'
  BY <1>1, <1>2, <1>3, FilesReset
<1>6. SyncInv'
  BY <1>1, <1>2, SyncReset
<1>7. overrun' \subseteq {"files", "copy", "torn", "loss", "tail"}
  BY <1>1, <1>2 DEF Resets, Overrun, DBShape
<1> QED
  BY <1>4, <1>5, <1>6, <1>7

LEMMA FillStep ==
  ASSUME Inv, NEW n \in Nat, nbackfill <= n, n <= mx, Backfill(n), Aside,
         overrun' = overrun \/ overrun' = overrun \cup {"copy"},
         pc = "copying" /\ info.snapshotting => n <= rmark \/ "copy" \in overrun'
  PROVE  SQLiteInv' /\ FilesInv' /\ SyncInv'
<1>1. SQLiteInv /\ DBShape /\ FilesInv /\ SyncInv
  BY InvIs
<1>2. nbackfill \in Nat /\ mx \in Nat
  BY <1>1 DEF SQLiteInv, SQLiteShape
<1>3. Fills(n)
  BY <1>2, OverlayIsView DEF Backfill, Fills
<1>4. UNCHANGED files
  BY DEF Aside, files
<1>5. SQLiteInv'
  BY <1>1, <1>3, FillsKeeps
<1>6. FilesInv'
  BY <1>1, <1>3, <1>4, FilesFill
<1>7. SyncInv'
  BY <1>1, <1>3, SyncFill
<1> QED
  BY <1>5, <1>6, <1>7

(* A step that touches neither SQLite's files nor the L0 files and leaves no
   sync under way. *)
LEMMA QuietStep ==
  ASSUME Inv, UNCHANGED <<sqlite, files>>,
         overrun' = overrun \/ overrun' = overrun \ {"copy"},
         pc' \notin {"verified", "copying"}
  PROVE  SQLiteInv' /\ FilesInv' /\ SyncInv'
<1>1. SQLiteInv /\ FilesInv
  BY InvIs
<1>2. /\ version' = version /\ dbfile' = dbfile /\ wal' = wal /\ hdr' = hdr /\ mx' = mx
      /\ nbackfill' = nbackfill /\ committed' = committed /\ last' = last /\ replay' = replay
  BY DEF sqlite, files
<1>3. SQLiteInv'
  BY <1>1, <1>2 DEF SQLiteInv, SQLiteShape, LogOK, DatabaseOK
<1>4. /\ "tail" \in overrun' <=> "tail" \in overrun
      /\ "torn" \in overrun' <=> "torn" \in overrun
      /\ "files" \in overrun' <=> "files" \in overrun
  OBVIOUS
<1>5. LastOK' /\ SnapshotOK'
  BY <1>1, <1>2, <1>4 DEF FilesInv, LastOK, SnapshotOK
<1>6. FilesOK'
  <2>1. Base' = Base
    BY <1>2 DEF Base
  <2>2. Sound' => Sound
    BY <1>4 DEF Sound
  <2> QED
    BY <2>1, <2>2, <1>1, <1>2 DEF FilesInv, FilesOK, Continues, Newer
<1>7. SyncInv'
  BY DEF SyncInv, VerifiedOK, CopyOK
<1> QED
  BY <1>3, <1>5, <1>6, <1>7 DEF FilesInv

(* The other variables keep their types. *)
LEMMA ShapeAside ==
  ASSUME DBShape, Aside, version \in Nat, version' \in Nat, version <= version',
         mx' \in Nat, rmark <= mx', pc' = pc \/ pc # "copying",
         pc' \in {"down", "idle", "verify", "verified", "copying", "exec", "pragma",
                  "reacquire", "bump", "lock"},
         chk' \in {"sync", "before", "after"},
         hdr0' \in Nat, hdr0' <= version',
         overrun' \subseteq {"files", "copy", "torn", "loss", "tail"}
  PROVE  DBShape'
<1>1. /\ rmark' = rmark /\ info' = info /\ pageMap' = pageMap /\ buf' = buf /\ end' = end
      /\ last' = last /\ replay' = replay
  BY DEF Aside, syncing, files
<1>2. /\ info.salt <= version' /\ last.salt <= version'
      /\ \A p \in DOMAIN buf : buf[p] <= version'
  BY DEF DBShape
<1>3. ASSUME NEW p \in Pages PROVE replay[p] <= version'
  <2>1. replay[p] \in Int /\ replay[p] <= version
    BY DEF DBShape, State, Version
  <2> QED
    BY <2>1
<1>4. pc' # "copying" => buf = <<>>
  BY <1>1 DEF DBShape, Aside
<1> QED
  BY <1>1, <1>2, <1>3, <1>4 DEF DBShape

-----------------------------------------------------------------------------
(* One lemma per action. *)

LEMMA InitInv == Init => Inv
<1> SUFFICES ASSUME Init PROVE Inv
  OBVIOUS
<1>1. /\ version = 0 /\ dbfile = [p \in Pages |-> 0] /\ committed = {dbfile}
      /\ wal = <<>> /\ hdr = 0 /\ mx = 0 /\ nbackfill = 0 /\ rmark = -1
      /\ pc = "down" /\ chk = "sync" /\ buf = <<>> /\ pageMap = <<>> /\ end = 0 /\ hdr0 = 0
      /\ info = NoInfo /\ last = NoFile /\ replay = dbfile /\ overrun = {}
  BY DEF Init
<1>2. 0 \in Version /\ dbfile \in State
  BY <1>1, VersionAssumption DEF Version, State
<1>3. SQLiteShape
  BY <1>1, <1>2 DEF SQLiteShape
<1>4. DBShape
  BY <1>1, <1>2 DEF DBShape, NoInfo, NoFile
<1>5. LogOK
  BY <1>1 DEF LogOK
<1>6. View(wal, dbfile, 0) = dbfile
  BY <1>2, ViewNone
<1>7. DatabaseOK
  <2>1. \A k \in 0..0 : View(wal, dbfile, k) \in committed
    BY <1>1, <1>6
  <2> QED
    BY <2>1, <1>1, <1>6 DEF DatabaseOK, States
<1>8. VersionOK /\ LockOK
  BY <1>1, VersionAssumption DEF VersionOK, LockOK
<1>9. FilesOK /\ LastOK /\ SnapshotOK /\ VerifiedOK /\ CopyOK
  BY <1>1 DEF FilesOK, LastOK, SnapshotOK, VerifiedOK, CopyOK, NoFile
<1> QED
  BY <1>3, <1>4, <1>5, <1>7, <1>8, <1>9 DEF Inv

LEMMA AppCommitKeeps ==
  ASSUME Inv, NEW P \in (SUBSET Pages) \ {{}}, AppCommit(P)
  PROVE  Inv'
<1>1. /\ version < MaxVersion /\ Commit(P) /\ pc' = pc /\ chk' = chk /\ hdr0' = hdr0
      /\ rmark' = rmark /\ Aside
  BY DEF AppCommit, Aside
<1>2. SQLiteInv /\ DBShape /\ VersionOK /\ LockOK
  BY InvIs
<1>3. version \in Nat
  BY <1>2 DEF SQLiteInv, SQLiteShape
<1>4. /\ SQLiteInv' /\ FilesInv' /\ SyncInv'
      /\ hdr' # 0 /\ version' = version + 1 /\ rmark <= mx'
      /\ overrun' \subseteq {"files", "copy", "torn", "loss", "tail"}
  <2>1. P \in SUBSET Pages /\ P # {} /\ version <= MaxVersion
    BY <1>1, <1>3, VersionAssumption
  <2> QED
    BY <2>1, <1>1, CommitStep
<1>5. mx' \in Nat
  BY <1>4 DEF SQLiteInv, SQLiteShape
<1>6. DBShape'
  <2>1. /\ version' \in Nat /\ version <= version'
        /\ hdr0' \in Nat /\ hdr0' <= version' /\ chk' \in {"sync", "before", "after"}
        /\ pc' \in {"down", "idle", "verify", "verified", "copying", "exec", "pragma",
                    "reacquire", "bump", "lock"}
    <3>1. /\ hdr0 \in Nat /\ hdr0 <= version /\ chk \in {"sync", "before", "after"}
          /\ pc \in {"down", "idle", "verify", "verified", "copying", "exec", "pragma",
                     "reacquire", "bump", "lock"}
      BY <1>2 DEF DBShape
    <3>2. /\ version' = version + 1 /\ hdr0' = hdr0 /\ chk' = chk /\ pc' = pc
      BY <1>1, <1>4
    <3> QED
      BY <3>1, <3>2, <1>3
  <2> QED
    BY <2>1, <1>1, <1>2, <1>3, <1>4, <1>5, ShapeAside
<1>7. VersionOK' /\ LockOK'
  BY <1>1, <1>2, <1>3, <1>4, VersionAssumption DEF VersionOK, LockOK
<1> QED
  BY <1>4, <1>6, <1>7 DEF Inv, SQLiteInv, FilesInv, SyncInv

LEMMA AppCheckpointKeeps ==
  ASSUME Inv, AppCheckpoint
  PROVE  Inv'
<1>1. SQLiteInv /\ DBShape /\ VersionOK /\ LockOK
  BY InvIs
<1>2. PICK n : /\ n = IF rmark > 0 THEN rmark ELSE mx
               /\ nbackfill < n /\ Backfill(n)
  BY DEF AppCheckpoint
<1>3. /\ rmark # 0 /\ rmark' = rmark /\ pc' = pc /\ chk' = chk /\ hdr0' = hdr0
      /\ overrun' = overrun \cup (IF rmark = -1 /\ info.snapshotting THEN {"copy"} ELSE {})
      /\ Aside
  BY DEF AppCheckpoint, Aside
<1>o. overrun' = overrun \/ overrun' = overrun \cup {"copy"}
  BY <1>3
<1>4. /\ version \in Nat /\ mx \in Nat /\ nbackfill \in Nat
      /\ rmark \in Int /\ rmark >= -1 /\ rmark <= mx
  BY <1>1 DEF SQLiteInv, SQLiteShape, DBShape
<1>5. n \in Nat /\ nbackfill <= n /\ n <= mx
  BY <1>2, <1>4
<1>6. info.snapshotting => n <= rmark \/ "copy" \in overrun'
  <2>1. CASE rmark = -1
    BY <2>1, <1>3
  <2>2. CASE rmark # -1
    BY <2>2, <1>2, <1>3, <1>4
  <2> QED
    BY <2>1, <2>2
<1>7. SQLiteInv' /\ FilesInv' /\ SyncInv'
  BY <1>2, <1>3, <1>o, <1>5, <1>6, FillStep
<1>8. version' = version /\ mx' = mx /\ hdr' = hdr
  BY <1>2 DEF Backfill
<1>9. DBShape'
  <2>1. /\ version' \in Nat /\ version <= version' /\ mx' \in Nat /\ rmark <= mx'
        /\ hdr0' \in Nat /\ hdr0' <= version' /\ chk' \in {"sync", "before", "after"}
        /\ pc' \in {"down", "idle", "verify", "verified", "copying", "exec", "pragma",
                    "reacquire", "bump", "lock"}
        /\ overrun' \subseteq {"files", "copy", "torn", "loss", "tail"}
    BY <1>1, <1>3, <1>o, <1>4, <1>8 DEF DBShape
  <2> QED
    BY <2>1, <1>1, <1>3, <1>4, ShapeAside
<1>10. VersionOK' /\ LockOK'
  BY <1>1, <1>3, <1>8 DEF VersionOK, LockOK
<1> QED
  BY <1>7, <1>9, <1>10 DEF Inv, SQLiteInv, FilesInv, SyncInv

LEMMA AppTruncateKeeps ==
  ASSUME Inv, AppTruncate
  PROVE  Inv'
<1>1. SQLiteInv /\ DBShape /\ VersionOK /\ LockOK
  BY InvIs
<1>2. /\ version < MaxVersion /\ MayRestart
      /\ wal' = <<>> /\ hdr' = 0 /\ mx' = 0 /\ nbackfill' = 0
      /\ overrun' = Overrun /\ version' = version /\ dbfile' = dbfile /\ committed' = committed
      /\ rmark' = rmark /\ pc' = pc /\ chk' = chk /\ hdr0' = hdr0 /\ Aside
  BY DEF AppTruncate, TruncateWAL, Aside
<1>3. version \in Nat /\ mx \in Nat /\ rmark \in Int /\ rmark <= 0
  BY <1>1, <1>2 DEF SQLiteInv, SQLiteShape, DBShape, MayRestart
<1>4. dbfile' = View(wal, dbfile, mx)
  BY <1>1, <1>2 DEF SQLiteInv, DatabaseOK, MayRestart
<1>5. /\ SQLiteInv' /\ FilesInv' /\ SyncInv'
      /\ overrun' \subseteq {"files", "copy", "torn", "loss", "tail"}
  BY <1>2, <1>3, <1>4, TruncateStep
<1>6. DBShape'
  <2>1. /\ version' \in Nat /\ version <= version' /\ mx' \in Nat /\ rmark <= mx'
        /\ hdr0' \in Nat /\ hdr0' <= version' /\ chk' \in {"sync", "before", "after"}
        /\ pc' \in {"down", "idle", "verify", "verified", "copying", "exec", "pragma",
                    "reacquire", "bump", "lock"}
    BY <1>1, <1>2, <1>3 DEF DBShape
  <2> QED
    BY <2>1, <1>1, <1>2, <1>3, <1>5, ShapeAside
<1>7. VersionOK' /\ LockOK'
  BY <1>1, <1>2, <1>3, VersionAssumption DEF VersionOK, LockOK
<1> QED
  BY <1>5, <1>6, <1>7 DEF Inv, SQLiteInv, FilesInv, SyncInv

LEMMA ReadMarkIs ==
  ASSUME SQLiteInv
  PROVE  ReadMark \in Int /\ ReadMark >= 0 /\ ReadMark <= mx
BY DEF ReadMark, SQLiteInv, SQLiteShape

LEMMA OpenKeeps ==
  ASSUME Inv, Open
  PROVE  Inv'
<1>1. SQLiteInv /\ DBShape /\ VersionOK /\ LockOK
  BY InvIs
<1>2. /\ pc = "down" /\ pc' = "idle" /\ rmark' = ReadMark /\ UNCHANGED <<sqlite, files>>
      /\ UNCHANGED <<version, mx, hdr, chk, info, pageMap, buf, end, hdr0, last, replay, overrun>>
  BY DEF Open, sqlite, files, syncing
<1>3. SQLiteInv' /\ FilesInv' /\ SyncInv'
  BY <1>2, QuietStep
<1>4. ReadMark \in Int /\ ReadMark >= 0 /\ ReadMark <= mx
  BY <1>1, ReadMarkIs
<1>5. DBShape'
  BY <1>1, <1>2, <1>4 DEF DBShape
<1>6. VersionOK' /\ LockOK'
  BY <1>1, <1>2, <1>4 DEF VersionOK, LockOK
<1> QED
  BY <1>3, <1>5, <1>6 DEF Inv, SQLiteInv, FilesInv, SyncInv

LEMMA SyncStartKeeps ==
  ASSUME Inv, SyncStart
  PROVE  Inv'
<1>1. SQLiteInv /\ DBShape /\ VersionOK /\ LockOK
  BY InvIs
<1>2. /\ pc = "idle" /\ pc' = "verify" /\ chk' = "sync"
      /\ rmark' = rmark /\ hdr0' = hdr0 /\ UNCHANGED <<syncing, files>> /\ Aside
  BY DEF SyncStart, Aside
<1>3. version \in Nat /\ mx \in Nat /\ rmark <= mx
  BY <1>1 DEF SQLiteInv, SQLiteShape, DBShape
<1>4. CASE hdr # 0
  <2>1. /\ UNCHANGED <<sqlite, files>> /\ overrun' = overrun
        /\ version' = version /\ mx' = mx /\ hdr' = hdr
    BY <1>4 DEF SyncStart, sqlite, files
  <2>2. SQLiteInv' /\ FilesInv' /\ SyncInv'
    BY <2>1, <1>2, QuietStep
  <2>3. DBShape'
    BY <2>1, <1>1, <1>2 DEF DBShape, syncing, files
  <2>4. VersionOK' /\ LockOK'
    BY <2>1, <1>1, <1>2, <1>4 DEF VersionOK, LockOK
  <2> QED
    BY <2>2, <2>3, <2>4 DEF Inv, SQLiteInv, FilesInv, SyncInv
<1>5. CASE hdr = 0
  <2>1. Commit({SeqPage}) /\ version <= MaxVersion
    BY <1>1, <1>5 DEF SyncStart, VersionOK
  <2>2. /\ SQLiteInv' /\ FilesInv' /\ SyncInv'
        /\ hdr' # 0 /\ version' = version + 1 /\ rmark <= mx'
        /\ overrun' \subseteq {"files", "copy", "torn", "loss", "tail"}
    <3>1. {SeqPage} \in SUBSET Pages /\ {SeqPage} # {}
      BY PagesAssumption
    <3> QED
      BY <3>1, <2>1, <1>2, CommitStep
  <2>3. DBShape'
    <3>1. /\ version' \in Nat /\ version <= version' /\ mx' \in Nat
          /\ hdr0' \in Nat /\ hdr0' <= version' /\ pc # "copying"
          /\ chk' \in {"sync", "before", "after"}
          /\ pc' \in {"down", "idle", "verify", "verified", "copying", "exec", "pragma",
                      "reacquire", "bump", "lock"}
      <4>1. mx' \in Nat
        BY <2>2 DEF SQLiteInv, SQLiteShape
      <4>2. hdr0 \in Nat /\ hdr0 <= version /\ chk \in {"sync", "before", "after"}
        BY <1>1 DEF DBShape
      <4>3. version' \in Nat /\ version <= version' /\ hdr0 <= version'
        BY <4>2, <2>2, <1>3
      <4> QED
        BY <4>1, <4>2, <4>3, <1>2
    <3> QED
      BY <3>1, <2>2, <1>1, <1>2, <1>3, ShapeAside
  <2>4. VersionOK' /\ LockOK'
    BY <2>1, <2>2, <1>1, <1>2, <1>3, VersionAssumption DEF VersionOK, LockOK
  <2> QED
    BY <2>2, <2>3, <2>4 DEF Inv, SQLiteInv, FilesInv, SyncInv
<1> QED
  BY <1>4, <1>5

LEMMA VerifyKeeps ==
  ASSUME Inv, Verify
  PROVE  Inv'
<1>1. /\ SQLiteInv /\ DBShape /\ VersionOK /\ LockOK /\ FilesInv /\ LastOK /\ SnapshotOK /\ FilesOK
  BY DEF Inv, SQLiteInv, FilesInv
<1>2. /\ pc = "verify" /\ pc' = "verified" /\ info' = VerifyInfo
      /\ UNCHANGED <<version, dbfile, wal, hdr, mx, nbackfill, committed, rmark, chk,
                     pageMap, buf, end, hdr0, last, replay, overrun>>
  BY DEF Verify, sqlite, files
<1>3. SQLiteInv'
  BY <1>1, <1>2 DEF SQLiteInv, SQLiteShape, LogOK, DatabaseOK
<1>4. FilesInv'
  <2>1. Base' = Base /\ Sound' = Sound
    BY <1>2 DEF Base, Sound
  <2>2. FilesOK'
    BY <2>1, <1>1, <1>2 DEF FilesOK, Continues, Newer
  <2>3. LastOK' /\ SnapshotOK'
    BY <1>1, <1>2 DEF LastOK, SnapshotOK
  <2> QED
    BY <2>2, <2>3 DEF FilesInv
<1>5. PICK l, w : l = Len(wal) /\ w = wal
  OBVIOUS
<1>6. /\ l \in Nat /\ mx \in Nat /\ mx <= l /\ hdr \in Nat /\ hdr <= version /\ version \in Nat
      /\ last.end \in Nat /\ last.salt \in Nat /\ last.salt <= version
      /\ hdr = 0 => l = 0
      /\ \A i \in 1..mx : w[i].salt = hdr
  BY <1>1, <1>5 DEF SQLiteInv, SQLiteShape, LogOK, DBShape
<1>7. PICK again : again = (\/ hdr = 0 \/ last.end > l
                            \/ /\ last.end > 0
                               /\ \/ w[last.end].salt # last.salt
                                  \/ w[last.end].pgno \notin DOMAIN last.pages
                                  \/ last.pages[w[last.end].pgno] # w[last.end].version)
  OBVIOUS
<1>8. CASE last = NoFile
  <2>1. info' = [offset |-> 0, salt |-> 0, snapshotting |-> TRUE]
    BY <1>2, <1>8 DEF VerifyInfo
  <2>2. info'.offset = 0 /\ info'.salt = 0 /\ info'.snapshotting = TRUE
    BY <2>1
  <2>b. info'.snapshotting \in BOOLEAN
    BY <2>2
  <2>o. info'.offset \in Nat /\ info'.salt \in Nat /\ info'.salt <= version
    BY <2>2, <1>6
  <2>3. DBShape'
    BY <2>b, <2>o, <1>1, <1>2 DEF DBShape
  <2>4. VerifiedOK'
    BY <2>2 DEF VerifiedOK
  <2> QED
    BY <2>3, <2>4, <1>1, <1>2, <1>3, <1>4
    DEF Inv, SQLiteInv, FilesInv, CopyOK, VersionOK, LockOK
<1>9. CASE last # NoFile /\ hdr # 0 /\ last.end <= l /\ hdr # last.salt
  <2>1. info' = [offset |-> 0, salt |-> hdr, snapshotting |-> FALSE]
    BY <1>2, <1>5, <1>9 DEF VerifyInfo
  <2>2. info'.offset = 0 /\ info'.salt = hdr /\ info'.snapshotting = FALSE
    BY <2>1
  <2>b. info'.snapshotting \in BOOLEAN
    BY <2>2
  <2>o. info'.offset \in Nat /\ info'.salt \in Nat /\ info'.salt <= version
    BY <2>2, <1>6
  <2>3. DBShape'
    BY <2>b, <2>o, <1>1, <1>2 DEF DBShape
  <2>4. VerifiedOK'
    BY <2>2, <1>2, <1>9 DEF VerifiedOK
  <2> QED
    BY <2>3, <2>4, <1>1, <1>2, <1>3, <1>4
    DEF Inv, SQLiteInv, FilesInv, CopyOK, VersionOK, LockOK
<1>10. CASE last # NoFile /\ ~(hdr # 0 /\ last.end <= l /\ hdr # last.salt)
  <2>1. info' = [offset |-> last.end, salt |-> last.salt, snapshotting |-> again]
    BY <1>2, <1>5, <1>7, <1>10 DEF VerifyInfo
  <2>2. info'.offset = last.end /\ info'.salt = last.salt /\ info'.snapshotting = again
    BY <2>1
  <2>3. again \in BOOLEAN
    BY <1>7
  <2>4. DBShape'
    BY <2>2, <2>3, <1>1, <1>2, <1>6 DEF DBShape
  <2>5. last.salt # 0
    BY <1>1, <1>10 DEF LastOK
  <2>6. ASSUME "tail" \notin overrun, again, last.end > 0
        PROVE  last.salt # hdr /\ (last.end <= l => w[last.end].salt # last.salt)
    <3>1. CASE hdr = 0
      BY <3>1, <2>5, <2>6, <1>6
    <3>2. CASE hdr = last.salt
      <4>1. /\ last.end <= mx
            /\ w[last.end].pgno \in DOMAIN last.pages
            /\ last.pages[w[last.end].pgno] = w[last.end].version
        BY <3>2, <2>5, <2>6, <1>1, <1>5 DEF LastOK
      <4>2. last.end \in 1..mx /\ last.end <= l
        BY <4>1, <2>6, <1>6
      <4>3. w[last.end].salt = last.salt
        BY <4>2, <3>2, <1>6
      <4>4. ~(\/ hdr = 0 \/ last.end > l
              \/ /\ last.end > 0
                 /\ \/ w[last.end].salt # last.salt
                    \/ w[last.end].pgno \notin DOMAIN last.pages
                    \/ last.pages[w[last.end].pgno] # w[last.end].version)
        BY <4>1, <4>2, <4>3, <3>2, <2>5, <1>6
      <4> QED
        BY <4>4, <2>6, <1>7
    <3>3. CASE hdr # 0 /\ hdr # last.salt
      BY <3>3, <1>6, <1>10
    <3> QED
      BY <3>1, <3>2, <3>3
  <2>7. VerifiedOK'
    BY <2>2, <2>5, <2>6, <1>2, <1>5, <1>10 DEF VerifiedOK
  <2> QED
    BY <2>4, <2>7, <1>1, <1>2, <1>3, <1>4
    DEF Inv, SQLiteInv, FilesInv, CopyOK, VersionOK, LockOK
<1> QED
  BY <1>8, <1>9, <1>10

(* What PageMap reads. *)
LEMMA ReaderIs ==
  ASSUME SQLiteInv, DBShape, hdr # 0
  PROVE  /\ Reader.offset \in Nat /\ Reader.offset <= Len(wal)
         /\ Reader.salt \in Nat /\ Reader.salt # 0 /\ Reader.salt <= version
         /\ Reader.offset > 0 => wal[Reader.offset].salt = Reader.salt
         /\ \/ Reader.offset = info.offset /\ Reader.salt = info.salt /\ info.offset > 0
            \/ /\ Reader.offset = 0 /\ Reader.salt = hdr
               /\ ~(/\ info.offset > 0 /\ info.offset <= Len(wal)
                    /\ wal[info.offset].salt = info.salt)
<1>1. PICK l, w : l = Len(wal) /\ w = wal
  OBVIOUS
<1>2. /\ l \in Nat /\ hdr \in Nat /\ hdr <= version /\ version \in Nat /\ info.offset \in Nat
      /\ \A i \in 1..l : w[i].salt \in 1..version
  BY <1>1 DEF SQLiteInv, SQLiteShape, LogOK, DBShape
<1>3. CASE info.offset > 0 /\ info.offset <= l /\ w[info.offset].salt = info.salt
  <2>1. Reader = [offset |-> info.offset, salt |-> info.salt]
    BY <1>1, <1>3 DEF Reader
  <2>2. Reader.offset = info.offset /\ Reader.salt = info.salt
    BY <2>1
  <2>3. info.offset \in 1..l
    BY <1>2, <1>3
  <2>4. info.salt \in 1..version
    BY <2>3, <1>2, <1>3
  <2> QED
    BY <2>2, <2>3, <2>4, <1>1, <1>2, <1>3
<1>4. CASE ~(info.offset > 0 /\ info.offset <= l /\ w[info.offset].salt = info.salt)
  <2>1. Reader = [offset |-> 0, salt |-> hdr]
    BY <1>1, <1>4 DEF Reader
  <2>2. Reader.offset = 0 /\ Reader.salt = hdr
    BY <2>1
  <2> QED
    BY <2>2, <1>1, <1>2, <1>4
<1> QED
  BY <1>3, <1>4

(* A reader of the current salt reads the whole WAL. *)
LEMMA ReadsAll ==
  ASSUME SQLiteInv, DBShape, hdr # 0, Reader.salt = hdr
  PROVE  ReadTo = mx /\ Reader.offset <= mx
<1>1. PICK l, w, o, t, m : l = Len(wal) /\ w = wal /\ o = Reader.offset /\ t = ReadTo /\ m = mx
  OBVIOUS
<1>2. o \in Nat /\ o <= l /\ (o > 0 => w[o].salt = hdr)
  BY <1>1, ReaderIs
<1>3. /\ l \in Nat /\ m \in Nat /\ m <= l /\ wal \in Seq(Frame)
      /\ \A i \in 1..m : w[i].salt = hdr
      /\ \A i \in m + 1..l : w[i].salt # hdr
  BY <1>1 DEF SQLiteInv, SQLiteShape, LogOK
<1>4. /\ t \in Nat /\ t >= o /\ t <= l
      /\ \A i \in o + 1..t : w[i].salt = hdr
      /\ t < l => w[t + 1].salt # hdr
  <2>1. Reader.offset \in Nat /\ Reader.offset <= Len(wal) /\ wal \in Seq(Frame)
    BY <1>1, <1>2, <1>3
  <2>2. /\ ReadTo \in Nat /\ ReadTo >= Reader.offset /\ ReadTo <= Len(wal)
        /\ \A i \in Reader.offset + 1..ReadTo : wal[i].salt = Reader.salt
        /\ ReadTo < Len(wal) => wal[ReadTo + 1].salt # Reader.salt
    BY <2>1, ReadToIs
  <2> QED
    BY <2>2, <1>1
<1>5. o <= m
  BY <1>2, <1>3
<1>6. t <= m
  <2>1. CASE t > m
    <3>1. t \in m + 1..l /\ t \in o + 1..t
      BY <2>1, <1>2, <1>3, <1>4, <1>5
    <3> QED
      BY <3>1, <1>3, <1>4
  <2> QED
    BY <2>1, <1>3, <1>4
<1>7. t >= m
  <2>1. CASE t < m
    <3>1. t + 1 \in 1..m /\ t < l
      BY <2>1, <1>3, <1>4
    <3> QED
      BY <3>1, <1>3, <1>4
  <2> QED
    BY <2>1, <1>3, <1>4
<1> QED
  BY <1>1, <1>3, <1>4, <1>5, <1>6, <1>7

(* A snapshot reads the WAL from its start; an increment goes on where the
   files end, or finds nothing. *)
LEMMA ReaderGoesOn ==
  ASSUME Inv, pc = "verified", hdr # 0, "tail" \notin overrun
  PROVE  /\ info.snapshotting => Reader.offset = 0 /\ Reader.salt = hdr
         /\ ~info.snapshotting /\ Sound =>
              /\ last # NoFile
              /\ \/ Reader.offset = Base /\ Reader.salt = hdr
                 \/ hdr # last.salt /\ ReadTo = Reader.offset
<1>1. SQLiteInv /\ DBShape /\ VerifiedOK /\ LastOK /\ FilesOK
  BY DEF Inv, SQLiteInv
<1>2. PICK l, w : l = Len(wal) /\ w = wal
  OBVIOUS
<1>3. /\ Reader.offset \in Nat /\ Reader.offset <= l
      /\ Reader.salt \in Nat /\ Reader.salt # 0 /\ Reader.salt <= version
      /\ Reader.offset > 0 => w[Reader.offset].salt = Reader.salt
      /\ \/ Reader.offset = info.offset /\ Reader.salt = info.salt /\ info.offset > 0
         \/ /\ Reader.offset = 0 /\ Reader.salt = hdr
            /\ ~(info.offset > 0 /\ info.offset <= l /\ w[info.offset].salt = info.salt)
  BY <1>1, <1>2, ReaderIs
<1>4. /\ info.snapshotting /\ info.offset > 0 =>
           (info.offset <= l => w[info.offset].salt # info.salt)
      /\ ~info.snapshotting =>
           /\ last # NoFile
           /\ \/ info.offset = 0 /\ hdr # last.salt
              \/ info.offset = last.end /\ info.salt = last.salt
  BY <1>1, <1>2 DEF VerifiedOK
<1>5. info.snapshotting => Reader.offset = 0 /\ Reader.salt = hdr
  BY <1>3, <1>4
<1>6. ASSUME ~info.snapshotting, Sound
      PROVE  \/ Reader.offset = Base /\ Reader.salt = hdr
             \/ hdr # last.salt /\ ReadTo = Reader.offset
  <2>1. /\ l \in Nat /\ mx \in Nat /\ mx <= l /\ last.end \in Nat /\ last.salt # 0
        /\ \A i \in 1..mx : w[i].salt = hdr
        /\ wal \in Seq(Frame)
    BY <1>1, <1>2, <1>4, <1>6 DEF SQLiteInv, SQLiteShape, LogOK, DBShape, LastOK
  <2>2. CASE Reader.offset = info.offset /\ Reader.salt = info.salt /\ info.offset > 0
    <3>1. info.offset = last.end /\ info.salt = last.salt
      BY <2>2, <1>4, <1>6
    <3>2. CASE hdr = last.salt
      BY <3>1, <3>2, <2>2 DEF Base
    <3>3. CASE hdr # last.salt
      <4>1. PICK o, t, s : o = Reader.offset /\ t = ReadTo /\ s = last.salt
        OBVIOUS
      <4>2. /\ t \in Nat /\ t >= o /\ t <= l /\ o \in Nat
            /\ \A i \in o + 1..t : w[i].salt = s
        BY <4>1, <3>1, <2>1, <2>2, <1>2, <1>3, ReadToIs
      <4>3. \A i \in 1..l : i > o => w[i].salt # s
        BY <4>1, <3>1, <3>3, <2>2, <1>1, <1>2, <1>4, <1>6 DEF FilesOK
      <4>4. t = o
        <5>1. CASE t > o
          <6>1. t \in 1..l /\ t \in o + 1..t
            BY <5>1, <4>2, <2>1
          <6> QED
            BY <6>1, <5>1, <4>2, <4>3
        <5> QED
          BY <5>1, <4>2
      <4> QED
        BY <4>1, <4>4, <3>3
    <3> QED
      BY <3>2, <3>3
  <2>3. CASE /\ Reader.offset = 0 /\ Reader.salt = hdr
             /\ ~(info.offset > 0 /\ info.offset <= l /\ w[info.offset].salt = info.salt)
    <3>1. CASE hdr # last.salt
      BY <3>1, <2>3 DEF Base
    <3>2. CASE hdr = last.salt
      <4>1. info.offset = last.end /\ info.salt = last.salt
        BY <3>2, <1>4, <1>6
      <4>2. last.end <= mx
        BY <3>2, <2>1, <1>1 DEF LastOK
      <4>3. last.end > 0 => w[last.end].salt = hdr
        <5>1. last.end > 0 => last.end \in 1..mx
          BY <4>2, <2>1
        <5> QED
          BY <5>1, <2>1
      <4>4. last.end = 0
        BY <4>1, <4>2, <4>3, <3>2, <2>1, <2>3
      <4> QED
        BY <4>4, <3>2, <2>3 DEF Base
    <3> QED
      BY <3>1, <3>2
  <2> QED
    BY <2>2, <2>3, <1>3
<1> QED
  BY <1>4, <1>5, <1>6

(* The page map has the last frame of every page after the first o frames. *)
MapOf(w, o, t) == [p \in {w[i].pgno : i \in o + 1..t} |-> LastIn(w, p, o + 1, t)]

LEMMA PageMapIs ==
  ASSUME NEW w \in Seq(Frame), NEW o \in Nat, NEW t \in Nat, t <= Len(w),
         NEW f, f = MapOf(w, o, t)
  PROVE  /\ \A p \in DOMAIN f : p \in Pages /\ f[p] \in o + 1..t /\ IsLast(w, p, f[p], t)
         /\ \A p \in Pages : p \notin DOMAIN f => Absent(w, p, o, t)
         /\ \A i \in o + 1..t : w[i].pgno \in DOMAIN f
<1>1. DOMAIN f = {w[i].pgno : i \in o + 1..t}
  BY DEF MapOf
<1>2. \A i \in o + 1..t : w[i].pgno \in DOMAIN f
  BY <1>1
<1>3. \A p \in Pages : p \notin DOMAIN f => Absent(w, p, o, t)
  BY <1>2 DEF Absent
<1>4. ASSUME NEW p \in DOMAIN f
      PROVE  p \in Pages /\ f[p] \in o + 1..t /\ IsLast(w, p, f[p], t)
  <2>1. PICK i \in o + 1..t : w[i].pgno = p
    BY <1>1
  <2>2. p \in Pages
    <3>1. i \in 1..Len(w)
      OBVIOUS
    <3>2. w[i] \in Frame
      BY <3>1
    <3> QED
      BY <2>1, <3>2 DEF Frame
  <2>3. ~Absent(w, p, o, t)
    BY <2>1 DEF Absent
  <2>4. PICK j \in o + 1..t : IsLast(w, p, j, t)
    BY <2>3, LastThere
  <2>5. LastIn(w, p, o + 1, t) = j
    BY <2>4, LastInIs
  <2>6. f[p] = LastIn(w, p, o + 1, t)
    BY <1>1 DEF MapOf
  <2> QED
    BY <2>2, <2>4, <2>5, <2>6
<1> QED
  BY <1>2, <1>3, <1>4

(* A page map of frames after the first o, put on top of a state that they
   continue, is the database. *)
MapsLast(f, w, o, t) ==
  /\ \A p \in DOMAIN f : p \in Pages /\ f[p] \in o + 1..t /\ IsLast(w, p, f[p], t)
  /\ \A p \in Pages : p \notin DOMAIN f => Absent(w, p, o, t)
OnTop(f, w, r) == [p \in Pages |-> IF p \in DOMAIN f THEN w[f[p]].version ELSE r[p]]
Supplies(r, w, d, o, t) == \A p \in Pages : Absent(w, p, o, t) => r[p] = View(w, d, t)[p]

LEMMA TargetIsView ==
  ASSUME NEW w \in Seq(Frame), NEW d, NEW o \in Nat, NEW t \in Nat, t <= Len(w), NEW f,
         MapsLast(f, w, o, t), NEW r, Supplies(r, w, d, o, t)
  PROVE  OnTop(f, w, r) = View(w, d, t)
<1>1. ASSUME NEW p \in Pages
      PROVE  (IF p \in DOMAIN f THEN w[f[p]].version ELSE r[p]) = View(w, d, t)[p]
  <2>1. CASE p \in DOMAIN f
    <3>1. PICK j : j = f[p]
      OBVIOUS
    <3>2. j \in 1..t /\ IsLast(w, p, j, t)
      BY <2>1, <3>1 DEF MapsLast
    <3>3. View(w, d, t)[p] = w[j].version
      BY <3>2, ViewAt
    <3> QED
      BY <3>1, <3>3, <2>1
  <2>2. CASE p \notin DOMAIN f
    BY <2>2 DEF MapsLast, Supplies
  <2> QED
    BY <2>1, <2>2
<1>2. View(w, d, t) = [p \in Pages |-> View(w, d, t)[p]]
  BY DEF View
<1> QED
  BY <1>1, <1>2 DEF OnTop

LEMMA ContinuedEnd ==
  ASSUME NEW w, NEW d, NEW nb \in Nat, NEW m \in Nat, nb <= m
  PROVE  /\ Continued(w, d, nb, m, View(w, d, m), m)
         /\ NewerIn(w, m, View(w, d, m), m)
         /\ \A r : \A a \in Nat : a <= m /\ Continued(w, d, nb, m, r, a) =>
              \A p \in Pages : Absent(w, p, a, m) => r[p] = View(w, d, m)[p]
<1>1. \A k \in nb..m : k >= m => k = m
  OBVIOUS
<1>2. m \in nb..m
  OBVIOUS
<1> QED
  BY <1>1, <1>2 DEF Continued, NewerIn

(* verifyAndSync returns without a file. *)
LEMMA ReturnKeeps ==
  ASSUME Inv, pc \in {"verified", "copying"}, pc' \in {"exec", "idle"},
         pc' = "exec" => chk = "before",
         info' = NoInfo, pageMap' = <<>>, buf' = <<>>, end' = 0,
         UNCHANGED <<sqlite, rmark, chk, hdr0, files>>,
         overrun' = overrun \/ overrun' = overrun \ {"copy"}
  PROVE  Inv'
<1>1. SQLiteInv /\ DBShape /\ VersionOK /\ LockOK
  BY InvIs
<1>2. /\ version' = version /\ mx' = mx /\ hdr' = hdr /\ rmark' = rmark /\ chk' = chk
      /\ hdr0' = hdr0 /\ last' = last /\ replay' = replay /\ UNCHANGED <<sqlite, files>>
  BY DEF sqlite, files
<1>3. SQLiteInv' /\ FilesInv' /\ SyncInv'
  <2>1. pc' \notin {"verified", "copying"}
    OBVIOUS
  <2> QED
    BY <2>1, <1>2, QuietStep
<1>4. DBShape'
  <2>1. info'.offset = 0 /\ info'.salt = 0 /\ info'.snapshotting \in BOOLEAN
    BY DEF NoInfo
  <2>2. version \in Nat
    BY <1>1 DEF SQLiteInv, SQLiteShape
  <2>3. overrun' \subseteq {"files", "copy", "torn", "loss", "tail"}
    BY <1>1 DEF DBShape
  <2>4. DOMAIN pageMap' = {} /\ DOMAIN buf' = {} /\ buf' = [p \in DOMAIN buf' |-> buf'[p]]
    OBVIOUS
  <2>5. pc' \in {"down", "idle", "verify", "verified", "copying", "exec", "pragma",
                 "reacquire", "bump", "lock"}
    OBVIOUS
  <2> QED
    BY <2>1, <2>2, <2>3, <2>4, <2>5, <1>1, <1>2 DEF DBShape
<1>5. VersionOK' /\ LockOK'
  BY <1>1, <1>2 DEF VersionOK, LockOK
<1> QED
  BY <1>3, <1>4, <1>5 DEF Inv, SQLiteInv, FilesInv, SyncInv

(* The page map is read. *)
LEMMA PageMapReads ==
  ASSUME Inv, PageMap, hdr # 0, info.snapshotting \/ ReadTo # Reader.offset
  PROVE  Inv'
<1>1. /\ SQLiteInv /\ DBShape /\ VersionOK /\ LockOK /\ FilesOK /\ LastOK /\ SnapshotOK
  BY DEF Inv, SQLiteInv
<1>2. PICK l, w, o, s, t : /\ l = Len(wal) /\ w = wal /\ o = Reader.offset
                           /\ s = Reader.salt /\ t = ReadTo
  OBVIOUS
<1>3. /\ pc = "verified" /\ pc' = "copying" /\ end' = t
      /\ pageMap' = [p \in {w[i].pgno : i \in o + 1..t} |-> LastIn(w, p, o + 1, t)]
      /\ info' = [offset |-> o, salt |-> s, snapshotting |-> info.snapshotting]
      /\ UNCHANGED <<buf, version, dbfile, wal, hdr, mx, nbackfill, committed,
                     rmark, chk, hdr0, last, replay, overrun>>
  <2>1. /\ pc = "verified" /\ pc' = "copying" /\ end' = ReadTo
        /\ pageMap' = [p \in {wal[i].pgno : i \in Reader.offset + 1..ReadTo} |->
                         LastFrame(p, Reader.offset + 1, ReadTo)]
        /\ info' = [offset |-> Reader.offset, salt |-> Reader.salt,
                    snapshotting |-> info.snapshotting]
        /\ UNCHANGED <<buf, version, dbfile, wal, hdr, mx, nbackfill, committed,
                       rmark, chk, hdr0, last, replay, overrun>>
    BY DEF PageMap, sqlite, files
  <2>2. \A p : LastFrame(p, Reader.offset + 1, ReadTo) = LastIn(w, p, o + 1, t)
    BY <1>2 DEF LastFrame, LastIn
  <2> QED
    BY <1>2, <2>1, <2>2
<1>4. info'.offset = o /\ info'.salt = s /\ info'.snapshotting = info.snapshotting
  BY <1>3
<1>5. /\ l \in Nat /\ mx \in Nat /\ mx <= l /\ nbackfill \in Nat /\ nbackfill <= mx
      /\ w \in Seq(Frame) /\ rmark <= mx /\ dbfile \in State
      /\ \A i \in 1..mx : w[i].salt = hdr
      /\ \A i \in mx + 1..l : w[i].salt # hdr
  BY <1>1, <1>2 DEF SQLiteInv, SQLiteShape, LogOK, DBShape
<1>6. /\ o \in Nat /\ o <= l /\ s \in Nat /\ s # 0 /\ s <= version
  BY <1>1, <1>2, ReaderIs
<1>7. t \in Nat /\ t >= o /\ t <= l
  <2>1. Reader.offset \in Nat /\ Reader.offset <= Len(wal) /\ wal \in Seq(Frame)
    BY <1>2, <1>5, <1>6
  <2>2. ReadTo \in Nat /\ ReadTo >= Reader.offset /\ ReadTo <= Len(wal)
    BY <2>1, ReadToIs
  <2> QED
    BY <2>2, <1>2
<1>8. PICK f : f = pageMap'
  OBVIOUS
<1>9. /\ \A p \in DOMAIN f : p \in Pages /\ f[p] \in o + 1..t /\ IsLast(w, p, f[p], t)
      /\ \A p \in Pages : p \notin DOMAIN f => Absent(w, p, o, t)
      /\ \A i \in o + 1..t : w[i].pgno \in DOMAIN f
  <2>1. t <= Len(w) /\ f = MapOf(w, o, t)
    BY <1>2, <1>3, <1>7, <1>8 DEF MapOf
  <2> QED
    BY <2>1, <1>5, <1>6, <1>7, PageMapIs
<1>10. buf = <<>> /\ DOMAIN buf = {}
  BY <1>1, <1>3 DEF DBShape
<1>11. DBShape'
  <2>1. \A p \in DOMAIN f : p \in Pages /\ f[p] \in Nat /\ f[p] > 0
    BY <1>6, <1>7, <1>9
  <2>2. info'.snapshotting \in BOOLEAN
    BY <1>1, <1>4 DEF DBShape
  <2> QED
    BY <2>1, <2>2, <1>1, <1>3, <1>4, <1>6, <1>7, <1>8 DEF DBShape
<1>12. SQLiteInv'
  BY <1>1, <1>3 DEF SQLiteInv, SQLiteShape, LogOK, DatabaseOK
<1>13. FilesInv'
  <2>1. Base' = Base /\ Sound' = Sound
    BY <1>3 DEF Base, Sound
  <2>2. FilesOK'
    BY <2>1, <1>1, <1>3 DEF FilesOK, Continues, Newer
  <2>3. LastOK' /\ SnapshotOK'
    BY <1>1, <1>3 DEF LastOK, SnapshotOK
  <2> QED
    BY <2>2, <2>3 DEF FilesInv
<1>14. s = hdr => t = mx /\ o <= mx
  BY <1>1, <1>2, ReadsAll
<1>15. MapOK'
  <2> SUFFICES ASSUME s = hdr
               PROVE  /\ t <= mx
                      /\ \A p \in DOMAIN f : f[p] <= t
                      /\ "tail" \notin overrun /\ t > 0 =>
                           w[t].pgno \in DOMAIN f /\ f[w[t].pgno] = t
    BY <1>2, <1>3, <1>4, <1>8, <1>10 DEF MapOK
  <2>1. t <= mx
    BY <1>5, <1>14
  <2>2. \A p \in DOMAIN f : f[p] <= t
    BY <1>6, <1>7, <1>9
  <2>3. ASSUME "tail" \notin overrun, t > 0
        PROVE  w[t].pgno \in DOMAIN f /\ f[w[t].pgno] = t
    <3>1. t > o
      <4>1. CASE info.snapshotting
        <5>1. o = 0
          BY <4>1, <2>3, <1>2, <1>3, ReaderGoesOn
        <5> QED
          BY <5>1, <2>3
      <4>2. CASE ~info.snapshotting
        BY <4>2, <1>2, <1>6, <1>7
      <4> QED
        BY <4>1, <4>2
    <3>2. t \in o + 1..t
      BY <3>1, <1>6, <1>7
    <3>3. PICK p, j : p = w[t].pgno /\ j = f[p]
      OBVIOUS
    <3>4. p \in DOMAIN f /\ j \in o + 1..t /\ IsLast(w, p, j, t)
      BY <3>2, <3>3, <1>9
    <3>5. j = t
      <4>1. CASE j < t
        <5>1. t \in j + 1..t
          BY <4>1, <3>4, <1>6, <1>7
        <5> QED
          BY <5>1, <3>3, <3>4 DEF IsLast
      <4> QED
        BY <4>1, <3>4, <1>6, <1>7
    <3> QED
      BY <3>3, <3>4, <3>5
  <2> QED
    BY <2>1, <2>2, <2>3
<1>16. ASSUME Clean' PROVE TargetOK'
  <2>1. "tail" \notin overrun /\ (info.snapshotting \/ Sound)
    BY <1>3, <1>4, <1>16 DEF Clean, Sound
  <2>2. PICK r : r = IF info.snapshotting THEN dbfile ELSE replay
    OBVIOUS
  <2>3. s = hdr /\ \A p \in Pages : Absent(w, p, o, mx) => r[p] = View(w, dbfile, mx)[p]
    <3>1. CASE info.snapshotting
      <4>1. o = 0 /\ s = hdr
        BY <3>1, <2>1, <1>2, <1>3, ReaderGoesOn
      <4> QED
        BY <4>1, <3>1, <2>2, <1>5, ViewAt
    <3>2. CASE ~info.snapshotting
      <4>1. /\ last # NoFile
            /\ \/ o = Base /\ s = hdr
               \/ hdr # last.salt /\ t = o
        BY <3>2, <2>1, <1>2, <1>3, ReaderGoesOn
      <4>2. o = Base /\ s = hdr
        BY <4>1, <3>2, <1>2
      <4>3. Continues(replay, Base) /\ Base \in Nat /\ Base <= mx
        BY <4>1, <3>2, <2>1, <1>1, BaseBound DEF FilesOK
      <4>4. PICK d, nb, m : d = dbfile /\ nb = nbackfill /\ m = mx
        OBVIOUS
      <4>5. /\ nb \in Nat /\ m \in Nat /\ nb <= m /\ o <= m
            /\ r = replay /\ Continued(w, d, nb, m, r, o)
        BY <4>2, <4>3, <4>4, <3>2, <2>2, <1>2, <1>5 DEF Continues
      <4>6. \A p \in Pages : Absent(w, p, o, m) => r[p] = View(w, d, m)[p]
        BY <4>5, <1>6, ContinuedEnd
      <4> QED
        BY <4>2, <4>4, <4>6
    <3> QED
      BY <3>1, <3>2
  <2>4. t = mx
    BY <2>3, <1>14
  <2>5. Target' = View(w, dbfile, mx)
    <3>1. PICK d : d = dbfile
      OBVIOUS
    <3>2. \A p \in Pages : Absent(w, p, o, t) => r[p] = View(w, d, t)[p]
      BY <3>1, <2>3, <2>4
    <3>3. t <= Len(w)
      BY <1>2, <1>7
    <3>4. OnTop(f, w, r) = View(w, d, t)
      <4>1. w \in Seq(Frame) /\ o \in Nat /\ t \in Nat
        BY <1>5, <1>6, <1>7
      <4>2. /\ MapsLast(f, w, o, t)
            /\ Supplies(r, w, d, o, t)
        BY <3>2, <1>9 DEF MapsLast, Supplies
      <4> QED
        BY <4>1, <4>2, <3>3, TargetIsView
    <3>5. Target' = OnTop(f, w, r)
      BY <2>2, <1>2, <1>3, <1>4, <1>8 DEF Target, Source, OnTop
    <3> QED
      BY <3>1, <3>4, <3>5, <2>4
  <2>6. View(w, dbfile, mx) \in committed
    <3>1. mx \in nbackfill..mx /\ Boundary(w, mx, mx)
      BY <1>5 DEF Boundary
    <3> QED
      BY <3>1, <1>1, <1>2 DEF SQLiteInv, DatabaseOK, States
  <2>7. /\ Continued(w, dbfile, nbackfill, mx, View(w, dbfile, mx), mx)
        /\ NewerIn(w, mx, View(w, dbfile, mx), mx)
    BY <1>5, ContinuedEnd
  <2>8. info.snapshotting => \A i \in 1..t : w[i].pgno \in DOMAIN f
    <3>1. info.snapshotting => o = 0
      BY <2>1, <1>2, <1>3, ReaderGoesOn
    <3>2. info.snapshotting => \A i \in 1..t : i \in o + 1..t
      BY <3>1, <1>7
    <3> QED
      BY <3>2, <1>9
  <2>9. Continues(Target, end)' /\ Newer(Target, end)' /\ (Target \in committed)'
    BY <2>4, <2>5, <2>6, <2>7, <1>2, <1>3 DEF Continues, Newer
  <2> QED
    BY <2>3, <2>4, <2>8, <2>9, <1>2, <1>3, <1>4, <1>5, <1>8, <1>10 DEF TargetOK
<1>17. SyncInv'
  <2>1. CopyOK'
    BY <1>4, <1>6, <1>15, <1>16 DEF CopyOK
  <2> QED
    BY <2>1, <1>3 DEF SyncInv, VerifiedOK
<1>18. VersionOK' /\ LockOK'
  BY <1>1, <1>3 DEF VersionOK, LockOK
<1> QED
  BY <1>11, <1>12, <1>13, <1>17, <1>18 DEF Inv, SQLiteInv, FilesInv, SyncInv

LEMMA PageMapKeeps ==
  ASSUME Inv, PageMap
  PROVE  Inv'
<1>1. CASE hdr # 0 /\ (info.snapshotting \/ ReadTo # Reader.offset)
  BY <1>1, PageMapReads
<1>2. CASE ~(hdr # 0 /\ (info.snapshotting \/ ReadTo # Reader.offset))
  <2>1. hdr = 0 \/ (~info.snapshotting /\ ReadTo = Reader.offset)
    BY <1>2
  <2>2. /\ Return(hdr # 0) /\ pc = "verified" /\ UNCHANGED <<sqlite, rmark, chk, hdr0, files>>
        /\ overrun' = overrun \ {"copy"}
    BY <2>1 DEF PageMap
  <2>3. /\ pc' \in {"exec", "idle"} /\ (pc' = "exec" => chk = "before")
        /\ info' = NoInfo /\ pageMap' = <<>> /\ buf' = <<>> /\ end' = 0
    BY <2>2 DEF Return
  <2> QED
    BY <2>2, <2>3, ReturnKeeps
<1> QED
  BY <1>1, <1>2

LEMMA CopyPageKeeps ==
  ASSUME Inv, CopyPage
  PROVE  Inv'
<1>1. PICK p \in Uncopied :
        IF p \in DOMAIN pageMap /\ pageMap[p] > Len(wal)
        THEN Return(FALSE) /\ overrun' = overrun \ {"copy"}
        ELSE /\ buf' = [q \in DOMAIN buf \cup {p} |->
                          IF q # p THEN buf[q]
                          ELSE IF p \in DOMAIN pageMap THEN wal[pageMap[p]].version
                          ELSE dbfile[p]]
             /\ UNCHANGED <<pc, info, pageMap, end, overrun>>
  BY DEF CopyPage
<1>2. pc = "copying" /\ UNCHANGED <<sqlite, rmark, chk, hdr0, files>>
  BY DEF CopyPage
<1>3. CASE p \in DOMAIN pageMap /\ pageMap[p] > Len(wal)
  <2>1. /\ pc' \in {"exec", "idle"} /\ (pc' = "exec" => chk = "before")
        /\ info' = NoInfo /\ pageMap' = <<>> /\ buf' = <<>> /\ end' = 0
        /\ overrun' = overrun \ {"copy"}
    BY <1>1, <1>3 DEF Return
  <2> QED
    BY <2>1, <1>2, ReturnKeeps
<1>4. CASE ~(p \in DOMAIN pageMap /\ pageMap[p] > Len(wal))
  <2>1. SQLiteInv /\ DBShape /\ VersionOK /\ LockOK /\ FilesOK /\ LastOK /\ SnapshotOK /\ CopyOK
    BY DEF Inv, SQLiteInv
  <2>2. /\ UNCHANGED <<version, dbfile, wal, hdr, mx, nbackfill, committed, pc, info, pageMap,
                       end, overrun, rmark, chk, hdr0, last, replay>>
    BY <1>1, <1>2, <1>4 DEF sqlite, files
  <2>3. PICK c : c = IF p \in DOMAIN pageMap THEN wal[pageMap[p]].version ELSE dbfile[p]
    OBVIOUS
  <2>4. buf' = [q \in DOMAIN buf \cup {p} |-> IF q # p THEN buf[q] ELSE c]
    BY <1>1, <1>4, <2>3
  <2>5. p \in Pages /\ (p \in DOMAIN pageMap \/ info.snapshotting)
    BY <2>1 DEF Uncopied, DBShape
  <2>6. c \in Nat /\ c <= version
    <3>1. CASE p \in DOMAIN pageMap
      <4>1. pageMap[p] \in 1..Len(wal)
        BY <3>1, <2>1, <1>4 DEF DBShape, SQLiteInv, SQLiteShape
      <4>2. wal[pageMap[p]].version \in 1..version
        BY <4>1, <2>1 DEF SQLiteInv, LogOK
      <4> QED
        BY <4>2, <3>1, <2>1, <2>3 DEF SQLiteInv, SQLiteShape
    <3>2. CASE p \notin DOMAIN pageMap
      <4>1. dbfile[p] \in Nat /\ dbfile[p] <= version
        BY <2>1, <2>5, VersionAssumption DEF SQLiteInv, SQLiteShape, State, Version
      <4> QED
        BY <4>1, <3>2, <2>3
    <3> QED
      BY <3>1, <3>2
  <2>7. /\ DOMAIN buf' = DOMAIN buf \cup {p} /\ buf' = [q \in DOMAIN buf' |-> buf'[q]]
        /\ \A q \in DOMAIN buf : q # p => buf'[q] = buf[q]
        /\ buf'[p] = c
    BY <2>4
  <2>8. DBShape'
    <3>1. \A q \in DOMAIN buf' : q \in Pages /\ buf'[q] \in Nat /\ buf'[q] <= version
      BY <2>1, <2>5, <2>6, <2>7 DEF DBShape
    <3> QED
      BY <3>1, <2>1, <2>2, <2>7, <1>2 DEF DBShape
  <2>9. SQLiteInv'
    BY <2>1, <2>2 DEF SQLiteInv, SQLiteShape, LogOK, DatabaseOK
  <2>10. FilesInv'
    <3>1. Base' = Base /\ Sound' = Sound
      BY <2>2 DEF Base, Sound
    <3>2. FilesOK'
      BY <3>1, <2>1, <2>2 DEF FilesOK, Continues, Newer
    <3>3. LastOK' /\ SnapshotOK'
      BY <2>1, <2>2 DEF LastOK, SnapshotOK
    <3> QED
      BY <3>2, <3>3 DEF FilesInv
  <2>11. info.salt # 0 /\ MapOK /\ (Clean => TargetOK)
    BY <2>1, <1>2 DEF CopyOK
  <2>12. MapOK'
    <3>1. SUFFICES ASSUME info.salt = hdr, NEW q \in DOMAIN pageMap \cap DOMAIN buf'
                   PROVE  buf'[q] = wal[pageMap[q]].version
      BY <2>2, <2>11 DEF MapOK
    <3>2. CASE q = p
      BY <3>2, <3>1, <2>3, <2>7
    <3>3. CASE q # p
      BY <3>3, <3>1, <2>7, <2>11 DEF MapOK
    <3> QED
      BY <3>2, <3>3
  <2>13. ASSUME Clean' PROVE TargetOK'
    <3>1. Clean
      BY <2>2, <2>13 DEF Clean
    <3>2. Target' = Target
      BY <2>2 DEF Target, Source
    <3>3. Target[p] = c
      BY <2>3, <2>5 DEF Target, Source
    <3>4. \A q \in DOMAIN buf' : buf'[q] = Target[q]
      BY <3>1, <3>3, <2>7, <2>11 DEF TargetOK
    <3> QED
      BY <3>1, <3>2, <3>4, <2>2, <2>11 DEF TargetOK, Continues, Newer
  <2>14. SyncInv'
    BY <2>2, <2>11, <2>12, <2>13, <1>2 DEF SyncInv, VerifiedOK, CopyOK
  <2>15. VersionOK' /\ LockOK'
    BY <2>1, <2>2 DEF VersionOK, LockOK
  <2> QED
    BY <2>8, <2>9, <2>10, <2>14, <2>15 DEF Inv, SQLiteInv, FilesInv, SyncInv
<1> QED
  BY <1>3, <1>4

(* The file that is renamed restores to the target. *)
LEMMA RenameKeeps ==
  ASSUME Inv, Rename
  PROVE  Inv'
<1>1. SQLiteInv /\ DBShape /\ VersionOK /\ LockOK /\ CopyOK
  BY DEF Inv, SQLiteInv
<1>2. /\ pc = "copying" /\ Uncopied = {} /\ pc' \in {"exec", "idle"}
      /\ pc' = "exec" => chk = "before"
      /\ UNCHANGED <<version, dbfile, wal, hdr, mx, nbackfill, committed, rmark, chk, hdr0>>
  BY DEF Rename, Return, sqlite
<1>3. /\ last' = [end |-> end, salt |-> info.salt, pages |-> buf, snapshot |-> info.snapshotting]
      /\ replay' = [p \in Pages |-> IF p \in DOMAIN buf THEN buf[p] ELSE replay[p]]
      /\ info' = NoInfo /\ pageMap' = <<>> /\ buf' = <<>> /\ end' = 0
  BY DEF Rename, Return
<1>4. overrun' = (IF info.snapshotting THEN overrun \cap {"loss", "tail"} ELSE overrun \ {"copy"})
                   \cup (IF "copy" \in overrun THEN {"torn"} ELSE {})
  BY DEF Rename
<1>5. last'.end = end /\ last'.salt = info.salt /\ last'.pages = buf
      /\ last'.snapshot = info.snapshotting
  BY <1>3
<1>6. info.salt # 0 /\ MapOK /\ (Clean => TargetOK)
  BY <1>1, <1>2 DEF CopyOK
<1>7. /\ DOMAIN buf \subseteq Pages /\ DOMAIN pageMap \subseteq DOMAIN buf
      /\ info.snapshotting => DOMAIN buf = Pages
      /\ buf = [p \in DOMAIN buf |-> buf[p]]
  <2>1. DOMAIN buf \subseteq Pages /\ DOMAIN pageMap \subseteq Pages
        /\ buf = [p \in DOMAIN buf |-> buf[p]]
    BY <1>1 DEF DBShape
  <2>2. CASE info.snapshotting
    BY <2>1, <2>2, <1>2 DEF Uncopied
  <2>3. CASE ~info.snapshotting
    BY <2>1, <2>3, <1>2 DEF Uncopied
  <2> QED
    BY <2>1, <2>2, <2>3
<1>8. /\ version \in Nat /\ version \in Version /\ end \in Nat
      /\ info.salt \in Nat /\ info.salt <= version
  BY <1>1 DEF SQLiteInv, SQLiteShape, DBShape
<1>9. ASSUME NEW p \in Pages PROVE replay'[p] \in Version /\ replay'[p] <= version
  <2>1. replay'[p] = IF p \in DOMAIN buf THEN buf[p] ELSE replay[p]
    BY <1>3
  <2>2. p \in DOMAIN buf => buf[p] \in Nat /\ buf[p] <= version
    BY <1>1 DEF DBShape
  <2>3. replay[p] \in Version /\ replay[p] <= version
    BY <1>1 DEF DBShape, State
  <2>4. p \in DOMAIN buf => buf[p] \in Version
    BY <2>2, <1>8, VersionAssumption DEF Version
  <2> QED
    BY <2>1, <2>2, <2>3, <2>4
<1>10. DBShape'
  <2>1. info'.offset = 0 /\ info'.salt = 0 /\ info'.snapshotting \in BOOLEAN
    BY <1>3 DEF NoInfo
  <2>2. replay' \in State
    BY <1>3, <1>9 DEF State
  <2>3. overrun' \subseteq {"files", "copy", "torn", "loss", "tail"}
    BY <1>1, <1>4 DEF DBShape
  <2>4. DOMAIN pageMap' = {} /\ DOMAIN buf' = {} /\ buf' = [p \in DOMAIN buf' |-> buf'[p]]
    BY <1>3
  <2>5. pc' \in {"down", "idle", "verify", "verified", "copying", "exec", "pragma",
                 "reacquire", "bump", "lock"}
    BY <1>2
  <2> QED
    BY <2>1, <2>2, <2>3, <2>4, <2>5, <1>1, <1>2, <1>3, <1>5, <1>8, <1>9 DEF DBShape
<1>11. SQLiteInv'
  BY <1>1, <1>2 DEF SQLiteInv, SQLiteShape, LogOK, DatabaseOK
<1>12. /\ "tail" \in overrun => "tail" \in overrun'
       /\ "copy" \in overrun => "torn" \in overrun'
       /\ Sound' => Clean
       /\ info.snapshotting /\ overrun' \cap {"torn", "tail"} = {} => Clean
  BY <1>4 DEF Sound, Clean
<1>13. ASSUME Clean PROVE replay' = Target
  <2>1. TargetOK
    BY <1>6, <1>13
  <2>2. ASSUME NEW p \in Pages PROVE replay'[p] = Target[p]
    <3>1. CASE p \in DOMAIN buf
      BY <3>1, <2>1, <1>3 DEF TargetOK
    <3>2. CASE p \notin DOMAIN buf
      <4>1. p \notin DOMAIN pageMap /\ ~info.snapshotting
        BY <3>2, <1>7
      <4> QED
        BY <4>1, <3>2, <1>3 DEF Target, Source
    <3> QED
      BY <3>1, <3>2
  <2>3. Target = [p \in Pages |-> Target[p]] /\ replay' = [p \in Pages |-> replay'[p]]
    BY <1>3 DEF Target
  <2> QED
    BY <2>2, <2>3
<1>14. FilesOK'
  <2> SUFFICES ASSUME Sound'
               PROVE  /\ replay' \in committed'
                      /\ Continues(replay, Base)'
                      /\ hdr' = last'.salt
                      /\ Newer(replay, last.end)'
    BY DEF FilesOK
  <2>1. TargetOK /\ replay' = Target
    BY <1>6, <1>12, <1>13
  <2>2. hdr' = last'.salt /\ Base' = end
    BY <2>1, <1>2, <1>5 DEF TargetOK, Base
  <2> QED
    BY <2>1, <2>2, <1>2, <1>5 DEF TargetOK, Continues, Newer
<1>15. LastOK'
  <2> SUFFICES ASSUME "tail" \notin overrun', hdr = info.salt
               PROVE  /\ end <= mx
                      /\ end > 0 => /\ wal[end].pgno \in DOMAIN buf
                                    /\ buf[wal[end].pgno] = wal[end].version
    BY <1>2, <1>5, <1>6 DEF LastOK
  <2>1. end <= mx /\ "tail" \notin overrun
    BY <1>6, <1>12 DEF MapOK
  <2>2. ASSUME end > 0
        PROVE  wal[end].pgno \in DOMAIN buf /\ buf[wal[end].pgno] = wal[end].version
    <3>1. PICK p : p = wal[end].pgno
      OBVIOUS
    <3>2. p \in DOMAIN pageMap /\ pageMap[p] = end
      BY <3>1, <2>1, <2>2, <1>6 DEF MapOK
    <3>3. p \in DOMAIN buf
      BY <3>2, <1>7
    <3>4. buf[p] = wal[pageMap[p]].version
      BY <3>2, <3>3, <1>6 DEF MapOK
    <3> QED
      BY <3>1, <3>2, <3>3, <3>4
  <2> QED
    BY <2>1, <2>2
<1>16. SnapshotOK'
  <2> SUFFICES ASSUME info.snapshotting, overrun' \cap {"torn", "tail"} = {}
               PROVE  buf \in committed
    BY <1>2, <1>5 DEF SnapshotOK
  <2>1. TargetOK
    BY <1>6, <1>12
  <2>2. buf = Target
    <3>1. DOMAIN buf = Pages /\ buf = [p \in DOMAIN buf |-> buf[p]]
      BY <1>7
    <3>2. \A p \in Pages : buf[p] = Target[p]
      BY <3>1, <2>1 DEF TargetOK
    <3>3. Target = [p \in Pages |-> Target[p]]
      BY DEF Target
    <3> QED
      BY <3>1, <3>2, <3>3
  <2> QED
    BY <2>1, <2>2 DEF TargetOK
<1>17. SyncInv'
  BY <1>2 DEF SyncInv, VerifiedOK, CopyOK
<1>18. VersionOK' /\ LockOK'
  BY <1>1, <1>2 DEF VersionOK, LockOK
<1> QED
  BY <1>10, <1>11, <1>14, <1>15, <1>16, <1>17, <1>18 DEF Inv, SQLiteInv, FilesInv, SyncInv

LEMMA ChkStartKeeps ==
  ASSUME Inv, ChkStart
  PROVE  Inv'
<1>1. SQLiteInv /\ DBShape /\ VersionOK /\ LockOK
  BY InvIs
<1>2. /\ pc = "idle" /\ version < MaxVersion /\ hdr0' = hdr /\ pc' = "verify" /\ chk' = "before"
      /\ UNCHANGED <<sqlite, files>>
      /\ UNCHANGED <<version, mx, hdr, rmark, info, pageMap, buf, end, last, replay, overrun>>
  BY DEF ChkStart, sqlite, syncing, files
<1>3. SQLiteInv' /\ FilesInv' /\ SyncInv'
  BY <1>2, QuietStep
<1>4. version \in Nat /\ hdr \in Nat /\ hdr <= version
  BY <1>1 DEF SQLiteInv, SQLiteShape
<1>5. DBShape'
  BY <1>1, <1>2, <1>4 DEF DBShape
<1>6. VersionOK' /\ LockOK'
  BY <1>1, <1>2, <1>4, VersionAssumption DEF VersionOK, LockOK
<1> QED
  BY <1>3, <1>5, <1>6 DEF Inv, SQLiteInv, FilesInv, SyncInv

LEMMA ChkReleaseKeeps ==
  ASSUME Inv, ChkRelease
  PROVE  Inv'
<1>1. SQLiteInv /\ DBShape /\ VersionOK /\ LockOK
  BY InvIs
<1>2. /\ pc = "exec" /\ pc' = "pragma" /\ rmark' = -1 /\ UNCHANGED <<sqlite, files>>
      /\ UNCHANGED <<version, mx, hdr, chk, info, pageMap, buf, end, hdr0, last, replay, overrun>>
  BY DEF ChkRelease, sqlite, syncing, files
<1>3. SQLiteInv' /\ FilesInv' /\ SyncInv'
  BY <1>2, QuietStep
<1>4. mx \in Nat
  BY <1>1 DEF SQLiteInv, SQLiteShape
<1>5. DBShape'
  BY <1>1, <1>2, <1>4 DEF DBShape
<1>6. VersionOK' /\ LockOK'
  BY <1>1, <1>2 DEF VersionOK, LockOK
<1> QED
  BY <1>3, <1>5, <1>6 DEF Inv, SQLiteInv, FilesInv, SyncInv

LEMMA ChkPragmaKeeps ==
  ASSUME Inv, NEW mode \in Modes, ChkPragma(mode)
  PROVE  Inv'
<1>1. SQLiteInv /\ DBShape /\ VersionOK /\ LockOK
  BY InvIs
<1>2. /\ pc = "pragma" /\ pc' = "reacquire"
      /\ UNCHANGED <<rmark, chk, hdr0>> /\ UNCHANGED files /\ Aside
  BY DEF ChkPragma, Aside
<1>3. /\ version \in Nat /\ mx \in Nat /\ nbackfill \in Nat /\ nbackfill <= mx
      /\ rmark = -1 /\ version <= MaxVersion
  BY <1>1, <1>2 DEF SQLiteInv, SQLiteShape, LockOK, VersionOK
<1>4. /\ SQLiteInv' /\ FilesInv' /\ SyncInv' /\ version' = version
      /\ overrun' \subseteq {"files", "copy", "torn", "loss", "tail"}
  <2>1. CASE UNCHANGED <<sqlite, overrun>>
    <3>1. UNCHANGED <<sqlite, files>> /\ overrun' = overrun /\ version' = version
      BY <2>1, <1>2 DEF sqlite
    <3>2. SQLiteInv' /\ FilesInv' /\ SyncInv'
      BY <3>1, <1>2, QuietStep
    <3> QED
      BY <3>1, <3>2, <1>1 DEF DBShape
  <2>2. CASE Backfill(mx) /\ UNCHANGED overrun
    <3>1. PICK n : n = mx
      OBVIOUS
    <3>2. n \in Nat /\ nbackfill <= n /\ n <= mx /\ Backfill(n) /\ pc # "copying"
      BY <3>1, <2>2, <1>2, <1>3
    <3>3. SQLiteInv' /\ FilesInv' /\ SyncInv'
      BY <3>2, <2>2, <1>2, FillStep
    <3> QED
      BY <3>3, <2>2, <1>1 DEF Backfill, DBShape
  <2>3. CASE /\ dbfile' = Current
             /\ wal' = <<>> /\ hdr' = 0 /\ mx' = 0 /\ nbackfill' = 0
             /\ overrun' = Overrun
             /\ UNCHANGED <<version, committed>>
    <3>1. dbfile' = View(wal, dbfile, mx) /\ rmark <= 0
      BY <2>3, <1>3, OverlayIsView
    <3> QED
      BY <3>1, <2>3, <1>2, TruncateStep
  <2> QED
    BY <2>1, <2>2, <2>3 DEF ChkPragma
<1>5. DBShape'
  <2>1. /\ version' \in Nat /\ version <= version' /\ mx' \in Nat /\ rmark <= mx'
        /\ hdr0' \in Nat /\ hdr0' <= version' /\ chk' \in {"sync", "before", "after"}
        /\ pc # "copying"
        /\ pc' \in {"down", "idle", "verify", "verified", "copying", "exec", "pragma",
                    "reacquire", "bump", "lock"}
    <3>1. mx' \in Nat
      BY <1>4 DEF SQLiteInv, SQLiteShape
    <3>2. hdr0 \in Nat /\ hdr0 <= version /\ chk \in {"sync", "before", "after"}
      BY <1>1 DEF DBShape
    <3> QED
      BY <3>1, <3>2, <1>2, <1>3, <1>4
  <2> QED
    BY <2>1, <1>1, <1>2, <1>3, <1>4, ShapeAside
<1>6. VersionOK' /\ LockOK'
  BY <1>2, <1>3, <1>4 DEF VersionOK, LockOK
<1> QED
  BY <1>4, <1>5, <1>6 DEF Inv, SQLiteInv, FilesInv, SyncInv

LEMMA ChkReacquireKeeps ==
  ASSUME Inv, ChkReacquire
  PROVE  Inv'
<1>1. SQLiteInv /\ DBShape /\ VersionOK /\ LockOK
  BY InvIs
<1>2. /\ pc = "reacquire" /\ pc' = "bump" /\ rmark' = ReadMark /\ UNCHANGED <<sqlite, files>>
      /\ UNCHANGED <<version, mx, hdr, chk, info, pageMap, buf, end, hdr0, last, replay, overrun>>
  BY DEF ChkReacquire, sqlite, files, syncing
<1>3. SQLiteInv' /\ FilesInv' /\ SyncInv'
  BY <1>2, QuietStep
<1>4. ReadMark \in Int /\ ReadMark >= 0 /\ ReadMark <= mx
  BY <1>1, ReadMarkIs
<1>5. DBShape'
  BY <1>1, <1>2, <1>4 DEF DBShape
<1>6. VersionOK' /\ LockOK'
  BY <1>1, <1>2, <1>4 DEF VersionOK, LockOK
<1> QED
  BY <1>3, <1>5, <1>6 DEF Inv, SQLiteInv, FilesInv, SyncInv

LEMMA ChkBumpKeeps ==
  ASSUME Inv, ChkBump
  PROVE  Inv'
<1>1. SQLiteInv /\ DBShape /\ VersionOK /\ LockOK
  BY InvIs
<1>2. /\ pc = "bump" /\ Commit({SeqPage}) /\ hdr0' = 0 /\ rmark' = rmark
      /\ pc' \in {"idle", "lock"} /\ chk' \in {"sync", chk} /\ Aside
  BY DEF ChkBump, Aside
<1>3. version \in Nat /\ version <= MaxVersion
  BY <1>1, <1>2 DEF SQLiteInv, SQLiteShape, VersionOK
<1>4. /\ SQLiteInv' /\ FilesInv' /\ SyncInv'
      /\ hdr' # 0 /\ version' = version + 1 /\ rmark <= mx'
      /\ overrun' \subseteq {"files", "copy", "torn", "loss", "tail"}
  <2>1. {SeqPage} \in SUBSET Pages /\ {SeqPage} # {}
    BY PagesAssumption
  <2> QED
    BY <2>1, <1>2, <1>3, CommitStep
<1>5. DBShape'
  <2>1. /\ version' \in Nat /\ version <= version' /\ mx' \in Nat
        /\ hdr0' \in Nat /\ hdr0' <= version' /\ pc # "copying"
        /\ chk' \in {"sync", "before", "after"}
        /\ pc' \in {"down", "idle", "verify", "verified", "copying", "exec", "pragma",
                    "reacquire", "bump", "lock"}
    <3>1. mx' \in Nat
      BY <1>4 DEF SQLiteInv, SQLiteShape
    <3>2. chk \in {"sync", "before", "after"}
      BY <1>1 DEF DBShape
    <3> QED
      BY <3>1, <3>2, <1>2, <1>3, <1>4
  <2> QED
    BY <2>1, <1>1, <1>2, <1>3, <1>4, ShapeAside
<1>6. VersionOK' /\ LockOK'
  BY <1>1, <1>2, <1>3, <1>4, VersionAssumption DEF VersionOK, LockOK
<1> QED
  BY <1>4, <1>5, <1>6 DEF Inv, SQLiteInv, FilesInv, SyncInv

LEMMA ChkLockKeeps ==
  ASSUME Inv, ChkLock
  PROVE  Inv'
<1>1. SQLiteInv /\ DBShape /\ VersionOK /\ LockOK
  BY InvIs
<1>2. /\ pc = "lock" /\ pc' = "verify" /\ chk' = "after" /\ UNCHANGED <<sqlite, files>>
      /\ UNCHANGED <<version, mx, hdr, rmark, info, pageMap, buf, end, hdr0, last, replay, overrun>>
  BY DEF ChkLock, sqlite, files, syncing
<1>3. SQLiteInv' /\ FilesInv' /\ SyncInv'
  BY <1>2, QuietStep
<1>4. DBShape'
  BY <1>1, <1>2 DEF DBShape
<1>5. VersionOK' /\ LockOK'
  BY <1>1, <1>2 DEF VersionOK, LockOK
<1> QED
  BY <1>3, <1>4, <1>5 DEF Inv, SQLiteInv, FilesInv, SyncInv

(* The read lock may be gone, and no sync is under way. *)
LEMMA ChkFailKeeps ==
  ASSUME Inv, ChkFail
  PROVE  Inv'
<1>1. SQLiteInv /\ DBShape /\ VersionOK /\ LockOK
  BY InvIs
<1>2. /\ pc \in {"exec", "reacquire", "bump", "lock"} /\ pc' = "idle" /\ chk' = "sync" /\ hdr0' = 0
      /\ rmark' \in {-1, rmark, ReadMark} /\ UNCHANGED <<sqlite, files>>
      /\ UNCHANGED <<version, mx, hdr, info, pageMap, buf, end, last, replay, overrun>>
  BY DEF ChkFail, sqlite, files, syncing
<1>3. SQLiteInv' /\ FilesInv' /\ SyncInv'
  BY <1>2, QuietStep
<1>4. mx \in Nat /\ version \in Nat /\ rmark' \in Int /\ rmark' >= -1 /\ rmark' <= mx
  BY <1>1, <1>2 DEF SQLiteInv, SQLiteShape, DBShape, ReadMark
<1>5. DBShape'
  BY <1>1, <1>2, <1>4 DEF DBShape
<1>6. VersionOK' /\ LockOK'
  BY <1>1, <1>2 DEF VersionOK, LockOK
<1> QED
  BY <1>3, <1>5, <1>6 DEF Inv, SQLiteInv, FilesInv, SyncInv

(* What the end of the process leaves of the other variables. *)
LEMMA DownShape ==
  ASSUME DBShape, Down, version \in Nat, version' = version, mx' \in Nat,
         overrun' \subseteq {"files", "copy", "torn", "loss", "tail"}
  PROVE  DBShape' /\ LockOK' /\ SyncInv' /\ pc' = "down" /\ UNCHANGED files
<1>1. /\ pc' = "down" /\ chk' = "sync" /\ rmark' = -1 /\ info' = NoInfo /\ pageMap' = <<>>
      /\ buf' = <<>> /\ end' = 0 /\ hdr0' = 0 /\ last' = last /\ replay' = replay
      /\ UNCHANGED files
  BY DEF Down, files
<1>2. info'.offset = 0 /\ info'.salt = 0 /\ info'.snapshotting \in BOOLEAN
  BY <1>1 DEF NoInfo
<1>3. DOMAIN pageMap' = {} /\ DOMAIN buf' = {} /\ buf' = [p \in DOMAIN buf' |-> buf'[p]]
  BY <1>1
<1>4. DBShape'
  BY <1>1, <1>2, <1>3 DEF DBShape
<1> QED
  BY <1>1, <1>4 DEF LockOK, SyncInv, VerifiedOK, CopyOK

LEMMA StopKeeps ==
  ASSUME Inv, Stop
  PROVE  Inv'
<1>1. SQLiteInv /\ DBShape /\ VersionOK
  BY InvIs
<1>2. /\ Down /\ overrun' = overrun \ {"copy"} /\ UNCHANGED sqlite
      /\ version' = version /\ mx' = mx /\ hdr' = hdr
  BY DEF Stop, sqlite
<1>3. /\ version \in Nat /\ mx \in Nat
      /\ overrun' \subseteq {"files", "copy", "torn", "loss", "tail"}
  BY <1>1, <1>2 DEF SQLiteInv, SQLiteShape, DBShape
<1>4. DBShape' /\ LockOK' /\ SyncInv' /\ pc' = "down" /\ UNCHANGED files
  BY <1>1, <1>2, <1>3, DownShape
<1>5. SQLiteInv' /\ FilesInv'
  BY <1>2, <1>4, QuietStep
<1>6. VersionOK'
  BY <1>1, <1>2, <1>4 DEF VersionOK
<1> QED
  BY <1>4, <1>5, <1>6 DEF Inv, SQLiteInv, FilesInv, SyncInv

(* A power loss cuts the WAL. *)
LEMMA PowerLossCuts ==
  ASSUME SQLiteInv, PowerLoss
  PROVE  \E n \in Nat : Cuts(n)
<1>1. PICK n \in {k \in nbackfill..mx - 1 : k > 0 => wal[k].version # wal[k + 1].version} :
        /\ wal' = SubSeq(wal, 1, n) /\ mx' = n
        /\ overrun' = (overrun \ {"copy"}) \cup {"loss"}
                        \cup (IF last.salt = hdr /\ last.end > n THEN {"tail"} ELSE {})
  BY DEF PowerLoss
<1>2. UNCHANGED <<version, dbfile, hdr, nbackfill, committed>>
  BY DEF PowerLoss
<1>3. /\ mx \in Nat /\ nbackfill \in Nat /\ wal \in Seq(Frame)
      /\ mx <= Len(wal) /\ Len(wal) \in Nat
  BY DEF SQLiteInv, SQLiteShape
<1>4. n \in Nat /\ n >= nbackfill /\ n < mx /\ n <= Len(wal)
  BY <1>1, <1>3
<1>5. PICK w, x : w = wal /\ x = wal'
  OBVIOUS
<1>6. w \in Seq(Frame) /\ n \in Nat /\ n <= Len(w) /\ x = SubSeq(w, 1, n)
  BY <1>1, <1>3, <1>4, <1>5
<1>7. \A i \in 1..n : w[i] \in Frame
  BY <1>6
<1>8. x \in Seq(Frame) /\ Len(x) = n /\ \A i \in 1..n : x[i] = w[i]
  BY <1>6, <1>7, SubSeqProperties
<1>9. Boundary(wal, mx, n)
  BY <1>1, <1>4 DEF Boundary
<1>10. Cuts(n)
  BY <1>1, <1>2, <1>4, <1>5, <1>8, <1>9 DEF Cuts
<1> QED
  BY <1>4, <1>10

LEMMA PowerLossKeeps ==
  ASSUME Inv, PowerLoss
  PROVE  Inv'
<1>1. SQLiteInv /\ DBShape /\ VersionOK /\ FilesInv
  BY InvIs
<1>2. PICK n \in Nat : Cuts(n)
  BY <1>1, PowerLossCuts
<1>3. Down
  BY DEF PowerLoss
<1>4. SQLiteInv'
  BY <1>1, <1>2, CutsKeeps
<1>5. /\ version \in Nat /\ version' = version /\ mx' \in Nat /\ hdr' = hdr
      /\ overrun' \subseteq {"files", "copy", "torn", "loss", "tail"}
  BY <1>1, <1>2 DEF SQLiteInv, SQLiteShape, DBShape, Cuts
<1>6. DBShape' /\ LockOK' /\ SyncInv' /\ pc' = "down" /\ UNCHANGED files
  BY <1>1, <1>3, <1>5, DownShape
<1>7. FilesInv'
  BY <1>1, <1>2, <1>6, FilesCut
<1>8. VersionOK'
  BY <1>1, <1>5, <1>6 DEF VersionOK
<1> QED
  BY <1>4, <1>6, <1>7, <1>8 DEF Inv, SQLiteInv, FilesInv, SyncInv

LEMMA StutterKeeps ==
  ASSUME Inv, UNCHANGED vars
  PROVE  Inv'
<1>1. UNCHANGED <<version, dbfile, wal, hdr, mx, nbackfill, committed, rmark, pc, chk, info,
                  pageMap, buf, end, hdr0, last, replay, overrun>>
  BY DEF vars, sqlite, syncing, files
<1>2. Base' = Base /\ Sound' = Sound /\ Clean' = Clean /\ Target' = Target
  BY <1>1 DEF Base, Sound, Clean, Target, Source
<1>3. (SQLiteShape /\ LogOK /\ DatabaseOK)'
  BY <1>1 DEF Inv, SQLiteShape, LogOK, DatabaseOK
<1>4. (DBShape /\ VersionOK /\ LockOK)'
  BY <1>1 DEF Inv, DBShape, VersionOK, LockOK
<1>5. (FilesOK /\ LastOK /\ SnapshotOK)'
  BY <1>1, <1>2 DEF Inv, FilesOK, LastOK, SnapshotOK, Continues, Newer
<1>6. VerifiedOK'
  BY <1>1 DEF Inv, VerifiedOK
<1>7. CopyOK'
  <2>1. MapOK' = MapOK
    BY <1>1 DEF MapOK
  <2>2. TargetOK => TargetOK'
    BY <1>1, <1>2 DEF TargetOK, Continues, Newer
  <2> QED
    BY <2>1, <2>2, <1>1, <1>2 DEF Inv, CopyOK
<1> QED
  BY <1>3, <1>4, <1>5, <1>6, <1>7 DEF Inv

LEMMA NextKeeps == Inv /\ [Next]_vars => Inv'
<1> SUFFICES ASSUME Inv, [Next]_vars PROVE Inv'
  OBVIOUS
<1>1. ASSUME NEW P \in (SUBSET Pages) \ {{}}, AppCommit(P) PROVE Inv'
  BY <1>1, AppCommitKeeps
<1>2. ASSUME NEW mode \in Modes, ChkPragma(mode) PROVE Inv'
  BY <1>2, ChkPragmaKeeps
<1>3. CASE AppCheckpoint
  BY <1>3, AppCheckpointKeeps
<1>4. CASE AppTruncate
  BY <1>4, AppTruncateKeeps
<1>5. CASE Open
  BY <1>5, OpenKeeps
<1>6. CASE SyncStart
  BY <1>6, SyncStartKeeps
<1>7. CASE Verify
  BY <1>7, VerifyKeeps
<1>8. CASE PageMap
  BY <1>8, PageMapKeeps
<1>9. CASE CopyPage
  BY <1>9, CopyPageKeeps
<1>10. CASE Rename
  BY <1>10, RenameKeeps
<1>11. CASE ChkStart
  BY <1>11, ChkStartKeeps
<1>12. CASE ChkRelease
  BY <1>12, ChkReleaseKeeps
<1>13. CASE ChkReacquire
  BY <1>13, ChkReacquireKeeps
<1>14. CASE ChkBump
  BY <1>14, ChkBumpKeeps
<1>15. CASE ChkLock
  BY <1>15, ChkLockKeeps
<1>16. CASE Stop
  BY <1>16, StopKeeps
<1>17. CASE PowerLoss
  BY <1>17, PowerLossKeeps
<1>18. CASE UNCHANGED vars
  BY <1>18, StutterKeeps
<1>19. CASE ChkFail
  BY <1>19, ChkFailKeeps
<1> QED
  BY <1>1, <1>2, <1>3, <1>4, <1>5, <1>6, <1>7, <1>8, <1>9, <1>10, <1>11, <1>12, <1>13,
     <1>14, <1>15, <1>16, <1>17, <1>18, <1>19
  DEF Next

-----------------------------------------------------------------------------
(* When a power loss took frames that the files hold ("tail"), SQLite goes on
   writing where these frames used to be, and what the files restore to is no
   longer what the WAL continues.  The rest of the invariant is about the file
   that is put on top of the files all the same. *)
Lost == "tail" \in overrun
LossOnce == Lost => "loss" \in overrun

(* The pages of the last file were committed before now. *)
LastPagesOK == \A p \in DOMAIN last.pages : last.pages[p] \in Nat /\ last.pages[p] <= version

(* A state of the database is known by the newest of its pages. *)
NewestAt(s, p) == \A q \in Pages : s[q] <= s[p]
Bounded(C, v) == \A s \in C : \A p \in Pages : s[p] <= v
Unique(C) ==
  \A s, t \in C : \A p, q \in Pages : NewestAt(s, p) /\ NewestAt(t, q) /\ s[p] = t[q] => s = t
HistoryOK == Bounded(committed, version) /\ Unique(committed)

(* The frames are in the order they were written, after the database file. *)
SaltsFall(w) == \A i, j \in 1..Len(w) : i <= j => w[j].salt <= w[i].salt
VersionsRise(w, m) == \A i, j \in 1..m : i <= j => w[i].version <= w[j].version
After(w, d, nb, m) ==
  \A i \in 1..m : \A p \in Pages : /\ i >= nb => d[p] <= w[i].version
                                   /\ nb = 0 => d[p] < w[i].version
OrderOK == SaltsFall(wal) /\ VersionsRise(wal, mx) /\ After(wal, dbfile, nbackfill, mx)

(* What a transaction of the WAL wrote to a page is in a frame of that page. *)
Written(w, m, C) ==
  \A s \in C : \A p \in Pages : \A i \in 1..m :
    s[p] = w[i].version => \E j \in 1..m : w[j].pgno = p /\ w[j].version = s[p]
WrittenOK == Written(wal, mx, committed)

HistoryInv == LossOnce /\ LastPagesOK /\ HistoryOK /\ OrderOK /\ WrittenOK

(* verify finds the frame it looks up; *)
Match(w, m, f) ==
  /\ f.end <= m
  /\ f.end > 0 => w[f.end].pgno \in DOMAIN f.pages /\ f.pages[w[f.end].pgno] = w[f.end].version
Matches == Match(wal, mx, last)
(* no frame of an earlier salt is left after the e-th. *)
NoneLeft(w, salt, e) == \A i \in 1..Len(w) : i > e => w[i].salt # salt
Now(r, a) == Supplies(r, wal, dbfile, a, mx)

(* The files restore to a state that the WAL continues, or to none that the
   database had, or verify asks for a snapshot. *)
TailFiles ==
  Lost /\ last # NoFile /\ overrun \cap {"files", "torn"} = {} =>
    /\ hdr = last.salt =>
         /\ Newer(replay, last.end)
         /\ Matches /\ replay \in committed => Now(replay, last.end)
    /\ hdr # last.salt =>
         /\ NoneLeft(wal, last.salt, last.end)
         /\ replay \in committed => Now(replay, 0)
         /\ mx > 0 => \A p \in Pages : replay[p] <= wal[mx].version

(* The WAL was restarted since verify, and the frames that are left of the
   salt it found hold what is in the database file. *)
LeftIn(w, m, d, salt) ==
  \A i \in m + 1..Len(w) :
    /\ w[i].salt = salt
    /\ \A j \in i + 1..Len(w) : w[j].salt = salt => w[j].pgno # w[i].pgno
    => d[w[i].pgno] = w[i].version
Leftover == rmark <= 0 /\ nbackfill = 0 /\ mx > 0 /\ LeftIn(wal, mx, dbfile, info.salt)

TailVerified ==
  Lost /\ pc = "verified" =>
    /\ ~info.snapshotting =>
         /\ last # NoFile
         /\ \/ info.offset = 0 /\ hdr # last.salt
            \/ info.offset = last.end /\ info.salt = last.salt /\ (hdr = last.salt => Matches)
    /\ info.snapshotting /\ info.offset > 0 /\ "copy" \notin overrun =>
         /\ info.salt # 0
         /\ info.salt # hdr /\ info.offset <= Len(wal) /\ wal[info.offset].salt = info.salt
              => Leftover

(* A file of the current salt holds nothing newer than its last frame. *)
EndsAt(w, m, e) == \A i \in e + 1..m : w[e].version < w[i].version
CopyHere ==
  info.salt = hdr =>
    /\ info.snapshotting => nbackfill <= end /\ rmark <= end
    /\ end = 0 => info.snapshotting /\ \A p \in DOMAIN buf : buf[p] = dbfile[p]
    /\ end > 0 => EndsAt(wal, mx, end) /\ \A p \in DOMAIN buf : buf[p] <= wal[end].version

(* A snapshot of an earlier salt mixes the database file with frames that are
   being overwritten. *)
CopyLeftover ==
  info.snapshotting /\ info.salt # hdr =>
    /\ rmark <= 0 /\ nbackfill = 0 /\ mx > 0
    /\ NoneLeft(wal, info.salt, end)
    /\ \A p \in DOMAIN pageMap :
         pageMap[p] \in mx + 1..Len(wal) => wal[pageMap[p]].version = dbfile[p]
    /\ \A p \in DOMAIN buf : buf[p] = dbfile[p] \/ \E i \in 1..mx : buf[p] = wal[i].version

(* An increment continues the files; the database was in the state that its
   last frame leads to, also when that is in the database file by now. *)
StateAt(w, d, m, C, e) ==
  \E s \in C : /\ s[w[e].pgno] = w[e].version /\ \A p \in Pages : s[p] <= w[e].version
              /\ Supplies(s, w, d, e, m)
CopyOnTop ==
  ~info.snapshotting =>
    /\ DOMAIN buf \subseteq DOMAIN pageMap
    /\ overrun \cap {"files", "torn"} = {} =>
         /\ info.salt = hdr /\ end > 0 /\ \A p \in Pages : replay[p] <= wal[end].version
         /\ replay \in committed => Target \in committed
         /\ StateAt(wal, dbfile, mx, committed, end)

TailCopy ==
  Lost /\ pc = "copying" /\ "copy" \notin overrun => CopyHere /\ CopyLeftover /\ CopyOnTop

TailInv == TailFiles /\ TailVerified /\ TailCopy


(* The history and the order of the frames under the steps of SQLite. *)

LEMMA HistoryGrows ==
  ASSUME NEW C, NEW v \in Nat, NEW s, Bounded(C, v), Unique(C), C \subseteq State,
         NEW q \in Pages, s[q] = v + 1, \A p \in Pages : s[p] <= v + 1
  PROVE  Bounded(C \cup {s}, v + 1) /\ Unique(C \cup {s})
<1>1. \A t \in C : \A p \in Pages : t[p] \in Nat /\ t[p] <= v
  BY VersionAssumption DEF Bounded, State, Version
<1>2. Bounded(C \cup {s}, v + 1)
  BY <1>1 DEF Bounded
<1>3. ASSUME NEW a \in C, NEW p \in Pages, NEW r \in Pages, NewestAt(s, r), a[p] = s[r]
      PROVE  FALSE
  <2>1. a[p] \in Nat /\ a[p] <= v /\ s[q] <= s[r]
    BY <1>1, <1>3 DEF NewestAt
  <2> QED
    BY <2>1, <1>3
<1>4. Unique(C \cup {s})
  BY <1>3 DEF Unique
<1> QED
  BY <1>2, <1>4

(* The newest page is that of the last frame. *)
LEMMA LastIsNewest ==
  ASSUME NEW w \in Seq(Frame), NEW d, NEW k \in Nat, k > 0, k <= Len(w),
         NEW v \in Nat, w[k].version = v,
         \A p \in Pages : d[p] <= v, \A i \in 1..k : w[i].version <= v
  PROVE  /\ w[k].pgno \in Pages /\ View(w, d, k)[w[k].pgno] = v
         /\ \A p \in Pages : View(w, d, k)[p] <= v
<1>1. k \in 1..k /\ k \in 1..Len(w)
  OBVIOUS
<1>2. w[k] \in Frame
  BY <1>1
<1>3. PICK q \in Pages : q = w[k].pgno
  BY <1>2 DEF Frame
<1>4. IsLast(w, q, k, k)
  BY <1>3 DEF IsLast
<1>5. View(w, d, k)[q] = w[k].version
  BY <1>1, <1>4, ViewAt
<1>6. ASSUME NEW p \in Pages PROVE View(w, d, k)[p] <= v
  BY ViewBound
<1> QED
  BY <1>3, <1>5, <1>6

LEMMA HistoryAppend ==
  ASSUME SQLiteInv, DBShape, HistoryInv, NEW P \in SUBSET Pages, Appends(P), UNCHANGED files
  PROVE  HistoryInv'
<1>1. PICK n, l, L, w, x, v, d, nb, m, C, s :
        /\ n = mx' /\ l = Len(wal) /\ L = Len(wal') /\ w = wal /\ x = wal' /\ v = version
        /\ d = dbfile /\ nb = nbackfill /\ m = mx /\ C = committed /\ s = View(wal', dbfile, mx')
  OBVIOUS
<1>2. /\ version' = v + 1 /\ nbackfill' = nb /\ dbfile' = d /\ overrun' = overrun
      /\ x \in Seq(Frame) /\ L >= l /\ m > 0 /\ n \in Nat /\ n > m /\ n <= L
      /\ \A i \in 1..m : x[i] = w[i]
      /\ \A i \in m + 1..n : x[i].version = v + 1 /\ x[i].salt = hdr
      /\ \A i \in n + 1..L : i <= l /\ x[i] = w[i]
      /\ committed' = C \cup {s} /\ s = View(x, d, n)
  BY <1>1 DEF Appends
<1>3. /\ v \in Nat /\ w \in Seq(Frame) /\ m \in Nat /\ m <= l /\ l \in Nat /\ hdr \in Nat
      /\ nb \in Nat /\ nb <= m /\ d \in State /\ C \subseteq State
      /\ \A i \in 1..m : w[i].salt = hdr
      /\ \A i \in 1..l : w[i].salt \in 1..v /\ w[i].version \in 1..v
  BY <1>1 DEF SQLiteInv, SQLiteShape, LogOK
<1>4. L \in Nat
  BY <1>1, <1>2
<1>d. \A p \in Pages : d[p] \in Nat /\ d[p] <= v
  BY <1>1, VersionAssumption DEF SQLiteInv, SQLiteShape, State, Version
<1>5. /\ SaltsFall(w) /\ VersionsRise(w, m) /\ After(w, d, nb, m) /\ Written(w, m, C)
      /\ Bounded(C, v) /\ Unique(C)
  BY <1>1 DEF HistoryInv, OrderOK, WrittenOK, HistoryOK
<1>6. \A i \in 1..n : x[i].version \in 1..v + 1 /\ x[i].salt = hdr
  <2> TAKE i \in 1..n
  <2>1. CASE i \in 1..m
    <3>1. x[i] = w[i] /\ i \in 1..l /\ w[i].salt = hdr
      BY <2>1, <1>2, <1>3
    <3>2. w[i].version \in 1..v
      BY <3>1, <1>3
    <3>3. w[i].version \in 1..v + 1
      BY <3>2, <1>3
    <3> QED
      BY <3>1, <3>3
  <2>2. CASE i \in m + 1..n
    BY <2>2, <1>2, <1>3
  <2> QED
    BY <2>1, <2>2, <1>2, <1>3
<1>7. SaltsFall(x)
  <2> SUFFICES ASSUME NEW i \in 1..L, NEW j \in 1..L, i <= j PROVE x[j].salt <= x[i].salt
    BY <1>1 DEF SaltsFall
  <2>1. CASE j <= n
    <3>1. i \in 1..n /\ j \in 1..n
      BY <2>1, <1>2, <1>4
    <3> QED
      BY <3>1, <1>3, <1>6
  <2>2. CASE j > n
    <3>1. j \in n + 1..L
      BY <2>2, <1>2, <1>4
    <3>2. j \in 1..l /\ x[j] = w[j] /\ 1 \in 1..m /\ 1 \in 1..l
      BY <3>1, <1>2, <1>3
    <3>3. CASE i <= n
      <4>1. i \in 1..n
        BY <3>3, <1>2
      <4>2. x[i].salt = hdr /\ w[1].salt = hdr
        BY <4>1, <3>2, <1>3, <1>6
      <4>3. w[j].salt <= w[1].salt
        BY <3>2, <1>1, <1>5 DEF SaltsFall
      <4> QED
        BY <4>2, <4>3, <3>2
    <3>4. CASE i > n
      <4>1. i \in n + 1..L
        BY <3>4, <1>2, <1>4
      <4>2. i \in 1..l /\ x[i] = w[i]
        BY <4>1, <1>2, <1>3
      <4> QED
        BY <4>2, <3>2, <1>1, <1>5 DEF SaltsFall
    <3> QED
      BY <3>3, <3>4, <1>2
  <2> QED
    BY <2>1, <2>2, <1>2
<1>8. VersionsRise(x, n)
  <2> SUFFICES ASSUME NEW i \in 1..n, NEW j \in 1..n, i <= j PROVE x[i].version <= x[j].version
    BY DEF VersionsRise
  <2>1. CASE j <= m
    <3>1. i \in 1..m /\ j \in 1..m
      BY <2>1, <1>3
    <3> QED
      BY <3>1, <1>2, <1>5 DEF VersionsRise
  <2>2. CASE j > m
    <3>1. j \in m + 1..n
      BY <2>2, <1>2, <1>3
    <3>2. x[j].version = v + 1
      BY <3>1, <1>2
    <3> QED
      BY <3>2, <1>3, <1>6
  <2> QED
    BY <2>1, <2>2, <1>3
<1>9. After(x, d, nb, n)
  <2> SUFFICES ASSUME NEW i \in 1..n, NEW p \in Pages
               PROVE  /\ i >= nb => d[p] <= x[i].version
                      /\ nb = 0 => d[p] < x[i].version
    BY DEF After
  <2>1. CASE i <= m
    <3>1. i \in 1..m
      BY <2>1, <1>3
    <3> QED
      BY <3>1, <1>2, <1>5 DEF After
  <2>2. CASE i > m
    <3>1. i \in m + 1..n
      BY <2>2, <1>2, <1>3
    <3>2. x[i].version = v + 1
      BY <3>1, <1>2
    <3> QED
      BY <3>2, <1>3, <1>d
  <2> QED
    BY <2>1, <2>2, <1>3
<1>10. PICK q \in Pages : s[q] = v + 1 /\ \A p \in Pages : s[p] <= v + 1
  <2>1. n \in m + 1..n
    BY <1>2, <1>3
  <2>2. /\ n > 0 /\ n <= Len(x) /\ v + 1 \in Nat /\ x[n].version = v + 1
        /\ \A p \in Pages : d[p] <= v + 1
        /\ \A i \in 1..n : x[i].version <= v + 1
    BY <2>1, <1>1, <1>2, <1>3, <1>6, <1>d
  <2>3. PICK u : u = v + 1
    OBVIOUS
  <2>4. /\ x[n].pgno \in Pages /\ View(x, d, n)[x[n].pgno] = u
        /\ \A p \in Pages : View(x, d, n)[p] <= u
    BY <2>2, <2>3, <1>2, LastIsNewest
  <2> QED
    BY <2>3, <2>4, <1>2
<1>11. Bounded(C \cup {s}, v + 1) /\ Unique(C \cup {s})
  BY <1>3, <1>5, <1>10, HistoryGrows
<1>12. Written(x, n, C \cup {s})
  <2>1. ASSUME NEW t \in C, NEW p \in Pages, NEW i \in 1..n, t[p] = x[i].version
        PROVE  \E j \in 1..n : x[j].pgno = p /\ x[j].version = t[p]
    <3>1. t[p] <= v
      BY <1>5 DEF Bounded
    <3>2. i \in 1..m
      <4>1. CASE i > m
        <5>1. i \in m + 1..n
          BY <4>1, <1>2, <1>3
        <5> QED
          BY <5>1, <3>1, <2>1, <1>2, <1>3
      <4> QED
        BY <4>1, <1>3
    <3>3. t[p] = w[i].version
      BY <3>2, <2>1, <1>2
    <3>4. PICK j \in 1..m : w[j].pgno = p /\ w[j].version = t[p]
      BY <3>2, <3>3, <1>5 DEF Written
    <3>5. j \in 1..n /\ x[j] = w[j]
      BY <1>2, <1>3
    <3> QED
      BY <3>4, <3>5
  <2>2. ASSUME NEW p \in Pages, NEW i \in 1..n, s[p] = x[i].version
        PROVE  \E j \in 1..n : x[j].pgno = p /\ x[j].version = s[p]
    <3>1. ASSUME NEW j \in 1..n, IsLast(x, p, j, n)
          PROVE  x[j].pgno = p /\ x[j].version = s[p]
      BY <3>1, <1>2, ViewAt DEF IsLast
    <3>2. CASE Absent(x, p, 0, n)
      <4>1. s[p] = d[p]
        BY <3>2, <1>2, ViewAt
      <4>2. i \in 1..m
        <5>1. CASE i > m
          <6>1. i \in m + 1..n
            BY <5>1, <1>2, <1>3
          <6>2. x[i].version = v + 1
            BY <6>1, <1>2
          <6>3. d[p] = v + 1
            BY <6>2, <4>1, <2>2
          <6> QED
            BY <6>3, <1>3, <1>d
        <5> QED
          BY <5>1, <1>3
      <4>3. Absent(w, p, 0, m)
        <5>1. \A j \in 0 + 1..m : j \in 0 + 1..n /\ x[j] = w[j]
          BY <1>2, <1>3
        <5> QED
          BY <5>1, <3>2 DEF Absent
      <4>4. View(w, d, m)[p] = w[i].version
        <5>1. View(w, d, m)[p] = d[p]
          BY <4>3, <1>3, ViewAt
        <5>2. x[i] = w[i]
          BY <4>2, <1>2
        <5> QED
          BY <5>1, <5>2, <4>1, <2>2
      <4>5. View(w, d, m) \in C
        <5>1. m \in nb..m /\ Boundary(w, m, m)
          BY <1>3 DEF Boundary
        <5> QED
          BY <5>1, <1>1 DEF SQLiteInv, DatabaseOK, States
      <4>6. PICK j \in 1..m : w[j].pgno = p
        BY <4>2, <4>4, <4>5, <1>5 DEF Written
      <4> QED
        BY <4>3, <4>6 DEF Absent
    <3> QED
      BY <3>1, <3>2, <1>2, ViewAt
  <2> QED
    BY <2>1, <2>2 DEF Written
<1>13. LossOnce' /\ LastPagesOK'
  <2>1. last' = last
    BY DEF files
  <2>2. \A p \in DOMAIN last.pages : last.pages[p] \in Nat /\ last.pages[p] <= v + 1
    BY <1>1, <1>3 DEF HistoryInv, LastPagesOK
  <2> QED
    BY <2>1, <2>2, <1>2 DEF HistoryInv, LossOnce, LastPagesOK, Lost
<1> QED
  BY <1>1, <1>2, <1>7, <1>8, <1>9, <1>11, <1>12, <1>13
  DEF HistoryInv, OrderOK, WrittenOK, HistoryOK


LEMMA HistoryReset ==
  ASSUME SQLiteInv, DBShape, HistoryInv, Resets, UNCHANGED files
  PROVE  HistoryInv'
<1>1. PICK n, l, L, w, x, v, u, c, d, m, C, s :
        /\ n = mx' /\ l = Len(wal) /\ L = Len(wal') /\ w = wal /\ x = wal' /\ v = version
        /\ u = version' /\ c = dbfile /\ d = dbfile' /\ m = mx /\ C = committed
        /\ s = View(wal', dbfile', mx')
  OBVIOUS
<1>2. /\ u \in {v, v + 1} /\ (hdr' # 0 => hdr' = v + 1 /\ u = v + 1)
      /\ nbackfill' = 0 /\ d = View(w, c, m) /\ overrun' = Overrun
      /\ x \in Seq(Frame) /\ n \in Nat /\ n <= L
      /\ \A i \in 1..n : x[i].salt = hdr' /\ x[i].version = u
      /\ \A i \in n + 1..L : i <= l /\ x[i] = w[i]
      /\ hdr' = 0 => L = 0
      /\ committed' = C \cup {s} /\ s = View(x, d, n)
  BY <1>1 DEF Resets
<1>3. /\ v \in Nat /\ w \in Seq(Frame) /\ m \in Nat /\ m <= l /\ l \in Nat
      /\ C \subseteq State /\ c \in State /\ nbackfill \in Nat /\ nbackfill <= m
      /\ \A i \in 1..l : w[i].salt \in 1..v /\ w[i].version \in 1..v
  BY <1>1 DEF SQLiteInv, SQLiteShape, LogOK
<1>4. L \in Nat /\ u \in Nat /\ v <= u
  BY <1>1, <1>2, <1>3
<1>5. SaltsFall(w) /\ Bounded(C, v) /\ Unique(C)
  BY <1>1 DEF HistoryInv, OrderOK, HistoryOK
<1>6. d \in C /\ d \in State
  <2>1. m \in nbackfill..m /\ Boundary(w, m, m)
    BY <1>3 DEF Boundary
  <2> QED
    BY <2>1, <1>1, <1>2, <1>3 DEF SQLiteInv, DatabaseOK, States
<1>d. \A t \in C : \A p \in Pages : t[p] \in Nat /\ t[p] <= v
  BY <1>3, <1>5, VersionAssumption DEF Bounded, State, Version
<1>7. n > 0 => u = v + 1 /\ hdr' = v + 1
  BY <1>2, <1>4
<1>8. SaltsFall(x)
  <2> SUFFICES ASSUME NEW i \in 1..L, NEW j \in 1..L, i <= j PROVE x[j].salt <= x[i].salt
    BY <1>1 DEF SaltsFall
  <2>1. CASE j <= n
    <3>1. i \in 1..n /\ j \in 1..n /\ hdr' \in Nat
      BY <2>1, <1>2, <1>3, <1>4, <1>7
    <3> QED
      BY <3>1, <1>2
  <2>2. CASE j > n
    <3>1. j \in n + 1..L
      BY <2>2, <1>2, <1>4
    <3>2. j \in 1..l /\ x[j] = w[j]
      BY <3>1, <1>2, <1>3
    <3>3. CASE i <= n
      <4>1. i \in 1..n
        BY <3>3, <1>2
      <4>2. x[i].salt = v + 1 /\ w[j].salt \in 1..v
        BY <4>1, <3>2, <1>2, <1>3, <1>7
      <4> QED
        BY <4>2, <3>2, <1>3
    <3>4. CASE i > n
      <4>1. i \in n + 1..L
        BY <3>4, <1>2, <1>4
      <4>2. i \in 1..l /\ x[i] = w[i]
        BY <4>1, <1>2, <1>3
      <4> QED
        BY <4>2, <3>2, <1>1, <1>5 DEF SaltsFall
    <3> QED
      BY <3>3, <3>4, <1>2
  <2> QED
    BY <2>1, <2>2, <1>2
<1>9. VersionsRise(x, n)
  BY <1>2, <1>4 DEF VersionsRise
<1>10. After(x, d, 0, n)
  <2> SUFFICES ASSUME NEW i \in 1..n, NEW p \in Pages PROVE d[p] <= x[i].version /\ d[p] < x[i].version
    BY DEF After
  <2>1. x[i].version = v + 1
    BY <1>2, <1>7
  <2> QED
    BY <2>1, <1>3, <1>6, <1>d
<1>11. Bounded(C \cup {s}, u) /\ Unique(C \cup {s})
  <2>1. CASE n = 0
    <3>1. s = d
      BY <2>1, <1>2, <1>6, ViewNone
    <3>2. C \cup {s} = C
      BY <3>1, <1>6
    <3>3. Bounded(C, u)
      BY <1>3, <1>4, <1>d DEF Bounded
    <3> QED
      BY <3>2, <3>3, <1>5, Zenon
  <2>2. CASE n > 0
    <3>1. /\ u = v + 1 /\ n <= Len(x) /\ n \in 1..n
          /\ \A p \in Pages : d[p] <= u
          /\ \A i \in 1..n : x[i].version = u
      BY <2>2, <1>1, <1>2, <1>3, <1>6, <1>7, <1>d
    <3>2. /\ x[n].pgno \in Pages /\ View(x, d, n)[x[n].pgno] = u
          /\ \A p \in Pages : View(x, d, n)[p] <= u
      <4>1. \A i \in 1..n : x[i].version <= u
        BY <3>1, <1>4
      <4> QED
        BY <4>1, <3>1, <2>2, <1>2, <1>4, LastIsNewest
    <3>3. PICK q \in Pages : s[q] = v + 1 /\ \A p \in Pages : s[p] <= v + 1
      BY <3>1, <3>2, <1>2
    <3> QED
      BY <3>1, <3>3, <1>3, <1>5, HistoryGrows
  <2> QED
    BY <2>1, <2>2, <1>2
<1>12. Written(x, n, C \cup {s})
  <2>1. ASSUME NEW t \in C, NEW p \in Pages, NEW i \in 1..n, t[p] = x[i].version
        PROVE  FALSE
    <3>1. x[i].version = v + 1
      BY <1>2, <1>7
    <3> QED
      BY <3>1, <2>1, <1>3, <1>d
  <2>2. ASSUME NEW p \in Pages, NEW i \in 1..n, s[p] = x[i].version
        PROVE  \E j \in 1..n : x[j].pgno = p /\ x[j].version = s[p]
    <3>1. ASSUME NEW j \in 1..n, IsLast(x, p, j, n)
          PROVE  x[j].pgno = p /\ x[j].version = s[p]
      BY <3>1, <1>2, ViewAt DEF IsLast
    <3>2. ~Absent(x, p, 0, n)
      <4>1. CASE Absent(x, p, 0, n)
        <5>1. s[p] = d[p]
          BY <4>1, <1>2, ViewAt
        <5> QED
          BY <5>1, <2>1, <2>2, <1>6
      <4> QED
        BY <4>1
    <3> QED
      BY <3>1, <3>2, <1>2, ViewAt
  <2> QED
    BY <2>1, <2>2 DEF Written
<1>13. LossOnce' /\ LastPagesOK'
  <2>1. last' = last
    BY DEF files
  <2>2. \A p \in DOMAIN last.pages : last.pages[p] \in Nat /\ last.pages[p] <= u
    BY <1>1, <1>3, <1>4 DEF HistoryInv, LastPagesOK
  <2> QED
    BY <2>1, <2>2, <1>1, <1>2 DEF HistoryInv, LossOnce, LastPagesOK, Lost, Overrun
<1> QED
  BY <1>1, <1>2, <1>8, <1>9, <1>10, <1>11, <1>12, <1>13
  DEF HistoryInv, OrderOK, WrittenOK, HistoryOK

LEMMA HistoryFill ==
  ASSUME SQLiteInv, HistoryInv, NEW n \in Nat, Fills(n), UNCHANGED files
  PROVE  HistoryInv'
<1>1. PICK w, d, nb, m : w = wal /\ d = dbfile /\ nb = nbackfill /\ m = mx
  OBVIOUS
<1>2. /\ n >= nb /\ n <= m /\ nbackfill' = n /\ dbfile' = View(w, d, n)
      /\ version' = version /\ wal' = wal /\ mx' = mx /\ committed' = committed
      /\ last' = last
      /\ ("tail" \in overrun' <=> "tail" \in overrun) /\ ("loss" \in overrun' <=> "loss" \in overrun)
  BY <1>1 DEF Fills, files
<1>3. nb \in Nat /\ m \in Nat /\ d \in State /\ After(w, d, nb, m) /\ VersionsRise(w, m)
  BY <1>1 DEF SQLiteInv, SQLiteShape, HistoryInv, OrderOK
<1>4. After(w, View(w, d, n), n, m)
  <2> SUFFICES ASSUME NEW i \in 1..m, NEW p \in Pages
               PROVE  /\ i >= n => View(w, d, n)[p] <= w[i].version
                      /\ n = 0 => View(w, d, n)[p] < w[i].version
    BY DEF After
  <2>1. ASSUME i >= n PROVE View(w, d, n)[p] <= w[i].version
    <3>1. PICK v : v = w[i].version
      OBVIOUS
    <3>2. d[p] <= v
      BY <3>1, <2>1, <1>2, <1>3 DEF After
    <3>3. \A k \in 1..n : k \in 1..m /\ k <= i
      BY <2>1, <1>2, <1>3
    <3>4. \A k \in 1..n : w[k].version <= v
      BY <3>1, <3>3, <1>3 DEF VersionsRise
    <3>5. View(w, d, n)[p] <= v
      BY <3>2, <3>4, ViewBound
    <3> QED
      BY <3>1, <3>5
  <2>2. ASSUME n = 0 PROVE View(w, d, n)[p] < w[i].version
    <3>1. View(w, d, n) = d /\ nb = 0
      BY <2>2, <1>2, <1>3, ViewNone
    <3> QED
      BY <3>1, <1>3 DEF After
  <2> QED
    BY <2>1, <2>2
<1> QED
  BY <1>1, <1>2, <1>4
  DEF HistoryInv, OrderOK, WrittenOK, HistoryOK, LossOnce, LastPagesOK, Lost

LEMMA HistoryCut ==
  ASSUME SQLiteInv, HistoryInv, NEW n \in Nat, Cuts(n), UNCHANGED files
  PROVE  HistoryInv'
<1>1. PICK w, x, d, nb, m, l, C :
        /\ w = wal /\ x = wal' /\ d = dbfile /\ nb = nbackfill /\ m = mx /\ l = Len(wal)
        /\ C = committed
  OBVIOUS
<1>2. /\ n >= nb /\ n < m /\ Boundary(w, m, n) /\ mx' = n /\ Len(x) = n
      /\ \A i \in 1..n : x[i] = w[i]
      /\ version' = version /\ dbfile' = d /\ nbackfill' = nb /\ committed' = C
      /\ "loss" \in overrun' /\ last' = last
  BY <1>1 DEF Cuts, files
<1>3. nb \in Nat /\ m \in Nat /\ l \in Nat /\ m <= l
  BY <1>1 DEF SQLiteInv, SQLiteShape
<1>4. /\ SaltsFall(w) /\ VersionsRise(w, m) /\ After(w, d, nb, m) /\ Written(w, m, C)
  BY <1>1 DEF HistoryInv, OrderOK, WrittenOK
<1>5. \A i \in 1..n : i \in 1..m /\ i \in 1..l
  BY <1>2, <1>3
<1>6. SaltsFall(x) /\ VersionsRise(x, n) /\ After(x, d, nb, n)
  BY <1>1, <1>2, <1>4, <1>5 DEF SaltsFall, VersionsRise, After
<1>7. ASSUME NEW s \in C, NEW p \in Pages, NEW i \in 1..n, s[p] = x[i].version
      PROVE  \E j \in 1..n : x[j].pgno = p /\ x[j].version = s[p]
  <2>1. PICK j \in 1..m : w[j].pgno = p /\ w[j].version = s[p]
    BY <1>2, <1>4, <1>5, <1>7 DEF Written
  <2>2. CASE j <= n
    <3>1. j \in 1..n
      BY <2>2
    <3> QED
      BY <3>1, <2>1, <1>2
  <2>3. CASE j > n
    <3>1. n \in 1..m /\ n + 1 \in 1..m /\ i <= n /\ n <= n + 1 /\ n + 1 <= j
      BY <2>3, <1>2, <1>3
    <3>2. /\ w[i].version <= w[n].version /\ w[n].version <= w[n + 1].version
          /\ w[n + 1].version <= w[j].version /\ w[j].version = w[i].version
      BY <3>1, <2>1, <1>2, <1>4, <1>5, <1>7 DEF VersionsRise
    <3>3. w[n].version # w[n + 1].version
      BY <3>1, <1>2, <1>3 DEF Boundary
    <3>4. \A k \in 1..m : w[k].version \in Nat
      <4>1. \A k \in 1..m : k \in 1..l
        BY <1>3
      <4>2. \A k \in 1..l : w[k].version \in 1..version
        BY <1>1 DEF SQLiteInv, LogOK
      <4> QED
        BY <4>1, <4>2
    <3>5. w[i].version \in Nat /\ w[n].version \in Nat /\ w[n + 1].version \in Nat
      BY <3>1, <3>4, <1>5
    <3> QED
      BY <3>2, <3>3, <3>5
  <2> QED
    BY <2>2, <2>3
<1>8. Written(x, n, C)
  BY <1>7 DEF Written
<1> QED
  BY <1>1, <1>2, <1>6, <1>8
  DEF HistoryInv, OrderOK, WrittenOK, HistoryOK, LossOnce, LastPagesOK


-----------------------------------------------------------------------------
(* The files and a sync in progress under these steps. *)

LEMMA SuppliesLater ==
  ASSUME NEW w, NEW x, NEW d, NEW r, NEW a \in Nat, NEW m \in Nat, NEW n \in Nat,
         a <= m, m <= n, \A i \in 1..m : x[i] = w[i], Supplies(r, w, d, a, m)
  PROVE  Supplies(r, x, d, a, n)
<1> SUFFICES ASSUME NEW p \in Pages, Absent(x, p, a, n) PROVE r[p] = View(x, d, n)[p]
  BY DEF Supplies
<1>1. Absent(w, p, a, m) /\ Absent(x, p, m, n)
  BY DEF Absent
<1>2. View(x, d, n)[p] = View(x, d, m)[p]
  BY <1>1, ViewLater
<1>3. View(w, d, m) = View(x, d, m)
  BY ViewSame
<1> QED
  BY <1>1, <1>2, <1>3 DEF Supplies

LEMMA TailAppend ==
  ASSUME SQLiteInv, DBShape, SyncInv, HistoryInv, TailInv, HistoryInv',
         NEW P \in SUBSET Pages, Appends(P), Aside
  PROVE  TailInv'
<1>1. PICK n, l, L, w, x, v, d, nb, m, C :
        /\ n = mx' /\ l = Len(wal) /\ L = Len(wal') /\ w = wal /\ x = wal' /\ v = version
        /\ d = dbfile /\ nb = nbackfill /\ m = mx /\ C = committed
  OBVIOUS
<1>2. /\ version' = v + 1 /\ nbackfill' = nb /\ dbfile' = d /\ overrun' = overrun /\ hdr' = hdr
      /\ x \in Seq(Frame) /\ L >= l /\ m > 0 /\ n \in Nat /\ n > m /\ n <= L
      /\ \A i \in 1..m : x[i] = w[i]
      /\ \A i \in m + 1..n : x[i].version = v + 1 /\ x[i].salt = hdr
      /\ \A i \in n + 1..L : i <= l /\ x[i] = w[i]
      /\ committed' = C \cup {View(x, d, n)}
  BY <1>1 DEF Appends
<1>3. /\ v \in Nat /\ w \in Seq(Frame) /\ m \in Nat /\ m <= l /\ l \in Nat /\ hdr \in Nat
      /\ nb \in Nat /\ nb <= m /\ d \in State
      /\ \A i \in 1..m : w[i].salt = hdr
      /\ \A i \in 1..l : w[i].salt \in 1..v /\ w[i].version \in 1..v
  BY <1>1 DEF SQLiteInv, SQLiteShape, LogOK
<1>4. L \in Nat
  BY <1>1, <1>2
<1>5. /\ last' = last /\ replay' = replay /\ info' = info /\ pageMap' = pageMap /\ buf' = buf
      /\ end' = end /\ rmark' = rmark /\ (pc' = pc \/ pc' \notin {"verified", "copying"})
      /\ Lost' = Lost
  BY <1>2 DEF Aside, files, syncing, Lost
<1>6. /\ last.end \in Nat /\ end \in Nat /\ info.offset \in Nat
      /\ \A p \in Pages : replay[p] \in Nat /\ replay[p] <= v
      /\ \A p \in DOMAIN last.pages : last.pages[p] \in Nat /\ last.pages[p] <= v
  BY <1>1, VersionAssumption DEF DBShape, State, Version, HistoryInv, LastPagesOK
<1>7. \A i \in 1..n : x[i].salt = hdr
  <2> TAKE i \in 1..n
  <2>1. CASE i \in 1..m
    BY <2>1, <1>2, <1>3
  <2>2. CASE i \in m + 1..n
    BY <2>2, <1>2, <1>3
  <2> QED
    BY <2>1, <2>2, <1>2, <1>3
<1>8. replay \in committed' => replay \in C
  <2>1. n \in m + 1..n
    BY <1>2, <1>3
  <2>2. x[n].version = v + 1 /\ n \in 1..n /\ n \in 1..Len(x)
    BY <2>1, <1>1, <1>2, <1>3
  <2>3. PICK q \in Pages : q = x[n].pgno
    <3>1. x[n] \in Frame
      BY <2>2, <1>2
    <3> QED
      BY <3>1 DEF Frame
  <2>4. IsLast(x, q, n, n)
    BY <2>3, <1>2 DEF IsLast
  <2>5. View(x, d, n)[q] = v + 1
    BY <2>2, <2>4, <1>2, ViewAt
  <2>6. replay[q] # v + 1
    BY <1>3, <1>6
  <2> QED
    BY <2>5, <2>6, <1>2
<1>9. Match(x, n, last) <=> Match(w, m, last)
  <2>1. PICK e : e = last.end
    OBVIOUS
  <2>2. CASE e <= m
    <3>1. e > 0 => e \in 1..m
      BY <2>1, <2>2, <1>3, <1>6
    <3>2. e > 0 => x[e] = w[e]
      BY <3>1, <1>2
    <3>3. e <= n
      BY <2>1, <2>2, <1>2, <1>3, <1>6
    <3> QED
      BY <3>2, <3>3, <2>1, <2>2 DEF Match
  <2>3. CASE e > m
    <3>1. e <= n => e \in m + 1..n
      BY <2>1, <2>3, <1>2, <1>3, <1>6
    <3>2. e <= n => x[e].version = v + 1
      BY <3>1, <1>2
    <3>3. \A p \in DOMAIN last.pages : last.pages[p] # v + 1
      BY <1>3, <1>6
    <3>4. ~(e <= m) /\ e > 0
      BY <2>1, <2>3, <1>3, <1>6
    <3> QED
      BY <3>2, <3>3, <3>4, <2>1 DEF Match
  <2> QED
    BY <2>1, <2>2, <2>3, <1>3, <1>6
<1>10. ASSUME NEW salt, salt # hdr, NEW e \in Nat, NoneLeft(w, salt, e)
       PROVE  NoneLeft(x, salt, e)
  <2> SUFFICES ASSUME NEW i \in 1..L, i > e PROVE x[i].salt # salt
    BY <1>1 DEF NoneLeft
  <2>1. CASE i <= n
    <3>1. i \in 1..n
      BY <2>1, <1>2
    <3> QED
      BY <3>1, <1>7, <1>10
  <2>2. CASE i > n
    <3>1. i \in n + 1..L
      BY <2>2, <1>2, <1>4
    <3>2. i \in 1..l /\ x[i] = w[i]
      BY <3>1, <1>2, <1>3
    <3> QED
      BY <3>2, <1>1, <1>10 DEF NoneLeft
  <2> QED
    BY <2>1, <2>2, <1>2
<1>11. TailFiles'
  <2>1. SUFFICES ASSUME Lost, last # NoFile, overrun \cap {"files", "torn"} = {}
                 PROVE  /\ hdr = last.salt =>
                             /\ NewerIn(x, n, replay, last.end)
                             /\ Match(x, n, last) /\ replay \in committed' =>
                                  Supplies(replay, x, d, last.end, n)
                        /\ hdr # last.salt =>
                             /\ NoneLeft(x, last.salt, last.end)
                             /\ replay \in committed' => Supplies(replay, x, d, 0, n)
                             /\ \A p \in Pages : replay[p] <= x[n].version
    BY <1>1, <1>2, <1>5 DEF TailFiles, Newer, Now, Matches
  <2>2. /\ hdr = last.salt =>
             /\ NewerIn(w, m, replay, last.end)
             /\ Match(w, m, last) /\ replay \in C => Supplies(replay, w, d, last.end, m)
        /\ hdr # last.salt =>
             /\ NoneLeft(w, last.salt, last.end)
             /\ replay \in C => Supplies(replay, w, d, 0, m)
    BY <2>1, <1>1 DEF TailInv, TailFiles, Newer, Now, Matches
  <2>3. ASSUME hdr = last.salt PROVE NewerIn(x, n, replay, last.end)
    <3> SUFFICES ASSUME NEW i \in last.end + 1..n, NEW p \in Pages PROVE replay[p] < x[i].version
      BY DEF NewerIn
    <3>1. CASE i <= m
      <4>1. i \in last.end + 1..m /\ i \in 1..m
        BY <3>1, <1>3, <1>6
      <4> QED
        BY <4>1, <2>2, <2>3, <1>2 DEF NewerIn
    <3>2. CASE i > m
      <4>1. i \in m + 1..n
        BY <3>2, <1>3, <1>6
      <4>2. x[i].version = v + 1
        BY <4>1, <1>2
      <4> QED
        BY <4>2, <1>3, <1>6
    <3> QED
      BY <3>1, <3>2, <1>3, <1>6
  <2>4. PICK r, e : r = replay /\ e = last.end
    OBVIOUS
  <2>5. ASSUME NEW a \in Nat, a <= m, Supplies(r, w, d, a, m) PROVE Supplies(r, x, d, a, n)
    <3>1. m <= n
      BY <1>2, <1>3
    <3> QED
      BY <3>1, <2>5, <1>2, <1>3, SuppliesLater
  <2>6. Match(w, m, last) => e <= m
    BY <2>4 DEF Match
  <2>7. n \in m + 1..n
    BY <1>2, <1>3
  <2>8. \A p \in Pages : replay[p] <= x[n].version
    BY <2>7, <1>2, <1>3, <1>6
  <2>9. 0 \in Nat /\ 0 <= m /\ e \in Nat
    BY <2>4, <1>3, <1>6
  <2> QED
    BY <2>2, <2>3, <2>4, <2>5, <2>6, <2>8, <2>9, <1>6, <1>8, <1>9, <1>10
<1>12. TailVerified'
  <2>1. SUFFICES ASSUME Lost, pc = "verified"
                 PROVE  /\ ~info.snapshotting =>
                             /\ last # NoFile
                             /\ \/ info.offset = 0 /\ hdr # last.salt
                                \/ /\ info.offset = last.end /\ info.salt = last.salt
                                   /\ hdr = last.salt => Match(x, n, last)
                        /\ info.snapshotting /\ info.offset > 0 /\ "copy" \notin overrun =>
                             /\ info.salt # 0
                             /\ info.salt # hdr /\ info.offset <= L /\ x[info.offset].salt = info.salt
                                  => rmark <= 0 /\ nb = 0 /\ n > 0 /\ LeftIn(x, n, d, info.salt)
    BY <1>1, <1>2, <1>5 DEF TailVerified, Matches, Leftover
  <2>2. /\ ~info.snapshotting =>
             /\ last # NoFile
             /\ \/ info.offset = 0 /\ hdr # last.salt
                \/ /\ info.offset = last.end /\ info.salt = last.salt
                   /\ hdr = last.salt => Match(w, m, last)
        /\ info.snapshotting /\ info.offset > 0 /\ "copy" \notin overrun =>
             /\ info.salt # 0
             /\ info.salt # hdr /\ info.offset <= l /\ w[info.offset].salt = info.salt
                  => rmark <= 0 /\ nb = 0 /\ m > 0 /\ LeftIn(w, m, d, info.salt)
    BY <2>1, <1>1 DEF TailInv, TailVerified, Matches, Leftover
  <2>3. ASSUME info.snapshotting, info.offset > 0, "copy" \notin overrun,
               info.salt # hdr, info.offset <= L, x[info.offset].salt = info.salt
        PROVE  rmark <= 0 /\ nb = 0 /\ n > 0 /\ LeftIn(x, n, d, info.salt)
    <3>1. PICK o, s : o = info.offset /\ s = info.salt
      OBVIOUS
    <3>2. o \in n + 1..L
      <4>1. CASE o <= n
        <5>1. o \in 1..n
          BY <4>1, <3>1, <2>3, <1>2, <1>6
        <5> QED
          BY <5>1, <3>1, <2>3, <1>7
      <4> QED
        BY <4>1, <3>1, <2>3, <1>2, <1>4, <1>6
    <3>3. o <= l /\ x[o] = w[o]
      BY <3>2, <1>2
    <3>4. rmark <= 0 /\ nb = 0 /\ LeftIn(w, m, d, s)
      BY <3>1, <3>3, <2>2, <2>3
    <3>5. LeftIn(x, n, d, s)
      <4> SUFFICES ASSUME NEW i \in n + 1..L, x[i].salt = s,
                          \A j \in i + 1..L : x[j].salt = s => x[j].pgno # x[i].pgno
                   PROVE  d[x[i].pgno] = x[i].version
        BY <1>1 DEF LeftIn
      <4>1. i \in m + 1..l /\ x[i] = w[i]
        BY <1>2, <1>3
      <4>2. \A j \in i + 1..l : j \in i + 1..L /\ j \in n + 1..L
        BY <1>2, <1>3, <1>4
      <4>3. \A j \in i + 1..l : x[j] = w[j]
        BY <4>2, <1>2
      <4>4. \A j \in i + 1..l : w[j].salt = s => w[j].pgno # w[i].pgno
        BY <4>1, <4>2, <4>3
      <4> QED
        BY <4>1, <4>4, <3>4, <1>1 DEF LeftIn
    <3> QED
      BY <3>1, <3>4, <3>5, <1>2, <1>3
  <2> QED
    BY <2>2, <2>3, <1>9
<1>13. TailCopy'
  <2>1. SUFFICES ASSUME Lost, pc = "copying", "copy" \notin overrun
                 PROVE  (CopyHere /\ CopyLeftover /\ CopyOnTop)'
    BY <1>2, <1>5 DEF TailCopy
  <2>2. CopyHere /\ CopyLeftover /\ CopyOnTop /\ MapOK
    BY <2>1 DEF TailInv, TailCopy, SyncInv, CopyOK
  <2>3. info.salt = hdr => end <= m
    BY <2>2, <1>1 DEF MapOK
  <2>4. info.salt = hdr /\ end > 0 => end \in 1..m /\ x[end] = w[end] /\ w[end].version \in 1..v
    <3>1. info.salt = hdr /\ end > 0 => end \in 1..m /\ end \in 1..l
      BY <2>3, <1>3, <1>6
    <3> QED
      BY <3>1, <1>2, <1>3
  <2>5. CopyHere'
    <3>1. ASSUME info.salt = hdr, end > 0 PROVE EndsAt(x, n, end)
      <4> SUFFICES ASSUME NEW i \in end + 1..n PROVE x[end].version < x[i].version
        BY DEF EndsAt
      <4>1. EndsAt(w, m, end)
        BY <3>1, <2>2, <1>1 DEF CopyHere
      <4>2. CASE i <= m
        <5>1. i \in end + 1..m /\ i \in 1..m
          BY <4>2, <1>3, <1>6
        <5> QED
          BY <5>1, <4>1, <3>1, <2>4, <1>2 DEF EndsAt
      <4>3. CASE i > m
        <5>1. i \in m + 1..n
          BY <4>3, <1>3, <1>6
        <5>2. x[i].version = v + 1
          BY <5>1, <1>2
        <5> QED
          BY <5>2, <3>1, <2>4, <1>3
      <4> QED
        BY <4>2, <4>3, <1>3, <1>6
    <3> QED
      BY <3>1, <2>2, <2>4, <1>1, <1>2, <1>5 DEF CopyHere
  <2>6. CopyLeftover'
    <3>1. SUFFICES ASSUME info.snapshotting, info.salt # hdr
                   PROVE  /\ rmark <= 0 /\ nb = 0 /\ n > 0
                          /\ NoneLeft(x, info.salt, end)
                          /\ \A p \in DOMAIN pageMap :
                               pageMap[p] \in n + 1..L => x[pageMap[p]].version = d[p]
                          /\ \A p \in DOMAIN buf :
                               buf[p] = d[p] \/ \E i \in 1..n : buf[p] = x[i].version
      BY <1>1, <1>2, <1>5 DEF CopyLeftover
    <3>2. /\ rmark <= 0 /\ nb = 0
          /\ NoneLeft(w, info.salt, end)
          /\ \A p \in DOMAIN pageMap :
               pageMap[p] \in m + 1..l => w[pageMap[p]].version = d[p]
          /\ \A p \in DOMAIN buf :
               buf[p] = d[p] \/ \E i \in 1..m : buf[p] = w[i].version
      BY <3>1, <2>2, <1>1 DEF CopyLeftover
    <3>3. NoneLeft(x, info.salt, end)
      BY <3>1, <3>2, <1>6, <1>10
    <3>4. \A i \in n + 1..L : i \in m + 1..l /\ x[i] = w[i]
      BY <1>2, <1>3
    <3>5. \A i \in 1..m : i \in 1..n /\ x[i] = w[i]
      BY <1>2, <1>3
    <3>6. \A p \in DOMAIN pageMap : pageMap[p] \in n + 1..L => x[pageMap[p]].version = d[p]
      BY <3>2, <3>4
    <3>7. ASSUME NEW p \in DOMAIN buf
          PROVE  buf[p] = d[p] \/ \E i \in 1..n : buf[p] = x[i].version
      BY <3>2, <3>5
    <3>8. n > 0
      BY <1>2, <1>3
    <3> QED
      BY <3>2, <3>3, <3>6, <3>7, <3>8
  <2>7. CopyOnTop'
    <3>1. SUFFICES ASSUME ~info.snapshotting
                   PROVE  /\ DOMAIN buf \subseteq DOMAIN pageMap
                          /\ overrun \cap {"files", "torn"} = {} =>
                               /\ info.salt = hdr /\ end > 0
                               /\ \A p \in Pages : replay[p] <= x[end].version
                               /\ replay \in committed' => Target' \in committed'
                               /\ StateAt(x, d, n, committed', end)
      BY <1>1, <1>2, <1>5 DEF CopyOnTop
    <3>2. /\ DOMAIN buf \subseteq DOMAIN pageMap
          /\ overrun \cap {"files", "torn"} = {} =>
               /\ info.salt = hdr /\ end > 0 /\ \A p \in Pages : replay[p] <= w[end].version
               /\ replay \in C => Target \in C
               /\ StateAt(w, d, m, C, end)
      BY <3>1, <2>2, <1>1 DEF CopyOnTop
    <3>3. ASSUME info.salt = hdr PROVE Target' = Target
      <4>1. \A p \in DOMAIN pageMap : pageMap[p] \in 1..m
        BY <3>3, <2>2, <2>3, <1>3, <1>6 DEF MapOK, DBShape
      <4>2. \A p \in DOMAIN pageMap : x[pageMap[p]] = w[pageMap[p]]
        BY <4>1, <1>2
      <4> QED
        BY <4>2, <3>1, <1>1, <1>5 DEF Target, Source
    <3>4. ASSUME overrun \cap {"files", "torn"} = {}
          PROVE  /\ info.salt = hdr /\ end > 0 /\ \A p \in Pages : replay[p] <= x[end].version
                 /\ replay \in committed' => Target' \in committed'
                 /\ StateAt(x, d, n, committed', end)
      <4>1. /\ info.salt = hdr /\ end > 0 /\ \A p \in Pages : replay[p] <= w[end].version
            /\ replay \in C => Target \in C
            /\ StateAt(w, d, m, C, end)
        BY <3>2, <3>4
      <4>2. x[end] = w[end]
        BY <4>1, <2>4
      <4>3. Target' = Target /\ C \subseteq committed'
        BY <4>1, <3>3, <1>2
      <4>4. StateAt(x, d, n, committed', end)
        <5>1. PICK e : e = end
          OBVIOUS
        <5>2. PICK s \in C : /\ s[w[e].pgno] = w[e].version
                             /\ \A p \in Pages : s[p] <= w[e].version
                             /\ Supplies(s, w, d, e, m)
          BY <5>1, <4>1 DEF StateAt
        <5>3. e \in Nat /\ e <= m /\ m <= n
          BY <5>1, <4>1, <2>3, <1>2, <1>3, <1>6
        <5>4. Supplies(s, x, d, e, n)
          BY <5>2, <5>3, <1>2, <1>3, SuppliesLater
        <5> QED
          BY <5>1, <5>2, <5>4, <4>2, <4>3 DEF StateAt
      <4> QED
        BY <4>1, <4>2, <4>3, <4>4, <1>8
    <3> QED
      BY <3>2, <3>4
  <2> QED
    BY <2>5, <2>6, <2>7
<1> QED
  BY <1>11, <1>12, <1>13 DEF TailInv


LEMMA TailReset ==
  ASSUME SQLiteInv, DBShape, LastOK, HistoryInv, TailInv, Resets, Aside,
         pc = "verified" => rmark <= 0 /\ nbackfill = mx
  PROVE  TailInv'
<1>1. PICK n, l, L, w, x, v, u, c, d, m, h :
        /\ n = mx' /\ l = Len(wal) /\ L = Len(wal') /\ w = wal /\ x = wal' /\ v = version
        /\ u = version' /\ c = dbfile /\ d = dbfile' /\ m = mx /\ h = hdr'
  OBVIOUS
<1>2. /\ u \in {v, v + 1} /\ (h = 0 \/ h = v + 1)
      /\ nbackfill' = 0 /\ d = View(w, c, m) /\ overrun' = Overrun
      /\ x \in Seq(Frame) /\ n \in Nat /\ n <= L
      /\ \A i \in 1..n : x[i].salt = h /\ x[i].version = u
      /\ \A i \in n + 1..L : i <= l /\ x[i] = w[i]
      /\ h = 0 => L = 0
      /\ h # 0 => n > 0 /\ L >= l
  BY <1>1 DEF Resets
<1>3. /\ v \in Nat /\ w \in Seq(Frame) /\ m \in Nat /\ m <= l /\ l \in Nat /\ c \in State
      /\ nbackfill \in Nat /\ nbackfill <= m
      /\ \A i \in 1..m : w[i].salt = hdr
      /\ \A i \in m + 1..l : w[i].salt # hdr
  BY <1>1 DEF SQLiteInv, SQLiteShape, LogOK
<1>4. L \in Nat /\ u \in Nat /\ v <= u
  BY <1>1, <1>2, <1>3
<1>5. /\ last' = last /\ replay' = replay /\ info' = info /\ rmark' = rmark
      /\ pc' = pc \/ pc' \notin {"verified", "copying"}
  BY DEF Aside, files, syncing
<1>6. /\ last.end \in Nat /\ last.salt \in Nat /\ last.salt <= v
      /\ info.offset \in Nat /\ info.salt \in Nat /\ info.salt <= v
      /\ \A p \in Pages : replay[p] \in Nat /\ replay[p] <= v
  BY <1>1, VersionAssumption DEF DBShape, State, Version
<1>7. /\ Lost' = Lost
      /\ "torn" \in overrun' <=> "torn" \in overrun
      /\ "files" \in overrun => "files" \in overrun'
      /\ last # NoFile /\ "files" \notin overrun' => replay = Current
      /\ pc = "copying" => "copy" \in overrun'
      /\ "copy" \in overrun => "copy" \in overrun'
  BY <1>2 DEF Overrun, Lost
<1>8. TailFiles'
  <2>1. SUFFICES ASSUME Lost, last # NoFile, overrun' \cap {"files", "torn"} = {}
                 PROVE  /\ h # last.salt
                        /\ NoneLeft(x, last.salt, last.end)
                        /\ Supplies(replay, x, d, 0, n)
                        /\ n > 0 => \A p \in Pages : replay[p] <= x[n].version
    BY <1>1, <1>5, <1>7 DEF TailFiles, Now
  <2>2. replay = View(wal, dbfile, mx) /\ replay = d /\ overrun \cap {"files", "torn"} = {}
    <3>1. replay = Current /\ overrun \cap {"files", "torn"} = {}
      BY <2>1, <1>7
    <3> QED
      BY <3>1, <1>1, <1>2, OverlayIsView
  <2>3. h # last.salt /\ last.salt # 0
    <3>1. last.salt # 0
      BY <2>1 DEF LastOK
    <3> QED
      BY <3>1, <1>2, <1>3, <1>6
  <2>4. /\ hdr = last.salt => Newer(replay, last.end)
        /\ hdr # last.salt => \A i \in 1..l : i > last.end => w[i].salt # last.salt
    BY <2>1, <2>2, <1>1 DEF TailInv, TailFiles, NoneLeft
  <2>5. ASSUME NEW i \in 1..L, i > last.end PROVE x[i].salt # last.salt
    <3>1. CASE i <= n
      <4>1. i \in 1..n
        BY <3>1, <1>2
      <4> QED
        BY <4>1, <2>3, <1>2
    <3>2. CASE n < i
      <4>1. i \in n + 1..L
        BY <3>2, <1>2, <1>4
      <4>2. i \in 1..l /\ x[i] = w[i]
        BY <4>1, <1>2, <1>3
      <4>3. CASE hdr # last.salt
        BY <4>2, <4>3, <2>4, <2>5
      <4>4. CASE hdr = last.salt
        <5>1. \A j \in 1..mx : j <= last.end
          BY <4>4, <2>2, <2>4, NothingBeyond
        <5>2. i \in m + 1..l
          BY <5>1, <4>2, <2>5, <1>1, <1>3, <1>6
        <5> QED
          BY <5>2, <4>2, <4>4, <1>3
      <4> QED
        BY <4>3, <4>4
    <3> QED
      BY <3>1, <3>2, <1>2
  <2>6. Supplies(d, x, d, 0, n)
    BY <1>2, ViewAt DEF Supplies
  <2>7. ASSUME n > 0, NEW p \in Pages PROVE replay[p] <= x[n].version
    <3>1. n \in 1..n
      BY <2>7, <1>2
    <3>2. x[n].version = u
      BY <3>1, <1>2
    <3> QED
      BY <3>2, <1>3, <1>4, <1>6
  <2> QED
    BY <2>2, <2>3, <2>5, <2>6, <2>7, <1>1 DEF NoneLeft
<1>9. TailVerified'
  <2>1. SUFFICES ASSUME Lost, pc = "verified"
                 PROVE  /\ ~info.snapshotting =>
                             /\ last # NoFile
                             /\ \/ info.offset = 0 /\ h # last.salt
                                \/ /\ info.offset = last.end /\ info.salt = last.salt
                                   /\ h # last.salt
                        /\ info.snapshotting /\ info.offset > 0 /\ "copy" \notin overrun =>
                             /\ info.salt # 0
                             /\ info.offset <= L /\ x[info.offset].salt = info.salt
                                  => n > 0 /\ LeftIn(x, n, d, info.salt)
    BY <1>1, <1>2, <1>5, <1>7 DEF TailVerified, Leftover
  <2>2. /\ ~info.snapshotting =>
             /\ last # NoFile
             /\ \/ info.offset = 0 /\ hdr # last.salt
                \/ info.offset = last.end /\ info.salt = last.salt
        /\ info.snapshotting /\ info.offset > 0 /\ "copy" \notin overrun =>
             /\ info.salt # 0
             /\ info.salt # hdr /\ info.offset <= l /\ w[info.offset].salt = info.salt
                  => nbackfill = 0 /\ m > 0
    BY <2>1, <1>1 DEF TailInv, TailVerified, Leftover
  <2>3. last # NoFile => h # last.salt
    <3>1. last # NoFile => last.salt # 0
      BY DEF LastOK
    <3> QED
      BY <3>1, <1>2, <1>3, <1>6
  <2>4. ASSUME info.snapshotting, info.offset > 0, "copy" \notin overrun,
               info.offset <= L, x[info.offset].salt = info.salt
        PROVE  n > 0 /\ LeftIn(x, n, d, info.salt)
    <3>1. PICK o, s : o = info.offset /\ s = info.salt
      OBVIOUS
    <3>2. s # 0 /\ s # h /\ o \in Nat /\ o > 0 /\ o <= L /\ x[o].salt = s
      BY <3>1, <2>2, <2>4, <1>2, <1>3, <1>6
    <3>3. o \in n + 1..L
      <4>1. CASE o <= n
        <5>1. o \in 1..n
          BY <4>1, <3>2, <1>2
        <5> QED
          BY <5>1, <3>2, <1>2
      <4> QED
        BY <4>1, <3>2, <1>2, <1>4
    <3>4. o <= l /\ x[o] = w[o]
      BY <3>3, <1>2
    <3>5. s = hdr
      <4>1. CASE s # hdr
        <5>1. nbackfill = 0 /\ m > 0
          BY <4>1, <3>1, <3>2, <3>4, <2>2, <2>4
        <5> QED
          BY <5>1, <2>1, <1>1, <1>3
      <4> QED
        BY <4>1
    <3>6. h # 0 /\ n > 0 /\ L >= l
      BY <3>2, <1>2, <1>4
    <3>7. LeftIn(x, n, d, s)
      <4> SUFFICES ASSUME NEW i \in n + 1..L, x[i].salt = s,
                          \A j \in i + 1..L : x[j].salt = s => x[j].pgno # x[i].pgno
                   PROVE  d[x[i].pgno] = x[i].version
        BY <1>1 DEF LeftIn
      <4>1. i \in 1..l /\ x[i] = w[i] /\ w[i] \in Frame
        <5>1. i \in 1..l /\ x[i] = w[i]
          BY <1>2, <1>3
        <5> QED
          BY <5>1, <1>1, <1>3
      <4>2. i \in 1..m
        <5>1. CASE i > m
          <6>1. i \in m + 1..l
            BY <5>1, <4>1, <1>3
          <6> QED
            BY <6>1, <4>1, <3>5, <1>3
        <5> QED
          BY <5>1, <4>1, <1>3
      <4>3. PICK p \in Pages : p = w[i].pgno
        BY <4>1 DEF Frame
      <4>4. ASSUME NEW j \in i + 1..m PROVE w[j].pgno # p
        <5>1. j \in i + 1..L /\ j \in n + 1..L /\ j \in 1..m
          BY <3>6, <1>2, <1>3, <1>4
        <5>2. x[j] = w[j] /\ w[j].salt = s
          BY <5>1, <3>5, <1>2, <1>3
        <5> QED
          BY <5>1, <5>2, <4>1, <4>3
      <4>5. IsLast(w, p, i, m)
        BY <4>3, <4>4 DEF IsLast
      <4>6. View(w, c, m)[p] = w[i].version
        BY <4>2, <4>5, <1>3, ViewAt
      <4> QED
        BY <4>1, <4>3, <4>6, <1>2
    <3> QED
      BY <3>1, <3>6, <3>7
  <2> QED
    BY <2>2, <2>3, <2>4
<1>10. TailCopy'
  BY <1>5, <1>7 DEF TailCopy
<1> QED
  BY <1>8, <1>9, <1>10 DEF TailInv

(* With a read mark the WAL is backfilled no further than the mark, and not at
   all where a snapshot relies on the database file; without one, a snapshot
   under way is noted. *)
LEMMA TailFill ==
  ASSUME SQLiteInv, DBShape, TailInv, NEW n \in Nat, Fills(n), Aside,
         pc \in {"verified", "copying"} /\ info.snapshotting =>
           (rmark > 0 /\ n <= rmark) \/ "copy" \in overrun'
  PROVE  TailInv'
<1>1. PICK w, d, m : w = wal /\ d = dbfile /\ m = mx
  OBVIOUS
<1>2. /\ n <= m /\ nbackfill' = n /\ dbfile' = View(w, d, n)
      /\ wal' = wal /\ hdr' = hdr /\ mx' = mx /\ committed' = committed
      /\ overrun' = overrun \/ overrun' = overrun \cup {"copy"}
      /\ last' = last /\ replay' = replay /\ info' = info /\ pageMap' = pageMap /\ buf' = buf
      /\ end' = end /\ rmark' = rmark /\ (pc' = pc \/ pc' \notin {"verified", "copying"})
  BY <1>1 DEF Fills, Aside, files, syncing
<1>o. /\ Lost' = Lost /\ ("copy" \in overrun => "copy" \in overrun')
      /\ overrun' \cap {"files", "torn"} = overrun \cap {"files", "torn"}
  BY <1>2 DEF Lost
<1>3. m \in Nat /\ end \in Nat /\ rmark \in Int
  BY <1>1 DEF SQLiteInv, SQLiteShape, DBShape
<1>4. View(w, View(w, d, n), m) = View(w, d, m)
  BY <1>2, <1>3, ViewFill
<1>5. \A a : Now(replay, a) => Supplies(replay, w, View(w, d, n), a, m)
  BY <1>1, <1>4 DEF Now, Supplies
<1>6. TailFiles'
  <2>1. \A a : Supplies(replay', wal', dbfile', a, mx') <=> Supplies(replay, w, View(w, d, n), a, m)
    BY <1>1, <1>2
  <2>2. Matches' = Matches
    BY <1>2 DEF Matches
  <2> QED
    BY <2>1, <2>2, <1>2, <1>o, <1>5 DEF TailInv, TailFiles, Now, Newer
<1>7. TailVerified'
  <2>1. Matches' = Matches
    BY <1>2 DEF Matches
  <2>2. pc = "verified" /\ info.snapshotting /\ "copy" \notin overrun' => ~Leftover
    BY <1>3 DEF Leftover
  <2> QED
    BY <2>1, <2>2, <1>2, <1>o DEF TailInv, TailVerified
<1>8. TailCopy'
  <2>1. SUFFICES ASSUME Lost, pc = "copying", "copy" \notin overrun'
                 PROVE  (CopyHere /\ CopyLeftover /\ CopyOnTop)'
    BY <1>2, <1>o DEF TailCopy
  <2>2. /\ CopyHere /\ CopyLeftover /\ CopyOnTop
        /\ info.snapshotting => rmark > 0 /\ n <= rmark
    BY <2>1, <1>o DEF TailInv, TailCopy
  <2>3. CopyHere'
    <3>1. info.salt = hdr => /\ end # 0
                             /\ info.snapshotting => n <= end /\ rmark <= end
      BY <2>2, <1>3 DEF CopyHere
    <3> QED
      BY <3>1, <2>2, <1>2 DEF CopyHere
  <2>4. CopyLeftover'
    <3>1. ~(info.snapshotting /\ info.salt # hdr)
      BY <2>2, <1>3 DEF CopyLeftover
    <3> QED
      BY <3>1, <1>2 DEF CopyLeftover
  <2>5. CopyOnTop'
    <3>1. ~info.snapshotting => Target' = Target
      BY <1>2 DEF Target, Source
    <3>2. \A s : Supplies(s, w, d, end, m) => Supplies(s, w, View(w, d, n), end, m)
      BY <1>4 DEF Supplies
    <3>3. StateAt(w, d, m, committed, end) => StateAt(w, View(w, d, n), m, committed, end)
      BY <3>2 DEF StateAt
    <3> QED
      BY <3>1, <3>3, <2>2, <1>1, <1>2, <1>o DEF CopyOnTop
  <2> QED
    BY <2>3, <2>4, <2>5
<1> QED
  BY <1>6, <1>7, <1>8 DEF TailInv

(* A power loss that takes frames of the files: verify will not find its frame. *)
LEMMA TailCut ==
  ASSUME SQLiteInv, DBShape, LossOnce, "loss" \notin overrun, NEW n \in Nat, Cuts(n),
         UNCHANGED files, pc' = "down"
  PROVE  TailInv'
<1>1. /\ mx' = n /\ hdr' = hdr /\ last' = last
      /\ Lost' => hdr = last.salt /\ last.end > n
  BY DEF Cuts, files, LossOnce, Lost
<1>2. last.end \in Nat
  BY DEF DBShape
<1>3. ASSUME Lost' PROVE ~Matches' /\ Newer(replay, last.end)'
  <2>1. PICK e : e = last.end
    OBVIOUS
  <2>2. ~(e <= n) /\ \A i \in e + 1..n : FALSE
    BY <2>1, <1>1, <1>2, <1>3
  <2> QED
    BY <2>1, <2>2, <1>1 DEF Matches, Match, Newer, NewerIn
<1>4. TailFiles'
  BY <1>1, <1>3 DEF TailFiles
<1> QED
  BY <1>4 DEF TailInv, TailVerified, TailCopy

(* A step that touches neither SQLite's files nor the L0 files. *)
LEMMA TailQuiet ==
  ASSUME HistoryInv, TailInv, UNCHANGED <<sqlite, files>>,
         overrun' = overrun \/ overrun' = overrun \ {"copy"}
  PROVE  /\ HistoryInv' /\ TailFiles'
         /\ pc' \notin {"verified", "copying"} => TailInv'
<1>1. /\ version' = version /\ dbfile' = dbfile /\ wal' = wal /\ hdr' = hdr /\ mx' = mx
      /\ nbackfill' = nbackfill /\ committed' = committed /\ last' = last /\ replay' = replay
  BY DEF sqlite, files
<1>2. Lost' = Lost /\ overrun' \cap {"files", "torn"} = overrun \cap {"files", "torn"}
      /\ ("loss" \in overrun' <=> "loss" \in overrun)
  BY DEF Lost
<1>3. HistoryInv'
  BY <1>1, <1>2 DEF HistoryInv, LossOnce, LastPagesOK, HistoryOK, OrderOK, WrittenOK
<1>4. TailFiles'
  BY <1>1, <1>2 DEF TailInv, TailFiles, Matches, Now, Newer
<1> QED
  BY <1>3, <1>4 DEF TailInv, TailVerified, TailCopy


-----------------------------------------------------------------------------
(* The steps of a sync after such a loss. *)

(* An increment is called for only if the frame that ends the files is there. *)
LEMMA VerifyTail ==
  ASSUME Inv, HistoryInv, TailInv, Verify
  PROVE  HistoryInv' /\ TailInv'
<1>1. SQLiteInv /\ DBShape /\ LastOK
  BY DEF Inv, SQLiteInv
<1>2. /\ pc' = "verified" /\ info' = VerifyInfo /\ UNCHANGED <<sqlite, files>>
      /\ UNCHANGED <<version, dbfile, wal, hdr, mx, nbackfill, committed, rmark, last, replay,
                     overrun>>
  BY DEF Verify, sqlite, files
<1>3. HistoryInv' /\ TailFiles'
  BY <1>2, TailQuiet
<1>4. PICK l, w, m : l = Len(wal) /\ w = wal /\ m = mx
  OBVIOUS
<1>5. /\ l \in Nat /\ m \in Nat /\ m <= l /\ last.end \in Nat
      /\ hdr = 0 => l = 0
      /\ \A i \in m + 1..l : w[i].salt # hdr
  BY <1>1, <1>4 DEF SQLiteInv, SQLiteShape, LogOK, DBShape
<1>6. PICK again : again = (\/ hdr = 0 \/ last.end > l
                            \/ /\ last.end > 0
                               /\ \/ w[last.end].salt # last.salt
                                  \/ w[last.end].pgno \notin DOMAIN last.pages
                                  \/ last.pages[w[last.end].pgno] # w[last.end].version)
  OBVIOUS
<1>7. CASE last = NoFile
  <2>1. info' = [offset |-> 0, salt |-> 0, snapshotting |-> TRUE]
    BY <1>2, <1>7 DEF VerifyInfo
  <2>2. info'.offset = 0 /\ info'.snapshotting = TRUE
    BY <2>1
  <2>3. TailVerified'
    BY <2>2 DEF TailVerified
  <2> QED
    BY <2>3, <1>2, <1>3 DEF TailInv, TailCopy
<1>8. CASE last # NoFile /\ hdr # 0 /\ last.end <= l /\ hdr # last.salt
  <2>1. info' = [offset |-> 0, salt |-> hdr, snapshotting |-> FALSE]
    BY <1>2, <1>4, <1>8 DEF VerifyInfo
  <2>2. info'.offset = 0 /\ info'.salt = hdr /\ info'.snapshotting = FALSE
    BY <2>1
  <2>3. TailVerified'
    BY <2>2, <1>2, <1>8 DEF TailVerified
  <2> QED
    BY <2>3, <1>2, <1>3 DEF TailInv, TailCopy
<1>9. CASE last # NoFile /\ ~(hdr # 0 /\ last.end <= l /\ hdr # last.salt)
  <2>1. info' = [offset |-> last.end, salt |-> last.salt, snapshotting |-> again]
    BY <1>2, <1>4, <1>6, <1>9 DEF VerifyInfo
  <2>2. info'.offset = last.end /\ info'.salt = last.salt /\ info'.snapshotting = again
    BY <2>1
  <2>3. last.salt # 0
    BY <1>1, <1>9 DEF LastOK
  <2>4. ASSUME ~again PROVE Match(w, m, last)
    <3>1. /\ hdr # 0 /\ ~(last.end > l)
          /\ last.end > 0 => /\ w[last.end].salt = last.salt
                             /\ w[last.end].pgno \in DOMAIN last.pages
                             /\ last.pages[w[last.end].pgno] = w[last.end].version
      BY <2>4, <1>6
    <3>2. hdr = last.salt
      BY <3>1, <1>5, <1>9
    <3>3. last.end <= m
      <4>1. CASE last.end > m
        <5>1. last.end \in m + 1..l /\ last.end > 0
          BY <4>1, <3>1, <1>5
        <5> QED
          BY <5>1, <3>1, <3>2, <1>5
      <4> QED
        BY <4>1, <1>5
    <3> QED
      BY <3>1, <3>3 DEF Match
  <2>5. ~(/\ last.end > 0 /\ last.salt # hdr /\ last.end <= l)
    BY <1>5, <1>9
  <2>6. TailVerified'
    BY <2>2, <2>3, <2>4, <2>5, <1>2, <1>4, <1>9 DEF TailVerified, Matches
  <2> QED
    BY <2>6, <1>2, <1>3 DEF TailInv, TailCopy
<1> QED
  BY <1>7, <1>8, <1>9

(* What an increment is put on top of. *)
LEMMA ReaderOnTop ==
  ASSUME Inv, TailInv, Lost, pc = "verified", hdr # 0, ~info.snapshotting,
         ReadTo # Reader.offset, overrun \cap {"files", "torn"} = {}
  PROVE  /\ Reader.salt = hdr /\ mx > 0
         /\ \A p \in Pages : replay[p] <= wal[mx].version
         /\ replay \in committed => Now(replay, Reader.offset)
<1>1. SQLiteInv /\ DBShape /\ LastOK
  BY DEF Inv, SQLiteInv
<1>2. PICK l, w, m, o, s, t, e : /\ l = Len(wal) /\ w = wal /\ m = mx /\ o = Reader.offset
                                 /\ s = Reader.salt /\ t = ReadTo /\ e = last.end
  OBVIOUS
<1>3. /\ o \in Nat /\ o <= l
      /\ o > 0 => w[o].salt = s
      /\ \/ o = info.offset /\ s = info.salt /\ info.offset > 0
         \/ /\ o = 0 /\ s = hdr
            /\ ~(info.offset > 0 /\ info.offset <= l /\ w[info.offset].salt = info.salt)
  BY <1>1, <1>2, ReaderIs
<1>4. /\ l \in Nat /\ m \in Nat /\ m <= l /\ e \in Nat
      /\ \A i \in 1..m : w[i].salt = hdr
      /\ \A p \in Pages : replay[p] \in Nat
      /\ \A i \in 1..l : w[i].version \in Nat
  <2>1. \A i \in 1..Len(wal) : wal[i].version \in 1..version
    BY <1>1 DEF SQLiteInv, LogOK
  <2>2. version \in Nat /\ \A i \in 1..version : i \in Nat
    BY <1>1 DEF SQLiteInv, SQLiteShape
  <2>3. \A i \in 1..l : w[i].version \in Nat
    BY <2>1, <2>2, <1>2
  <2>4. \A p \in Pages : replay[p] \in Nat
    BY <1>1, VersionAssumption DEF DBShape, State, Version
  <2>5. /\ l \in Nat /\ m \in Nat /\ m <= l /\ e \in Nat
        /\ \A i \in 1..m : w[i].salt = hdr
    BY <1>1, <1>2 DEF SQLiteInv, SQLiteShape, LogOK, DBShape
  <2> QED
    BY <2>3, <2>4, <2>5
<1>5. /\ t \in Nat /\ t >= o /\ t <= l /\ t # o
      /\ \A i \in o + 1..t : w[i].salt = s
  <2>1. Reader.offset \in Nat /\ Reader.offset <= Len(wal) /\ wal \in Seq(Frame)
    BY <1>1, <1>2, <1>3 DEF SQLiteInv, SQLiteShape
  <2>2. /\ ReadTo \in Nat /\ ReadTo >= Reader.offset /\ ReadTo <= Len(wal)
        /\ \A i \in Reader.offset + 1..ReadTo : wal[i].salt = Reader.salt
    BY <2>1, ReadToIs
  <2> QED
    BY <2>2, <1>2
<1>6. /\ last # NoFile
      /\ \/ info.offset = 0 /\ hdr # last.salt
         \/ info.offset = e /\ info.salt = last.salt /\ (hdr = last.salt => Match(w, m, last))
  BY <1>2 DEF TailInv, TailVerified, Matches
<1>7. /\ hdr = last.salt =>
           /\ NewerIn(w, m, replay, e)
           /\ Match(w, m, last) /\ replay \in committed => Now(replay, e)
      /\ hdr # last.salt =>
           /\ NoneLeft(w, last.salt, e)
           /\ replay \in committed => Now(replay, 0)
           /\ m > 0 => \A p \in Pages : replay[p] <= w[m].version
  BY <1>2, <1>6 DEF TailInv, TailFiles, Newer, Matches
<1>8. s = hdr
  <2>1. CASE hdr # last.salt /\ o = e /\ s = last.salt
    <3>1. t \in 1..l /\ t > e /\ t \in o + 1..t
      BY <2>1, <1>3, <1>5
    <3> QED
      BY <3>1, <2>1, <1>2, <1>5, <1>7 DEF NoneLeft
  <2> QED
    BY <2>1, <1>3, <1>6
<1>9. t = m /\ o <= m /\ m > 0
  <2>1. t = m /\ o <= m
    BY <1>1, <1>2, <1>8, ReadsAll
  <2> QED
    BY <2>1, <1>3, <1>5
<1>10. CASE hdr = last.salt
  <2>1. info.offset = e /\ info.salt = last.salt /\ Match(w, m, last)
    BY <1>6, <1>10
  <2>2. e <= m /\ (e > 0 => w[e].salt = hdr)
    <3>1. e <= m
      BY <2>1, <1>2 DEF Match
    <3>2. e > 0 => e \in 1..m
      BY <3>1, <1>4
    <3> QED
      BY <3>1, <3>2, <1>4
  <2>3. o = e
    BY <2>1, <2>2, <1>3, <1>4, <1>10
  <2>4. m \in e + 1..m /\ m \in 1..l
    BY <2>3, <1>4, <1>5, <1>9
  <2>5. \A p \in Pages : replay[p] <= w[m].version
    BY <2>4, <1>4, <1>7, <1>10 DEF NewerIn
  <2> QED
    BY <2>1, <2>3, <2>5, <1>2, <1>7, <1>8, <1>9, <1>10
<1>11. CASE hdr # last.salt
  <2>1. o = 0
    <3>1. CASE o = info.offset /\ s = info.salt /\ info.offset > 0
      BY <3>1, <1>6, <1>8, <1>11
    <3> QED
      BY <3>1, <1>3
  <2> QED
    BY <2>1, <1>2, <1>7, <1>8, <1>9, <1>11
<1> QED
  BY <1>10, <1>11


(* The page map is read: of the whole WAL, or of what a restart has left. *)
LEMMA PageMapTail ==
  ASSUME Inv, HistoryInv, TailInv, PageMap
  PROVE  HistoryInv' /\ TailInv'
<1>1. SQLiteInv /\ DBShape
  BY DEF Inv, SQLiteInv
<1>2. CASE hdr = 0 \/ (~info.snapshotting /\ ReadTo = Reader.offset)
  <2>1. Return(hdr # 0) /\ UNCHANGED <<sqlite, files>> /\ overrun' = overrun \ {"copy"}
    BY <1>2 DEF PageMap
  <2>2. pc' \notin {"verified", "copying"}
    BY <2>1 DEF Return
  <2> QED
    BY <2>1, <2>2, TailQuiet
<1>3. CASE hdr # 0 /\ (info.snapshotting \/ ReadTo # Reader.offset)
  <2>1. PICK l, w, o, s, t, d, m, nb, f :
          /\ l = Len(wal) /\ w = wal /\ o = Reader.offset /\ s = Reader.salt /\ t = ReadTo
          /\ d = dbfile /\ m = mx /\ nb = nbackfill /\ f = pageMap'
    OBVIOUS
  <2>2. /\ pc = "verified" /\ pc' = "copying" /\ end' = t /\ f = MapOf(w, o, t)
        /\ info' = [offset |-> o, salt |-> s, snapshotting |-> info.snapshotting]
        /\ UNCHANGED <<sqlite, files>>
        /\ UNCHANGED <<buf, version, dbfile, wal, hdr, mx, nbackfill, committed,
                       rmark, last, replay, overrun>>
    <3>1. /\ pc = "verified" /\ pc' = "copying" /\ end' = ReadTo
          /\ pageMap' = [p \in {wal[i].pgno : i \in Reader.offset + 1..ReadTo} |->
                           LastFrame(p, Reader.offset + 1, ReadTo)]
          /\ info' = [offset |-> Reader.offset, salt |-> Reader.salt,
                      snapshotting |-> info.snapshotting]
          /\ UNCHANGED <<sqlite, files>>
          /\ UNCHANGED <<buf, version, dbfile, wal, hdr, mx, nbackfill, committed,
                         rmark, last, replay, overrun>>
      BY <1>3 DEF PageMap, sqlite, files
    <3>2. \A p : LastFrame(p, Reader.offset + 1, ReadTo) = LastIn(w, p, o + 1, t)
      BY <2>1 DEF LastFrame, LastIn
    <3> QED
      BY <2>1, <3>1, <3>2 DEF MapOf
  <2>3. info'.salt = s /\ info'.snapshotting = info.snapshotting
    BY <2>2
  <2>4. HistoryInv' /\ TailFiles'
    BY <2>2, TailQuiet
  <2>5. /\ l \in Nat /\ m \in Nat /\ m <= l /\ nb \in Nat /\ nb <= m /\ w \in Seq(Frame)
        /\ rmark <= m /\ d \in State /\ DOMAIN buf = {}
    BY <2>1, <2>2, <1>1 DEF SQLiteInv, SQLiteShape, DBShape
  <2>6. /\ o \in Nat /\ o <= l /\ s \in Nat
        /\ o > 0 => w[o].salt = s
        /\ \/ o = info.offset /\ s = info.salt /\ info.offset > 0
           \/ o = 0 /\ s = hdr
    BY <2>1, <1>1, <1>3, ReaderIs
  <2>7. /\ t \in Nat /\ t >= o /\ t <= l
        /\ \A i \in o + 1..t : w[i].salt = s
        /\ t < l => w[t + 1].salt # s
    <3>1. Reader.offset \in Nat /\ Reader.offset <= Len(wal) /\ wal \in Seq(Frame)
      BY <2>1, <2>5, <2>6
    <3>2. /\ ReadTo \in Nat /\ ReadTo >= Reader.offset /\ ReadTo <= Len(wal)
          /\ \A i \in Reader.offset + 1..ReadTo : wal[i].salt = Reader.salt
          /\ ReadTo < Len(wal) => wal[ReadTo + 1].salt # Reader.salt
      BY <3>1, ReadToIs
    <3> QED
      BY <3>2, <2>1
  <2>8. /\ \A p \in DOMAIN f : p \in Pages /\ f[p] \in o + 1..t /\ IsLast(w, p, f[p], t)
        /\ \A p \in Pages : p \notin DOMAIN f => Absent(w, p, o, t)
    <3>1. /\ w \in Seq(Frame) /\ o \in Nat /\ t \in Nat /\ t <= Len(w)
          /\ f = MapOf(w, o, t)
      BY <2>1, <2>2, <2>5, <2>6, <2>7
    <3> QED
      BY <3>1, PageMapIs
  <2>9. s = hdr => t = m /\ o <= m
    BY <2>1, <1>1, <1>3, ReadsAll
  <2>10. CopyHere'
    <3> SUFFICES ASSUME s = hdr
                 PROVE  /\ info.snapshotting => nb <= t /\ rmark <= t
                        /\ t = 0 => info.snapshotting
                        /\ t > 0 => EndsAt(w, m, t)
      BY <2>1, <2>2, <2>3, <2>5 DEF CopyHere
    <3>1. t = m
      BY <2>9
    <3>2. t = 0 => info.snapshotting
      BY <1>3, <2>1, <2>6, <2>7
    <3>3. EndsAt(w, m, t)
      BY <3>1, <2>5 DEF EndsAt
    <3> QED
      BY <3>1, <3>2, <3>3, <2>5
  <2>11. ASSUME Lost, "copy" \notin overrun, info.snapshotting, s # hdr
         PROVE  /\ rmark <= 0 /\ nb = 0 /\ m > 0
                /\ NoneLeft(w, s, t)
                /\ \A p \in DOMAIN f : f[p] \in m + 1..l => w[f[p]].version = d[p]
    <3>1. o = info.offset /\ s = info.salt /\ info.offset > 0
      BY <2>6, <2>11
    <3>2. info.salt # hdr /\ info.offset <= Len(wal) /\ wal[info.offset].salt = info.salt
      BY <3>1, <2>1, <2>6, <2>11
    <3>3. Leftover
      BY <3>1, <3>2, <2>2, <2>11 DEF TailInv, TailVerified
    <3>4. rmark <= 0 /\ nb = 0 /\ m > 0 /\ LeftIn(w, m, d, s)
      BY <3>1, <3>3, <2>1 DEF Leftover
    <3>5. t \in 1..l /\ w[t].salt = s
      <4>1. CASE t = o
        BY <4>1, <3>1, <2>6
      <4>2. CASE t > o
        <5>1. t \in o + 1..t
          BY <4>2, <2>6, <2>7
        <5> QED
          BY <5>1, <4>2, <2>6, <2>7
      <4> QED
        BY <4>1, <4>2, <2>6, <2>7
    <3>6. /\ \A i, j \in 1..l : i <= j => w[j].salt <= w[i].salt
          /\ \A i \in 1..l : w[i].salt \in Nat
      <4>1. SaltsFall(wal)
        BY DEF HistoryInv, OrderOK
      <4>2. \A i \in 1..l : w[i].salt \in Nat
        <5>1. \A i \in 1..Len(wal) : wal[i].salt \in 1..version
          BY <1>1 DEF SQLiteInv, LogOK
        <5>2. version \in Nat /\ \A i \in 1..version : i \in Nat
          BY <1>1 DEF SQLiteInv, SQLiteShape
        <5> QED
          BY <5>1, <5>2, <2>1
      <4> QED
        BY <4>1, <4>2, <2>1 DEF SaltsFall
    <3>7. ASSUME NEW i \in 1..l, i > t, w[i].salt = s PROVE FALSE
      <4>1. t < l /\ t + 1 \in 1..l /\ t + 1 <= i /\ t <= t + 1
        BY <3>5, <3>7, <2>5, <2>7
      <4>2. w[t + 1].salt <= s /\ s <= w[t + 1].salt /\ w[t + 1].salt \in Nat
        BY <4>1, <3>5, <3>6, <3>7
      <4> QED
        BY <4>1, <4>2, <2>6, <2>7
    <3>8. NoneLeft(w, s, t)
      BY <3>7, <2>1 DEF NoneLeft
    <3>9. ASSUME NEW p \in DOMAIN f, f[p] \in m + 1..l PROVE w[f[p]].version = d[p]
      <4>1. PICK j : j = f[p]
        OBVIOUS
      <4>2. j \in m + 1..l /\ j \in o + 1..t /\ IsLast(w, p, j, t)
        BY <4>1, <3>9, <2>8
      <4>3. w[j].salt = s /\ w[j].pgno = p
        BY <4>2, <2>7 DEF IsLast
      <4>4. ASSUME NEW k \in j + 1..l, w[k].salt = s PROVE w[k].pgno # p
        <5>1. k \in 1..l /\ k <= t
          BY <4>2, <4>4, <3>7, <2>5, <2>6, <2>7
        <5>2. k \in j + 1..t
          BY <5>1, <4>2, <2>6, <2>7
        <5> QED
          BY <5>2, <4>2 DEF IsLast
      <4>5. d[w[j].pgno] = w[j].version
        BY <4>2, <4>3, <4>4, <3>4, <2>1 DEF LeftIn
      <4> QED
        BY <4>1, <4>3, <4>5
    <3> QED
      BY <3>4, <3>8, <3>9
  <2>12. ASSUME Lost, "copy" \notin overrun PROVE CopyLeftover'
    BY <2>1, <2>2, <2>3, <2>5, <2>11, <2>12 DEF CopyLeftover
  <2>13. ASSUME Lost, ~info.snapshotting, overrun \cap {"files", "torn"} = {}
         PROVE  /\ s = hdr /\ t > 0 /\ \A p \in Pages : replay[p] <= w[t].version
                /\ replay \in committed => Target' \in committed
                /\ StateAt(w, d, m, committed, t)
    <3>1. /\ s = hdr /\ m > 0
          /\ \A p \in Pages : replay[p] <= w[m].version
          /\ replay \in committed => Supplies(replay, w, d, o, m)
      BY <2>1, <2>2, <2>13, <1>3, ReaderOnTop DEF Now
    <3>2. t = m
      BY <3>1, <2>9
    <3>v. View(w, d, m) \in committed
      <4>1. m \in nb..m /\ Boundary(w, m, m)
        BY <2>5 DEF Boundary
      <4> QED
        BY <4>1, <2>1, <1>1 DEF SQLiteInv, DatabaseOK, States
    <3>s. StateAt(w, d, m, committed, m)
      <4>1. PICK v : v = w[m].version
        OBVIOUS
      <4>2. m \in 1..m /\ m \in 1..l /\ m >= nb
        BY <3>1, <2>5
      <4>3. v \in Nat
        <5>1. wal[m].version \in 1..version /\ version \in Nat
          BY <4>2, <2>1, <1>1 DEF SQLiteInv, SQLiteShape, LogOK
        <5> QED
          BY <5>1, <4>1, <2>1
      <4>4. \A p \in Pages : d[p] <= v
        BY <4>1, <4>2, <2>1 DEF HistoryInv, OrderOK, After
      <4>5. \A i \in 1..m : w[i].version <= v
        <5>1. \A i \in 1..m : i <= m
          OBVIOUS
        <5> QED
          BY <5>1, <4>1, <4>2, <2>1 DEF HistoryInv, OrderOK, VersionsRise
      <4>6. m <= Len(w)
        BY <2>1, <2>5
      <4>7. View(w, d, m)[w[m].pgno] = v /\ \A p \in Pages : View(w, d, m)[p] <= v
        BY <4>1, <4>3, <4>4, <4>5, <4>6, <3>1, <2>5, LastIsNewest
      <4>8. Supplies(View(w, d, m), w, d, m, m)
        BY DEF Supplies
      <4> QED
        BY <4>1, <4>7, <4>8, <3>v DEF StateAt
    <3>3. ASSUME replay \in committed PROVE Target' \in committed
      <4>1. PICK r : r = replay
        OBVIOUS
      <4>2. Target' = OnTop(f, w, r)
        BY <4>1, <2>1, <2>2, <2>3, <2>13 DEF Target, Source, OnTop
      <4>3. OnTop(f, w, r) = View(w, d, t)
        <5>1. MapsLast(f, w, o, t) /\ Supplies(r, w, d, o, t)
          BY <4>1, <3>1, <3>2, <3>3, <2>8 DEF MapsLast
        <5>2. t <= Len(w)
          BY <2>1, <2>7
        <5> QED
          BY <5>1, <5>2, <2>5, <2>6, <2>7, TargetIsView
      <4> QED
        BY <4>2, <4>3, <3>2, <3>v
    <3> QED
      BY <3>1, <3>2, <3>3, <3>s
  <2>14. ASSUME Lost PROVE CopyOnTop'
    BY <2>1, <2>2, <2>3, <2>5, <2>13, <2>14 DEF CopyOnTop
  <2>15. Lost' = Lost
    BY <2>2 DEF Lost
  <2> QED
    BY <2>2, <2>4, <2>10, <2>12, <2>14, <2>15 DEF TailInv, TailVerified, TailCopy
<1> QED
  BY <1>2, <1>3

(* A page is copied. *)
LEMMA CopyPageTail ==
  ASSUME Inv, HistoryInv, TailInv, CopyPage
  PROVE  HistoryInv' /\ TailInv'
<1>1. PICK p \in Uncopied :
        IF p \in DOMAIN pageMap /\ pageMap[p] > Len(wal)
        THEN Return(FALSE) /\ overrun' = overrun \ {"copy"}
        ELSE /\ buf' = [q \in DOMAIN buf \cup {p} |->
                          IF q # p THEN buf[q]
                          ELSE IF p \in DOMAIN pageMap THEN wal[pageMap[p]].version
                          ELSE dbfile[p]]
             /\ UNCHANGED <<pc, info, pageMap, end, overrun>>
  BY DEF CopyPage
<1>2. pc = "copying" /\ UNCHANGED <<sqlite, files>> /\ rmark' = rmark
  BY DEF CopyPage
<1>3. CASE p \in DOMAIN pageMap /\ pageMap[p] > Len(wal)
  <2>1. pc' \notin {"verified", "copying"} /\ overrun' = overrun \ {"copy"}
    BY <1>1, <1>3 DEF Return
  <2> QED
    BY <2>1, <1>2, TailQuiet
<1>4. CASE ~(p \in DOMAIN pageMap /\ pageMap[p] > Len(wal))
  <2>1. SQLiteInv /\ DBShape /\ MapOK
    BY <1>2 DEF Inv, SQLiteInv, CopyOK
  <2>2. UNCHANGED <<version, dbfile, wal, hdr, mx, nbackfill, committed, pc, info, pageMap,
                    end, overrun, rmark, last, replay>>
    BY <1>1, <1>2, <1>4 DEF sqlite, files
  <2>3. HistoryInv' /\ TailFiles'
    BY <1>2, <2>2, TailQuiet
  <2>4. PICK l, w, d, m, nb, c :
          /\ l = Len(wal) /\ w = wal /\ d = dbfile /\ m = mx /\ nb = nbackfill
          /\ c = IF p \in DOMAIN pageMap THEN wal[pageMap[p]].version ELSE dbfile[p]
    OBVIOUS
  <2>5. /\ DOMAIN buf' = DOMAIN buf \cup {p}
        /\ \A q \in DOMAIN buf : q # p => buf'[q] = buf[q]
        /\ buf'[p] = c
    <3>1. buf' = [q \in DOMAIN buf \cup {p} |-> IF q # p THEN buf[q] ELSE c]
      BY <1>1, <1>4, <2>4
    <3> QED
      BY <3>1
  <2>6. p \in Pages /\ (p \in DOMAIN pageMap \/ info.snapshotting)
    BY <2>1 DEF Uncopied, DBShape
  <2>7. /\ l \in Nat /\ m \in Nat /\ nb \in Nat /\ end \in Nat /\ m <= l /\ nb <= m
        /\ p \in DOMAIN pageMap => pageMap[p] \in Nat /\ pageMap[p] > 0 /\ pageMap[p] <= l
    BY <1>4, <2>1, <2>4 DEF SQLiteInv, SQLiteShape, DBShape
  <2>8. ASSUME CopyHere PROVE CopyHere'
    <3> SUFFICES ASSUME info.salt = hdr
                 PROVE  /\ end = 0 => \A q \in DOMAIN buf' : buf'[q] = d[q]
                        /\ end > 0 => \A q \in DOMAIN buf' : buf'[q] <= w[end].version
      BY <2>2, <2>4, <2>8 DEF CopyHere
    <3>1. /\ info.snapshotting => nb <= end
          /\ end = 0 => \A q \in DOMAIN buf : buf[q] = d[q]
          /\ end > 0 => \A q \in DOMAIN buf : buf[q] <= w[end].version
      BY <2>4, <2>8 DEF CopyHere
    <3>2. end <= m /\ (p \in DOMAIN pageMap => pageMap[p] <= end)
      BY <2>1, <2>4 DEF MapOK
    <3>3. end = 0 => c = d[p]
      BY <3>2, <2>4, <2>7
    <3>4. ASSUME end > 0 PROVE c <= w[end].version
      <4>1. end \in 1..m
        BY <3>2, <3>4, <2>7
      <4>2. CASE p \in DOMAIN pageMap
        <5>1. PICK j : j = pageMap[p]
          OBVIOUS
        <5>2. j \in 1..m /\ j <= end
          BY <5>1, <4>2, <3>2, <2>7
        <5>3. w[j].version <= w[end].version
          BY <5>2, <4>1, <2>4 DEF HistoryInv, OrderOK, VersionsRise
        <5> QED
          BY <5>1, <5>3, <4>2, <2>4
      <4>3. CASE p \notin DOMAIN pageMap
        <5>1. end >= nb
          BY <4>3, <3>1, <2>6, <2>7
        <5>2. d[p] <= w[end].version
          BY <5>1, <4>1, <2>4, <2>6 DEF HistoryInv, OrderOK, After
        <5> QED
          BY <5>2, <4>3, <2>4
      <4> QED
        BY <4>2, <4>3
    <3> QED
      BY <3>1, <3>3, <3>4, <2>5
  <2>9. ASSUME CopyLeftover PROVE CopyLeftover'
    <3> SUFFICES ASSUME info.snapshotting, info.salt # hdr
                 PROVE  \A q \in DOMAIN buf' :
                          buf'[q] = d[q] \/ \E i \in 1..m : buf'[q] = w[i].version
      BY <2>2, <2>4, <2>9 DEF CopyLeftover
    <3>1. /\ \A q \in DOMAIN pageMap : pageMap[q] \in m + 1..l => w[pageMap[q]].version = d[q]
          /\ \A q \in DOMAIN buf : buf[q] = d[q] \/ \E i \in 1..m : buf[q] = w[i].version
      BY <2>4, <2>9 DEF CopyLeftover
    <3>2. c = d[p] \/ \E i \in 1..m : c = w[i].version
      <4>1. CASE p \notin DOMAIN pageMap
        BY <4>1, <2>4
      <4>2. CASE p \in DOMAIN pageMap
        <5>1. PICK j : j = pageMap[p]
          OBVIOUS
        <5>2. c = w[j].version /\ (j \in 1..m \/ j \in m + 1..l)
          BY <5>1, <4>2, <2>4, <2>7
        <5> QED
          BY <5>1, <5>2, <4>2, <3>1
      <4> QED
        BY <4>1, <4>2
    <3> QED
      BY <3>1, <3>2, <2>5
  <2>10. ASSUME CopyOnTop PROVE CopyOnTop'
    <3>1. Target' = Target
      BY <2>2 DEF Target, Source
    <3>2. ~info.snapshotting => DOMAIN buf' \subseteq DOMAIN pageMap
      BY <2>5, <2>6, <2>10 DEF CopyOnTop
    <3> QED
      BY <3>1, <3>2, <2>2, <2>10 DEF CopyOnTop
  <2>11. Lost' = Lost
    BY <2>2 DEF Lost
  <2> QED
    BY <1>2, <2>2, <2>3, <2>8, <2>9, <2>10, <2>11 DEF TailInv, TailVerified, TailCopy
<1> QED
  BY <1>3, <1>4

(* A file of the current salt leaves a state that the WAL continues, or one
   that the database never had. *)
LEMMA FileHere ==
  ASSUME SQLiteInv, HistoryInv, NEW x \in committed, NEW e \in Nat, e > 0, e <= mx,
         nbackfill <= e, EndsAt(wal, mx, e), x[wal[e].pgno] = wal[e].version,
         \A p \in Pages : x[p] <= wal[e].version
  PROVE  Now(x, e)
<1>1. PICK w, d, m, nb, C, v :
        /\ w = wal /\ d = dbfile /\ m = mx /\ nb = nbackfill /\ C = committed
        /\ v = wal[e].version
  OBVIOUS
<1>2. /\ m \in Nat /\ m <= Len(w) /\ nb \in Nat /\ w \in Seq(Frame) /\ nb <= e /\ e <= m
      /\ e \in 1..m /\ e \in 1..Len(w)
  BY <1>1 DEF SQLiteInv, SQLiteShape
<1>3. v \in Nat
  <2>1. wal[e].version \in 1..version /\ version \in Nat
    BY <1>1, <1>2 DEF SQLiteInv, SQLiteShape, LogOK
  <2> QED
    BY <2>1, <1>1
<1>4. /\ \A p \in Pages : d[p] <= v
      /\ \A i \in 1..e : w[i].version <= v
  <2>1. \A p \in Pages : d[p] <= v
    BY <1>1, <1>2 DEF HistoryInv, OrderOK, After
  <2>2. \A i \in 1..e : i \in 1..m /\ i <= e
    BY <1>2
  <2>3. \A i \in 1..e : w[i].version <= v
    BY <2>2, <1>1, <1>2 DEF HistoryInv, OrderOK, VersionsRise
  <2> QED
    BY <2>1, <2>3
<1>5. PICK V, q : V = View(w, d, e) /\ q = w[e].pgno
  OBVIOUS
<1>6. q \in Pages /\ V[q] = v /\ \A p \in Pages : V[p] <= v
  BY <1>1, <1>2, <1>3, <1>4, <1>5, LastIsNewest
<1>7. V \in C
  <2>1. Boundary(w, m, e)
    <3>1. CASE e < m
      <4>1. e + 1 \in e + 1..m
        BY <3>1, <1>2
      <4>2. w[e].version < w[e + 1].version
        BY <4>1, <1>1 DEF EndsAt
      <4>3. w[e].version # w[e + 1].version
        BY <4>2, <1>1, <1>3
      <4> QED
        BY <4>3 DEF Boundary
    <3> QED
      BY <3>1, <1>2 DEF Boundary
  <2>2. e \in nb..m
    BY <1>2
  <2> QED
    BY <2>1, <2>2, <1>1, <1>5 DEF SQLiteInv, DatabaseOK, States
<1>8. x = V
  <2>1. x[q] = V[q] /\ NewestAt(x, q) /\ NewestAt(V, q)
    BY <1>1, <1>5, <1>6 DEF NewestAt
  <2>2. Unique(C) /\ x \in C
    BY <1>1 DEF HistoryInv, HistoryOK
  <2> QED
    BY <2>1, <2>2, <1>6, <1>7 DEF Unique
<1>9. ASSUME NEW p \in Pages, Absent(w, p, e, m) PROVE x[p] = View(w, d, m)[p]
  <2>1. View(w, d, m)[p] = View(w, d, e)[p]
    BY <1>2, <1>9, ViewLater
  <2> QED
    BY <2>1, <1>5, <1>8
<1> QED
  BY <1>1, <1>9 DEF Now, Supplies

(* The file is renamed. *)
LEMMA RenameTail ==
  ASSUME Inv, HistoryInv, TailInv, Rename
  PROVE  HistoryInv' /\ TailInv'
<1>1. SQLiteInv /\ DBShape /\ CopyOK
  BY DEF Inv, SQLiteInv
<1>2. /\ pc = "copying" /\ Uncopied = {} /\ pc' \notin {"verified", "copying"}
      /\ UNCHANGED <<version, dbfile, wal, hdr, mx, nbackfill, committed>>
  BY DEF Rename, Return, sqlite
<1>3. /\ last' = [end |-> end, salt |-> info.salt, pages |-> buf, snapshot |-> info.snapshotting]
      /\ replay' = [p \in Pages |-> IF p \in DOMAIN buf THEN buf[p] ELSE replay[p]]
  BY DEF Rename
<1>4. overrun' = (IF info.snapshotting THEN overrun \cap {"loss", "tail"} ELSE overrun \ {"copy"})
                   \cup (IF "copy" \in overrun THEN {"torn"} ELSE {})
  BY DEF Rename
<1>5. last'.end = end /\ last'.salt = info.salt /\ last'.pages = buf
  BY <1>3
<1>6. MapOK
  BY <1>1, <1>2 DEF CopyOK
<1>7. /\ DOMAIN buf \subseteq Pages /\ (info.snapshotting => DOMAIN buf = Pages)
      /\ info.snapshotting \in BOOLEAN
  BY <1>1, <1>2 DEF Uncopied, DBShape
<1>8. Lost' = Lost /\ ("loss" \in overrun' <=> "loss" \in overrun)
  BY <1>4 DEF Lost
<1>9. HistoryInv'
  <2>1. LossOnce'
    BY <1>8 DEF HistoryInv, LossOnce
  <2>2. LastPagesOK'
    BY <1>1, <1>2, <1>5 DEF LastPagesOK, DBShape
  <2> QED
    BY <2>1, <2>2, <1>2 DEF HistoryInv, HistoryOK, OrderOK, WrittenOK
<1>10. ASSUME Lost, overrun' \cap {"files", "torn"} = {}
       PROVE  /\ hdr = info.salt =>
                   /\ NewerIn(wal, mx, replay', end)
                   /\ Match(wal, mx, last') /\ replay' \in committed => Now(replay', end)
              /\ hdr # info.salt =>
                   /\ NoneLeft(wal, info.salt, end)
                   /\ replay' \in committed => Now(replay', 0)
                   /\ mx > 0 => \A p \in Pages : replay'[p] <= wal[mx].version
  <2>1. /\ CopyHere /\ CopyLeftover /\ CopyOnTop
        /\ ~info.snapshotting => overrun \cap {"files", "torn"} = {}
    <3>1. /\ "copy" \notin overrun
          /\ ~info.snapshotting => overrun \cap {"files", "torn"} = {}
      BY <1>4, <1>7, <1>10
    <3> QED
      BY <3>1, <1>2, <1>10 DEF TailInv, TailCopy
  <2>2. PICK l, w, d, m, nb, x, e :
          /\ l = Len(wal) /\ w = wal /\ d = dbfile /\ m = mx /\ nb = nbackfill
          /\ x = replay' /\ e = end
    OBVIOUS
  <2>3. /\ l \in Nat /\ m \in Nat /\ nb \in Nat /\ e \in Nat /\ m <= l /\ nb <= m
        /\ \A p \in Pages : d[p] \in Nat
        /\ \A p \in Pages : replay[p] \in Nat
        /\ \A p \in DOMAIN buf : buf[p] \in Nat
    <3>1. /\ l \in Nat /\ m \in Nat /\ nb \in Nat /\ e \in Nat /\ m <= l /\ nb <= m
          /\ d \in State /\ replay \in State
          /\ \A p \in DOMAIN buf : buf[p] \in Nat
      BY <1>1, <2>2 DEF SQLiteInv, SQLiteShape, DBShape
    <3>2. \A s \in State : \A p \in Pages : s[p] \in Nat
      BY VersionAssumption DEF State, Version
    <3> QED
      BY <3>1, <3>2
  <2>4. \A i \in 1..l : w[i].version \in Nat
    <3>1. \A i \in 1..Len(wal) : wal[i].version \in 1..version
      BY <1>1 DEF SQLiteInv, LogOK
    <3>2. version \in Nat /\ \A i \in 1..version : i \in Nat
      BY <1>1 DEF SQLiteInv, SQLiteShape
    <3> QED
      BY <3>1, <3>2, <2>2
  <2>5. /\ \A p \in DOMAIN buf : x[p] = buf[p]
        /\ \A p \in Pages : p \notin DOMAIN buf => x[p] = replay[p]
    BY <1>3, <1>7, <2>2
  <2>6. \A p \in Pages : x[p] \in Nat
    BY <2>3, <2>5
  <2>7. CASE hdr = info.salt
    <3>1. /\ e <= m /\ (info.snapshotting => nb <= e)
          /\ e = 0 => info.snapshotting /\ \A p \in DOMAIN buf : buf[p] = d[p]
          /\ e > 0 => EndsAt(w, m, e) /\ \A p \in DOMAIN buf : buf[p] <= w[e].version
      BY <1>6, <2>1, <2>2, <2>7 DEF CopyHere, MapOK
    <3>2. ASSUME e = 0
          PROVE  NewerIn(w, m, x, e) /\ Now(x, e)
      <4>1. nb = 0
        BY <3>1, <3>2, <2>3
      <4>2. \A p \in Pages : x[p] = d[p]
        BY <3>1, <3>2, <2>5, <1>7
      <4>3. NewerIn(w, m, x, e)
        <5>1. \A i \in 1..m : \A p \in Pages : d[p] < w[i].version
          BY <4>1, <2>2 DEF HistoryInv, OrderOK, After
        <5>2. \A i \in e + 1..m : i \in 1..m
          BY <3>2
        <5> QED
          BY <5>1, <5>2, <4>2 DEF NewerIn
      <4>4. ASSUME NEW p \in Pages, Absent(w, p, e, m) PROVE x[p] = View(w, d, m)[p]
        <5>1. View(w, d, m)[p] = d[p]
          BY <4>4, <3>2, <2>3, ViewAt
        <5> QED
          BY <5>1, <4>2
      <4> QED
        BY <4>3, <4>4, <2>2 DEF Now, Supplies
    <3>3. ASSUME e > 0
          PROVE  /\ NewerIn(w, m, x, e)
                 /\ Match(w, m, last') /\ x \in committed => Now(x, e)
      <4>1. e \in 1..m /\ e \in 1..l
        BY <3>1, <3>3, <2>3
      <4>2. \A p \in Pages : x[p] <= w[e].version
        <5>1. CASE info.snapshotting
          BY <5>1, <3>1, <3>3, <2>5, <1>7
        <5>2. CASE ~info.snapshotting
          <6>1. \A p \in Pages : replay[p] <= w[e].version
            BY <5>2, <2>1, <2>2 DEF CopyOnTop
          <6> QED
            BY <6>1, <3>1, <3>3, <2>5
        <5> QED
          BY <5>1, <5>2
      <4>3. NewerIn(w, m, x, e)
        <5> SUFFICES ASSUME NEW i \in e + 1..m, NEW p \in Pages PROVE x[p] < w[i].version
          BY DEF NewerIn
        <5>1. w[e].version < w[i].version
          BY <3>1, <3>3 DEF EndsAt
        <5>2. i \in 1..l
          BY <3>1, <2>3
        <5>3. w[e].version \in Nat /\ w[i].version \in Nat /\ x[p] \in Nat
          BY <5>2, <4>1, <2>4, <2>6
        <5> QED
          BY <5>1, <5>3, <4>2
      <4>4. ASSUME Match(w, m, last'), x \in committed PROVE Now(x, e)
        <5>1. w[e].pgno \in DOMAIN buf /\ buf[w[e].pgno] = w[e].version
          BY <4>4, <3>3, <2>2, <1>5 DEF Match
        <5>2. x[w[e].pgno] = w[e].version
          BY <5>1, <2>5
        <5>3. CASE info.snapshotting
          BY <5>2, <5>3, <4>2, <4>4, <3>1, <3>3, <2>2, <2>3, <1>1, FileHere
        <5>4. CASE ~info.snapshotting
          <6>1. PICK s \in committed : /\ s[w[e].pgno] = w[e].version
                                       /\ \A p \in Pages : s[p] <= w[e].version
                                       /\ Supplies(s, w, d, e, m)
            BY <5>4, <2>1, <2>2 DEF CopyOnTop, StateAt
          <6>2. PICK q \in Pages : q = w[e].pgno
            BY <5>1, <1>7
          <6>3. x[q] = s[q] /\ NewestAt(x, q) /\ NewestAt(s, q)
            BY <6>1, <6>2, <5>2, <4>2 DEF NewestAt
          <6>4. x = s
            BY <6>3, <4>4 DEF HistoryInv, HistoryOK, Unique
          <6> QED
            BY <6>1, <6>4, <2>2 DEF Now
        <5> QED
          BY <5>3, <5>4, <1>7
      <4> QED
        BY <4>3, <4>4
    <3> QED
      BY <3>2, <3>3, <2>2, <2>3, <2>7
  <2>8. CASE hdr # info.salt
    <3>1. info.snapshotting /\ DOMAIN buf = Pages
      BY <2>1, <2>8, <1>7 DEF CopyOnTop
    <3>2. /\ nb = 0 /\ m > 0 /\ NoneLeft(w, info.salt, e)
          /\ \A p \in Pages : x[p] = d[p] \/ \E i \in 1..m : x[p] = w[i].version
      BY <3>1, <2>1, <2>2, <2>5, <2>8 DEF CopyLeftover
    <3>3. ASSUME NEW p \in Pages PROVE x[p] <= w[m].version
      <4>1. m \in 1..m /\ m >= nb
        BY <3>2, <2>3
      <4>2. d[p] <= w[m].version
        BY <4>1, <2>2 DEF HistoryInv, OrderOK, After
      <4>3. \A i \in 1..m : w[i].version <= w[m].version
        <5>1. \A i \in 1..m : i <= m
          OBVIOUS
        <5> QED
          BY <5>1, <4>1, <2>2 DEF HistoryInv, OrderOK, VersionsRise
      <4> QED
        BY <4>2, <4>3, <3>2
    <3>4. ASSUME x \in committed, NEW p \in Pages, Absent(w, p, 0, m)
          PROVE  x[p] = View(w, d, m)[p]
      <4>1. ASSUME NEW i \in 1..m, x[p] = w[i].version PROVE FALSE
        <5>1. PICK j \in 1..m : w[j].pgno = p
          BY <4>1, <3>4, <2>2 DEF HistoryInv, WrittenOK, Written
        <5> QED
          BY <5>1, <3>4 DEF Absent
      <4>2. View(w, d, m)[p] = d[p]
        BY <3>4, <2>3, ViewAt
      <4> QED
        BY <4>1, <4>2, <3>2
    <3> QED
      BY <3>2, <3>3, <3>4, <2>2, <2>8 DEF Now, Supplies
  <2> QED
    BY <2>7, <2>8
<1>11. TailFiles'
  <2> SUFFICES ASSUME Lost, overrun' \cap {"files", "torn"} = {}
               PROVE  /\ hdr = info.salt =>
                           /\ NewerIn(wal, mx, replay', end)
                           /\ Match(wal, mx, last') /\ replay' \in committed => Now(replay', end)
                      /\ hdr # info.salt =>
                           /\ NoneLeft(wal, info.salt, end)
                           /\ replay' \in committed => Now(replay', 0)
                           /\ mx > 0 => \A p \in Pages : replay'[p] <= wal[mx].version
    BY <1>2, <1>5, <1>8 DEF TailFiles, Newer, Matches, Now
  <2> QED
    BY <1>10
<1> QED
  BY <1>2, <1>9, <1>11 DEF TailInv, TailVerified, TailCopy

(* The steps of SQLite, as the actions take them. *)
LEMMA CommitTail ==
  ASSUME Inv, HistoryInv, TailInv, version <= MaxVersion,
         NEW P \in SUBSET Pages, P # {}, Commit(P), Aside
  PROVE  HistoryInv' /\ TailInv'
<1>1. SQLiteInv /\ DBShape /\ LockOK /\ SyncInv /\ LastOK
  BY InvIs DEF FilesInv
<1>2. version + 1 \in Version /\ UNCHANGED files
  BY <1>1, VersionAssumption DEF SQLiteInv, SQLiteShape, Version, Aside, files
<1>3. CASE Appends(P)
  <2>1. HistoryInv'
    BY <1>1, <1>2, <1>3, HistoryAppend
  <2> QED
    BY <2>1, <1>1, <1>3, TailAppend
<1>4. CASE Resets /\ (mx = 0 \/ MayRestart)
  <2>1. pc = "verified" => rmark <= 0 /\ nbackfill = mx
    BY <1>1, <1>4 DEF MayRestart, LockOK, DBShape, SQLiteInv, SQLiteShape
  <2> QED
    BY <2>1, <1>1, <1>2, <1>4, HistoryReset, TailReset
<1> QED
  BY <1>1, <1>2, <1>3, <1>4, CommitIs

LEMMA TruncateTail ==
  ASSUME Inv, HistoryInv, TailInv, dbfile' = View(wal, dbfile, mx),
         wal' = <<>>, hdr' = 0, mx' = 0, nbackfill' = 0, overrun' = Overrun,
         UNCHANGED <<version, committed>>, Aside,
         pc = "verified" => rmark <= 0 /\ nbackfill = mx
  PROVE  HistoryInv' /\ TailInv'
<1>1. SQLiteInv /\ DBShape /\ LastOK
  BY InvIs DEF FilesInv
<1>2. Resets /\ UNCHANGED files
  BY <1>1, TruncateIs DEF Aside, files
<1> QED
  BY <1>1, <1>2, HistoryReset, TailReset

LEMMA FillTail ==
  ASSUME Inv, HistoryInv, TailInv, NEW n \in Nat, nbackfill <= n, n <= mx, Backfill(n),
         Aside, overrun' = overrun \/ overrun' = overrun \cup {"copy"},
         pc \in {"verified", "copying"} /\ info.snapshotting =>
           (rmark > 0 /\ n <= rmark) \/ "copy" \in overrun'
  PROVE  HistoryInv' /\ TailInv'
<1>1. SQLiteInv /\ DBShape
  BY InvIs
<1>2. nbackfill \in Nat
  BY <1>1 DEF SQLiteInv, SQLiteShape
<1>3. Fills(n) /\ UNCHANGED files
  BY <1>2, OverlayIsView DEF Backfill, Fills, Aside, files
<1> QED
  BY <1>1, <1>3, HistoryFill, TailFill

LEMMA AppTail ==
  ASSUME Inv, HistoryInv, TailInv,
         AppCheckpoint \/ AppTruncate \/ \E P \in (SUBSET Pages) \ {{}} : AppCommit(P)
  PROVE  HistoryInv' /\ TailInv'
<1>1. SQLiteInv /\ DBShape /\ LockOK
  BY InvIs
<1>2. ASSUME NEW P \in (SUBSET Pages) \ {{}}, AppCommit(P) PROVE HistoryInv' /\ TailInv'
  <2>1. version < MaxVersion /\ Commit(P) /\ Aside
    BY <1>2 DEF AppCommit, Aside
  <2>2. P \in SUBSET Pages /\ P # {} /\ version <= MaxVersion
    BY <2>1, <1>1, VersionAssumption DEF SQLiteInv, SQLiteShape
  <2> QED
    BY <2>1, <2>2, CommitTail
<1>3. CASE AppCheckpoint
  <2>1. PICK n : /\ n = IF rmark > 0 THEN rmark ELSE mx
                 /\ nbackfill < n /\ Backfill(n)
    BY <1>3 DEF AppCheckpoint
  <2>2. /\ rmark # 0 /\ Aside
        /\ overrun' = overrun \cup (IF rmark = -1 /\ info.snapshotting THEN {"copy"} ELSE {})
    BY <1>3 DEF AppCheckpoint, Aside
  <2>o. overrun' = overrun \/ overrun' = overrun \cup {"copy"}
    BY <2>2
  <2>3. /\ mx \in Nat /\ nbackfill \in Nat /\ rmark \in Int /\ rmark >= -1 /\ rmark <= mx
    BY <1>1 DEF SQLiteInv, SQLiteShape, DBShape
  <2>4. n \in Nat /\ nbackfill <= n /\ n <= mx
    BY <2>1, <2>3
  <2>5. info.snapshotting => (rmark > 0 /\ n <= rmark) \/ "copy" \in overrun'
    <3>1. CASE rmark = -1
      BY <3>1, <2>2
    <3>2. CASE rmark # -1
      BY <3>2, <2>1, <2>2, <2>3
    <3> QED
      BY <3>1, <3>2
  <2> QED
    BY <2>1, <2>2, <2>o, <2>4, <2>5, FillTail
<1>4. CASE AppTruncate
  <2>1. /\ MayRestart /\ wal' = <<>> /\ hdr' = 0 /\ mx' = 0 /\ nbackfill' = 0
        /\ overrun' = Overrun /\ dbfile' = dbfile /\ UNCHANGED <<version, committed>> /\ Aside
    BY <1>4 DEF AppTruncate, TruncateWAL, Aside
  <2>2. dbfile' = View(wal, dbfile, mx)
    BY <2>1, <1>1 DEF SQLiteInv, DatabaseOK, MayRestart
  <2>3. pc = "verified" => rmark <= 0 /\ nbackfill = mx
    BY <2>1, <1>1 DEF MayRestart, LockOK, DBShape
  <2> QED
    BY <2>1, <2>2, <2>3, TruncateTail
<1> QED
  BY <1>2, <1>3, <1>4

LEMMA CheckpointTail ==
  ASSUME Inv, HistoryInv, TailInv, ChkBump \/ \E mode \in Modes : ChkPragma(mode)
  PROVE  HistoryInv' /\ TailInv'
<1>1. SQLiteInv /\ VersionOK
  BY InvIs
<1>2. CASE ChkBump
  <2>1. pc = "bump" /\ Commit({SeqPage}) /\ Aside
    BY <1>2 DEF ChkBump, Aside
  <2>2. {SeqPage} \in SUBSET Pages /\ {SeqPage} # {} /\ version <= MaxVersion
    BY <2>1, <1>1, PagesAssumption DEF VersionOK
  <2> QED
    BY <2>1, <2>2, CommitTail
<1>3. ASSUME NEW mode \in Modes, ChkPragma(mode) PROVE HistoryInv' /\ TailInv'
  <2>1. pc = "pragma" /\ pc' = "reacquire" /\ UNCHANGED files /\ Aside
    BY <1>3 DEF ChkPragma, Aside
  <2>2. CASE UNCHANGED <<sqlite, overrun>>
    <3>1. UNCHANGED <<sqlite, files>> /\ overrun' = overrun /\ pc' \notin {"verified", "copying"}
      BY <2>1, <2>2
    <3> QED
      BY <3>1, TailQuiet
  <2>3. CASE Backfill(mx) /\ UNCHANGED overrun
    <3>1. PICK n : n = mx
      OBVIOUS
    <3>2. n \in Nat /\ nbackfill <= n /\ n <= mx /\ Backfill(n) /\ pc \notin {"verified", "copying"}
      BY <3>1, <2>1, <2>3, <1>1 DEF SQLiteInv, SQLiteShape
    <3> QED
      BY <3>2, <2>1, <2>3, FillTail
  <2>4. CASE /\ dbfile' = Current
             /\ wal' = <<>> /\ hdr' = 0 /\ mx' = 0 /\ nbackfill' = 0
             /\ overrun' = Overrun
             /\ UNCHANGED <<version, committed>>
    <3>1. dbfile' = View(wal, dbfile, mx) /\ pc # "verified"
      BY <2>1, <2>4, OverlayIsView
    <3> QED
      BY <3>1, <2>1, <2>4, TruncateTail
  <2> QED
    BY <1>3, <2>2, <2>3, <2>4 DEF ChkPragma
<1> QED
  BY <1>2, <1>3

LEMMA SyncStartTail ==
  ASSUME Inv, HistoryInv, TailInv, SyncStart
  PROVE  HistoryInv' /\ TailInv'
<1>1. pc = "idle" /\ pc' = "verify" /\ UNCHANGED files /\ Aside
  BY DEF SyncStart, Aside
<1>2. CASE hdr # 0
  <2>1. UNCHANGED <<sqlite, files>> /\ overrun' = overrun /\ pc' \notin {"verified", "copying"}
    BY <1>1, <1>2 DEF SyncStart
  <2> QED
    BY <2>1, TailQuiet
<1>3. CASE hdr = 0
  <2>1. Commit({SeqPage}) /\ version <= MaxVersion
    BY <1>3 DEF SyncStart, Inv, VersionOK
  <2>2. {SeqPage} \in SUBSET Pages /\ {SeqPage} # {}
    BY PagesAssumption
  <2> QED
    BY <2>1, <2>2, <1>1, CommitTail
<1> QED
  BY <1>2, <1>3

LEMMA PowerLossTail ==
  ASSUME Inv, HistoryInv, TailInv, PowerLoss
  PROVE  HistoryInv' /\ TailInv'
<1>1. SQLiteInv /\ DBShape /\ LossOnce
  BY InvIs DEF HistoryInv
<1>2. /\ "loss" \notin overrun /\ pc' = "down" /\ UNCHANGED files
  BY DEF PowerLoss, Down
<1>3. PICK n \in Nat : Cuts(n)
  BY <1>1, PowerLossCuts
<1> QED
  BY <1>1, <1>2, <1>3, HistoryCut, TailCut

(* The other steps change neither SQLite's files nor the L0 files. *)
LEMMA QuietTail ==
  ASSUME Inv, HistoryInv, TailInv,
         Open \/ ChkStart \/ ChkRelease \/ ChkReacquire \/ ChkLock \/ ChkFail \/ Stop
  PROVE  HistoryInv' /\ TailInv'
<1>1. /\ UNCHANGED <<sqlite, files>> /\ pc' \notin {"verified", "copying"}
      /\ overrun' = overrun \/ overrun' = overrun \ {"copy"}
  BY DEF Open, ChkStart, ChkRelease, ChkReacquire, ChkLock, ChkFail, Stop, Down
<1> QED
  BY <1>1, TailQuiet

LEMMA StutterTail ==
  ASSUME HistoryInv, TailInv, UNCHANGED vars
  PROVE  HistoryInv' /\ TailInv'
<1>1. UNCHANGED <<version, dbfile, wal, hdr, mx, nbackfill, committed, rmark, pc, info,
                  pageMap, buf, end, last, replay, overrun>>
  BY DEF vars, sqlite, syncing, files
<1>2. UNCHANGED <<sqlite, files>>
  BY DEF vars
<1>3. HistoryInv' /\ TailFiles'
  BY <1>1, <1>2, TailQuiet
<1>4. TailVerified'
  BY <1>1 DEF TailInv, TailVerified, Lost, Matches, Leftover
<1>5. TailCopy'
  <2>1. Target' = Target
    BY <1>1 DEF Target, Source
  <2>2. (CopyHere => CopyHere') /\ (CopyLeftover => CopyLeftover')
    BY <1>1 DEF CopyHere, CopyLeftover
  <2>3. CopyOnTop => CopyOnTop'
    BY <2>1, <1>1 DEF CopyOnTop
  <2> QED
    BY <2>2, <2>3, <1>1 DEF TailInv, TailCopy, Lost
<1> QED
  BY <1>3, <1>4, <1>5 DEF TailInv

LEMMA TailNext == Inv /\ HistoryInv /\ TailInv /\ [Next]_vars => HistoryInv' /\ TailInv'
<1> SUFFICES ASSUME Inv, HistoryInv, TailInv, [Next]_vars PROVE HistoryInv' /\ TailInv'
  OBVIOUS
<1>1. CASE AppCheckpoint \/ AppTruncate \/ \E P \in (SUBSET Pages) \ {{}} : AppCommit(P)
  BY <1>1, AppTail
<1>2. CASE SyncStart
  BY <1>2, SyncStartTail
<1>3. CASE Verify
  BY <1>3, VerifyTail
<1>4. CASE PageMap
  BY <1>4, PageMapTail
<1>5. CASE CopyPage
  BY <1>5, CopyPageTail
<1>6. CASE Rename
  BY <1>6, RenameTail
<1>7. CASE ChkBump \/ \E mode \in Modes : ChkPragma(mode)
  BY <1>7, CheckpointTail
<1>8. CASE Open \/ ChkStart \/ ChkRelease \/ ChkReacquire \/ ChkLock \/ ChkFail \/ Stop
  BY <1>8, QuietTail
<1>9. CASE PowerLoss
  BY <1>9, PowerLossTail
<1>10. CASE UNCHANGED vars
  BY <1>10, StutterTail
<1> QED
  BY <1>1, <1>2, <1>3, <1>4, <1>5, <1>6, <1>7, <1>8, <1>9, <1>10 DEF Next

LEMMA InitTail == Init => HistoryInv /\ TailInv
<1> SUFFICES ASSUME Init PROVE HistoryInv /\ TailInv
  OBVIOUS
<1>1. /\ version = 0 /\ dbfile = [p \in Pages |-> 0] /\ committed = {dbfile}
      /\ wal = <<>> /\ mx = 0 /\ pc = "down" /\ last = NoFile /\ overrun = {}
  BY DEF Init
<1>2. LossOnce /\ ~Lost
  BY <1>1 DEF LossOnce, Lost
<1>3. LastPagesOK
  <2>1. last.pages = <<>>
    BY <1>1 DEF NoFile
  <2> QED
    BY <2>1 DEF LastPagesOK
<1>4. HistoryOK
  BY <1>1 DEF HistoryOK, Bounded, Unique
<1>5. OrderOK /\ WrittenOK
  BY <1>1 DEF OrderOK, SaltsFall, VersionsRise, After, WrittenOK, Written
<1>6. TailInv
  BY <1>2 DEF TailInv, TailFiles, TailVerified, TailCopy
<1> QED
  BY <1>2, <1>3, <1>4, <1>5, <1>6 DEF HistoryInv

(* An increment is put on top of files that restore to a state of the database
   only if the WAL continues that state. *)
LEMMA RenameContinues ==
  ASSUME Inv, TailInv, Rename, ~info.snapshotting, overrun \subseteq {"loss", "tail"},
         replay \in committed
  PROVE  replay' \in committed
<1>1. DBShape /\ CopyOK
  BY DEF Inv
<1>2. /\ pc = "copying" /\ Uncopied = {}
      /\ replay' = [p \in Pages |-> IF p \in DOMAIN buf THEN buf[p] ELSE replay[p]]
  BY DEF Rename
<1>3. MapOK /\ (Clean => TargetOK) /\ DOMAIN pageMap \subseteq DOMAIN buf
  BY <1>1, <1>2 DEF CopyOK, Uncopied
<1>4. Target \in committed /\ \A p \in DOMAIN buf : buf[p] = Target[p]
  <2>1. CASE "tail" \notin overrun
    <3>1. Clean
      BY <2>1 DEF Clean
    <3> QED
      BY <3>1, <1>3 DEF TargetOK
  <2>2. CASE "tail" \in overrun
    <3>1. CopyOnTop
      BY <2>2, <1>2 DEF TailInv, TailCopy, Lost
    <3>2. info.salt = hdr /\ Target \in committed /\ DOMAIN buf \subseteq DOMAIN pageMap
      BY <3>1 DEF CopyOnTop
    <3>3. ASSUME NEW p \in DOMAIN buf PROVE buf[p] = Target[p]
      <4>1. p \in DOMAIN pageMap /\ p \in Pages
        BY <3>2, <1>1 DEF DBShape
      <4> QED
        BY <4>1, <3>2, <1>3 DEF MapOK, Target
    <3> QED
      BY <3>2, <3>3
  <2> QED
    BY <2>1, <2>2
<1>5. ASSUME NEW p \in Pages PROVE replay'[p] = Target[p]
  <2>1. CASE p \in DOMAIN buf
    BY <2>1, <1>2, <1>4
  <2>2. CASE p \notin DOMAIN buf
    BY <2>2, <1>2, <1>3 DEF Target, Source
  <2> QED
    BY <2>1, <2>2
<1>6. Target = [p \in Pages |-> Target[p]] /\ replay' = [p \in Pages |-> replay'[p]]
  BY <1>2 DEF Target
<1>7. replay' = Target
  BY <1>5, <1>6
<1> QED
  BY <1>2, <1>4, <1>7

-----------------------------------------------------------------------------
(* The theorems. *)

(* However applications and checkpoints interleave with a sync (DB.sync,
   DB.checkpoint), the invariant above is kept. *)
THEOREM Invariance == Spec => []Inv
<1>1. Init => Inv
  BY InitInv
<1>2. Inv /\ [Next]_vars => Inv'
  BY NextKeeps
<1> QED
  BY <1>1, <1>2, PTL DEF Spec

(* The variables of DB and of the files it reads hold what they can hold. *)
THEOREM TypeCorrect == Spec => []TypeOK
<1>1. Inv => TypeOK
  <2> SUFFICES ASSUME Inv PROVE TypeOK
    OBVIOUS
  <2>1. SQLiteShape /\ DBShape
    BY DEF Inv
  <2>2. \A x \in Nat : x <= version => x \in Version
    BY <2>1, VersionAssumption DEF SQLiteShape, Version
  <2>3. /\ version \in Version /\ dbfile \in State /\ committed \subseteq State
        /\ hdr \in Version
    BY <2>1, <2>2 DEF SQLiteShape
  <2>4. \A i \in DOMAIN wal : wal[i] \in Frame
    BY <2>1 DEF SQLiteShape
  <2>5. mx \in 0..Len(wal) /\ nbackfill \in 0..mx /\ rmark \in -1..mx
    BY <2>1 DEF SQLiteShape, DBShape
  <2>6. info.salt \in Version /\ hdr0 \in Version /\ last.salt \in Version
    BY <2>1, <2>2 DEF DBShape
  <2> QED
    BY <2>1, <2>3, <2>4, <2>5, <2>6 DEF TypeOK, DBShape
<1> QED
  BY <1>1, Invariance, PTL

(* The L0 files restore to a state the database had, unless the WAL was
   restarted over what they lack or a power loss took what they hold. *)
THEOREM FilesRestoreCommitted == Spec => []ReplayCommitted
<1>1. Inv => ReplayCommitted
  BY DEF Inv, FilesOK, Sound, ReplayCommitted
<1> QED
  BY <1>1, Invariance, PTL

(* writeLTXFromDB writes the database as it was at one moment, whatever is
   committed or backfilled while it copies. *)
THEOREM SnapshotsAreFull == Spec => []SnapshotIsFull
<1>1. Inv => SnapshotIsFull
  BY DEF Inv, SnapshotOK, SnapshotIsFull, SnapshotRequired
<1> QED
  BY <1>1, Invariance, PTL

(* A sync that returns early ("no new wal pages") has nothing to add. *)
THEOREM SkipsNothingNew == Spec => NothingNewWhenSkipped
<1> DEFINE A == /\ pc = "verified" /\ pc' \in {"idle", "exec"}
                /\ overrun \cap {"files", "torn", "tail"} = {}
                /\ last # NoFile /\ hdr = last.salt
                => replay = Current
<1>1. Inv /\ [Next]_vars => [A]_vars
  <2> SUFFICES ASSUME Inv, Next, pc = "verified", pc' \in {"idle", "exec"},
                      overrun \cap {"files", "torn", "tail"} = {},
                      last # NoFile, hdr = last.salt
               PROVE  replay = Current
    OBVIOUS
  <2>1. PageMap
    <3>1. ~AppCheckpoint /\ ~AppTruncate /\ ~Open /\ ~SyncStart /\ ~Verify /\ ~CopyPage
          /\ ~Rename /\ ~ChkStart /\ ~ChkRelease /\ ~ChkReacquire /\ ~ChkBump /\ ~ChkLock
          /\ ~ChkFail
      BY DEF AppCheckpoint, AppTruncate, Open, SyncStart, Verify, CopyPage, Rename,
             ChkStart, ChkRelease, ChkReacquire, ChkBump, ChkLock, ChkFail
    <3>2. ~Stop /\ ~PowerLoss
      BY DEF Stop, PowerLoss, Down
    <3>3. ASSUME NEW P \in (SUBSET Pages) \ {{}}, AppCommit(P) PROVE FALSE
      BY <3>3 DEF AppCommit
    <3>4. ASSUME NEW mode \in Modes, ChkPragma(mode) PROVE FALSE
      BY <3>4 DEF ChkPragma
    <3> QED
      BY <3>1, <3>2, <3>3, <3>4 DEF Next
  <2>2. SQLiteInv /\ DBShape /\ FilesOK /\ LastOK /\ Sound /\ "tail" \notin overrun
    BY DEF Inv, SQLiteInv, Sound
  <2>3. hdr # 0 /\ Base = last.end
    BY <2>2 DEF LastOK, Base
  <2>4. ~info.snapshotting /\ ReadTo = Reader.offset
    BY <2>1, <2>3 DEF PageMap
  <2>5. Reader.offset = Base /\ Reader.salt = hdr
    BY <2>2, <2>3, <2>4, ReaderGoesOn
  <2>6. Base = mx
    BY <2>2, <2>3, <2>4, <2>5, ReadsAll
  <2>7. PICK w, d, nb, m, r : /\ w = wal /\ d = dbfile /\ nb = nbackfill /\ m = mx
                              /\ r = replay
    OBVIOUS
  <2>8. nb \in Nat /\ m \in Nat /\ nb <= m /\ Continued(w, d, nb, m, r, m)
    BY <2>2, <2>6, <2>7 DEF SQLiteInv, SQLiteShape, FilesOK, Continues
  <2>9. \A p \in Pages : Absent(w, p, m, m)
    BY <2>8 DEF Absent
  <2>10. \A p \in Pages : r[p] = View(w, d, m)[p]
    BY <2>8, <2>9, ContinuedEnd
  <2>11. r = View(w, d, m)
    <3>1. View(w, d, m) = [p \in Pages |-> View(w, d, m)[p]]
      BY DEF View
    <3>2. r = [p \in Pages |-> r[p]]
      BY <2>2, <2>7 DEF DBShape, State
    <3> QED
      BY <3>1, <3>2, <2>10
  <2> QED
    BY <2>7, <2>11, OverlayIsView
<1>2. NothingNewWhenSkipped <=> [][A]_vars
  BY PTL DEF NothingNewWhenSkipped
<1> QED
  BY <1>1, <1>2, Invariance, PTL DEF Spec

(* After a power loss took frames that the files hold, too, what verify looks up
   and what DB.sync copies fit together. *)
THEOREM TailInvariance == Spec => [](HistoryInv /\ TailInv)
<1>1. Init => HistoryInv /\ TailInv
  BY InitTail
<1>2. Inv /\ (HistoryInv /\ TailInv) /\ [Next]_vars => (HistoryInv /\ TailInv)'
  BY TailNext
<1> QED
  BY <1>1, <1>2, Invariance, PTL DEF Spec

(* A file of WAL pages only is never put on top of files that the WAL does not
   continue, even when SQLite has gone on writing where frames that were copied
   used to be (verify, writeLTXFromWAL). *)
THEOREM IncrementsContinue == Spec => IncrementContinues
<1> DEFINE A == overrun \subseteq {"loss", "tail"} /\ replay \in committed /\ ~last'.snapshot
                => replay' \in committed
<1>1. Inv /\ TailInv /\ [Next]_vars => [A]_vars
  <2> SUFFICES ASSUME Inv, TailInv, Next, overrun \subseteq {"loss", "tail"},
                      replay \in committed, ~last'.snapshot
               PROVE  replay' \in committed
    OBVIOUS
  <2>1. CASE Rename
    <3>1. ~info.snapshotting
      BY <2>1 DEF Rename
    <3> QED
      BY <3>1, <2>1, RenameContinues
  <2>2. CASE ~Rename
    <3>1. replay' = replay
      BY <2>2 DEF Next, AppCommit, AppCheckpoint, AppTruncate, Open, SyncStart, Verify, PageMap,
        CopyPage, ChkStart, ChkRelease, ChkPragma, ChkReacquire, ChkBump, ChkLock, ChkFail, Stop,
        PowerLoss, Down, files
    <3> QED
      BY <3>1
  <2> QED
    BY <2>1, <2>2
<1>2. IncrementContinues <=> [][A]_vars
  BY PTL DEF IncrementContinues
<1> QED
  BY <1>1, <1>2, Invariance, TailInvariance, PTL DEF Spec

=============================================================================
