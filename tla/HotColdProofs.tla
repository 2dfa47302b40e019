---------------------------- MODULE HotColdProofs ----------------------------
(***************************************************************************)
(* Proofs about HotCold: for any set of databases, any limit and every     *)
(* fault, the two tiers stay apart, the detector knows of every hot        *)
(* database, and a scan that is over leaves no more than maxHotDBs.        *)
(***************************************************************************)
EXTENDS HotCold, FiniteSetTheorems, TLAPS

-----------------------------------------------------------------------------
(* The inductive invariant. *)

Listed == {hotList[i] : i \in 1..Len(hotList)}

(* A scan visits a database once, so newHotList holds it once, and only when
   it has been visited: evicting one entry leaves no stale one behind. *)
ListOK ==
  /\ hotList \in Seq(Paths)
  /\ Listed \cap todo = {}
  /\ \A i, j \in 1..Len(hotList) : hotList[i] = hotList[j] => i = j

(* Whatever is hot and was looked at by the running scan is in newHotList. *)
ScanCounts == scan = "scan" => hotDatabases \subseteq Listed \cup missed \cup todo

Inv ==
  /\ TypeOK
  /\ ListOK
  /\ TiersDisjoint
  /\ HotIsTracked
  /\ ScanCounts
  /\ HotLimit

-----------------------------------------------------------------------------
(* A list of n entries names at most n databases. *)
LEMMA ListedIsBounded ==
  ASSUME hotList \in Seq(Paths), NEW S \in SUBSET Listed
  PROVE  Cardinality(S) <= Len(hotList)
<1> DEFINE n == Len(hotList)
<1>1. n \in Nat
  OBVIOUS
<1>2. hotList \in Surjection(1..n, Listed)
  BY DEF Surjection, Listed
<1>3. IsFiniteSet(1..n) /\ Cardinality(1..n) = n
  BY <1>1, FS_Interval
<1>4. IsFiniteSet(Listed) /\ Cardinality(Listed) <= n
  <2> HIDE DEF n
  <2> QED BY <1>2, <1>3, FS_Surjection
<1>5. Cardinality(S) <= Cardinality(Listed) /\ Cardinality(S) \in Nat
  BY <1>4, FS_Subset, FS_CardinalityType
<1>6. Cardinality(Listed) \in Nat
  BY <1>4, FS_CardinalityType
<1> QED BY <1>1, <1>4, <1>5, <1>6

(* Appending a database that is still to be visited, and leaving it out. *)
LEMMA AppendKeepsList ==
  ASSUME ListOK, NEW p \in todo, p \in Paths,
         hotList' = Append(hotList, p), todo' = todo \ {p}
  PROVE  ListOK' /\ Listed' = Listed \cup {p}
<1>1. /\ hotList' \in Seq(Paths) /\ Len(hotList') = Len(hotList) + 1
      /\ \A i \in 1..Len(hotList) : hotList'[i] = hotList[i]
      /\ hotList'[Len(hotList) + 1] = p
  BY DEF ListOK
<1>2. Len(hotList) \in Nat
  BY DEF ListOK
<1>3. Listed' = Listed \cup {p}
  <2>1. ASSUME NEW x \in Listed' PROVE x \in Listed \cup {p}
    BY <1>1, <1>2, <2>1 DEF Listed
  <2>2. ASSUME NEW x \in Listed \cup {p} PROVE x \in Listed'
    BY <1>1, <1>2, <2>2 DEF Listed
  <2> QED BY <2>1, <2>2
<1>4. p \notin Listed
  BY DEF ListOK
<1>5. \A i \in 1..Len(hotList) : hotList[i] # p
  BY <1>4 DEF Listed
<1>6. \A i, j \in 1..Len(hotList') : hotList'[i] = hotList'[j] => i = j
  BY <1>1, <1>2, <1>5 DEF ListOK
<1>7. Listed' \cap todo' = {}
  BY <1>3 DEF ListOK
<1> QED BY <1>1, <1>3, <1>6, <1>7 DEF ListOK

LEMMA VisitKeepsList ==
  ASSUME ListOK, todo' \subseteq todo, hotList' = hotList
  PROVE  ListOK' /\ Listed' = Listed
BY DEF ListOK, Listed

LEMMA EmptyList ==
  ASSUME hotList' = <<>>
  PROVE  ListOK' /\ Listed' = {}
BY DEF ListOK, Listed

(* Eviction of the first entry. *)
LEMMA TailKeepsList ==
  ASSUME ListOK, hotList # <<>>, hotList' = Tail(hotList), todo' = todo
  PROVE  /\ ListOK'
         /\ Head(hotList) \in Listed
         /\ Listed' = Listed \ {Head(hotList)}
<1>1. /\ hotList' \in Seq(Paths) /\ Len(hotList') = Len(hotList) - 1
      /\ \A i \in 1..Len(hotList') : hotList'[i] = hotList[i + 1]
      /\ Head(hotList) = hotList[1] /\ Len(hotList) \in Nat /\ Len(hotList) > 0
  BY DEF ListOK
<1>2. Head(hotList) \in Listed
  BY <1>1 DEF Listed
<1>3. Listed' = Listed \ {Head(hotList)}
  <2>1. ASSUME NEW x \in Listed' PROVE x \in Listed \ {Head(hotList)}
    <3>1. PICK i \in 1..Len(hotList') : x = hotList'[i]
      BY <2>1 DEF Listed
    <3>2. i + 1 \in 1..Len(hotList) /\ 1 \in 1..Len(hotList) /\ x = hotList[i + 1]
      BY <1>1, <3>1
    <3>3. hotList[i + 1] # hotList[1]
      BY <3>1, <3>2 DEF ListOK
    <3> QED BY <1>1, <3>2, <3>3 DEF Listed
  <2>2. ASSUME NEW x \in Listed \ {Head(hotList)} PROVE x \in Listed'
    <3>1. PICK i \in 1..Len(hotList) : x = hotList[i]
      BY <2>2 DEF Listed
    <3>2. i # 1
      BY <1>1, <2>2, <3>1
    <3>3. i - 1 \in 1..Len(hotList') /\ hotList'[i - 1] = x
      BY <1>1, <3>1, <3>2
    <3> QED BY <3>3 DEF Listed
  <2> QED BY <2>1, <2>2
<1>4. \A i, j \in 1..Len(hotList') : hotList'[i] = hotList'[j] => i = j
  <2> SUFFICES ASSUME NEW i \in 1..Len(hotList'), NEW j \in 1..Len(hotList'),
                      hotList'[i] = hotList'[j]
               PROVE  i = j
    OBVIOUS
  <2>1. i + 1 \in 1..Len(hotList) /\ j + 1 \in 1..Len(hotList)
        /\ hotList[i + 1] = hotList[j + 1]
    BY <1>1
  <2>2. i + 1 = j + 1
    BY <2>1 DEF ListOK
  <2> QED BY <2>2
<1> QED BY <1>1, <1>2, <1>3, <1>4 DEF ListOK

-----------------------------------------------------------------------------
(* Promotion and demotion keep the tiers apart and the replicas hot. *)

TiersOK == TiersDisjoint /\ hotReplicas \subseteq hotDatabases

LEMMA PromoteKeepsTiers ==
  ASSUME TiersOK, NEW p, promoteToHot(p)
  PROVE  /\ TiersOK'
         /\ hotDatabases' \subseteq hotDatabases \cup {p}
<1>1. CASE p \in hotDatabases
  BY <1>1 DEF promoteToHot, TiersOK, TiersDisjoint, tiers
<1>2. CASE p \notin hotDatabases
  <2>1. PICK open \in Outcomes("open", {p}) : \E replica \in Outcomes("replica", open) :
            /\ hotDatabases' = hotDatabases \cup open
            /\ hotReplicas' = hotReplicas \cup replica
    BY <1>2 DEF promoteToHot
  <2>2. PICK replica \in Outcomes("replica", open) :
            /\ hotDatabases' = hotDatabases \cup open
            /\ hotReplicas' = hotReplicas \cup replica
    BY <2>1
  <2>3. open \subseteq {p} /\ replica \subseteq open
    BY DEF Outcomes
  <2> QED BY <1>2, <2>2, <2>3 DEF promoteToHot, TiersOK, TiersDisjoint
<1> QED BY <1>1, <1>2

LEMMA DemoteKeepsTiers ==
  ASSUME TiersOK, NEW p, demoteToCold(p)
  PROVE  /\ TiersOK' /\ exists' = exists /\ changed' \subseteq changed \cup exists
         /\ hotDatabases' = hotDatabases \ {p}
BY DEF demoteToCold, TiersOK, TiersDisjoint, tiers, db

-----------------------------------------------------------------------------
(* A scan. *)

(* The hot databases that count are those the scan has listed. *)
LEMMA LimitWhenDone ==
  ASSUME ListOK, ScanCounts, scan = "scan", todo = {}, ~OverLimit
  PROVE  Cardinality(hotDatabases \ missed) <= maxHotDBs
<1>1. hotDatabases \ missed \in SUBSET Listed
  BY DEF ScanCounts
<1>2. Cardinality(hotDatabases \ missed) <= Len(hotList)
  BY <1>1, ListedIsBounded DEF ListOK
<1>3. IsFiniteSet(Listed)
  <2>1. Len(hotList) \in Nat /\ hotList \in Surjection(1..Len(hotList), Listed)
    BY DEF Surjection, Listed, ListOK
  <2>2. IsFiniteSet(1..Len(hotList))
    BY <2>1, FS_Interval
  <2> QED BY <2>1, <2>2, FS_Surjection
<1>4. Cardinality(hotDatabases \ missed) \in Nat
  BY <1>1, <1>3, FS_Subset, FS_CardinalityType
<1> QED BY <1>2, <1>4, HotColdAssumption DEF OverLimit, ListOK

LEMMA ScanStartKeepsInv ==
  ASSUME Inv, ScanStart
  PROVE  Inv'
<1>1. ListOK' /\ Listed' = {}
  BY EmptyList DEF ScanStart
<1>2. TypeOK'
  BY DEF ScanStart, Inv, TypeOK, db, tiers, add
<1>3. TiersDisjoint' /\ HotIsTracked' /\ HotLimit'
  BY DEF ScanStart, Inv, TiersDisjoint, HotIsTracked, HotLimit, tiers
<1>4. ScanCounts'
  BY DEF ScanStart, Inv, ScanCounts, TypeOK, HotIsTracked, tiers
<1> QED BY <1>1, <1>2, <1>3, <1>4 DEF Inv

LEMMA ScanDeletedKeepsInv ==
  ASSUME Inv, NEW p \in Paths, ScanDeleted(p)
  PROVE  Inv'
<1>1. ListOK' /\ Listed' = Listed /\ p \notin Listed
  BY VisitKeepsList DEF ScanDeleted, Visit, Inv, ListOK
<1>2. /\ TiersOK' /\ exists' = exists /\ changed' \subseteq changed \cup exists
      /\ hotDatabases' = hotDatabases \ {p}
  <2>1. TiersOK
    BY DEF Inv, TypeOK, TiersOK
  <2>2. CASE p \in isHot
    BY <2>1, <2>2, DemoteKeepsTiers DEF ScanDeleted
  <2>3. CASE p \notin isHot
    BY <2>1, <2>3 DEF ScanDeleted, TiersOK, TiersDisjoint, tiers, db, Inv, HotIsTracked
  <2> QED BY <2>2, <2>3
<1>3. TypeOK'
  <2>1. \A i \in DOMAIN hotList' : hotList'[i] \in isHot'
    BY <1>1 DEF ScanDeleted, Inv, TypeOK, ListOK, Listed
  <2> QED BY <1>2, <2>1 DEF ScanDeleted, Visit, Inv, TypeOK, TiersOK, db, add
<1>4. TiersDisjoint' /\ HotIsTracked' /\ HotLimit' /\ ScanCounts'
  BY <1>1, <1>2 DEF ScanDeleted, Visit, Inv, TiersOK, HotIsTracked, HotLimit, ScanCounts
<1> QED BY <1>1, <1>3, <1>4 DEF Inv

LEMMA ScanUnknownKeepsInv ==
  ASSUME Inv, NEW p \in Paths, ScanUnknown(p)
  PROVE  Inv'
<1>1. ListOK' /\ Listed' = Listed
  BY VisitKeepsList DEF ScanUnknown, Visit, Inv
<1>2. TypeOK'
  BY DEF ScanUnknown, Visit, Inv, TypeOK, db, tiers, add
<1>3. TiersDisjoint' /\ HotIsTracked' /\ HotLimit' /\ ScanCounts'
  BY <1>1 DEF ScanUnknown, Visit, Inv, TiersDisjoint, HotIsTracked, HotLimit, ScanCounts, tiers
<1> QED BY <1>1, <1>2, <1>3 DEF Inv

LEMMA ScanModifiedKeepsInv ==
  ASSUME Inv, NEW p \in Paths, ScanModified(p)
  PROVE  Inv'
<1>1. ListOK' /\ Listed' = Listed \cup {p}
  BY AppendKeepsList DEF ScanModified, Visit, Inv
<1>2. /\ TiersOK'
      /\ hotDatabases' \subseteq hotDatabases \cup {p}
  <2>1. TiersOK
    BY DEF Inv, TypeOK, TiersOK
  <2>2. CASE p \in isHot
    BY <2>1, <2>2 DEF ScanModified, TiersOK, TiersDisjoint, tiers, db
  <2>3. CASE p \notin isHot
    BY <2>1, <2>3, PromoteKeepsTiers DEF ScanModified
  <2> QED BY <2>2, <2>3
<1>3. TypeOK'
  <2>1. \A i \in DOMAIN hotList' : hotList'[i] \in isHot'
    <3>1. \A x \in Listed : x \in isHot
      BY DEF Inv, TypeOK, ListOK, Listed
    <3>2. DOMAIN hotList' = 1..Len(hotList')
      BY <1>1 DEF ListOK
    <3> QED BY <1>1, <3>1, <3>2 DEF ScanModified, Listed
  <2> QED BY <1>2, <2>1 DEF ScanModified, Visit, Inv, TypeOK, TiersOK, db, add
<1>4. TiersDisjoint' /\ HotIsTracked' /\ HotLimit' /\ ScanCounts'
  BY <1>1, <1>2 DEF ScanModified, Visit, Inv, TiersOK, HotIsTracked, HotLimit, ScanCounts
<1> QED BY <1>1, <1>3, <1>4 DEF Inv

LEMMA ScanUnmodifiedKeepsInv ==
  ASSUME Inv, NEW p \in Paths, ScanUnmodified(p)
  PROVE  Inv'
<1>1. CASE p \in expired
  <2>1. ListOK' /\ Listed' = Listed /\ p \notin Listed
    BY <1>1, VisitKeepsList DEF ScanUnmodified, Visit, Inv, ListOK
  <2>2. /\ TiersOK' /\ exists' = exists /\ changed' \subseteq changed \cup exists
        /\ hotDatabases' = hotDatabases \ {p}
    BY <1>1, DemoteKeepsTiers DEF ScanUnmodified, Inv, TypeOK, TiersOK
  <2>3. TypeOK'
    <3>1. \A i \in DOMAIN hotList' : hotList'[i] \in isHot'
      BY <1>1, <2>1 DEF ScanUnmodified, Inv, TypeOK, ListOK, Listed
    <3> QED BY <1>1, <2>2, <3>1 DEF ScanUnmodified, Visit, Inv, TypeOK, TiersOK, db, add
  <2>4. TiersDisjoint' /\ HotIsTracked' /\ HotLimit' /\ ScanCounts'
    BY <1>1, <2>1, <2>2
    DEF ScanUnmodified, Visit, Inv, TiersOK, HotIsTracked, HotLimit, ScanCounts
  <2> QED BY <2>1, <2>3, <2>4 DEF Inv
<1>2. CASE p \notin expired /\ p \in isHot
  <2>1. ListOK' /\ Listed' = Listed \cup {p}
    BY <1>2, AppendKeepsList DEF ScanUnmodified, Visit, Inv
  <2>2. TypeOK'
    <3>1. \A i \in DOMAIN hotList' : hotList'[i] \in isHot'
      <4>1. \A x \in Listed : x \in isHot
        BY DEF Inv, TypeOK, ListOK, Listed
      <4>2. DOMAIN hotList' = 1..Len(hotList')
        BY <2>1 DEF ListOK
      <4> QED BY <1>2, <2>1, <4>1, <4>2 DEF ScanUnmodified, Listed
    <3> QED BY <1>2, <3>1 DEF ScanUnmodified, Visit, Inv, TypeOK, tiers, db, add
  <2>3. TiersDisjoint' /\ HotIsTracked' /\ HotLimit' /\ ScanCounts'
    BY <1>2, <2>1
    DEF ScanUnmodified, Visit, Inv, TiersDisjoint, HotIsTracked, HotLimit, ScanCounts, tiers
  <2> QED BY <2>1, <2>2, <2>3 DEF Inv
<1>3. CASE p \notin expired /\ p \notin isHot
  <2>1. ListOK' /\ Listed' = Listed
    BY <1>3, VisitKeepsList DEF ScanUnmodified, Visit, Inv
  <2>2. TypeOK'
    BY <1>3 DEF ScanUnmodified, Visit, Inv, TypeOK, tiers, db, add
  <2>3. TiersDisjoint' /\ HotIsTracked' /\ HotLimit' /\ ScanCounts'
    BY <1>3, <2>1
    DEF ScanUnmodified, Visit, Inv, TiersDisjoint, HotIsTracked, HotLimit, ScanCounts, tiers
  <2> QED BY <2>1, <2>2, <2>3 DEF Inv
<1> QED BY <1>1, <1>2, <1>3

LEMMA EvictKeepsInv ==
  ASSUME Inv, Evict
  PROVE  Inv'
<1> DEFINE h == Head(hotList)
<1>1. hotList # <<>>
  BY HotColdAssumption DEF Evict, OverLimit
<1>2. ListOK' /\ h \in Listed /\ Listed' = Listed \ {h}
  BY <1>1, TailKeepsList DEF Evict, Inv
<1>3. /\ TiersOK' /\ exists' = exists /\ changed' \subseteq changed \cup exists
      /\ hotDatabases' = hotDatabases \ {h}
  BY DemoteKeepsTiers DEF Evict, Inv, TypeOK, TiersOK
<1>4. TypeOK'
  <2>1. \A i \in DOMAIN hotList' : hotList'[i] \in isHot'
    <3>1. \A x \in Listed : x \in isHot
      BY DEF Inv, TypeOK, ListOK, Listed
    <3>2. DOMAIN hotList' = 1..Len(hotList')
      BY <1>2 DEF ListOK
    <3> QED BY <1>2, <3>1, <3>2 DEF Evict, Listed
  <2> QED BY <1>3, <2>1 DEF Evict, Inv, TypeOK, TiersOK, db, add
<1>5. TiersDisjoint' /\ HotIsTracked' /\ HotLimit' /\ ScanCounts'
  BY <1>2, <1>3 DEF Evict, Inv, TiersOK, HotIsTracked, HotLimit, ScanCounts
<1> QED BY <1>2, <1>4, <1>5 DEF Inv

LEMMA ScanEndKeepsInv ==
  ASSUME Inv, ScanEnd
  PROVE  Inv'
<1>1. ListOK' /\ Listed' = {}
  BY EmptyList DEF ScanEnd
<1>2. HotLimit'
  BY LimitWhenDone DEF ScanEnd, Inv, HotLimit, tiers
<1>3. TypeOK'
  BY DEF ScanEnd, Inv, TypeOK, db, tiers, add
<1>4. TiersDisjoint' /\ HotIsTracked' /\ ScanCounts'
  BY DEF ScanEnd, Inv, TiersDisjoint, HotIsTracked, ScanCounts, tiers
<1> QED BY <1>1, <1>2, <1>3, <1>4 DEF Inv

-----------------------------------------------------------------------------
(* Applications, time, AddDatabases and Stop leave the scan's list alone. *)

LEMMA SameList ==
  ASSUME ListOK, UNCHANGED <<hotList, todo>>
  PROVE  ListOK' /\ Listed' = Listed
BY DEF ListOK, Listed

LEMMA OtherStepsKeepInv ==
  ASSUME Inv,
         \/ \E p \in Paths : Create(p) \/ Checkpoint(p) \/ Unlink(p) \/ Elapse(p)
                            \/ AddTrack(p) \/ DemotionHangs(p)
         \/ AddStart \/ AddCold \/ Stop \/ UNCHANGED vars
  PROVE  Inv'
<1>1. ASSUME NEW p \in Paths, Create(p) \/ Checkpoint(p) \/ Unlink(p)
      PROVE  Inv'
  <2>1. /\ UNCHANGED <<detector, tiers, add, stopped>>
        /\ exists' \subseteq Paths /\ changed' \subseteq Paths
    BY <1>1 DEF Create, Checkpoint, Unlink, Inv, TypeOK
  <2>2. ListOK' /\ Listed' = Listed
    BY <2>1, SameList DEF detector, Inv
  <2>3. TypeOK'
    BY <2>1 DEF Inv, TypeOK, detector, tiers, add
  <2>4. TiersDisjoint' /\ HotIsTracked' /\ HotLimit' /\ ScanCounts'
    BY <2>1, <2>2 DEF Inv, TiersDisjoint, HotIsTracked, HotLimit, ScanCounts, detector, tiers
  <2> QED BY <2>2, <2>3, <2>4 DEF Inv
<1>2. ASSUME NEW p \in Paths, Elapse(p)
      PROVE  Inv'
  <2>1. ListOK' /\ Listed' = Listed
    BY <1>2, SameList DEF Elapse, Inv
  <2>2. TypeOK'
    BY <1>2 DEF Elapse, Inv, TypeOK, db, tiers, add
  <2>3. TiersDisjoint' /\ HotIsTracked' /\ HotLimit' /\ ScanCounts'
    BY <1>2, <2>1 DEF Elapse, Inv, TiersDisjoint, HotIsTracked, HotLimit, ScanCounts, tiers
  <2> QED BY <2>1, <2>2, <2>3 DEF Inv
<1>3. ASSUME NEW p \in Paths, AddTrack(p)
      PROVE  Inv'
  <2>1. ListOK' /\ Listed' = Listed
    BY <1>3, SameList DEF AddTrack, Inv
  <2>2. TypeOK'
    BY <1>3 DEF AddTrack, Inv, TypeOK, db, tiers
  <2>3. TiersDisjoint' /\ HotIsTracked' /\ HotLimit' /\ ScanCounts'
    BY <1>3, <2>1 DEF AddTrack, Inv, TiersDisjoint, HotIsTracked, HotLimit, ScanCounts, tiers
  <2> QED BY <2>1, <2>2, <2>3 DEF Inv
<1>4. ASSUME AddStart \/ AddCold \/ Stop \/ UNCHANGED vars
      PROVE  Inv'
  <2>1. UNCHANGED <<db, detector, hotDatabases>>
    BY <1>4 DEF AddStart, AddCold, Stop, vars, tiers
  <2>2. ListOK' /\ Listed' = Listed
    BY <2>1, SameList DEF detector, Inv
  <2>3. TypeOK'
    BY <1>4, <2>1
    DEF AddStart, AddCold, Stop, vars, Inv, TypeOK, detector, tiers, db, add
  <2>4. TiersDisjoint'
    BY <1>4 DEF AddStart, AddCold, Stop, vars, Inv, TiersDisjoint, tiers
  <2>5. HotIsTracked' /\ HotLimit' /\ ScanCounts'
    BY <2>1, <2>2 DEF Inv, HotIsTracked, HotLimit, ScanCounts, detector
  <2> QED BY <2>2, <2>3, <2>4, <2>5 DEF Inv
<1>5. ASSUME NEW p \in Paths, DemotionHangs(p)
      PROVE  Inv'
  <2>1. ListOK' /\ Listed' = Listed
    BY <1>5, SameList DEF DemotionHangs, Inv
  <2>2. TypeOK'
    BY <1>5 DEF DemotionHangs, Inv, TypeOK, db, tiers, add
  <2>3. TiersDisjoint' /\ HotIsTracked' /\ HotLimit' /\ ScanCounts'
    BY <1>5 DEF DemotionHangs, Inv, TiersDisjoint, HotIsTracked, HotLimit, ScanCounts, tiers
  <2> QED BY <2>1, <2>2, <2>3 DEF Inv
<1> QED BY <1>1, <1>2, <1>3, <1>4, <1>5

-----------------------------------------------------------------------------
LEMMA InitInv == Init => Inv
<1> SUFFICES ASSUME Init PROVE Inv
  OBVIOUS
<1>1. ListOK
  BY DEF Init, ListOK, Listed
<1>2. TypeOK /\ TiersDisjoint /\ HotIsTracked /\ ScanCounts
  <2>1. \A i \in DOMAIN hotList : hotList[i] \in isHot
    BY DEF Init
  <2>2. TypeOK
    BY <2>1 DEF Init, TypeOK
  <2> QED BY <2>2 DEF Init, TiersDisjoint, HotIsTracked, ScanCounts
<1>3. HotLimit
  <2>1. hotDatabases \ missed = {} /\ Cardinality({}) = 0
    BY FS_EmptySet DEF Init
  <2> QED BY <2>1, HotColdAssumption DEF HotLimit
<1> QED BY <1>1, <1>2, <1>3 DEF Inv

LEMMA NextKeepsInv == Inv /\ [Next]_vars => Inv'
BY ScanStartKeepsInv, ScanDeletedKeepsInv, ScanUnknownKeepsInv, ScanModifiedKeepsInv,
   ScanUnmodifiedKeepsInv, EvictKeepsInv, ScanEndKeepsInv, OtherStepsKeepInv
DEF Next

(* The tiers, the detector's view of them and the list of a running scan fit
   together after every step of applications, scans, AddDatabases and Stop. *)
THEOREM Invariance == Spec => []Inv
<1>1. Init => Inv
  BY InitInv
<1>2. Inv /\ [Next]_vars => Inv'
  BY NextKeepsInv
<1> QED BY <1>1, <1>2, PTL DEF Spec

(* Whatever is promoted or fails to be, the detector's sets stay within one
   another, and every replica the manager runs belongs to a hot database. *)
THEOREM TypeCorrect == Spec => []TypeOK
<1>1. Inv => TypeOK
  BY DEF Inv
<1> QED BY <1>1, Invariance, PTL

(* No interleaving of scans and AddDatabases puts a database in both tiers. *)
THEOREM TiersStayDisjoint == Spec => []TiersDisjoint
<1>1. Inv => TiersDisjoint
  BY DEF Inv
<1> QED BY <1>1, Invariance, PTL

(* A hot database is always one the detector knows to be hot, so that a scan
   can demote it: no failed promotion or removed file leaves one behind. *)
THEOREM HotStaysTracked == Spec => []HotIsTracked
<1>1. Inv => HotIsTracked
  BY DEF Inv
<1> QED BY <1>1, Invariance, PTL

(* performScan enforces the limit for any number of databases, however many
   change in one scan; those it could not look at are the exception. *)
THEOREM LimitEnforced == Spec => []HotLimit
<1>1. Inv => HotLimit
  BY DEF Inv
<1> QED BY <1>1, Invariance, PTL

=============================================================================
