------------------------------- MODULE HotCold -------------------------------
(***************************************************************************)
(* The hot/cold tiers of litestreampp: WriteDetector.performScan, which    *)
(* notices changed files and calls HotColdManager.promoteToHot and         *)
(* demoteToCold; HotColdManager.AddDatabases, which tells first the        *)
(* detector and then the manager of new files; and applications that       *)
(* create, checkpoint and remove databases meanwhile.  What promotion and  *)
(* demotion do to the goroutines and the files of a database is module     *)
(* Lifecycle's concern.                                                    *)
(*                                                                         *)
(* A scan holds the detector's mutex from start to end and visits the      *)
(* databases in the random order of a Go map; promotion and demotion hold  *)
(* the manager's.  Of a file's modification time and size the module keeps *)
(* whether they differ from those the detector recorded, of HotUntil       *)
(* whether it has passed.                                                  *)
(***************************************************************************)
EXTENDS Integers, Sequences, FiniteSets

CONSTANTS Paths,
          maxHotDBs,
          Faults     \* which calls may fail, or not return: a subset of AllFaults

AllFaults == {"stat", "open", "replica", "stop"}
ASSUME HotColdAssumption == maxHotDBs \in Nat /\ Faults \subseteq AllFaults

VARIABLES
  (* the databases *)
  exists,     \* the files that exist
  changed,    \* those changed since WriteState.LastModTime and LastSize were set
  (* WriteDetector *)
  databases,  \* the tracked paths
  isHot,      \* WriteState.IsHot
  expired,    \* of these, those whose HotUntil has passed
  hotList,    \* newHotList while a scan runs
  scan,       \* idle, scan, or hung in a demotion that does not return
  todo,       \* the databases the scan has yet to visit
  (* HotColdManager *)
  hotDatabases, coldDatabases, hotReplicas,
  adding,     \* AddDatabases runs
  toTrack,    \* the paths it has yet to give to the detector
  stopped,
  (* history *)
  missed      \* databases whose os.Stat failed in the last scan

db == <<exists, changed>>
detector == <<databases, isHot, expired, hotList, scan, todo, missed>>
tiers == <<hotDatabases, coldDatabases, hotReplicas>>
add == <<adding, toTrack>>
vars == <<db, detector, tiers, add, stopped>>

-----------------------------------------------------------------------------
Init ==
  /\ exists = {} /\ changed = {}
  /\ databases = {} /\ isHot = {} /\ expired = {}
  /\ hotList = <<>> /\ scan = "idle" /\ todo = {} /\ missed = {}
  /\ hotDatabases = {} /\ coldDatabases = {} /\ hotReplicas = {}
  /\ adding = FALSE /\ toTrack = {} /\ stopped = FALSE

-----------------------------------------------------------------------------
(* The database files: applications, and litestream where it writes to them. *)

Create(p) ==
  /\ p \notin exists
  /\ exists' = exists \cup {p} /\ changed' = changed \cup {p}
  /\ UNCHANGED <<detector, tiers, add, stopped>>

(* A checkpoint, an application's or litestream's own, or DB.init setting the
   journal mode, changes the database file; a transaction that stays in the WAL
   does not, and nothing here sees it. *)
Checkpoint(p) ==
  /\ p \in exists
  /\ changed' = changed \cup {p}
  /\ UNCHANGED <<exists, detector, tiers, add, stopped>>

Unlink(p) ==
  /\ p \in exists
  /\ exists' = exists \ {p}
  /\ UNCHANGED <<changed, detector, tiers, add, stopped>>

FileChanges == \E p \in Paths : Create(p) \/ Checkpoint(p) \/ Unlink(p)

-----------------------------------------------------------------------------
(* HotColdManager.promoteToHot and demoteToCold. *)

(* What a call that may fail can leave of its effect. *)
Outcomes(call, effect) == {effect} \cup (IF call \in Faults THEN {{}} ELSE {})

(* Mutant: the database stays in the cold tier. *)
promoteToHotKeepCold(p) ==
  /\ hotDatabases' = hotDatabases \cup {p} /\ hotReplicas' = hotReplicas \cup {p}
  /\ UNCHANGED coldDatabases

(* Out of the cold tier first; then Open, which may fail, and the replica,
   without which the database is hot all the same. *)
promoteToHot(p) ==
  IF p \in hotDatabases THEN UNCHANGED tiers
  ELSE /\ coldDatabases' = coldDatabases \ {p}
       /\ \E open \in Outcomes("open", {p}) : \E replica \in Outcomes("replica", open) :
            /\ hotDatabases' = hotDatabases \cup open
            /\ hotReplicas' = hotReplicas \cup replica

(* Mutant: the replica is not taken out of hotReplicas. *)
demoteToColdKeepReplica(p) ==
  IF p \notin hotDatabases THEN UNCHANGED <<db, tiers>>
  ELSE /\ hotDatabases' = hotDatabases \ {p}
       /\ coldDatabases' = coldDatabases \cup {p}
       /\ UNCHANGED <<db, hotReplicas>>

(* The replica is stopped and the database closed, whatever errors that
   reports, and it goes into the cold tier.  If litestream's was the last
   connection, SQLite copies the WAL, which it keeps, into the database file:
   the detector will take that for a write. *)
demoteToCold(p) ==
  IF p \notin hotDatabases THEN UNCHANGED <<db, tiers>>
  ELSE /\ hotDatabases' = hotDatabases \ {p} /\ hotReplicas' = hotReplicas \ {p}
       /\ coldDatabases' = coldDatabases \cup {p}
       /\ changed' \in {changed, changed \cup ({p} \cap exists)}
       /\ UNCHANGED exists

-----------------------------------------------------------------------------
(* WriteDetector.performScan *)

ScanStart ==
  /\ ~stopped /\ scan = "idle" /\ databases # {}
  /\ scan' = "scan" /\ todo' = databases
  /\ hotList' = <<>> /\ missed' = {}
  /\ UNCHANGED <<db, databases, isHot, expired, tiers, add, stopped>>

Visit(p) == scan = "scan" /\ p \in todo /\ todo' = todo \ {p}

(* Mutant: the file is gone and its database stays hot. *)
ScanDeletedKeepHot(p) ==
  /\ Visit(p) /\ p \notin exists
  /\ databases' = databases \ {p}
  /\ isHot' = isHot \ {p} /\ expired' = expired \ {p}
  /\ UNCHANGED <<db, tiers, hotList, scan, missed, add, stopped>>

(* The file is gone. *)
ScanDeleted(p) ==
  /\ Visit(p) /\ p \notin exists
  /\ databases' = databases \ {p}
  /\ IF p \in isHot THEN demoteToCold(p) ELSE UNCHANGED <<db, tiers>>
  /\ isHot' = isHot \ {p} /\ expired' = expired \ {p}
  /\ UNCHANGED <<hotList, scan, missed, add, stopped>>

(* os.Stat fails: on to the next database. *)
ScanUnknown(p) ==
  /\ "stat" \in Faults
  /\ Visit(p)
  /\ missed' = missed \cup {p}
  /\ UNCHANGED <<db, tiers, databases, isHot, expired, hotList, scan, add, stopped>>

(* The file changed: promoted unless hot already, and tracked as hot whether
   or not that succeeded. *)
ScanModified(p) ==
  /\ Visit(p) /\ p \in exists /\ p \in changed
  /\ IF p \in isHot THEN UNCHANGED tiers ELSE promoteToHot(p)
  /\ isHot' = isHot \cup {p} /\ expired' = expired \ {p}
  /\ hotList' = Append(hotList, p)
  /\ changed' = changed \ {p}
  /\ UNCHANGED <<exists, databases, scan, missed, add, stopped>>

(* Mutant: the hot period is never over. *)
ScanUnmodifiedStaysHot(p) ==
  /\ Visit(p) /\ p \in exists /\ p \notin changed
  /\ hotList' = IF p \in isHot THEN Append(hotList, p) ELSE hotList
  /\ UNCHANGED <<db, tiers, isHot, expired, databases, scan, missed, add, stopped>>

(* It did not: demoted when its hot period is over. *)
ScanUnmodified(p) ==
  /\ Visit(p) /\ p \in exists /\ p \notin changed
  /\ IF p \in expired
     THEN demoteToCold(p) /\ isHot' = isHot \ {p} /\ expired' = expired \ {p}
                          /\ UNCHANGED hotList
     ELSE /\ hotList' = IF p \in isHot THEN Append(hotList, p) ELSE hotList
          /\ UNCHANGED <<db, tiers, isHot, expired>>
  /\ UNCHANGED <<databases, scan, missed, add, stopped>>

(* Mutant: one too many. *)
OverLimitByMore == Len(hotList) > maxHotDBs + 1

OverLimit == Len(hotList) > maxHotDBs

(* Eviction of what the scan found first. *)
Evict ==
  /\ scan = "scan" /\ todo = {} /\ OverLimit
  /\ demoteToCold(Head(hotList))
  /\ isHot' = isHot \ {Head(hotList)} /\ expired' = expired \ {Head(hotList)}
  /\ hotList' = Tail(hotList)
  /\ UNCHANGED <<databases, scan, todo, missed, add, stopped>>

ScanEnd ==
  /\ scan = "scan" /\ todo = {} /\ ~OverLimit
  /\ scan' = "idle" /\ hotList' = <<>>
  /\ UNCHANGED <<db, tiers, databases, isHot, expired, todo, missed, add, stopped>>

(* Replica.Stop waits for a monitor that nobody can stop any more, its cancel
   function lost in a second Start (module Lifecycle): the demotion does not
   return and keeps both mutexes. *)
DemotionHangs(p) ==
  /\ "stop" \in Faults
  /\ scan = "scan" /\ p \in hotReplicas
  /\ \/ p \in todo /\ (p \notin exists \/ (p \notin changed /\ p \in expired))
     \/ todo = {} /\ OverLimit /\ p = Head(hotList)
  /\ scan' = "hung"
  /\ UNCHANGED <<db, tiers, databases, isHot, expired, hotList, todo, missed, add, stopped>>

(* HotUntil passes; a scan takes the time once, when it starts. *)
Elapse(p) ==
  /\ scan = "idle" /\ p \in isHot \ expired
  /\ expired' = expired \cup {p}
  /\ UNCHANGED <<db, tiers, databases, isHot, hotList, scan, todo, missed, add, stopped>>

-----------------------------------------------------------------------------
(* HotColdManager.AddDatabases, from Start or RefreshPatterns, and Stop. *)

AddStart ==
  /\ ~stopped /\ ~adding
  /\ adding' = TRUE /\ toTrack' = exists
  /\ UNCHANGED <<db, detector, tiers, stopped>>

(* WriteDetector.AddDatabase, which a running scan keeps waiting. *)
AddTrack(p) ==
  /\ adding /\ p \in toTrack /\ scan = "idle"
  /\ toTrack' = toTrack \ {p}
  /\ IF p \in databases \/ p \notin exists THEN UNCHANGED <<databases, changed>>
     ELSE databases' = databases \cup {p} /\ changed' = changed \ {p}
  /\ UNCHANGED <<exists, tiers, isHot, expired, hotList, scan, todo, missed, adding, stopped>>

(* Files that are not hot become cold. *)
AddCold ==
  /\ adding /\ toTrack = {} /\ scan # "hung"
  /\ coldDatabases' = coldDatabases \cup (exists \ hotDatabases)
  /\ adding' = FALSE
  /\ UNCHANGED <<db, detector, hotDatabases, hotReplicas, toTrack, stopped>>

(* Stop waits for a running scan, stops the replicas and closes the hot
   databases, which it leaves in their map. *)
Stop ==
  /\ ~stopped /\ scan = "idle"
  /\ stopped' = TRUE /\ hotReplicas' = {}
  /\ UNCHANGED <<db, detector, hotDatabases, coldDatabases, add>>

-----------------------------------------------------------------------------
Next ==
  \/ \E p \in Paths : \/ Create(p) \/ Checkpoint(p) \/ Unlink(p)
                      \/ ScanDeleted(p) \/ ScanUnknown(p) \/ ScanModified(p)
                      \/ ScanUnmodified(p) \/ DemotionHangs(p)
                      \/ Elapse(p) \/ AddTrack(p)
  \/ ScanStart \/ Evict \/ ScanEnd \/ AddStart \/ AddCold \/ Stop

Spec == Init /\ [][Next]_vars

(* The ticker starts a scan again and again and a scan runs to its end; a
   hot period comes to its end; os.Stat does not fail for ever. *)
Fairness ==
  /\ WF_vars(ScanStart) /\ WF_vars(Evict) /\ WF_vars(ScanEnd)
  /\ \A p \in Paths : /\ SF_vars(Elapse(p))
                      /\ SF_vars(ScanDeleted(p) \/ ScanModified(p) \/ ScanUnmodified(p))
                      /\ WF_vars(ScanUnknown(p))

FairSpec == Spec /\ Fairness

-----------------------------------------------------------------------------
(* Properties. *)

(* The variables hold what their Go counterparts can hold. *)
TypeOK ==
  /\ exists \subseteq Paths /\ changed \subseteq Paths
  /\ isHot \subseteq databases /\ expired \subseteq isHot /\ todo \subseteq databases
  /\ databases \subseteq Paths /\ missed \subseteq Paths
  /\ \A i \in DOMAIN hotList : hotList[i] \in isHot
  /\ scan \in {"idle", "scan", "hung"}
  /\ hotReplicas \subseteq hotDatabases
  /\ adding \in BOOLEAN /\ toTrack \subseteq Paths /\ stopped \in BOOLEAN

(* A database is never in both tiers, although AddDatabases fills the cold tier
   while a scan promotes (promoteToHot, demoteToCold, AddDatabases). *)
TiersDisjoint == hotDatabases \cap coldDatabases = {}

(* The detector knows of every hot database that it is hot, so that a later
   scan can demote it, also after failed promotions and removed and recreated
   files (performScan with its callbacks). *)
HotIsTracked == hotDatabases \subseteq isHot

(* Between scans at most maxHotDBs databases are hot, those aside whose os.Stat
   failed ("Enforce max hot databases limit", performScan). *)
HotLimit == scan = "idle" => Cardinality(hotDatabases \ missed) <= maxHotDBs

(* A database whose file is left alone and not checkpointed does not stay hot
   ("After inactivity, demoted back to cold", MULTIDB_INTEGRATION.md), unless a
   demotion hangs or the manager is stopped.  It need not stay cold: closing it
   may change its file, and the next scan promotes it again. *)
EventuallyCold ==
  <>[][~FileChanges]_vars =>
    \A p \in Paths : []<>(p \notin hotDatabases \/ scan = "hung" \/ stopped)

=============================================================================
