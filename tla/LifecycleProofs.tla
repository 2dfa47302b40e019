--------------------------- MODULE LifecycleProofs ---------------------------
(***************************************************************************)
(* Proofs about Lifecycle: for any number of L0 files and under every      *)
(* fault, concurrent Replica.Syncs leave no gap on the replica, a Close    *)
(* that reports no error has flushed, and a closed database is quiet.      *)
(***************************************************************************)
EXTENDS Lifecycle, TLAPS

-----------------------------------------------------------------------------
(* The inductive invariant. *)

(* The replica's L0 files have no gap. *)
NoGap == \E n \in 0..pos : remote = 1..n

(* Every position that a Replica.Sync works with is one the replica has: the
   shared one, one that calcPos found, and the one before an upload. *)
PositionsHeld ==
  /\ rpos = 0 \/ rpos \in remote
  /\ \A t \in Syncers :
       /\ dpos[t] <= pos
       /\ sub[t] = "setpos" => tx[t] = 0 \/ tx[t] \in remote
       /\ sub[t] = "upload" =>
            tx[t] \in 1..pos /\ (tx[t] = 1 \/ tx[t] - 1 \in remote)

(* There is room for the L0 file that a dirty WAL makes. *)
DirtyFits == dirty => pos < MaxTX

(* A monitor that is in Replica.Sync is running. *)
SyncingRuns == \A m \in Starters : sub[m] # "off" => rmon[m] = "sync"

Starting == {"startCancel", "startWait", "startGo"}
Stopping == {"demoteSync", "demoteWait", "managerWait"}
Closing == {"closeSync", "closeReplica", "closeStop", "closeFiles", "closed", "stopping", "exit"}

(* Who has a replica, and what its promotion may have left running. *)
ReplicaOK ==
  /\ mode = "replicate" => /\ replica /\ rmon["promote"] = "none"
                           /\ main \notin Starting \cup Stopping \cup {"assign"}
  /\ main \in Starting \cup Stopping => replica
  /\ ~replica => ~Running("promote")

(* Each of the two starters starts its monitor once. *)
StartedOnce ==
  /\ main \in Starting \cup {"open", "assign"} => rmon["promote"] = "none"
  /\ sqlDB = "nil" \/ dbmon \in Starting => rmon["init"] = "none"
  /\ dbmon \in Starting => sqlDB # "nil"

(* DB.monitor has ended once DB.Close passed its wait, and the others have
   once it passed Replica.Stop. *)
QuietOK ==
  /\ main \in Closing => dbmon = "ended"
  /\ main \in {"closeFiles", "closed", "stopping", "exit"} => AllStopped \/ StartedTwice
  /\ main = "exit" => comp \in {"off", "ended"}

(* What the last Replica.Sync of DB.Close is sure of. *)
FlushOK ==
  /\ main = "closeReplica" =>
       /\ ~failed => ~dirty
       /\ sub["main"] \in {"next", "upload"} => dpos["main"] = pos
       /\ sub["main"] = "ok" => remote = 1..pos
  /\ main \in {"closeStop", "closeFiles", "closed", "stopping", "exit"}
       /\ ~failed /\ sqlDB # "nil" /\ replica => remote = 1..pos /\ ~dirty

ControlOK == SyncingRuns /\ ReplicaOK /\ StartedOnce /\ QuietOK /\ FlushOK

Inv ==
  /\ TypeOK
  /\ NoGap /\ PositionsHeld /\ DirtyFits
  /\ ControlOK

USE DEF fixed, contexts, monitors, wal, upload, db, outside, monitorOnly, dbmonOnly,
        mainOnly, Goto, Starters, Syncers, Starting, Stopping, Closing

-----------------------------------------------------------------------------
(* calcPos: the end of an L0 without gaps. *)
LEMMA EndOfInterval ==
  ASSUME NEW n \in Nat
  PROVE  Max0(1..n) = n
<1>1. CASE n = 0
  BY <1>1 DEF Max0
<1>2. CASE n # 0
  <2>1. \A x \in 1..n : (\A y \in 1..n : y <= x) <=> x = n
    BY <1>2
  <2>2. 1..n # {} /\ n \in 1..n
    BY <1>2
  <2>3. (CHOOSE x \in 1..n : \A y \in 1..n : y <= x) = n
    BY <2>1, <2>2
  <2> QED BY <2>2, <2>3 DEF Max0
<1> QED BY <1>1, <1>2

LEMMA CalcPosIsHeld ==
  ASSUME Inv
  PROVE  Max0(remote) \in 0..pos /\ (Max0(remote) = 0 \/ Max0(remote) \in remote)
<1>1. PICK n \in 0..pos : remote = 1..n
  BY DEF Inv, NoGap
<1>2. n \in Nat /\ pos \in Nat
  BY <1>1 DEF Inv, TypeOK
<1>3. Max0(remote) = n
  BY <1>1, <1>2, EndOfInterval
<1> QED BY <1>1, <1>2, <1>3

(* Replica.Stop only cancels monitors. *)
LEMMA StopCancelsMonitors ==
  ASSUME Inv, StopCancel
  PROVE  canceled' \subseteq Starters
BY DEF Inv, TypeOK, StopCancel

(* What is said of L0 and its uploads stays true while nobody touches them. *)
LEMMA SameUploads ==
  ASSUME Inv, UNCHANGED <<wal, upload>>
  PROVE  NoGap' /\ PositionsHeld' /\ DirtyFits'
BY DEF Inv, NoGap, PositionsHeld, DirtyFits

(* The child process and the compaction monitors. *)
LEMMA EnvironmentKeepsInv ==
  ASSUME Inv, ChildExit \/ CompactionEnd
  PROVE  Inv'
<1> USE DEF ControlOK, SyncingRuns, ReplicaOK, StartedOnce, QuietOK, FlushOK,
            Running, AllStopped, StartedTwice
<1>1. CASE ChildExit
  <2>1. TypeOK'
    BY <1>1 DEF Inv, TypeOK, ChildExit
  <2>2. NoGap' /\ PositionsHeld' /\ DirtyFits'
    BY <1>1, SameUploads DEF ChildExit
  <2>3. ControlOK'
    BY <1>1 DEF Inv, TypeOK, ChildExit
  <2> QED BY <2>1, <2>2, <2>3 DEF Inv
<1>2. CASE CompactionEnd
  <2>1. TypeOK'
    BY <1>2 DEF Inv, TypeOK, CompactionEnd
  <2>2. NoGap' /\ PositionsHeld' /\ DirtyFits'
    BY <1>2, SameUploads DEF CompactionEnd
  <2>3. ControlOK'
    BY <1>2 DEF Inv, TypeOK, CompactionEnd
  <2> QED BY <2>1, <2>2, <2>3 DEF Inv
<1> QED BY <1>1, <1>2

(* DB.monitor, as long as it writes no L0 file. *)
LEMMA DBMonitorKeepsInv ==
  ASSUME Inv, DBMonitorEnd \/ InitDone \/ InitHalf \/ InitStartCancel \/ InitStartWait \/ InitStartGo
  PROVE  Inv'
<1> USE DEF ControlOK, SyncingRuns, ReplicaOK, StartedOnce, QuietOK, FlushOK,
            Running, AllStopped, StartedTwice
<1>1. CASE DBMonitorEnd
  <2>1. TypeOK'
    BY <1>1 DEF Inv, TypeOK, DBMonitorEnd
  <2>2. NoGap' /\ PositionsHeld' /\ DirtyFits'
    BY <1>1, SameUploads DEF DBMonitorEnd
  <2>3. ControlOK'
    BY <1>1 DEF Inv, TypeOK, DBMonitorEnd
  <2> QED BY <2>1, <2>2, <2>3 DEF Inv
<1>2. CASE InitDone
  <2>1. TypeOK'
    BY <1>2 DEF Inv, TypeOK, InitDone
  <2>2. NoGap' /\ PositionsHeld' /\ DirtyFits'
    BY <1>2, SameUploads DEF InitDone
  <2>3. ControlOK'
    BY <1>2 DEF Inv, TypeOK, InitDone
  <2> QED BY <2>1, <2>2, <2>3 DEF Inv
<1>3. CASE InitHalf
  <2>1. TypeOK'
    BY <1>3 DEF Inv, TypeOK, InitHalf
  <2>2. NoGap' /\ PositionsHeld' /\ DirtyFits'
    BY <1>3, SameUploads DEF InitHalf
  <2>3. ControlOK'
    BY <1>3 DEF Inv, TypeOK, InitHalf
  <2> QED BY <2>1, <2>2, <2>3 DEF Inv
<1>4. CASE InitStartCancel
  <2>1. TypeOK'
    BY <1>4, StopCancelsMonitors DEF Inv, TypeOK, InitStartCancel, StopCancel
  <2>2. NoGap' /\ PositionsHeld' /\ DirtyFits'
    BY <1>4, SameUploads DEF InitStartCancel, StopCancel
  <2>3. ControlOK'
    BY <1>4 DEF Inv, TypeOK, InitStartCancel, StopCancel
  <2> QED BY <2>1, <2>2, <2>3 DEF Inv
<1>5. CASE InitStartWait
  <2>1. TypeOK'
    BY <1>5 DEF Inv, TypeOK, InitStartWait
  <2>2. NoGap' /\ PositionsHeld' /\ DirtyFits'
    BY <1>5, SameUploads DEF InitStartWait
  <2>3. ControlOK'
    BY <1>5 DEF Inv, TypeOK, InitStartWait
  <2> QED BY <2>1, <2>2, <2>3 DEF Inv
<1>6. CASE InitStartGo
  <2>1. TypeOK'
    BY <1>6 DEF Inv, TypeOK, InitStartGo, StartMonitor
  <2>2. NoGap' /\ PositionsHeld' /\ DirtyFits'
    BY <1>6, SameUploads DEF InitStartGo, StartMonitor
  <2>3. ControlOK'
    <3>1. SyncingRuns'
      BY <1>6 DEF Inv, TypeOK, InitStartGo, StartMonitor
    <3>2. ReplicaOK'
      BY <1>6 DEF Inv, TypeOK, InitStartGo, StartMonitor
    <3>3. StartedOnce'
      BY <1>6 DEF Inv, TypeOK, InitStartGo, StartMonitor
    <3>4. QuietOK'
      BY <1>6 DEF Inv, TypeOK, InitStartGo, StartMonitor
    <3>5. FlushOK'
      BY <1>6 DEF Inv, TypeOK, InitStartGo, StartMonitor
    <3> QED BY <3>1, <3>2, <3>3, <3>4, <3>5
  <2> QED BY <2>1, <2>2, <2>3 DEF Inv
<1> QED BY <1>1, <1>2, <1>3, <1>4, <1>5, <1>6

(* A monitor between two Replica.Syncs. *)
LEMMA WaitingKeepsInv ==
  ASSUME Inv, NEW m \in Starters, MonitorEnd(m) \/ MonitorWake(m)
  PROVE  Inv'
<1> USE DEF ControlOK, SyncingRuns, ReplicaOK, StartedOnce, QuietOK, FlushOK,
            Running, AllStopped, StartedTwice
<1>1. CASE MonitorEnd(m)
  <2>1. TypeOK'
    BY <1>1 DEF Inv, TypeOK, MonitorEnd
  <2>2. NoGap' /\ PositionsHeld' /\ DirtyFits'
    BY <1>1, SameUploads DEF MonitorEnd
  <2>3. ControlOK'
    BY <1>1 DEF Inv, TypeOK, MonitorEnd
  <2> QED BY <2>1, <2>2, <2>3 DEF Inv
<1>2. CASE MonitorWake(m)
  <2>1. TypeOK'
    BY <1>2 DEF Inv, TypeOK, MonitorWake
  <2>2. NoGap' /\ PositionsHeld' /\ DirtyFits'
    BY <1>2, SameUploads DEF MonitorWake
  <2>3. ControlOK'
    BY <1>2 DEF Inv, TypeOK, MonitorWake
  <2> QED BY <2>1, <2>2, <2>3 DEF Inv
<1> QED BY <1>1, <1>2

(* The replicate command up to Close. *)
LEMMA ReplicateKeepsInv ==
  ASSUME Inv, ReplicateOpen \/ ChildExited \/ Signal \/ Reap
  PROVE  Inv'
<1> USE DEF ControlOK, SyncingRuns, ReplicaOK, StartedOnce, QuietOK, FlushOK,
            Running, AllStopped, StartedTwice
<1>1. CASE ReplicateOpen
  <2>1. TypeOK'
    BY <1>1 DEF Inv, TypeOK, ReplicateOpen
  <2>2. NoGap' /\ PositionsHeld' /\ DirtyFits'
    BY <1>1, SameUploads DEF ReplicateOpen
  <2>3. ControlOK'
    BY <1>1 DEF Inv, TypeOK, ReplicateOpen
  <2> QED BY <2>1, <2>2, <2>3 DEF Inv
<1>2. CASE ChildExited
  <2>1. TypeOK'
    BY <1>2 DEF Inv, TypeOK, ChildExited
  <2>2. NoGap' /\ PositionsHeld' /\ DirtyFits'
    BY <1>2, SameUploads DEF ChildExited
  <2>3. ControlOK'
    BY <1>2 DEF Inv, TypeOK, ChildExited
  <2> QED BY <2>1, <2>2, <2>3 DEF Inv
<1>3. CASE Signal
  <2>1. TypeOK'
    BY <1>3 DEF Inv, TypeOK, Signal
  <2>2. NoGap' /\ PositionsHeld' /\ DirtyFits'
    BY <1>3, SameUploads DEF Signal
  <2>3. ControlOK'
    BY <1>3 DEF Inv, TypeOK, Signal
  <2> QED BY <2>1, <2>2, <2>3 DEF Inv
<1>4. CASE Reap
  <2>1. TypeOK'
    BY <1>4 DEF Inv, TypeOK, Reap
  <2>2. NoGap' /\ PositionsHeld' /\ DirtyFits'
    BY <1>4, SameUploads DEF Reap
  <2>3. ControlOK'
    BY <1>4 DEF Inv, TypeOK, Reap
  <2> QED BY <2>1, <2>2, <2>3 DEF Inv
<1> QED BY <1>1, <1>2, <1>3, <1>4

(* promoteToHot. *)
LEMMA PromoteKeepsInv ==
  ASSUME Inv, PromoteOpen \/ PromoteAssign \/ PromoteStartCancel \/ PromoteStartWait \/ PromoteStartGo
  PROVE  Inv'
<1> USE DEF ControlOK, SyncingRuns, ReplicaOK, StartedOnce, QuietOK, FlushOK,
            Running, AllStopped, StartedTwice
<1>1. CASE PromoteOpen
  <2>1. TypeOK'
    BY <1>1 DEF Inv, TypeOK, PromoteOpen
  <2>2. NoGap' /\ PositionsHeld' /\ DirtyFits'
    BY <1>1, SameUploads DEF PromoteOpen
  <2>3. ControlOK'
    BY <1>1 DEF Inv, TypeOK, PromoteOpen
  <2> QED BY <2>1, <2>2, <2>3 DEF Inv
<1>2. CASE PromoteAssign
  <2>1. TypeOK'
    <3>1. replica' \in BOOLEAN
      BY <1>2 DEF PromoteAssign, Inv, TypeOK
    <3>2. UNCHANGED <<fixed, child, failed, contexts, dbmon, sqlDB, comp, monitors, wal, upload>>
      BY <1>2 DEF PromoteAssign
    <3> QED BY <3>1, <3>2 DEF Inv, TypeOK
  <2>2. NoGap' /\ PositionsHeld' /\ DirtyFits'
    BY <1>2, SameUploads DEF PromoteAssign
  <2>3. ControlOK'
    BY <1>2 DEF Inv, TypeOK, PromoteAssign
  <2> QED BY <2>1, <2>2, <2>3 DEF Inv
<1>3. CASE PromoteStartCancel
  <2>1. TypeOK'
    BY <1>3, StopCancelsMonitors DEF Inv, TypeOK, PromoteStartCancel, StopCancel
  <2>2. NoGap' /\ PositionsHeld' /\ DirtyFits'
    BY <1>3, SameUploads DEF PromoteStartCancel, StopCancel
  <2>3. ControlOK'
    BY <1>3 DEF Inv, TypeOK, PromoteStartCancel, StopCancel
  <2> QED BY <2>1, <2>2, <2>3 DEF Inv
<1>4. CASE PromoteStartWait
  <2>1. TypeOK'
    BY <1>4 DEF Inv, TypeOK, PromoteStartWait
  <2>2. NoGap' /\ PositionsHeld' /\ DirtyFits'
    BY <1>4, SameUploads DEF PromoteStartWait
  <2>3. ControlOK'
    BY <1>4 DEF Inv, TypeOK, PromoteStartWait
  <2> QED BY <2>1, <2>2, <2>3 DEF Inv
<1>5. CASE PromoteStartGo
  <2>1. TypeOK'
    BY <1>5 DEF Inv, TypeOK, PromoteStartGo, StartMonitor
  <2>2. NoGap' /\ PositionsHeld' /\ DirtyFits'
    BY <1>5, SameUploads DEF PromoteStartGo, StartMonitor
  <2>3. ControlOK'
    BY <1>5 DEF Inv, TypeOK, PromoteStartGo, StartMonitor
  <2> QED BY <2>1, <2>2, <2>3 DEF Inv
<1> QED BY <1>1, <1>2, <1>3, <1>4, <1>5

(* The end of demotion, and HotColdManager.Stop. *)
LEMMA ManagerKeepsInv ==
  ASSUME Inv, DemoteStopped \/ ManagerCancel \/ ManagerStop \/ ManagerStopped
  PROVE  Inv'
<1> USE DEF ControlOK, SyncingRuns, ReplicaOK, StartedOnce, QuietOK, FlushOK,
            Running, AllStopped, StartedTwice
<1>1. CASE DemoteStopped
  <2>1. TypeOK'
    <3>1. replica' \in BOOLEAN
      BY <1>1 DEF DemoteStopped
    <3>2. UNCHANGED <<fixed, child, failed, contexts, dbmon, sqlDB, comp, monitors, wal, upload>>
      BY <1>1 DEF DemoteStopped
    <3> QED BY <3>1, <3>2 DEF Inv, TypeOK
  <2>2. NoGap' /\ PositionsHeld' /\ DirtyFits'
    BY <1>1, SameUploads DEF DemoteStopped
  <2>3. ControlOK'
    BY <1>1 DEF Inv, TypeOK, DemoteStopped
  <2> QED BY <2>1, <2>2, <2>3 DEF Inv
<1>2. CASE ManagerCancel
  <2>1. TypeOK'
    BY <1>2 DEF Inv, TypeOK, ManagerCancel
  <2>2. NoGap' /\ PositionsHeld' /\ DirtyFits'
    BY <1>2, SameUploads DEF ManagerCancel
  <2>3. ControlOK'
    BY <1>2 DEF Inv, TypeOK, ManagerCancel
  <2> QED BY <2>1, <2>2, <2>3 DEF Inv
<1>3. CASE ManagerStop
  <2>1. TypeOK'
    <3>1. canceled' \subseteq Starters
      BY <1>3, StopCancelsMonitors DEF ManagerStop, Inv, TypeOK
    <3>2. UNCHANGED <<fixed, child, failed, contexts, db, comp, rmon, rcancel, notified, wal, upload>>
      BY <1>3 DEF ManagerStop
    <3> QED BY <3>1, <3>2 DEF Inv, TypeOK
  <2>2. NoGap' /\ PositionsHeld' /\ DirtyFits'
    BY <1>3, SameUploads DEF ManagerStop
  <2>3. ControlOK'
    BY <1>3 DEF Inv, TypeOK, ManagerStop
  <2> QED BY <2>1, <2>2, <2>3 DEF Inv
<1>4. CASE ManagerStopped
  <2>1. TypeOK'
    BY <1>4 DEF Inv, TypeOK, ManagerStopped
  <2>2. NoGap' /\ PositionsHeld' /\ DirtyFits'
    BY <1>4, SameUploads DEF ManagerStopped
  <2>3. ControlOK'
    BY <1>4 DEF Inv, TypeOK, ManagerStopped
  <2> QED BY <2>1, <2>2, <2>3 DEF Inv
<1> QED BY <1>1, <1>2, <1>3, <1>4

(* DB.Close and Store.Close, the final syncs apart. *)
LEMMA CloseKeepsInv ==
  ASSUME Inv, CloseCancel \/ CloseWait \/ CloseStop \/ CloseFiles \/ StoreCancel \/ StoreWait
  PROVE  Inv'
<1> USE DEF ControlOK, SyncingRuns, ReplicaOK, StartedOnce, QuietOK, FlushOK,
            Running, AllStopped, StartedTwice
<1>1. CASE CloseCancel
  <2>1. TypeOK'
    BY <1>1 DEF Inv, TypeOK, CloseCancel
  <2>2. NoGap' /\ PositionsHeld' /\ DirtyFits'
    BY <1>1, SameUploads DEF CloseCancel
  <2>3. ControlOK'
    BY <1>1 DEF Inv, TypeOK, CloseCancel
  <2> QED BY <2>1, <2>2, <2>3 DEF Inv
<1>2. CASE CloseWait
  <2>1. TypeOK'
    <3>1. canceled' \subseteq Starters
      BY <1>2, StopCancelsMonitors DEF CloseWait, Inv, TypeOK
    <3>2. UNCHANGED <<fixed, child, failed, contexts, db, comp, rmon, rcancel, notified, wal, upload>>
      BY <1>2 DEF CloseWait
    <3> QED BY <3>1, <3>2 DEF Inv, TypeOK
  <2>2. NoGap' /\ PositionsHeld' /\ DirtyFits'
    BY <1>2, SameUploads DEF CloseWait
  <2>3. ControlOK'
    BY <1>2 DEF Inv, TypeOK, CloseWait
  <2> QED BY <2>1, <2>2, <2>3 DEF Inv
<1>3. CASE CloseStop
  <2>1. TypeOK'
    BY <1>3 DEF Inv, TypeOK, CloseStop
  <2>2. NoGap' /\ PositionsHeld' /\ DirtyFits'
    BY <1>3, SameUploads DEF CloseStop
  <2>3. ControlOK'
    BY <1>3 DEF Inv, TypeOK, CloseStop
  <2> QED BY <2>1, <2>2, <2>3 DEF Inv
<1>4. CASE CloseFiles
  <2>1. TypeOK'
    BY <1>4 DEF Inv, TypeOK, CloseFiles
  <2>2. NoGap' /\ PositionsHeld' /\ DirtyFits'
    BY <1>4, SameUploads DEF CloseFiles
  <2>3. ControlOK'
    BY <1>4 DEF Inv, TypeOK, CloseFiles
  <2> QED BY <2>1, <2>2, <2>3 DEF Inv
<1>5. CASE StoreCancel
  <2>1. TypeOK'
    BY <1>5 DEF Inv, TypeOK, StoreCancel
  <2>2. NoGap' /\ PositionsHeld' /\ DirtyFits'
    BY <1>5, SameUploads DEF StoreCancel
  <2>3. ControlOK'
    BY <1>5 DEF Inv, TypeOK, StoreCancel
  <2> QED BY <2>1, <2>2, <2>3 DEF Inv
<1>6. CASE StoreWait
  <2>1. TypeOK'
    BY <1>6 DEF Inv, TypeOK, StoreWait
  <2>2. NoGap' /\ PositionsHeld' /\ DirtyFits'
    BY <1>6, SameUploads DEF StoreWait
  <2>3. ControlOK'
    BY <1>6 DEF Inv, TypeOK, StoreWait
  <2> QED BY <2>1, <2>2, <2>3 DEF Inv
<1> QED BY <1>1, <1>2, <1>3, <1>4, <1>5, <1>6
-----------------------------------------------------------------------------
(* Replica.Sync takes over a position; what calcPos found is still held. *)
LEMMA SyncPosKeepsInv ==
  ASSUME Inv, NEW t \in Syncers, SyncPos(t)
  PROVE  Inv'
<1>1. TypeOK'
  BY LifecycleAssumption DEF Inv, TypeOK, NoGap, PositionsHeld, SyncPos, Return
<1>2. NoGap' /\ DirtyFits'
  BY DEF Inv, NoGap, DirtyFits, SyncPos
<1>3. PositionsHeld'
  BY DEF Inv, TypeOK, PositionsHeld, SyncPos, Return
<1>4. SyncingRuns' /\ ReplicaOK' /\ StartedOnce'
  BY DEF Inv, TypeOK, ControlOK, SyncingRuns, ReplicaOK, StartedOnce, Running, SyncPos, Return
<1>5. QuietOK'
  BY DEF Inv, TypeOK, ControlOK, SyncingRuns, QuietOK, AllStopped, Running, StartedTwice,
         SyncPos, Return
<1>6. FlushOK'
  BY DEF Inv, TypeOK, ControlOK, FlushOK, SyncPos, Return
<1> QED BY <1>1, <1>2, <1>3, <1>4, <1>5, <1>6 DEF Inv, ControlOK

(* At the head of the loop the position is held: the next upload leaves no
   gap, and the end of the loop means that everything is there. *)
LEMMA SyncNextKeepsInv ==
  ASSUME Inv, NEW t \in Syncers, SyncNext(t)
  PROVE  Inv'
<1>1. TypeOK'
  BY LifecycleAssumption DEF Inv, TypeOK, PositionsHeld, SyncNext, Return
<1>2. NoGap' /\ DirtyFits'
  BY DEF Inv, NoGap, DirtyFits, SyncNext
<1>3. PositionsHeld'
  BY DEF Inv, TypeOK, PositionsHeld, SyncNext, Return
<1>4. SyncingRuns' /\ ReplicaOK' /\ StartedOnce'
  BY DEF Inv, TypeOK, ControlOK, SyncingRuns, ReplicaOK, StartedOnce, Running, SyncNext, Return
<1>5. QuietOK'
  BY DEF Inv, TypeOK, ControlOK, SyncingRuns, QuietOK, AllStopped, Running, StartedTwice,
         SyncNext, Return
<1>6. FlushOK'
  BY DEF Inv, TypeOK, NoGap, PositionsHeld, ControlOK, FlushOK, SyncNext, Return
<1> QED BY <1>1, <1>2, <1>3, <1>4, <1>5, <1>6 DEF Inv, ControlOK

(* An upload, which may fail after the file was stored: the file belongs right
   after the others, or is there already. *)
LEMMA SyncUploadKeepsInv ==
  ASSUME Inv, NEW t \in Syncers, NEW ok \in BOOLEAN, SyncUpload(t, ok)
  PROVE  Inv'
<1>1. /\ sub[t] = "upload" /\ remote' \in {remote, remote \cup {tx[t]}}
      /\ rpos' = 0 \/ (rpos' = tx[t] /\ remote' = remote \cup {tx[t]})
      /\ UNCHANGED outside
  BY DEF SyncUpload, Uploaded, Return
<1>2. /\ sub' = [sub EXCEPT ![t] = IF ok THEN "next" ELSE IF t = "main" THEN "error" ELSE "off"]
      /\ tx' = [tx EXCEPT ![t] = 0]
      /\ dpos' = IF ok THEN dpos ELSE [dpos EXCEPT ![t] = 0]
      /\ rmon' = IF ok THEN rmon ELSE [m \in Starters |-> IF m = t THEN "wait" ELSE rmon[m]]
  BY DEF SyncUpload, Uploaded, Return
<1>3. /\ tx[t] \in 1..pos /\ (tx[t] = 1 \/ tx[t] - 1 \in remote)
      /\ pos \in Nat /\ pos' = pos
  BY <1>1 DEF Inv, TypeOK, PositionsHeld
<1>4. PICK n \in 0..pos : remote = 1..n
  BY DEF Inv, NoGap
<1>5. /\ tx[t] <= n + 1
      /\ remote \cup {tx[t]} = IF tx[t] <= n THEN 1..n ELSE 1..(n + 1)
  BY <1>3, <1>4
<1>6. NoGap' /\ remote \subseteq remote' /\ remote' \subseteq 1..pos
  <2>1. CASE remote' = 1..n
    BY <1>3, <1>4, <2>1 DEF NoGap
  <2>2. CASE remote' = 1..(n + 1) /\ n + 1 <= pos
    BY <1>3, <1>4, <2>2 DEF NoGap
  <2>3. CASE tx[t] <= n
    <3>1. remote' = 1..n
      BY <1>1, <1>4, <1>5, <2>3
    <3> QED BY <2>1, <3>1
  <2>4. CASE tx[t] = n + 1
    <3>1. n + 1 <= pos /\ ~(tx[t] <= n)
      BY <1>3, <1>4, <2>4
    <3>2. remote' = 1..n \/ remote' = 1..(n + 1)
      BY <1>1, <1>4, <1>5, <3>1
    <3> QED BY <2>1, <2>2, <3>1, <3>2
  <2> QED BY <1>3, <1>4, <1>5, <2>3, <2>4
<1>7. TypeOK'
  <2>1. rpos' \in 0..pos'
    BY <1>1, <1>3
  <2>2. /\ sub' \in [Syncers -> {"off", "setpos", "pos", "next", "upload", "ok", "error"}]
        /\ tx' \in [Syncers -> 0..MaxTX] /\ dpos' \in [Syncers -> 0..MaxTX]
        /\ rmon' \in [Starters -> {"none", "wait", "fetch", "sync", "ended"}]
    BY <1>2, LifecycleAssumption DEF Inv, TypeOK
  <2> QED BY <1>1, <1>3, <1>6, <2>1, <2>2 DEF Inv, TypeOK
<1>8. PositionsHeld'
  BY <1>1, <1>2, <1>3, <1>6 DEF Inv, TypeOK, PositionsHeld
<1>9. DirtyFits'
  BY <1>1 DEF Inv, DirtyFits
<1>10. SyncingRuns' /\ ReplicaOK' /\ StartedOnce'
  BY <1>1, <1>2 DEF Inv, TypeOK, ControlOK, SyncingRuns, ReplicaOK, StartedOnce, Running
<1>11. QuietOK'
  BY <1>1, <1>2
  DEF Inv, TypeOK, ControlOK, SyncingRuns, QuietOK, AllStopped, Running, StartedTwice
<1>12. FlushOK'
  <2>1. remote = 1..pos => remote' = 1..pos
    BY <1>6
  <2> QED BY <1>1, <1>2, <2>1 DEF Inv, TypeOK, ControlOK, FlushOK
<1> QED BY <1>6, <1>7, <1>8, <1>9, <1>10, <1>11, <1>12 DEF Inv, ControlOK

(* Replica.Sync is called. *)
LEMMA CallHoldsPosition ==
  ASSUME Inv, NEW t \in Syncers, Call(t), UNCHANGED <<remote, rpos, dpos>>, pos' \in Nat, pos <= pos'
  PROVE  /\ PositionsHeld'
         /\ sub' \in [Syncers -> {"off", "setpos", "pos", "next", "upload", "ok", "error"}]
         /\ tx' \in [Syncers -> 0..MaxTX]
         /\ sub'[t] \in {"setpos", "pos"}
         /\ \A u \in Syncers : u # t => sub'[u] = sub[u]
<1>1. Max0(remote) \in 0..MaxTX /\ (Max0(remote) = 0 \/ Max0(remote) \in remote)
  BY CalcPosIsHeld, LifecycleAssumption DEF Inv, TypeOK
<1> QED BY <1>1, LifecycleAssumption DEF Inv, TypeOK, PositionsHeld, Call

LEMMA MonitorFetchKeepsInv ==
  ASSUME Inv, NEW m \in Starters, MonitorFetch(m)
  PROVE  Inv'
<1>1. /\ rmon[m] = "fetch" /\ rmon' = [rmon EXCEPT ![m] = "sync"]
      /\ notified' = notified \ {m} /\ Call(m)
      /\ UNCHANGED <<monitorOnly, canceled>>
  BY DEF MonitorFetch
<1>2. /\ PositionsHeld'
      /\ sub' \in [Syncers -> {"off", "setpos", "pos", "next", "upload", "ok", "error"}]
      /\ tx' \in [Syncers -> 0..MaxTX]
      /\ \A u \in Syncers : u # m => sub'[u] = sub[u]
  <2>1. pos' \in Nat /\ pos <= pos'
    BY <1>1 DEF Inv, TypeOK
  <2> QED BY <1>1, <2>1, CallHoldsPosition
<1>3. TypeOK'
  BY <1>1, <1>2 DEF Inv, TypeOK
<1>4. NoGap' /\ DirtyFits'
  BY <1>1 DEF Inv, NoGap, DirtyFits
<1>5. SyncingRuns' /\ ReplicaOK' /\ StartedOnce'
  BY <1>1, <1>2 DEF Inv, TypeOK, ControlOK, SyncingRuns, ReplicaOK, StartedOnce, Running
<1>6. QuietOK'
  BY <1>1 DEF Inv, TypeOK, ControlOK, QuietOK, AllStopped, Running, StartedTwice
<1>7. FlushOK'
  BY <1>1, <1>2 DEF Inv, ControlOK, FlushOK
<1> QED BY <1>2, <1>3, <1>4, <1>5, <1>6, <1>7 DEF Inv, ControlOK

-----------------------------------------------------------------------------
(* Commits and DB.Sync. *)

LEMMA CommitKeepsInv ==
  ASSUME Inv, Commit
  PROVE  Inv'
<1>1. /\ ~Flushed /\ pos < MaxTX /\ dirty' = TRUE
      /\ UNCHANGED <<fixed, main, child, failed, contexts, db, comp, monitors, pos, upload>>
  BY DEF Commit
<1>2. TypeOK'
  BY <1>1 DEF Inv, TypeOK
<1>3. NoGap' /\ PositionsHeld' /\ DirtyFits'
  BY <1>1 DEF Inv, NoGap, PositionsHeld, DirtyFits
<1>4. SyncingRuns' /\ ReplicaOK' /\ StartedOnce'
  BY <1>1 DEF Inv, ControlOK, SyncingRuns, ReplicaOK, StartedOnce, Running
<1>5. QuietOK'
  BY <1>1 DEF Inv, ControlOK, QuietOK, AllStopped, Running, StartedTwice
<1>6. FlushOK'
  BY <1>1 DEF Flushed, FlushOK
<1> QED BY <1>2, <1>3, <1>4, <1>5, <1>6 DEF Inv, ControlOK

(* A DB.Sync writes at most the one L0 file there is room for. *)
LEMMA WriteL0Fits ==
  ASSUME Inv, NEW ok \in BOOLEAN, WriteL0(ok)
  PROVE  /\ pos' \in 0..MaxTX /\ pos <= pos' /\ dirty' \in BOOLEAN
         /\ notified' \subseteq Starters
         /\ DirtyFits' /\ (ok => ~dirty')
<1>1. pos \in 0..MaxTX /\ dirty \in BOOLEAN /\ notified \subseteq Starters /\ (dirty => pos < MaxTX)
  BY DEF Inv, TypeOK, DirtyFits
<1>2. CASE ok
  <2>1. dirty' = FALSE /\ pos' = IF dirty THEN pos + 1 ELSE pos
    BY <1>2 DEF WriteL0
  <2>2. notified' \subseteq Starters
    BY <1>1, <1>2 DEF WriteL0
  <2>3. pos' \in 0..MaxTX /\ pos <= pos'
    BY <1>1, <2>1, LifecycleAssumption
  <2> QED BY <2>1, <2>2, <2>3 DEF DirtyFits
<1>3. CASE ~ok
  <2>1. pos' = pos /\ dirty' = dirty /\ notified' = notified
    BY <1>3 DEF WriteL0
  <2>2. pos <= pos
    BY <1>1
  <2> QED BY <1>1, <1>3, <2>1, <2>2 DEF DirtyFits
<1> QED BY <1>2, <1>3

LEMMA DBMonitorSyncKeepsInv ==
  ASSUME Inv, NEW ok \in BOOLEAN, DBMonitorSync(ok)
  PROVE  Inv'
<1>1. /\ dbmon \in {"sync", "ticker"} /\ dbmon' = "ticker"
      /\ UNCHANGED <<dbmonOnly, sqlDB, rmon, rcancel, canceled>>
      /\ dbmon = "ticker" => sqlDB # "nil"
  BY DEF DBMonitorSync, Syncing
<1>2. /\ pos' \in 0..MaxTX /\ pos <= pos' /\ dirty' \in BOOLEAN
      /\ notified' \subseteq Starters /\ DirtyFits'
  BY WriteL0Fits DEF DBMonitorSync
<1>3. pos \in Nat /\ pos' \in Nat
  BY <1>2, LifecycleAssumption DEF Inv, TypeOK
<1>4. TypeOK'
  BY <1>1, <1>2, <1>3 DEF Inv, TypeOK
<1>5. NoGap'
  BY <1>1, <1>2, <1>3 DEF Inv, NoGap
<1>6. PositionsHeld'
  BY <1>1, <1>2, <1>3 DEF Inv, TypeOK, PositionsHeld
<1>7. SyncingRuns' /\ ReplicaOK' /\ StartedOnce'
  BY <1>1 DEF Inv, ControlOK, SyncingRuns, ReplicaOK, StartedOnce, Running
<1>8. main \notin Closing
  BY <1>1 DEF Inv, ControlOK, QuietOK
<1>9. QuietOK' /\ FlushOK'
  BY <1>1, <1>8 DEF QuietOK, FlushOK
<1> QED BY <1>2, <1>4, <1>5, <1>6, <1>7, <1>9 DEF Inv, ControlOK

-----------------------------------------------------------------------------
(* The Replica.Syncs of demotion and of Close. *)

LEMMA DemoteKeepsInv ==
  ASSUME Inv, Demote
  PROVE  Inv'
<1>1. /\ main = "run" /\ mode = "manager" /\ main' = IF replica THEN "demoteSync" ELSE "close"
      /\ UNCHANGED <<fixed, child, failed, contexts, db, comp, monitors, wal, remote, rpos, dpos>>
      /\ Call("main") \/ UNCHANGED <<sub, tx>>
  BY DEF Demote
<1>2. pos' = pos /\ pos' \in Nat /\ pos <= pos'
  BY <1>1 DEF Inv, TypeOK
<1>3. /\ PositionsHeld'
      /\ sub' \in [Syncers -> {"off", "setpos", "pos", "next", "upload", "ok", "error"}]
      /\ tx' \in [Syncers -> 0..MaxTX]
      /\ \A u \in Syncers : u # "main" => sub'[u] = sub[u]
  <2>1. CASE Call("main")
    BY <1>1, <1>2, <2>1, CallHoldsPosition
  <2>2. CASE UNCHANGED <<sub, tx>>
    BY <1>1, <1>2, <2>2 DEF Inv, TypeOK, PositionsHeld
  <2> QED BY <1>1, <2>1, <2>2
<1>4. TypeOK'
  BY <1>1, <1>3 DEF Inv, TypeOK
<1>5. NoGap' /\ DirtyFits'
  BY <1>1 DEF Inv, NoGap, DirtyFits
<1>6. SyncingRuns' /\ ReplicaOK' /\ StartedOnce'
  BY <1>1, <1>3 DEF Inv, ControlOK, SyncingRuns, ReplicaOK, StartedOnce, Running
<1>7. QuietOK' /\ FlushOK'
  BY <1>1 DEF QuietOK, FlushOK
<1> QED BY <1>3, <1>4, <1>5, <1>6, <1>7 DEF Inv, ControlOK

(* The result of main's Replica.Sync is taken. *)
LEMMA ResultKeepsInv ==
  ASSUME Inv, DemoteSynced \/ CloseReplica
  PROVE  Inv'
<1>1. /\ main \in {"demoteSync", "closeReplica"}
      /\ main' = IF main = "demoteSync" THEN "demoteWait" ELSE "closeStop"
      /\ sub["main"] \in {"ok", "error"} /\ sub' = [sub EXCEPT !["main"] = "off"]
      /\ StopCancel
      /\ UNCHANGED <<fixed, child, contexts, db, comp, rmon, rcancel, notified, wal, remote,
                     rpos, tx, dpos>>
  BY DEF DemoteSynced, CloseReplica
<1>2. /\ main = "demoteSync" => failed' = failed
      /\ main = "closeReplica" => failed' = (failed \/ sub["main"] = "error")
  BY DEF DemoteSynced, CloseReplica
<1>3. TypeOK'
  <2>1. canceled' \subseteq Starters
    BY <1>1, StopCancelsMonitors
  <2>2. failed' \in BOOLEAN
    BY <1>1, <1>2 DEF Inv, TypeOK
  <2>3. sub' \in [Syncers -> {"off", "setpos", "pos", "next", "upload", "ok", "error"}]
    BY <1>1 DEF Inv, TypeOK
  <2> QED BY <1>1, <2>1, <2>2, <2>3 DEF Inv, TypeOK
<1>4. NoGap' /\ PositionsHeld' /\ DirtyFits'
  BY <1>1 DEF Inv, TypeOK, NoGap, PositionsHeld, DirtyFits
<1>5. SyncingRuns' /\ ReplicaOK' /\ StartedOnce'
  BY <1>1 DEF Inv, TypeOK, ControlOK, SyncingRuns, ReplicaOK, StartedOnce, Running
<1>6. QuietOK'
  BY <1>1 DEF Inv, ControlOK, QuietOK
<1>7. FlushOK'
  BY <1>1, <1>2 DEF Inv, ControlOK, FlushOK
<1> QED BY <1>3, <1>4, <1>5, <1>6, <1>7 DEF Inv, ControlOK

(* The final DB.Sync: DB.monitor has ended, so what it writes is the last. *)
LEMMA CloseSyncKeepsInv ==
  ASSUME Inv, NEW ok \in BOOLEAN, CloseSync(ok)
  PROVE  Inv'
<1>1. /\ main = "closeSync" /\ main' = IF replica THEN "closeReplica" ELSE "closeFiles"
      /\ failed' = (failed \/ ~ok)
      /\ replica => Call("main")
      /\ ~replica => UNCHANGED <<sub, tx>>
      /\ UNCHANGED <<fixed, child, contexts, db, comp, rmon, rcancel, canceled, remote, rpos,
                     dpos>>
  BY DEF CloseSync
<1>2. /\ pos' \in 0..MaxTX /\ pos <= pos' /\ dirty' \in BOOLEAN
      /\ notified' \subseteq Starters /\ DirtyFits' /\ (ok => ~dirty')
  BY WriteL0Fits DEF CloseSync
<1>3. pos \in Nat /\ pos' \in Nat
  BY <1>2, LifecycleAssumption DEF Inv, TypeOK
<1>4. /\ PositionsHeld'
      /\ sub' \in [Syncers -> {"off", "setpos", "pos", "next", "upload", "ok", "error"}]
      /\ tx' \in [Syncers -> 0..MaxTX]
      /\ \A u \in Syncers : u # "main" => sub'[u] = sub[u]
      /\ replica => sub'["main"] \in {"setpos", "pos"}
  <2>1. CASE replica
    BY <1>1, <1>2, <1>3, <2>1, CallHoldsPosition
  <2>2. CASE ~replica
    BY <1>1, <1>2, <1>3, <2>2 DEF Inv, TypeOK, PositionsHeld
  <2> QED BY <2>1, <2>2
<1>5. TypeOK'
  <2>1. failed' \in BOOLEAN
    BY <1>1
  <2> QED BY <1>1, <1>2, <1>3, <1>4, <2>1 DEF Inv, TypeOK
<1>6. NoGap'
  BY <1>1, <1>2, <1>3 DEF Inv, NoGap
<1>7. SyncingRuns' /\ ReplicaOK' /\ StartedOnce'
  BY <1>1, <1>4 DEF Inv, ControlOK, SyncingRuns, ReplicaOK, StartedOnce, Running
<1>8. QuietOK'
  BY <1>1 DEF Inv, TypeOK, ControlOK, ReplicaOK, QuietOK, AllStopped, Running, StartedTwice
<1>9. FlushOK'
  BY <1>1, <1>2, <1>4 DEF FlushOK
<1> QED BY <1>2, <1>4, <1>5, <1>6, <1>7, <1>8, <1>9 DEF Inv, ControlOK

-----------------------------------------------------------------------------
(* The theorems. *)

LEMMA InitInv ==
  ASSUME Init
  PROVE  Inv
<1>1. TypeOK
  <2>1. mode \in {"replicate", "manager"} /\ exec \in BOOLEAN /\ replica \in BOOLEAN
    BY DEF Init
  <2>2. /\ rmon \in [Starters -> {"none", "wait", "fetch", "sync", "ended"}]
        /\ sub \in [Syncers -> {"off", "setpos", "pos", "next", "upload", "ok", "error"}]
        /\ tx \in [Syncers -> 0..MaxTX] /\ dpos \in [Syncers -> 0..MaxTX]
    BY LifecycleAssumption DEF Init
  <2>3. /\ failed \in BOOLEAN /\ dbCtx \in BOOLEAN /\ mgrCtx \in BOOLEAN /\ dirty \in BOOLEAN
    BY DEF Init
  <2>4. pos \in 0..MaxTX /\ rpos \in 0..pos /\ remote \subseteq 1..pos
    BY LifecycleAssumption DEF Init
  <2> QED BY <2>1, <2>2, <2>3, <2>4 DEF Init, TypeOK
<1>2. NoGap /\ PositionsHeld /\ DirtyFits
  <2>1. remote = 1..0 /\ pos = 0
    BY DEF Init
  <2> QED BY <2>1, LifecycleAssumption DEF Init, NoGap, PositionsHeld, DirtyFits
<1>3. ControlOK
  BY DEF Init, ControlOK, SyncingRuns, ReplicaOK, StartedOnce, QuietOK, FlushOK, Running
<1> QED BY <1>1, <1>2, <1>3 DEF Inv

(* Every step of every goroutine keeps the invariant. *)
LEMMA NextKeepsInv ==
  ASSUME Inv, [Next]_vars
  PROVE  Inv'
<1>1. CASE UNCHANGED vars
  BY <1>1 DEF vars, Inv, TypeOK, NoGap, PositionsHeld, DirtyFits, ControlOK, SyncingRuns,
              ReplicaOK, StartedOnce, QuietOK, FlushOK, AllStopped, Running, StartedTwice
<1>2. CASE Commit \/ ChildExit \/ CompactionEnd
  BY <1>2, CommitKeepsInv, EnvironmentKeepsInv
<1>3. ASSUME NEW t \in Syncers, ReplicaSync(t) PROVE Inv'
  BY <1>3, SyncPosKeepsInv, SyncNextKeepsInv, SyncUploadKeepsInv DEF ReplicaSync
<1>4. ASSUME NEW m \in Starters, Monitor(m) PROVE Inv'
  BY <1>4, WaitingKeepsInv, MonitorFetchKeepsInv DEF Monitor
<1>5. CASE DBMonitor \/ DBMonitorEnd \/ InitHalf \/ DBMonitorSync(FALSE)
  BY <1>5, DBMonitorKeepsInv, DBMonitorSyncKeepsInv DEF DBMonitor
<1>6. CASE Close
  BY <1>6, CloseKeepsInv, CloseSyncKeepsInv, ResultKeepsInv DEF Close
<1>7. CASE MainStep
  BY <1>6, <1>7, ReplicateKeepsInv, PromoteKeepsInv, ManagerKeepsInv, ResultKeepsInv
  DEF MainStep
<1>8. CASE Signal \/ Demote \/ ManagerCancel
  BY <1>8, ReplicateKeepsInv, DemoteKeepsInv, ManagerKeepsInv
<1> QED BY <1>1, <1>2, <1>3, <1>4, <1>5, <1>7, <1>8 DEF Next

(* Inv is an invariant of a database's life. *)
THEOREM Invariance == Spec => []Inv
<1>1. Init => Inv
  BY InitInv
<1>2. Inv /\ [Next]_vars => Inv'
  BY NextKeepsInv
<1> QED BY <1>1, <1>2, PTL DEF Spec

(* The variables keep their types: no goroutine is ever at a place it cannot be
   at, and no position runs ahead of the L0 files. *)
THEOREM TypeCorrect == Spec => []TypeOK
<1>1. Inv => TypeOK
  BY DEF Inv
<1> QED BY <1>1, Invariance, PTL

(* Whatever number of L0 files there is, however many goroutines are in
   Replica.Sync at once and whatever fails, the replica's L0 has no gap. *)
THEOREM UploadsLeaveNoGap == Spec => []UploadedWithoutGap
<1>1. Inv => UploadedWithoutGap
  <2> SUFFICES ASSUME Inv PROVE UploadedWithoutGap
    OBVIOUS
  <2>1. PICK n \in 0..pos : remote = 1..n
    BY DEF Inv, NoGap
  <2>2. n \in Nat
    BY <2>1 DEF Inv, TypeOK
  <2> QED BY <2>1, <2>2, EndOfInterval DEF UploadedWithoutGap
<1> QED BY <1>1, Invariance, PTL

(* A Close that reports no error has flushed: every L0 file is on the replica
   and the WAL has nothing that no L0 file holds (DB.Close, Store.Close). *)
THEOREM CloseAlwaysFlushes == Spec => []CloseFlushes
<1>1. Inv => CloseFlushes
  BY DEF Inv, ControlOK, FlushOK, CloseFlushes
<1> QED BY <1>1, Invariance, PTL

(* A closed database is quiet: the wait groups of DB.Close, Replica.Stop and
   Store.Close are enough, except after a double start. *)
THEOREM ClosedIsQuiet == Spec => []QuietAfterClose
<1>1. Inv => QuietAfterClose
  BY DEF Inv, ControlOK, QuietOK, QuietAfterClose
<1> QED BY <1>1, Invariance, PTL

=============================================================================
