------------------------------ MODULE Lifecycle ------------------------------
(***************************************************************************)
(* The goroutines of one database from opening to closing: DB.monitor, the *)
(* Replica.monitor goroutines, the compaction monitors of the Store, and   *)
(* the goroutine that opens and closes them, which is                      *)
(*                                                                         *)
(*   replicate   the replicate command, with or without a child process    *)
(*               (-exec), through Store.Open and Store.Close;              *)
(*   manager     HotColdManager: promoteToHot, demoteToCold and Stop       *)
(*               through DynamicDB.                                        *)
(*                                                                         *)
(* What is modelled is who waits for whom (db.mu, the wait groups, the     *)
(* contexts, the notify channel) and which L0 files exist here and on the  *)
(* replica; what a file holds is the concern of module DBSync.             *)
(***************************************************************************)
EXTENDS Integers, FiniteSets

CONSTANTS MaxTX,   \* bound: L0 files of the database
          Faults   \* which calls may fail: a subset of AllFaults

AllFaults == {"init", "sync", "upload", "replica"}
ASSUME LifecycleAssumption == MaxTX \in Nat \ {0} /\ Faults \subseteq AllFaults

(* Replica.Start is called from DB.init and from promoteToHot, once each; a
   monitor goroutine has the name of its caller. *)
Starters == {"init", "promote"}
Syncers == Starters \cup {"main"}

VARIABLES
  mode, exec,  \* who opens the database, and whether there is a child; fixed
  main,        \* the goroutine that opens and closes
  child,       \* the child process: none, running, ok or error
  failed,      \* main: Close has an error to report
  dbCtx,       \* db.ctx is canceled
  mgrCtx,      \* HotColdManager.ctx, or Store.ctx, is canceled
  dbmon,       \* DB.monitor
  comp,        \* a compaction monitor
  sqlDB,       \* db.db: nil, open, half (open without the rest) or closed
  replica,     \* db.Replica is set
  rmon,        \* starter -> its Replica.monitor
  rcancel,     \* the monitor that r.cancel cancels
  canceled,    \* the monitors that it has canceled
  notified,    \* the monitors whose notify channel is closed
  dirty,       \* the WAL has transactions that no L0 file holds
  pos,         \* DB.Pos: the L0 files are 1..pos
  remote,      \* the L0 files on the replica
  rpos,        \* Replica.pos
  sub,         \* syncer -> its place in Replica.Sync
  tx,          \* syncer -> the TXID it works on
  dpos         \* syncer -> its target

fixed == <<mode, exec>>
contexts == <<dbCtx, mgrCtx>>
monitors == <<rmon, rcancel, canceled, notified>>
wal == <<dirty, pos>>
upload == <<remote, rpos, sub, tx, dpos>>
db == <<dbmon, sqlDB, replica>>
vars == <<fixed, main, child, failed, contexts, db, comp, monitors, wal, upload>>

Init ==
  /\ mode \in {"replicate", "manager"} /\ exec \in BOOLEAN
  /\ mode = "manager" => ~exec
  /\ main = "open" /\ failed = FALSE
  /\ child = "none"
  /\ dbCtx = FALSE /\ mgrCtx = FALSE
  /\ dbmon = "off" /\ comp = "off"
  /\ sqlDB = "nil" /\ replica = (mode = "replicate")
  /\ rmon = [m \in Starters |-> "none"]
  /\ rcancel = "none" /\ canceled = {} /\ notified = {}
  /\ dirty = TRUE /\ pos = 0
  /\ remote = {} /\ rpos = 0
  /\ sub = [t \in Syncers |-> "off"]
  /\ tx = [t \in Syncers |-> 0] /\ dpos = [t \in Syncers |-> 0]

-----------------------------------------------------------------------------
(* The final DB.Sync is over. *)
Flushed == main \in {"closeReplica", "closeStop", "closeFiles", "closed", "stopping", "exit"}

(* The application, or the child process, commits to the WAL.  (What comes
   after the final DB.Sync is for the next process to replicate.) *)
Commit ==
  /\ ~dirty /\ pos < MaxTX /\ ~Flushed
  /\ exec => child = "running"
  /\ dirty' = TRUE
  /\ UNCHANGED <<fixed, main, child, failed, contexts, db, comp, monitors, pos, upload>>

ChildExit ==
  /\ child = "running"
  /\ child' \in {"ok", "error"}
  /\ UNCHANGED <<fixed, main, failed, contexts, db, comp, monitors, wal, upload>>

-----------------------------------------------------------------------------
(* Replica.Sync, in a monitor or in main. *)

Max0(S) == IF S = {} THEN 0 ELSE CHOOSE x \in S : \A y \in S : y <= x

(* Replica.Sync begins: if the position is unknown, calcPos lists the L0 files
   and SetPos follows later. *)
Call(t) ==
  /\ sub' = [sub EXCEPT ![t] = IF rpos = 0 THEN "setpos" ELSE "pos"]
  /\ tx' = [tx EXCEPT ![t] = IF rpos = 0 THEN Max0(remote) ELSE 0]

outside == <<fixed, main, child, failed, contexts, db, comp, rcancel, canceled, notified, wal>>

(* Replica.Sync returns: main looks at the result, a monitor logs an error and
   waits for the ticker and the next change. *)
Return(t, result) ==
  /\ sub' = [sub EXCEPT ![t] = IF t = "main" THEN result ELSE "off"]
  /\ tx' = [tx EXCEPT ![t] = 0] /\ dpos' = [dpos EXCEPT ![t] = 0]
  /\ rmon' = [m \in Starters |-> IF m = t THEN "wait" ELSE rmon[m]]

(* SetPos of what calcPos found, which may be stale by now, and DB.Pos; "no
   position, waiting for data" is an error. *)
SyncPos(t) ==
  /\ sub[t] \in {"setpos", "pos"}
  /\ IF pos = 0
     THEN Return(t, "error") /\ rpos' = 0
     ELSE /\ sub' = [sub EXCEPT ![t] = "next"]
          /\ rpos' = IF sub[t] = "setpos" THEN tx[t] ELSE rpos
          /\ tx' = [tx EXCEPT ![t] = 0] /\ dpos' = [dpos EXCEPT ![t] = pos]
          /\ UNCHANGED rmon
  /\ UNCHANGED <<outside, remote>>

(* The head of the loop reads r.Pos, which others move as well. *)
SyncNext(t) ==
  /\ sub[t] = "next"
  /\ IF rpos + 1 <= dpos[t]
     THEN /\ sub' = [sub EXCEPT ![t] = "upload"]
          /\ tx' = [tx EXCEPT ![t] = rpos + 1]
          /\ UNCHANGED <<dpos, rmon>>
     ELSE Return(t, "ok")
  /\ UNCHANGED <<outside, remote, rpos>>

Uploaded(t) ==
  /\ remote' = remote \cup {tx[t]}
  /\ sub' = [sub EXCEPT ![t] = "next"]
  /\ rpos' = tx[t] /\ tx' = [tx EXCEPT ![t] = 0]
  /\ UNCHANGED <<dpos, rmon>>

(* Mutant: after an error the position is not cleared but moved on. *)
SyncUploadKeepsPos(t, ok) ==
  /\ sub[t] = "upload"
  /\ IF ok THEN Uploaded(t)
     ELSE /\ "upload" \in Faults /\ remote' \in {remote, remote \cup {tx[t]}}
          /\ Return(t, "error") /\ rpos' = tx[t]
  /\ UNCHANGED outside

(* uploadLTXFile, which can fail after the file was stored, then SetPos. *)
SyncUpload(t, ok) ==
  /\ sub[t] = "upload"
  /\ IF ok THEN Uploaded(t)
     ELSE /\ "upload" \in Faults /\ remote' \in {remote, remote \cup {tx[t]}}
          /\ Return(t, "error") /\ rpos' = 0
  /\ UNCHANGED outside

ReplicaSync(t) ==
  \/ SyncPos(t) \/ SyncNext(t)
  \/ \E ok \in BOOLEAN : SyncUpload(t, ok)

-----------------------------------------------------------------------------
(* Replica.Start and Replica.Stop. *)

Running(m) == rmon[m] \notin {"none", "ended"}

(* r.cancel(). *)
StopCancel ==
  canceled' = canceled \cup {m \in Starters : m = rcancel /\ rmon[m] # "ended"}

(* r.wg.Wait() can return. *)
AllStopped == \A m \in Starters : ~Running(m)

(* go r.monitor(ctx): its first notify channel is closed. *)
StartMonitor(m) ==
  /\ rmon' = [rmon EXCEPT ![m] = "wait"]
  /\ notified' = notified \cup {m}

(* The monitor's context or the one it was derived from is canceled. *)
Done(m) == \/ m \in canceled
           \/ IF m = "init" THEN dbCtx ELSE mgrCtx

monitorOnly == <<fixed, main, child, failed, contexts, db, comp, rcancel, wal, remote, rpos,
                 dpos>>

(* Replica.monitor waits for the ticker and for the notify channel: when the
   context is canceled and the channel is closed as well, select picks either. *)
MonitorEnd(m) ==
  /\ rmon[m] = "wait" /\ Done(m)
  /\ rmon' = [rmon EXCEPT ![m] = "ended"]
  /\ notified' = notified \ {m} /\ canceled' = canceled \ {m}
  /\ UNCHANGED <<monitorOnly, sub, tx>>

MonitorWake(m) ==
  /\ rmon[m] = "wait" /\ m \in notified
  /\ rmon' = [rmon EXCEPT ![m] = "fetch"]
  /\ UNCHANGED <<monitorOnly, canceled, notified, sub, tx>>

(* DB.monitor is in DB.Sync and holds db.mu. *)
Locked == dbmon \in {"startCancel", "startWait", "startGo", "sync"}

(* db.Notify takes db.mu for reading; then Replica.Sync. *)
MonitorFetch(m) ==
  /\ rmon[m] = "fetch" /\ ~Locked
  /\ notified' = notified \ {m}
  /\ rmon' = [rmon EXCEPT ![m] = "sync"] /\ Call(m)
  /\ UNCHANGED <<monitorOnly, canceled>>

-----------------------------------------------------------------------------
(* DB.monitor and DB.Sync.  A Sync that does not start the replica is one step:
   all that others could see of it is that db.mu is taken. *)

(* Mutant: a WAL that did not change makes a file as well. *)
WriteL0Always(ok) ==
  /\ ok /\ sqlDB = "open"
  /\ dirty' = FALSE /\ pos' = pos + 1
  /\ notified' = notified \cup {m \in Starters : Running(m)}

(* verifyAndSync writes what the WAL has to a new L0 file and the notify
   channel is closed; or it fails, as it always does after half an init. *)
WriteL0(ok) ==
  IF ok THEN /\ sqlDB = "open"
             /\ dirty' = FALSE /\ pos' = IF dirty THEN pos + 1 ELSE pos
             /\ notified' = notified \cup {m \in Starters : Running(m)}
        ELSE /\ "sync" \in Faults \/ sqlDB # "open"
             /\ UNCHANGED <<wal, notified>>

dbmonOnly == <<fixed, main, child, failed, contexts, replica, comp, upload>>

DBMonitorEnd ==
  /\ dbmon = "ticker" /\ dbCtx
  /\ dbmon' = "ended"
  /\ UNCHANGED <<dbmonOnly, sqlDB, monitors, wal>>

(* DB.init succeeds and starts the replica, if there is one.  (If there is no
   database file, or init fails and is undone, nothing changes.) *)
InitDone ==
  /\ dbmon = "ticker" /\ sqlDB = "nil" /\ ~dbCtx
  /\ sqlDB' = "open"
  /\ dbmon' = IF replica THEN "startCancel" ELSE "sync"
  /\ UNCHANGED <<dbmonOnly, monitors, wal>>

(* The database file cannot be opened after sql.Open: db.db stays. *)
InitHalf ==
  /\ dbmon = "ticker" /\ sqlDB = "nil" /\ "init" \in Faults
  /\ sqlDB' = "half"
  /\ UNCHANGED <<dbmonOnly, dbmon, monitors, wal>>

(* Replica.Start, still under db.mu. *)
InitStartCancel ==
  /\ dbmon = "startCancel"
  /\ StopCancel /\ dbmon' = "startWait"
  /\ UNCHANGED <<dbmonOnly, sqlDB, rmon, rcancel, notified, wal>>

InitStartWait ==
  /\ dbmon = "startWait" /\ AllStopped
  /\ rcancel' = "init" /\ dbmon' = "startGo"
  /\ UNCHANGED <<dbmonOnly, sqlDB, rmon, canceled, notified, wal>>

InitStartGo ==
  /\ dbmon = "startGo"
  /\ StartMonitor("init") /\ dbmon' = "sync"
  /\ UNCHANGED <<dbmonOnly, sqlDB, rcancel, canceled, wal>>

Syncing == dbmon = "sync" \/ (dbmon = "ticker" /\ sqlDB # "nil")

(* Mutant: the notify channel is not closed. *)
DBMonitorSyncSilent(ok) ==
  /\ Syncing /\ dbmon' = "ticker"
  /\ ok /\ sqlDB = "open"
  /\ dirty' = FALSE /\ pos' = IF dirty THEN pos + 1 ELSE pos
  /\ UNCHANGED <<dbmonOnly, sqlDB, monitors>>

DBMonitorSync(ok) ==
  /\ Syncing /\ WriteL0(ok)
  /\ dbmon' = "ticker"
  /\ UNCHANGED <<dbmonOnly, sqlDB, rmon, rcancel, canceled>>

(* Store.monitorCompactionLevel ends; its work is module LTXStore's. *)
CompactionEnd ==
  /\ comp = "on" /\ mgrCtx
  /\ comp' = "ended"
  /\ UNCHANGED <<fixed, main, child, failed, contexts, db, monitors, wal, upload>>

-----------------------------------------------------------------------------
(* Main: the replicate command. *)

Goto(pc) == main' = pc

(* Store.Open: DB.Open, then the compaction monitors; the child is started. *)
ReplicateOpen ==
  /\ main = "open" /\ mode = "replicate"
  /\ Goto("run")
  /\ dbmon' = "ticker" /\ comp' = "on"
  /\ child' = IF exec THEN "running" ELSE "none"
  /\ UNCHANGED <<fixed, failed, contexts, sqlDB, replica, monitors, wal, upload>>

mainOnly == <<fixed, child, contexts, db, comp, monitors, wal, upload>>

(* The child ends, or a signal arrives; it is passed on to the child. *)
ChildExited ==
  /\ main = "run" /\ mode = "replicate"
  /\ child \in {"ok", "error"}
  /\ Goto("close") /\ UNCHANGED <<mainOnly, failed>>

Signal ==
  /\ main = "run" /\ mode = "replicate"
  /\ Goto(CASE child = "none" -> "close"
            [] child = "running" -> "reap"
            [] OTHER -> "aborted")       \* "cannot signal exec process"
  /\ UNCHANGED <<mainOnly, failed>>

(* "cannot wait for exec process": the command returns at once. *)
Reap ==
  /\ main = "reap" /\ child \in {"ok", "error"}
  /\ Goto(IF child = "ok" THEN "close" ELSE "aborted")
  /\ UNCHANGED <<mainOnly, failed>>

-----------------------------------------------------------------------------
(* Main: HotColdManager. *)

(* promoteToHot: DynamicDB.Open, which starts DB.monitor ... *)
PromoteOpen ==
  /\ main = "open" /\ mode = "manager"
  /\ Goto("assign") /\ dbmon' = "ticker"
  /\ UNCHANGED <<fixed, child, failed, contexts, sqlDB, replica, comp, monitors, wal,
                 upload>>

(* ... and only then creates the replica and assigns it, unless that fails. *)
PromoteAssign ==
  /\ main = "assign"
  /\ \/ Goto("startCancel") /\ replica' = TRUE
     \/ "replica" \in Faults /\ Goto("run") /\ UNCHANGED replica
  /\ UNCHANGED <<fixed, child, failed, contexts, dbmon, sqlDB, comp, monitors, wal,
                 upload>>

(* Replica.Start. *)
PromoteStartCancel ==
  /\ main = "startCancel"
  /\ StopCancel /\ Goto("startWait")
  /\ UNCHANGED <<fixed, child, failed, contexts, db, comp, rmon, rcancel, notified, wal,
                 upload>>

PromoteStartWait ==
  /\ main = "startWait" /\ AllStopped
  /\ rcancel' = "promote" /\ Goto("startGo")
  /\ UNCHANGED <<fixed, child, failed, contexts, db, comp, rmon, canceled, notified, wal,
                 upload>>

PromoteStartGo ==
  /\ main = "startGo"
  /\ StartMonitor("promote") /\ Goto("run")
  /\ UNCHANGED <<fixed, child, failed, contexts, db, comp, rcancel, canceled, wal, upload>>

(* demoteToCold: a last Replica.Sync, Replica.Stop, no replica, Close. *)
Demote ==
  /\ main = "run" /\ mode = "manager"
  /\ IF replica THEN Goto("demoteSync") /\ Call("main")
                ELSE Goto("close") /\ UNCHANGED <<sub, tx>>
  /\ UNCHANGED <<fixed, child, failed, contexts, db, comp, monitors, wal, remote, rpos, dpos>>

DemoteSynced ==
  /\ main = "demoteSync" /\ sub["main"] \in {"ok", "error"}
  /\ sub' = [sub EXCEPT !["main"] = "off"]
  /\ StopCancel /\ Goto("demoteWait")
  /\ UNCHANGED <<fixed, child, failed, contexts, db, comp, rmon, rcancel, notified, wal,
                 remote, rpos, tx, dpos>>

DemoteStopped ==
  /\ main = "demoteWait" /\ AllStopped
  /\ replica' = FALSE /\ Goto("close")
  /\ UNCHANGED <<fixed, child, failed, contexts, dbmon, sqlDB, comp, monitors, wal,
                 upload>>

(* HotColdManager.Stop cancels its context, whatever the detector's goroutine
   is doing, and waits for it; then Replica.Stop and Close. *)
ManagerCancel ==
  /\ mode = "manager" /\ main # "open" /\ ~mgrCtx
  /\ mgrCtx' = TRUE
  /\ UNCHANGED <<fixed, main, child, failed, dbCtx, db, comp, monitors, wal, upload>>

ManagerStop ==
  /\ main = "run" /\ mode = "manager" /\ mgrCtx
  /\ IF replica THEN StopCancel /\ Goto("managerWait")
                ELSE Goto("close") /\ UNCHANGED canceled
  /\ UNCHANGED <<fixed, child, failed, contexts, db, comp, rmon, rcancel, notified, wal,
                 upload>>

ManagerStopped ==
  /\ main = "managerWait" /\ AllStopped
  /\ Goto("close")
  /\ UNCHANGED <<mainOnly, failed>>

-----------------------------------------------------------------------------
(* Main: DB.Close, from Store.Close or DynamicDB.Close. *)

CloseCancel ==
  /\ main = "close"
  /\ dbCtx' = TRUE /\ Goto("closeWait")
  /\ UNCHANGED <<fixed, child, failed, mgrCtx, db, comp, monitors, wal, upload>>

(* db.wg.Wait. *)
CloseWait ==
  /\ main = "closeWait" /\ dbmon = "ended"
  /\ \/ sqlDB # "nil" /\ Goto("closeSync") /\ UNCHANGED canceled
     \/ sqlDB = "nil" /\ replica /\ StopCancel /\ Goto("closeStop")
     \/ sqlDB = "nil" /\ ~replica /\ Goto("closed") /\ UNCHANGED canceled
  /\ UNCHANGED <<fixed, child, failed, contexts, db, comp, rmon, rcancel, notified, wal,
                 upload>>

(* Mutant: the replica is synced before the database. *)
CloseSyncLate(ok) ==
  /\ main = "closeSync"
  /\ IF sub["main"] = "off"
     THEN /\ Call("main") /\ ok
          /\ UNCHANGED <<main, failed, wal, notified>>
     ELSE /\ sub["main"] \in {"ok", "error"} /\ WriteL0(ok)
          /\ failed' = (failed \/ ~ok)
          /\ Goto("closeReplica") /\ UNCHANGED <<sub, tx>>
  /\ UNCHANGED <<fixed, child, contexts, db, comp, rmon, rcancel, canceled, remote, rpos,
                 dpos>>

(* The final DB.Sync, then Replica.Sync. *)
CloseSync(ok) ==
  /\ main = "closeSync"
  /\ WriteL0(ok)
  /\ failed' = (failed \/ ~ok)
  /\ IF replica THEN Goto("closeReplica") /\ Call("main")
                ELSE Goto("closeFiles") /\ UNCHANGED <<sub, tx>>
  /\ UNCHANGED <<fixed, child, contexts, db, comp, rmon, rcancel, canceled, remote, rpos,
                 dpos>>

CloseReplica ==
  /\ main = "closeReplica" /\ sub["main"] \in {"ok", "error"}
  /\ failed' = (failed \/ sub["main"] = "error")
  /\ sub' = [sub EXCEPT !["main"] = "off"]
  /\ StopCancel /\ Goto("closeStop")
  /\ UNCHANGED <<fixed, child, contexts, db, comp, rmon, rcancel, notified, wal, remote,
                 rpos, tx, dpos>>

(* Mutant: the goroutines are told to stop and not waited for. *)
CloseStopNoWait ==
  /\ main = "closeStop"
  /\ Goto("closeFiles")
  /\ UNCHANGED <<mainOnly, failed>>

(* r.wg.Wait in Replica.Stop. *)
CloseStop ==
  /\ main = "closeStop" /\ AllStopped
  /\ Goto("closeFiles")
  /\ UNCHANGED <<mainOnly, failed>>

(* The read lock is released; db.db and db.f are closed. *)
CloseFiles ==
  /\ main = "closeFiles"
  /\ sqlDB' = IF sqlDB = "nil" THEN "nil" ELSE "closed"
  /\ Goto("closed")
  /\ UNCHANGED <<fixed, child, failed, contexts, dbmon, replica, comp, monitors, wal,
                 upload>>

(* Mutant: the compaction monitors are waited for before they are canceled. *)
StoreCancelLate ==
  /\ main = "closed"
  /\ comp \in {"off", "ended"} /\ mgrCtx' = TRUE
  /\ Goto("stopping")
  /\ UNCHANGED <<fixed, child, failed, dbCtx, db, comp, monitors, wal, upload>>

(* Store.Close goes on to the compaction monitors. *)
StoreCancel ==
  /\ main = "closed"
  /\ mgrCtx' = (mgrCtx \/ mode = "replicate")
  /\ Goto("stopping")
  /\ UNCHANGED <<fixed, child, failed, dbCtx, db, comp, monitors, wal, upload>>

StoreWait ==
  /\ main = "stopping" /\ comp \in {"off", "ended"}
  /\ Goto("exit")
  /\ UNCHANGED <<mainOnly, failed>>

Close ==
  \/ CloseCancel \/ CloseWait \/ (\E ok \in BOOLEAN : CloseSync(ok))
  \/ CloseReplica \/ CloseStop \/ CloseFiles \/ StoreCancel \/ StoreWait

(* What main does without waiting for a decision of the user or the detector. *)
MainStep ==
  \/ ReplicateOpen \/ ChildExited \/ Reap
  \/ PromoteOpen \/ PromoteAssign
  \/ PromoteStartCancel \/ PromoteStartWait \/ PromoteStartGo
  \/ DemoteSynced \/ DemoteStopped \/ ManagerStop \/ ManagerStopped
  \/ Close

Monitor(m) == MonitorEnd(m) \/ MonitorWake(m) \/ MonitorFetch(m)

(* The process is over once the command returned without Close. *)
Alive == main # "aborted"

DBMonitor == \/ InitDone \/ InitStartCancel \/ InitStartWait \/ InitStartGo
             \/ DBMonitorSync(TRUE)

Next ==
  \/ Alive /\ Commit
  \/ Alive /\ ChildExit
  \/ Alive /\ \E t \in Syncers : ReplicaSync(t)
  \/ Alive /\ \E m \in Starters : Monitor(m)
  \/ Alive /\ (DBMonitor \/ DBMonitorEnd \/ InitHalf \/ DBMonitorSync(FALSE))
  \/ Alive /\ CompactionEnd
  \/ MainStep
  \/ Signal \/ Demote \/ ManagerCancel

Spec == Init /\ [][Next]_vars

(* Goroutines that can run do run, tickers fire, a child that was signalled
   ends; select takes a canceled context sooner or later; a database file that
   is there is opened, and a call that is tried for ever succeeds again. *)
Fairness ==
  /\ WF_vars(MainStep \/ ReplicaSync("main"))
  /\ WF_vars(main = "reap" /\ ChildExit)
  /\ WF_vars(DBMonitor) /\ WF_vars(DBMonitorEnd) /\ WF_vars(CompactionEnd)
  /\ \A m \in Starters : /\ WF_vars(Monitor(m) \/ ReplicaSync(m))
                         /\ SF_vars(MonitorEnd(m)) /\ SF_vars(SyncUpload(m, TRUE))

FairSpec == Spec /\ Fairness

-----------------------------------------------------------------------------
(* Properties. *)

(* The variables hold what their Go counterparts can hold. *)
TypeOK ==
  /\ mode \in {"replicate", "manager"} /\ exec \in BOOLEAN
  /\ child \in {"none", "running", "ok", "error"}
  /\ failed \in BOOLEAN /\ dbCtx \in BOOLEAN /\ mgrCtx \in BOOLEAN
  /\ replica \in BOOLEAN /\ dirty \in BOOLEAN
  /\ comp \in {"off", "on", "ended"}
  /\ dbmon \in {"off", "ticker", "startCancel", "startWait", "startGo", "sync", "ended"}
  /\ sqlDB \in {"nil", "open", "half", "closed"}
  /\ rmon \in [Starters -> {"none", "wait", "fetch", "sync", "ended"}]
  /\ rcancel \in Starters \cup {"none"}
  /\ canceled \subseteq Starters /\ notified \subseteq Starters
  /\ pos \in 0..MaxTX /\ rpos \in 0..pos /\ remote \subseteq 1..pos
  /\ sub \in [Syncers -> {"off", "setpos", "pos", "next", "upload", "ok", "error"}]
  /\ tx \in [Syncers -> 0..MaxTX] /\ dpos \in [Syncers -> 0..MaxTX]

(* Promotion and init both start the replica: init found the replica that
   promoteToHot had assigned. *)
StartedTwice ==
  /\ mode = "manager"
  /\ dbmon \in {"startCancel", "startWait", "startGo"} \/ rmon["init"] # "none"

(* However many goroutines are in Replica.Sync at once (the monitor's and the
   one of Close or demotion, and two monitors after a double start), and
   whatever fails or is overtaken, the replica's L0 files have no gap. *)
UploadedWithoutGap == remote = 1..Max0(remote)

(* "Close flushes outstanding WAL writes to replicas": if no error is reported
   and the database was initialized, the replica has every L0 file, and every
   transaction of the child process, which has ended by then.  Demotion is the
   exception: it gives up the replica before the final DB.Sync. *)
CloseFlushes ==
  main = "exit" /\ ~failed /\ sqlDB = "closed" /\ replica =>
    /\ remote = 1..pos
    /\ exec => ~dirty

(* When the database is closed and the read lock given up, none of its own
   goroutines is left that could still read, write or upload, except that after
   a double start a monitor can come up when demotion has stopped the replica;
   when Store.Close returns, no compaction monitor is left either. *)
QuietAfterClose ==
  /\ main \in {"closed", "stopping", "exit"} =>
       dbmon = "ended" /\ (AllStopped \/ StartedTwice)
  /\ main = "exit" => comp \in {"off", "ended"}

(* Whoever opens or closes the database comes to an end: the final syncs, the
   wait groups, db.mu and the contexts do not block one another, unless init
   started the replica a second time.  (Then init can wait, holding db.mu, for a
   monitor that waits for db.mu in db.Notify; or r.cancel has lost the other
   monitor's cancel, and Replica.Stop in demoteToCold waits for a goroutine
   nobody stops.) *)
CloseReturns == []<>(main \in {"run", "exit", "aborted"} \/ StartedTwice)

(* No wakeup is lost between DB.Sync, which closes the notify channel, and the
   monitor, which fetches the next channel before it uploads: the replica
   catches up with the L0 files again and again, unless the database is being
   closed, promotion failed to make a replica, or it was started twice. *)
EventuallyUploaded ==
  []<>(pos = Max0(remote) \/ main # "run" \/ ~replica \/ StartedTwice)

=============================================================================
