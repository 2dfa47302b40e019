# TLA+ models of litestream++

This directory holds TLA+ specifications of the parts of this repository that
decide whether a backup can be trusted, the TLC configurations that check them
on small instances, and TLAPS proofs of the results that matter most.
`PROJECT.json` lists, for every definition, the lines of Go it stands for, for
every property the mutated definition that breaks it, and the hazards the
properties are aimed at.

## 1. The system

Litestream copies SQLite databases to a replica while applications use them.
litestream++ adds a manager for many databases, most of them idle.

| Component | State it keeps | Operations | Talks to |
|---|---|---|---|
| `DB` (`db.go`) | SQLite connection, read transaction `rtx`, local L0 LTX files, cache of the last file info per level | `init`, `Sync` (`verify`, `sync`), `Checkpoint`, `SnapshotReader`, `Compact`, `Snapshot`, retention, `Close`, `monitor` | the WAL and the database file that applications write; `Replica`; the notify channel |
| `WALReader` (`wal_reader.go`) | salts, running checksum, frame number | `NewWALReader`, `NewWALReaderWithOffset`, `ReadFrame`, `PageMap` | the WAL file, without a lock |
| `Replica` (`replica.go`) | position, monitor goroutine | `Start`, `Stop`, `Sync`, `calcPos`, `CalcRestorePlan`, `Restore` | `DB.Pos`, the replica client |
| Replica clients (`file`, `s3`, `gcs`, `abs`, `sftp`) | the LTX files | `LTXFiles(level, seek)`, `OpenLTXFile`, `WriteLTXFile`, `DeleteLTXFiles` | the storage |
| `Store` (`store.go`, `compaction_level.go`) | databases, levels | one goroutine per level: `CompactDB`, `EnforceSnapshotRetention` | `DB.Compact`, `DB.Snapshot` |
| `WriteDetector`, `HotColdManager` (`litestreampp/`) | write states, hot list; hot and cold maps, replicas | `performScan`, `AddDatabase(s)`, `promoteToHot`, `demoteToCold`, `Stop` | each other by callbacks; `DB`, `Replica` |
| `ConnectionPool`, `LRUCache` (`litestreampp/connection_pool.go`) | map, counter, linked list | `Get`, `Release`, `Close`, `Cleanup` | `sql.DB` |
| `IntegratedMultiDBManager`, `DynamicDB` | lifecycle state | `Start`, `Stop`, `RefreshPatterns`, `Open`, `Close`, `EnsureOpen` | the above |
| Ultra-simple replicator (`ultrasimple/`) | last size and time per database | `Run`, `scanAndSync`, `syncDatabase`, `cleanupOldBackups` | S3 |
| `replicate` command (`cmd/litestream`) | the `Store`, a child process | `Run`, `Close`, signals | `Store.Open`, `Store.Close` |
| Shared resources, metrics, configuration, other commands, demos | pools, counters, options | | |

What is hard here:

* SQLite and other processes change the WAL between any two steps of a sync;
  the code holds a read transaction instead of a lock and gives it up during a
  checkpoint.
* The compaction goroutines, the snapshot goroutine and `Replica.Sync` share
  the replica without a lock: each lists files, then writes or deletes, while
  the others do the same. Any client call may fail, before or after it took
  effect, and the process may die in between. A restore in another process
  lists the levels one after the other and opens the files later.
* Retention must never delete what a restore needs, and positions are
  recovered from what retention left.
* The storage backends make files visible and delete them in five different
  ways, and report failures in as many.
* A database is opened and closed by one goroutine while its monitors run; they
  share a mutex, wait groups, contexts and a notify channel, and closing must
  flush, end and not block.
* The two tiers are changed by scans while databases are added, and promotion
  may fail half way.
* The ultra-simple replicator reads files that change under it and recognises
  old backups by a time it wrote in another time zone.

What makes each component correct, in short: the L0 files of a `DB` restore to
states the database really had, and every transaction gets there; a page map
is a committed prefix of one WAL; the files of a replica always restore to the
last transaction uploaded, and a restore that runs beside compaction ends there
or fails; levels do not fall behind for ever; a client lists only whole files
and admits what it did not delete; closing flushes, leaves nothing running and
returns; a pool evicts what was used least recently and stays within its limit;
a database is in one tier, the hot tier is limited and idle databases leave it;
the newest backup is never replaced by an older one.

## 2. The modules

### LTXStore: the replica of one database

`remote` is the set of files the client holds; a file is a level and a TXID
range. `maxInfos` is `DB.maxLTXFileInfos`, what the process remembers of the
last file of each level, with `Unknown` for a level missing in the map.
`pos` is the local position (`DB.Pos`), `rpos` and `dpos` the position
and the target of the running `Replica.Sync`. `job[l]` is the file the
goroutine of level `l` is writing, `l0ret` says that `DB.Compact(1)` is about
to prune L0, `del[l]` is what `DeleteLTXFiles` has yet to delete, and `smpc`,
`smtx`, `smlvl` are the program counter, TXID and level of the snapshot
goroutine.

| Action | Code |
|---|---|
| `DBSync`, `DBSyncFail` | `DB.sync` renames a new L0 file and remembers it, or the rename fails |
| `SyncStart`, `SyncUpload`, `SyncFail` | `Replica.Sync`, one action per client call; the deferred reset of the position, its own (`SyncAborted`) or that of a second `Sync` (`SyncClearedByOther`) |
| `MaxLTXFileInfo` | `CompactDB` looks up what is not remembered of its level and the one below |
| `CompactStart`, `CompactWrite`, `CompactFail`, `L0Retention` | `Store.CompactDB`, `DB.Compact` |
| `SnapshotStart`, `SnapshotWrite`, `SnapshotFail` | `DB.Snapshot` |
| `ExpireSnapshots`, `LevelRetention`, `RetentionDone` | `Store.EnforceSnapshotRetention` |
| `DeleteNext`, `DeleteFail` | `DeleteLTXFiles`, file by file |
| `Crash` | the process dies; local and remote files survive |

`PlanMax` is `CalcRestorePlan` reduced to the TXID the plan ends at, level by
level (`PlanEnd`), for files that do not change meanwhile. Time is abstracted: snapshots are created in TXID order, so the retention timestamp is
a cut between two TXIDs, chosen freely, and `ErrCompactionTooEarly`, which puts
an attempt off to a later tick, is left to the scheduler. `ErrNoCompaction` is
not: `NewFiles` is `CompactDB`'s comparison of the remembered infos, which
`DB.sync` and a compaction that succeeded refresh, which a write that failed
leaves as they were whether or not it stored the file, and which a crash
forgets. `PrefixSeek` chooses between the
two ways the clients understand `seek`.

### LTXRestore: a restore beside the running store

`LTXRestore` extends `LTXStore` with `Replica.Restore` as one more actor:
`RestoreStart` takes the last snapshot, `ListLevel` one level per step from the
highest down, `OpenFile` one file of the plan per step, while every action of
`LTXStore` goes on between them (`StoreStep`). `ListGap`, `OpenMissing` and
`NotAvailable` are the three ways to fail. The history variables `goal` (the
last TXID on the replica when the restore began) and `moved` (a file was
deleted since) serve the properties only.

### ReplicaClient: five storage backends

One level of one replica. `obj[f]` is what is stored under the name of file
`f`: nothing, a whole file, a torn one, or the writer that truncated it and is
filling it; `tmp` is the same for the `.tmp` name of the local client.

| Action | Code |
|---|---|
| `WriteStart`, `WriteDone`, `WriteFail` | `WriteLTXFile`: rename (`file`), in place (`sftp`), whole objects (`s3`, `abs`), objects that the deferred `Close` commits (`gcs`) |
| `RetentionStart`, `NextItem`, `RetentionListed` | `LTXFiles` as `EnforceRetentionByTXID` uses it: the directory at once, or page by page; a listing that breaks off looks like its end |
| `DeleteNext`, `DeleteDone`, `DeleteFail` | `DeleteLTXFiles`: file by file, or in batches of `s3` that fail in part |
| `Crash` | the process dies; uploads to object stores may still complete |

The files that writers may write, and the point below which retention deletes,
are what `Replica.Sync`, `DB.Compact` and retention ask for (module LTXStore).
The stores themselves are external; what is modelled of them is what the
clients rely on.

### DBSync: from the WAL to L0 files

A page's content is the number of the commit that wrote it, a WAL offset is a
number of frames, the salts are a generation number. The SQLite half (`wal`,
`hdr`, `mx`, `nbackfill`, `dbfile`, `rmark`) follows SQLite's rules for WAL
mode: commits append, or restart the WAL when all of it was copied and no
reader holds a mark; a checkpoint copies nothing beyond a reader's mark. The
litestream half is a program counter through `Sync` (`Open`, `SyncStart`,
`Verify`, `PageMap`, one `CopyPage` per page, `Rename`) and `checkpoint`
(`ChkStart`, the same steps, `ChkRelease`, `ChkPragma`, `ChkReacquire`,
`ChkBump`, `ChkLock`, the same steps again under the write lock). With
`ChkErrors` any call of a checkpoint may fail (`ChkFail`); `execCheckpoint`
then tries to take the read lock again on its way out and drops the error of
that (`db.go:1091`), so that later syncs may run without it. Applications
commit, checkpoint and truncate at any point. `Stop` ends litestream anywhere;
`PowerLoss` takes away WAL frames that were not yet synced to disk.

Transactions reach the WAL in one step; that the reader copes with less is
module WALReader's concern. The history variable `overrun` records when the
WAL was restarted over transactions no file holds, over frames being copied,
when an application's checkpoint changed the database file under a snapshot
that has no read lock, or when a power loss took frames that a file holds. The properties say what
holds outside these cases, and `db_checkpoint_window` shows the first case itself.

### WALReader

Frame by frame, SQLite writes, commits, rolls back and restarts; the reader
reads one frame per step. A cumulative checksum stands for everything written
before it, so it is modelled by the number of the frame: a frame records its
own number and its predecessor's.

### LRUCache, ConnectionPool, LRUPool

`LRUCache` has the linked-list operations as operators from list to list, with
`prev` and `next` pointers. `ConnectionPool` adds the map, the counter and the
failure of `sql.Open` and `sql.DB.Close`; `Cleanup` closes idle connections in
any order, as it ranges over a map. `LRUPool` is the abstract specification: a
set of open connections and the relation "got more recently than".
`ConnectionPool` implements it with `open <- lru.items`,
`recent <- Recent(lru)`, the pairs met in this order when following `next` from
the head, and `stuck <- connections \ lru.items`, what an eviction left in the
map because it could not be closed.

### HotCold

The detector's scan is one action per database visited, because promotion,
demotion and applications interleave with it; it keeps the detector's mutex,
so `AddTrack` waits. The order of visits is free, as a Go map's is. Of a
file's time and size the module keeps whether they differ from those recorded
(`changed`), of `HotUntil` whether it has passed. A demotion closes the
database, and if that is the last connection SQLite checkpoints the WAL, which
litestream tells it to keep, into the file: `demoteToCold` may leave the
database among the changed ones, and the next scan promotes it again.
`DemotionHangs` is a `Replica.Stop` that never returns after a double start;
the scan then keeps both mutexes for ever. What else promotion and demotion do to a database's goroutines and
files is module Lifecycle's concern.

### Lifecycle: the goroutines of one database

One database with `DB.monitor`, the `Replica.monitor` goroutines, a compaction
monitor, and the goroutine that opens and closes them (`main`). `mode` says who
that is: the `replicate` command, with or without a child process, or
`HotColdManager` through `DynamicDB`. Each place where a goroutine waits is a
value of its program counter; `Locked` is `db.mu`, `AllStopped` the wait group
of the replica, `rcancel` the one cancel function it remembers, `notified` the
notify channel. `Replica.Sync` is modelled call by call for each goroutine that
can be in it (`sub`, `tx`, `dpos`), because they share one position.

| Actions | Code |
|---|---|
| `ReplicateOpen`, `ChildExited`, `Signal`, `Reap` | `main.go`, `replicate.go`, `Store.Open` |
| `Promote*`, `Demote*`, `Manager*` | `promoteToHot`, `demoteToCold`, `Stop` of `HotColdManager`; `DynamicDB.Open` |
| `InitDone`, `InitHalf`, `InitStart*`, `DBMonitorSync`, `DBMonitorEnd` | `DB.monitor`, `DB.init`, `DB.Sync` |
| `MonitorWake`, `MonitorFetch`, `MonitorEnd`, `SyncPos`, `SyncNext`, `SyncUpload` | `Replica.monitor`, `Replica.Sync` |
| `CloseCancel` ... `CloseFiles` | `DB.Close`, `Replica.Stop` |
| `StoreCancel`, `StoreWait`, `CompactionEnd` | `Store.Close` |

A `DB.Sync` that does not start the replica is one step; its inside is module
DBSync's.

### UltraSimple

A database is the number of the last commit its file holds (`file`) and of the
last one altogether (`committed`). `ScanStart` is the loop of `scanAndSync`;
`ReadStart`, `ReadDone`, `UploadDone`, `ReadFail` and `UploadFail` are
`syncDatabase` under the semaphore; `CleanupStart`, `DeleteBatch` and
`DeleteFail` are `cleanupOldBackups`; `Restart` forgets what the process knew.
A backup is the interval of commits that its reading overlapped: `lo = hi`
unless a checkpoint got in between. The clock counts hours; `Behind` is how far
local time is behind UTC, since a key's hour is written in local time and
parsed as UTC. Databases may have the same key (`shared`). The S3 client is
that of `ultrasimple/example`: the one in `ultrasimple/cmd` has neither `List`
nor `Delete` and so does not satisfy the `S3Client` interface.

## 3. The runs

| Run | Checks | Result |
|---|---|---|
| `store` | `HistoryCovered`, `RestoreReachesLatest`, `InputsConsecutive`, `SkipsOnlyOutdated`, `CalcPosMonotonic`, `EventuallyCompacted`, `TypeOK` | hold: retention, compaction, failures and crashes never lose a transaction, leave a gap in the restore plan, or give the compactor files that do not follow one another; the recovered position never moves back; `CompactDB` passes over new files only if what it remembers of the source level is outdated, and otherwise every level catches up with the one below |
| `restore` | `RestoreNotBehind`, `FailsOnlyIfMoved` | hold: a restore beside the store ends at or after what was there when it began, or fails; it fails only if files were deleted under it |
| `replica_client` | `StoredIsWhole`, `ListedIsWhole`, `RetentionBelow`, `DeleteHonest` | hold for file, sftp, s3 and gcs, with the exceptions the properties name |
| `replica_abs` | `RetentionBelow` | violated: retention on abs deletes the last file |
| `lifecycle` | `UploadedWithoutGap`, `CloseFlushes`, `QuietAfterClose`, `CloseReturns`, `EventuallyUploaded`, `TypeOK` | hold, apart from the double start that `StartedTwice` names |
| `db_sync` | `ReplayCommitted`, `SnapshotIsFull`, `NothingNewWhenSkipped`, `IncrementContinues`, `TypeOK` | hold |
| `db_sync_live` | `EventuallySynced` | holds |
| `db_checkpoint_window` | `OverwriteNoticed` | violated: a commit between checkpoint's sync and its PRAGMA is lost to the files, unnoticed |
| `wal_reader` | `PageMapIsCommittedPrefix` | holds |
| `connection_pool` | `ListConsistent`, `LimitHolds`, `RefinesLRUPool`, `TypeOK` | hold |
| `hot_cold` | `TiersDisjoint`, `HotIsTracked`, `HotLimit`, `EventuallyCold`, `TypeOK` | hold; a database left alone does not stay hot, but it need not stay cold |
| `ultrasimple` | `NewestNotOlder`, `EventuallyBackedUp`, `EventuallyQuiet`, `EventuallyClean`, `TypeOK` | hold |

The two violations are described, with the comment each one contradicts, under
"findings" in `PROJECT.json`.

### What the models show besides

Where a property makes an exception, TLC finds the behaviour if the exception
is taken out. These are the ones a maintainer should know of:

* `LTXStore` with `PrefixSeek = TRUE` (s3, gcs and abs take `seek` for a prefix
  of the name): `EventuallyCompacted` fails, a level whose files start elsewhere
  after retention is left behind for ever.
* `LTXStore` with three compaction levels or more: `InputsConsecutive` fails.
  Snapshot retention may delete the L1 files that L2 has not taken yet, while it
  spares the last file of L2, older than they are. The next file of L2 then
  leaves a gap after that one, and what L3 is made from is not consecutive:
  `ltx.Compactor` rejects it until retention takes the old file. With the two
  levels of the default configuration (`cmd/litestream/main.go:221`) it cannot
  happen, which is proved.
* `LTXStore`: after a compaction whose write failed although it stored the
  file, or when `CompactDB` looked a level up before a restarted process
  uploaded the files it found, what `DB.maxLTXFileInfos` remembers of that level
  is outdated and `CompactDB` answers `ErrNoCompaction` for the level above,
  until the next commit or compaction refreshes it (`Outdated`).
* `CalcRestorePlan` for a TXID inside a merged file ends before it, and no
  error says so.
* `DBSync`: after a power loss took WAL frames an L0 file holds, `verify`
  demands a snapshot and keeps the old offset: the file is not a full one.
* `DBSync`: a `DB.Checkpoint` that fails may leave litestream without its read
  lock until the next checkpoint. After a TRUNCATE the next sync is a snapshot,
  and a checkpoint of an application mixes two moments in it. Nothing but
  `DynamicDB.Checkpoint` and the tests calls `DB.Checkpoint`.
* `ReplicaClient`: sftp fills the final name and truncates it when it uploads
  again; gcs commits what came before the source failed; two uploads through
  the local client share one `.tmp` file. abs also builds the name to delete from
  (MaxTXID, MaxTXID), which is no file's name above L0, and a missing file is no
  error.
* `Lifecycle`: `promoteToHot` assigns the replica after `DB.monitor` was
  started, so that `init` may start it as well. Then `init` can wait, holding
  `db.mu`, for a monitor that waits for `db.mu` in `Notify`; or one cancel
  function is lost, and `Replica.Stop` in `demoteToCold` waits for a goroutine
  nobody stops.
* `Lifecycle`: `init` that cannot open the file after `sql.Open` is never tried
  again; a database that was not yet initialized is closed without a flush;
  `demoteToCold` uploads before the last local sync; the command returns
  without `Close` when it cannot signal its child or the signalled child fails.
* `HotCold`: a database at rest may go from hot to cold and back for ever, since
  its demotion changes its file; and a demotion that hangs ends all scanning.
* `HotCold`: a database that is promoted and evicted in one scan has its change
  recorded; it is not replicated until the next one.
* `UltraSimple`: a failed upload is not tried again before the file changes,
  although `ultrasimple/README.md:18` says "Failed uploads retry naturally on
  next cycle"; commits that stay in the WAL go unnoticed; the only backup of an
  idle database is deleted by its age; databases with the same key replace each
  other's backups.

### Bounds

The proofs of section 4 do away with these bounds for all the safety
properties but `InputsConsecutive`, which holds for two levels only. For the
rest they have to be large enough for the interesting cases to happen:

* `LTXStore`: two compaction levels above L0 and the snapshot level, so that a
  level is both source and destination and retention visits more than one;
  three transactions, so that files merge, a merged file is followed by a
  single one, and retention deletes one of several. `store` (526 thousand states)
  has every fault but a second `Replica.Sync` that clears the position of the
  first, which `restore` has (and the proofs).
* `LTXRestore`: one compaction level, three transactions, every fault but a
  crash, 4.2 million states: files move from L0 to L1 and under a snapshot between two listings.
* `ReplicaClient`: three files, two writers, one file uploaded again and one
  failed write at a time, batches of two: a batch that fails in part with
  another one after it, and a middle file between one to delete and one to
  keep. Writers are symmetric, and the run has no liveness property.
* `Lifecycle`: two L0 files, so that a stale position can lie one behind, and
  every fault.
* `DBSync`: two pages (one is litestream's own) and three commits by
  applications: enough for a WAL that is restarted over part of the old one,
  a snapshot that mixes WAL and database file, and a power loss followed by
  other commits. `db_sync` has 967 thousand states, `db_sync_live` 310
  thousand. `PowerLoss` happens once. Litestream's own commits may go one past
  the bound. `db_checkpoint_window` has no failed calls, no downtime and no power
  loss, so that its trace is the plain one.
* `WALReader`: six frames and two salts: a transaction of several frames that
  is rolled back and written over, and a restart under a reader.
* `ConnectionPool`: four paths and a limit of three: eviction from a list with
  a middle, with one path outside.
* `HotCold`: two paths, one of which may be hot, any number of changes and every
  fault (123 thousand states).
* `UltraSimple`: two databases that wait for one upload slot, three commits,
  two hours, one key per delete request: an upload that crosses the hour, a
  checkpoint while a file is read, and a cleanup of several batches.

### Fairness

* `LTXStore`: level monitors are driven by tickers that never end, so each looks
  up what it does not remember and starts a compaction when `NewFiles` and the
  files allow it (weak fairness); compaction writes succeed again and again if
  tried again and again (strong fairness, of the levels taken together), and the
  deletions after one end.
  Nothing relies on commits, uploads or the snapshot goroutine.
* `DBSync`: `DB.monitor` calls `Sync` on every tick and a call runs to its end;
  applications owe nothing. `EventuallySynced` assumes that litestream is not
  stopped for ever.
* `HotCold`: the scan ticker; hot periods end; `os.Stat` does not fail for ever.
  `EventuallyCold` assumes that files are left alone from some point on, also by
  litestream's own checkpoints, other than the one of a demotion's close.
* `Lifecycle`: goroutines that can run do run and tickers fire; `select` takes
  a canceled context sooner or later although the channel is ready too (strong
  fairness: Go picks at random); an upload tried for ever succeeds again; a
  child that was signalled ends. Users, detector and applications owe nothing.
* `UltraSimple`: both tickers are served in turn (strong fairness: `select`
  picks at random), a delete request tried for ever succeeds again, a scan
  whose files can all be looked at happens again, and the process is not
  restarted for ever.

`hot_cold`, `lifecycle`, `replica_client` (and `replica_abs`) and `ultrasimple`
do not check for deadlock: a stopped manager, a closed database, a store with
all its files written and a replicator with nothing changed and nothing old may
rest. What must not block there is said by `CloseReturns`, `EventuallyQuiet`
and the other liveness properties. The other runs check for deadlock.

## 4. The proofs

Every safety property of the passing runs is proved for every value of the
constants, so for any number of databases, files, levels, pages, commits,
writers and failures. Each proof module has an inductive invariant `Inv`, a
lemma per action (or per group of like actions) that the action keeps it, and
theorems that draw the properties from it. The assumptions are the named ASSUMEs
of the modules, which TLC evaluates on every run, and where a theorem needs
more, it says so. Most of the properties are not inductive; what has to be added
is the actual argument why the code is right, and is summed up here.

### LTXProofs: LTXStore and LTXRestore

`TypeCorrect`, `HistoryNeverLost`, `CalcPosNeverMovesBack`,
`RestoreAlwaysReachesLatest`, `CompactionNeverRejected` and
`CompactDBSeesNewFiles` are about LTXStore, for every `MaxLevel` in 1..8, every `MaxTX`, both kinds of seek and every set of
faults. Whether a deletion is safe depends on when it was decided, so `Inv` adds

* of the files: ranges are not empty, snapshots start at 1, files of a level do
  not overlap (`Disjoint`), a file never straddles the end of a file one level
  up (`Nested`), and a level never falls behind the one made from it
  (`SourceAhead`): retention keeps the last file;
* of a running compaction (`JobOK`): what it writes comes right after its
  level, ends at the end of a source file, everything before it is covered
  at its level or above, and a compaction of the level below starts after it;
* of pending deletions (`DelOK`): the file is covered by the level above (L0)
  or a later snapshot, and is not the last of its level, although time passed
  since both were established;
* of the thresholds retention works with (`RetentionOK`), and of the upload
  position (`RposHeld`).

`Nested` is the heart: because compaction always takes whole source files, a
retention bound never cuts through a file, so what is deleted below is held
above. `RestoreAlwaysReachesLatest` follows from `Inv` alone, level by level
from the top. `CompactionNeverRejected` needs a second invariant, `ChainOK`,
that L0 holds every transaction after the end of L1, and that the files of L1
follow one another, those being deleted going first; it assumes `MaxLevel <= 2`, without which it is false (see section 3).
`CompactDBSeesNewFiles` needs `InfosBehind`: what is remembered of a compaction
level never runs ahead of its last file. So a new file, which starts after the
last file of its destination, ends after the `MinTXID` that `CompactDB` compares
with, unless the other side of the comparison is outdated.

`ImplementsStore` shows that a restore beside the store is a step of LTXStore or
none, so that all this holds of the files a restore meets. `RestoreNeverBehind`
and `OnlyDeletionFailsRestore` are about the restore. `RInv` says that L0,
listed last, still reaches the goal (`GoalAhead`), that the plan has no hole
(`PlanHolds`), and, as long as nothing was deleted, that whatever the plan lacks
can still be listed at the level the restore has come to or below (`Settled`):
a compaction may carry files up past the listing, but what it took is still in
its source (`JobSourced`).

### ReplicaClientProofs

`TypeCorrect`, `StoredStaysWhole`, `ListsWholeFiles`, `DeletesWhatItReports` and
`RetentionStaysBelow`, for any number of files and writers, any batch size and
any set of clients. The last two assume that `abs` is not among them: with it
they are false, as `replica_abs` shows. `Inv` says who fills which file
(`FillsOwn`), that two writers of a file were noted as sharing it (`TwoShare`),
that what a writer fills it finds again at the end (`TmpKept`, `FinalKept`) and
was not reported before (`FirstTime`), that retention on sftp only meets files
that were complete once (`StoredOnce`), and that a list of files to delete lies
below its target and before a file that stays (`SparesLast`), each of them still
on the list or gone (`AskedOK`).

### LifecycleProofs

`TypeCorrect`, `UploadsLeaveNoGap`, `CloseAlwaysFlushes` and `ClosedIsQuiet`, for
any number of L0 files and every set of faults. Several goroutines in
`Replica.Sync` share one position and may set it back; there is no gap all the
same because every position any of them works with is one the replica has
(`PositionsHeld`), so that each uploads an existing file or the next one. The
control part (`ControlOK`) says what each place of the closing goroutine
implies: which goroutines have ended (`QuietOK`), which have been started, and
once only (`StartedOnce`), and what the last sync has flushed (`FlushOK`).

### DBSyncProofs

`TypeCorrect`, `FilesRestoreCommitted`, `SnapshotsAreFull`,
`SkipsNothingNew` and `IncrementsContinue`, for any set of pages, any number of commits, and any
interleaving with applications. The argument has three parts. SQLite: the frames
of the current salt are a prefix of the file, the backfilled ones are in the
database file, and every transaction boundary is a state the database had
(`LogOK`, `DatabaseOK`). The files (`FilesOK`, `LastOK`): what they restore to,
continued by the frames after the position they record, is the database at every
later frame, and these frames are newer; after a restart of the WAL the same
holds from its first frame, since a restart over anything else is noted in
`overrun`. The sync under way (`VerifiedOK`, `CopyOK`): what `verify` found
still holds when the page map is read, and what will be in the file when all its
pages are copied (`Target`) is a state that the rest of the WAL continues,
although applications append, checkpoint and restart between the pages. A
snapshot may read the database file page by page because the read lock keeps
the frames beyond its mark out of it. Where a failed checkpoint lost the lock,
a file of WAL pages only is still right unless the WAL is restarted, but a
snapshot also reads the database file: a checkpoint under it is noted in
`overrun`.

`Inv` says nothing of the files once a power loss took frames that they hold,
for what they restore to may then be no state the database had:
what `verify` demands is called a snapshot but may go on at the old offset.
`IncrementsContinue` needs a second invariant for that time (`HistoryInv`,
`TailInv`). The code compares one page of the last file with one frame of the
WAL, and this is enough because a state of the database is determined by its
newest page (`Unique`), which the frame that ends a file holds: if the frame
matches and the files restore to a committed state, it is the state at that
frame (`FileHere`), and the WAL continues it. After a restart of the WAL the
frames of older salts lie in order behind those of the current one
(`SaltsFall`), so a reader at an old offset finds none that the last file has
not (`NoneLeft`), and a snapshot made of them mixes the database file with
transactions of the new WAL only in pages that the new WAL has written
(`CopyLeftover`, `WrittenOK`).

### WALReaderProofs

`TypeCorrect` and `PageMapCommitted`, for any pages, frames and restarts. Every
salt's log is a chain of checksums, and a checksum occurs at one place only
(`Chains`, `Unique`); what is left in the file of an older log is as it was
committed (`Remains`). The reader either follows the log of its salt as it
stands (`Follows`), or has read frames that were rolled back and is stuck, as no
frame is chained to them (`Strays`); in both cases what it keeps is the page map
up to a commit.

### ConnectionPoolProofs

`TypeCorrect`, `ListStaysConsistent`, `LimitKept` and `ImplementsLRUPool`, for
any set of paths and any limit. `Linear` says that the pointers in both
directions agree with some enumeration of the items; the lemmas on `Add`,
`Touch`, `Remove` and `RemoveAll` show that each keeps it and what it does to the
items and to `Recent`, the order they are in. The limit is inductive for the
list, not for the map: what a failed close leaves in the map alone is dead.
`ImplementsLRUPool` maps each action to one of `LRUPool`: the tail of the list is
the connection whose last Get lies furthest back.

### HotColdProofs

`TypeCorrect`, `TiersStayDisjoint`, `HotStaysTracked` and `LimitEnforced`, for any
set of databases and any limit. Added are that the list a running scan makes
names each visited database once (`ListOK`) and that every hot database is on
it, still to be visited, or could not be looked at (`ScanCounts`).

### UltraSimpleProofs

`TypeCorrect` and `NewestIsNotOlder`, for any number of databases, commits, hours,
slots and any batch size. Uploads and deletions never overlap (`OneAtATime`), an
upload is newer than every object of its database (`JobOK`, `BackupOK`,
`UploadNewer`), and what is to be deleted is past the retention (`DeleteOld`).

### Only model-checked

* Liveness, out of the prover's reach: `EventuallyCompacted`, `CloseReturns`,
  `EventuallyUploaded`, `EventuallySynced`, `EventuallyCold`,
  `EventuallyBackedUp`, `EventuallyQuiet`, `EventuallyClean`.

## 5. Not modelled, and the plan

Not modelled: metrics, configuration, client construction, the other commands,
demos, internals (pure data or I/O); shared resources, whose worker pool only
ever gets tasks that do nothing; page encoding, compression and checksums of
LTX files; sessions and credentials of the clients (`Init`) and `DeleteAll`,
which only tests call; wall-clock intervals. Of the modelled components:

* `SnapshotReader` as a reader of its own: it copies the database in a
  goroutine after it has given up the checkpoint lock (`db.go:1121`); in
  `LTXStore` a snapshot is whole, in `DBSync` there is none but the one `sync`
  makes;
* the data race on the map of cached file infos, which `DB.sync` writes without
  their mutex (`db.go:906`, `db.go:911`) and which can end the process;
* the growth of a WAL that no longer is checkpointed (`db.go:563`);
* a new meta directory beside an old replica (`replica.go:133`);
* connections closed under their users (`connection_pool.go:147`): the pool
  does not know its users, so there is nothing it could promise;
* `DynamicDB.EnsureOpen`, which nothing reaches.

What comes next: `SnapshotReader` as a reader beside checkpoints, the first of
the points above that a property could be stated about.
