------------------------------ MODULE LTXStore ------------------------------
(***************************************************************************)
(* The replica of one database: the LTX files kept at every compaction     *)
(* level and the goroutines that write and delete them.                    *)
(*                                                                         *)
(*   Replica.Sync            uploads the local L0 files one TXID at a time *)
(*   Store.CompactDB(l)      one goroutine per level 1..MaxLevel merges    *)
(*                           level l-1 into level l; L1 prunes L0          *)
(*   Store.CompactDB(9)      the snapshot goroutine writes snapshots and   *)
(*                           enforces retention on every level but L0      *)
(*                                                                         *)
(* A file is its level and its TXID range; its pages are the concern of    *)
(* module DBSync.  Every client call may fail, deletions happen file by    *)
(* file, and the process may crash between any two steps.                  *)
(***************************************************************************)
EXTENDS Integers, FiniteSets

CONSTANTS MaxLevel,    \* CompactionLevels.MaxLevel()
          MaxTX,       \* bound: highest TXID the database commits
          PrefixSeek,  \* TRUE: s3, gcs and abs clients; FALSE: file and sftp
          Faults       \* which faults happen: a subset of AllFaults

ASSUME LevelAssumption == MaxLevel \in 1..8
ASSUME TXAssumption == MaxTX \in Nat \ {0}
AllFaults == {"sync", "other", "compact", "snapshot", "delete", "crash"}
ASSUME FaultsAssumption == Faults \subseteq AllFaults
ASSUME SeekAssumption == PrefixSeek \in BOOLEAN

SnapshotLevel == 9

CompactionLevels == 1..MaxLevel
Levels == (0..MaxLevel) \cup {SnapshotLevel}

File == [level : Levels, min : 1..MaxTX, max : 1..MaxTX]

(* A TXID range; the zero one of a level monitor that is not compacting, or of
   a level without files; and that of a level missing in maxLTXFileInfos. *)
Info == [min : 1..MaxTX, max : 1..MaxTX]
NoInfo == [min |-> 0, max |-> 0]
Unknown == [min |-> -1, max |-> -1]
Infos == [0..MaxLevel -> Info \cup {NoInfo, Unknown}]

VARIABLES
  pos,       \* DB.Pos().TXID: the highest local L0 file
  remote,    \* the files the replica client holds
  rpos,      \* Replica.pos, zero when unknown
  dpos,      \* target of the running Replica.Sync, zero when none runs
  maxInfos,  \* DB.maxLTXFileInfos: level -> what is remembered of its last file
  job,       \* level -> the file a running DB.Compact is writing, or NoInfo
  l0ret,     \* the TXID below which DB.Compact(1) is about to prune L0, or 0
  del,       \* level -> files DeleteLTXFiles has yet to delete
  smpc,      \* the snapshot goroutine: idle, snapshot, expire or level
  smtx,      \* its position, then its minSnapshotTXID
  smlvl      \* the level whose retention it enforces

writers == <<pos, rpos, dpos>>
compactors == <<maxInfos, job, l0ret>>
snapshotter == <<smpc, smtx, smlvl>>
vars == <<writers, remote, compactors, del, snapshotter>>

-----------------------------------------------------------------------------
(* The replica client. *)

At(level) == {f \in remote : f.level = level}

(* Highest MaxTXID in a set of files, zero if there is none. *)
MaxTXID(S) == IF S = {} THEN 0
              ELSE CHOOSE t \in {f.max : f \in S} : \A f \in S : f.max <= t

(* Mutant: a seek that only accepts the exact TXID. *)
SeekExactly(level, seek) == {f \in At(level) : f.min = seek}

(* LTXFiles(level, seek): file and sftp skip names below seek, the object
   stores list the names that begin with seek. *)
LTXFiles(level, seek) ==
  {f \in At(level) : IF PrefixSeek /\ seek # 0 THEN f.min = seek ELSE f.min >= seek}

Last(S) == CHOOSE f \in S : \A g \in S : g.max <= f.max

(* Replica.MaxLTXFileInfo: the range of a level's last file. *)
LastInfo(level) ==
  IF At(level) = {} THEN NoInfo
  ELSE [min |-> Last(At(level)).min, max |-> Last(At(level)).max]

(* Mutant: the last file of a level is deleted like any other. *)
BelowTXIDAndLast(level, txid) == {f \in At(level) : f.max <= txid}

(* The files below a TXID, except the last file of the level. *)
BelowTXID(level, txid) ==
  {f \in At(level) : f.max < txid} \
    (IF At(level) = {} THEN {} ELSE {Last(At(level))})

-----------------------------------------------------------------------------
Init ==
  /\ pos = 0 /\ rpos = 0 /\ dpos = 0
  /\ remote = {}
  /\ maxInfos = [l \in 0..MaxLevel |-> Unknown]
  /\ job = [l \in CompactionLevels |-> NoInfo]
  /\ l0ret = 0
  /\ del = [l \in Levels |-> {}]
  /\ smpc = "idle" /\ smtx = 0 /\ smlvl = 0

-----------------------------------------------------------------------------
(* The database and Replica.Sync. *)

(* DB.sync renames a new L0 file into place and remembers it. *)
DBSync ==
  /\ pos < MaxTX
  /\ pos' = pos + 1
  /\ maxInfos' = [maxInfos EXCEPT ![0] = [min |-> pos + 1, max |-> pos + 1]]
  /\ UNCHANGED <<rpos, dpos, remote, job, l0ret, del, snapshotter>>

(* The rename fails. *)
DBSyncFail ==
  /\ "sync" \in Faults
  /\ pos < MaxTX
  /\ maxInfos' = [maxInfos EXCEPT ![0] = Unknown]
  /\ UNCHANGED <<writers, remote, job, l0ret, del, snapshotter>>

(* The loop of Replica.Sync ends when the position reaches its target. *)
Loop(from, to) == rpos' = from /\ dpos' = IF from < to THEN to ELSE 0

(* Mutant: an unknown position is taken from the local files. *)
SyncStartLocal ==
  /\ dpos = 0 /\ pos > 0
  /\ Loop(IF rpos = 0 THEN pos - 1 ELSE rpos, pos)
  /\ UNCHANGED <<pos, remote, compactors, del, snapshotter>>

(* Replica.Sync up to its loop; calcPos only when the position is unknown. *)
SyncStart ==
  /\ dpos = 0 /\ pos > 0
  /\ Loop(IF rpos = 0 THEN MaxTXID(At(0)) ELSE rpos, pos)
  /\ UNCHANGED <<pos, remote, compactors, del, snapshotter>>

L0File(txid) == [level |-> 0, min |-> txid, max |-> txid]

(* One iteration: uploadLTXFile, then SetPos. *)
SyncUpload ==
  /\ rpos + 1 <= dpos
  /\ remote' = remote \cup {L0File(rpos + 1)}
  /\ Loop(rpos + 1, dpos)
  /\ UNCHANGED <<pos, compactors, del, snapshotter>>

(* A call of Replica.Sync fails, an upload before or after the client stored
   the file, and it forgets the position on its way out. *)
SyncAborted ==
  /\ \/ remote' = remote
     \/ rpos + 1 <= dpos /\ remote' = remote \cup {L0File(rpos + 1)}
  /\ rpos' = 0 /\ dpos' = 0
  /\ UNCHANGED <<pos, compactors, del, snapshotter>>

(* The same in a second Replica.Sync (DB.Close's against the monitor's), under
   a running loop, which starts again at TXID 1, even one that has just reached
   its target. *)
SyncClearedByOther ==
  /\ "other" \in Faults
  /\ rpos # 0
  /\ rpos' = 0 /\ dpos' = (IF dpos = 0 THEN rpos ELSE dpos)
  /\ UNCHANGED <<pos, remote, compactors, del, snapshotter>>

(* The deferred reset of either. *)
SyncFail == "sync" \in Faults /\ (SyncAborted \/ SyncClearedByOther)

-----------------------------------------------------------------------------
(* Store.CompactDB and DB.Compact for a level above zero. *)

(* ltx.Compactor accepts only inputs whose ranges follow one another. *)
Consecutive(S) ==
  \A f \in S : \/ \A g \in S : f.min <= g.min
               \/ \E g \in S : g.max = f.min - 1

(* The files DB.Compact(dst) merges: those after the last one of dst. *)
CompactInputs(dst) == LTXFiles(dst - 1, MaxTXID(At(dst)) + 1)

(* CompactDB calls DB.MaxLTXFileInfo for its own level and for the one below,
   which asks the replica for what is not remembered. *)
MaxLTXFileInfo(dst) ==
  /\ \E l \in {dst - 1, dst} : maxInfos[l] = Unknown
  /\ maxInfos' = [l \in 0..MaxLevel |->
                 IF l \in {dst - 1, dst} /\ maxInfos[l] = Unknown THEN LastInfo(l)
                 ELSE maxInfos[l]]
  /\ UNCHANGED <<writers, remote, job, l0ret, del, snapshotter>>

(* Mutant: one more transaction is asked for. *)
NewFilesTwo(dst) == maxInfos[dst] # Unknown /\ maxInfos[dst - 1].max > maxInfos[dst].min + 1

(* "Skip if there are no new files to compact", by what is remembered. *)
NewFiles(dst) == maxInfos[dst] # Unknown /\ maxInfos[dst - 1].max > maxInfos[dst].min

(* CompactDB and the first half of Compact: list and open the inputs.
   ErrCompactionTooEarly only puts an attempt off to a later tick: it is left
   to the scheduler. *)
CompactStart(dst) ==
  LET in == CompactInputs(dst) IN
  /\ job[dst] = NoInfo
  /\ NewFiles(dst)
  /\ dst = 1 => l0ret = 0 /\ del[0] = {}
  /\ in # {} /\ Consecutive(in)
  /\ \E f \in in : \E g \in in :
       /\ \A h \in in : f.min <= h.min /\ h.max <= g.max
       /\ job' = [job EXCEPT ![dst] = [min |-> f.min, max |-> g.max]]
  /\ UNCHANGED <<writers, remote, maxInfos, l0ret, del, snapshotter>>

Written(dst) == [level |-> dst, min |-> job[dst].min, max |-> job[dst].max]

(* WriteLTXFile succeeds; L1 goes on to prune L0. *)
CompactWrite(dst) ==
  /\ job[dst] # NoInfo
  /\ remote' = remote \cup {Written(dst)}
  /\ l0ret' = IF dst = 1 THEN job[dst].max ELSE l0ret
  /\ maxInfos' = [maxInfos EXCEPT ![dst] = job[dst]]
  /\ job' = [job EXCEPT ![dst] = NoInfo]
  /\ UNCHANGED <<writers, del, snapshotter>>

(* Compaction fails, before or after the client stored the file. *)
CompactFail(dst) ==
  /\ "compact" \in Faults
  /\ job[dst] # NoInfo
  /\ remote' \in {remote, remote \cup {Written(dst)}}
  /\ job' = [job EXCEPT ![dst] = NoInfo]
  /\ UNCHANGED <<writers, maxInfos, l0ret, del, snapshotter>>

(* EnforceRetentionByTXID(0, maxTXID): list, then delete. *)
L0Retention ==
  /\ l0ret # 0
  /\ del' = [del EXCEPT ![0] = BelowTXID(0, l0ret)]
  /\ l0ret' = 0
  /\ UNCHANGED <<writers, remote, maxInfos, job, snapshotter>>

-----------------------------------------------------------------------------
(* The snapshot goroutine. *)

(* Mutant: the snapshot claims the TXID after the one it holds. *)
SnapshotStartNext ==
  /\ smpc = "idle" /\ pos > 0
  /\ smpc' = "snapshot" /\ smtx' = pos + 1
  /\ UNCHANGED <<writers, remote, compactors, del, smlvl>>

(* SnapshotReader reads the position before the snapshot is written. *)
SnapshotStart ==
  /\ smpc = "idle" /\ pos > 0
  /\ smpc' = "snapshot" /\ smtx' = pos
  /\ UNCHANGED <<writers, remote, compactors, del, smlvl>>

Snapshot == [level |-> SnapshotLevel, min |-> 1, max |-> smtx]

SnapshotWrite ==
  /\ smpc = "snapshot"
  /\ remote' = remote \cup {Snapshot}
  /\ smpc' = "expire" /\ smtx' = 0
  /\ UNCHANGED <<writers, compactors, del, smlvl>>

(* A failed snapshot is followed by retention all the same. *)
SnapshotFail ==
  /\ "snapshot" \in Faults
  /\ smpc = "snapshot"
  /\ remote' \in {remote, remote \cup {Snapshot}}
  /\ smpc' = "expire" /\ smtx' = 0
  /\ UNCHANGED <<writers, compactors, del, smlvl>>

(* Mutant: the last snapshot is not spared. *)
ExpiredAll(cut) == {f \in At(SnapshotLevel) : f.max < cut}

(* DB.EnforceSnapshotRetention: snapshots are created in the order of their
   TXIDs, so those before the retention timestamp are those below a cut. *)
ExpiredBelow(cut) == BelowTXID(SnapshotLevel, cut)
LowestKept(cut) ==
  LET kept == {f \in At(SnapshotLevel) : f.max >= cut}
  IN  IF kept = {} THEN 0
      ELSE CHOOSE t \in {f.max : f \in kept} : \A f \in kept : t <= f.max

ExpireSnapshots(cut) ==
  /\ smpc = "expire"
  /\ del' = [del EXCEPT ![SnapshotLevel] = ExpiredBelow(cut)]
  /\ smtx' = LowestKept(cut)
  /\ smpc' = "level" /\ smlvl' = 1
  /\ UNCHANGED <<writers, remote, compactors>>

(* DB.EnforceRetentionByTXID(smlvl, minSnapshotTXID), once the deletions of
   the level before have all succeeded. *)
LevelRetention ==
  /\ smpc = "level" /\ \A l \in Levels \ {0} : del[l] = {}
  /\ smlvl <= MaxLevel
  /\ del' = [del EXCEPT ![smlvl] = BelowTXID(smlvl, smtx)]
  /\ smlvl' = smlvl + 1
  /\ UNCHANGED <<writers, remote, compactors, smpc, smtx>>

RetentionDone ==
  /\ smpc = "level" /\ \A l \in Levels \ {0} : del[l] = {}
  /\ smlvl > MaxLevel
  /\ smpc' = "idle" /\ smtx' = 0 /\ smlvl' = 0
  /\ UNCHANGED <<writers, remote, compactors, del>>

-----------------------------------------------------------------------------
(* Mutant: deletions in any order. *)
DeleteAny(level) ==
  \E f \in del[level] :
    /\ remote' = remote \ {f}
    /\ del' = [del EXCEPT ![level] = @ \ {f}]
    /\ UNCHANGED <<writers, compactors, snapshotter>>

(* ReplicaClient.DeleteLTXFiles: the next file of the list, in its order. *)
DeleteNext(level) ==
  \E f \in del[level] :
    /\ \A g \in del[level] : f.max <= g.max
    /\ remote' = remote \ {f}
    /\ del' = [del EXCEPT ![level] = @ \ {f}]
    /\ UNCHANGED <<writers, compactors, snapshotter>>

(* A failing deletion abandons the rest; above L0 it also ends retention. *)
DeleteFail(level) ==
  /\ "delete" \in Faults
  /\ del[level] # {}
  /\ del' = [del EXCEPT ![level] = {}]
  /\ IF level = 0 THEN UNCHANGED snapshotter
     ELSE smpc' = "idle" /\ smtx' = 0 /\ smlvl' = 0
  /\ UNCHANGED <<writers, remote, compactors>>

(* The process dies: only local LTX files and the replica survive. *)
Crash ==
  /\ "crash" \in Faults
  /\ rpos' = 0 /\ dpos' = 0
  /\ maxInfos' = [l \in 0..MaxLevel |-> Unknown]
  /\ job' = [l \in CompactionLevels |-> NoInfo]
  /\ l0ret' = 0
  /\ del' = [l \in Levels |-> {}]
  /\ smpc' = "idle" /\ smtx' = 0 /\ smlvl' = 0
  /\ UNCHANGED <<pos, remote>>

-----------------------------------------------------------------------------
(* Replica.CalcRestorePlan. *)

(* ltx.IsContiguous(prev, min, max). *)
IsContiguous(prev, f) == f.min <= prev + 1 /\ f.max > prev

(* Every file of S is contiguous with what the plan ending at prev holds when
   its turn comes. *)
Appendable(prev, S) ==
  \A f \in S :
    LET before == {g \in S : g.max < f.max}
    IN  IsContiguous(IF before = {} THEN prev ELSE MaxTXID(before), f)

(* The files of a level that the target TXID allows; zero allows all. *)
Matching(level, txid) == {f \in At(level) : txid # 0 => f.max <= txid}

(* infos.MaxTXID() once a level's files beyond prev are appended to a plan that
   ends at prev; -1 if one of them is not contiguous. *)
PlanEnd(prev, level, txid) ==
  LET a == {f \in Matching(level, txid) : f.max > prev}
  IN  IF prev = -1 \/ ~Appendable(prev, a) THEN -1
      ELSE IF a = {} THEN prev ELSE MaxTXID(a)

(* infos.MaxTXID() of the whole plan for a target over one consistent listing:
   the last matching snapshot, then level by level; zero for
   ErrTxNotAvailable. *)
PlanMax(txid) ==
  LET plan[l \in 0..MaxLevel] ==
        PlanEnd(IF l = MaxLevel THEN MaxTXID(Matching(SnapshotLevel, txid))
                                ELSE plan[l + 1], l, txid)
  IN  plan[0]

-----------------------------------------------------------------------------
Next ==
  \/ DBSync \/ DBSyncFail
  \/ SyncStart \/ SyncUpload \/ SyncFail
  \/ \E dst \in CompactionLevels :
       \/ MaxLTXFileInfo(dst) \/ CompactStart(dst)
       \/ CompactWrite(dst) \/ CompactFail(dst)
  \/ L0Retention
  \/ SnapshotStart \/ SnapshotWrite \/ SnapshotFail
  \/ \E cut \in 0..MaxTX + 1 : ExpireSnapshots(cut)
  \/ LevelRetention \/ RetentionDone
  \/ \E level \in Levels : DeleteNext(level) \/ DeleteFail(level)
  \/ Crash

Spec == Init /\ [][Next]_vars

(* The level monitors are driven by tickers, so what they can do they do; a
   client call that is tried for ever succeeds again and again.  Nothing has to
   be committed or uploaded, and the snapshot goroutine, whose next tick is a
   day away, need not do anything. *)
Fairness ==
  /\ \A dst \in CompactionLevels :
       WF_vars(MaxLTXFileInfo(dst) \/ CompactStart(dst))
  /\ SF_vars(\E dst \in CompactionLevels : CompactWrite(dst))
  /\ WF_vars(L0Retention \/ DeleteNext(0))

FairSpec == Spec /\ Fairness

-----------------------------------------------------------------------------
(* Properties. *)

(* The variables hold what their Go counterparts can hold. *)
TypeOK ==
  /\ pos \in 0..MaxTX /\ rpos \in 0..MaxTX /\ dpos \in 0..MaxTX
  /\ remote \subseteq File
  /\ maxInfos \in Infos
  /\ job \in [CompactionLevels -> Info \cup {NoInfo}]
  /\ l0ret \in 0..MaxTX
  /\ del \in [Levels -> SUBSET File]
  /\ smpc \in {"idle", "snapshot", "expire", "level"}
  /\ smtx \in 0..MaxTX /\ smlvl \in 0..MaxLevel + 1

(* No retention pass, compaction, failed deletion or crash ever leaves a
   transaction behind: whatever lies at or below a file's last TXID is still
   held by a file of the same level or of a higher one (EnforceRetentionByTXID,
   EnforceSnapshotRetention, Compact and Replica.Sync together). *)
HistoryCovered ==
  \A f \in remote : \A t \in 1..f.max :
    \E g \in remote : g.level >= f.level /\ g.min <= t /\ t <= g.max

(* With the files as they are at any moment, CalcRestorePlan without a target
   finds no gap and reaches the last transaction the replica was ever sent. *)
RestoreReachesLatest == PlanMax(0) = MaxTXID(remote)

(* With at most two levels, which is what the default configuration has, the
   files DB.Compact is about to merge follow one another, so ltx.Compactor
   never rejects them, whatever retention deleted before.  (With a third level
   they need not: retention may delete L1 files that L2 has not taken, which
   leaves a gap in L2.) *)
InputsConsecutive == \A dst \in CompactionLevels : Consecutive(CompactInputs(dst))

(* Replica.calcPos never moves back: a restart resumes uploading after the
   last TXID that reached the replica, never before it. *)
CalcPosMonotonic == [][MaxTXID(At(0))' >= MaxTXID(At(0))]_vars

(* No file of the level below ends after the last one of this level or above. *)
CaughtUp(dst) ==
  \A f \in At(dst - 1) : \E g \in remote : g.level >= dst /\ f.max <= g.max

(* What is remembered of a level lies behind its last file: a write that failed
   had stored it, or the level was looked up before the files an earlier process
   left were uploaded. *)
Outdated(level) == maxInfos[level].max < MaxTXID(At(level))

(* CompactDB passes over new files of the level below only if what it remembers
   of that level is outdated, although it compares infos that commits,
   compactions, failed writes and restarts left behind, and the MinTXID of its
   own last file instead of the MaxTXID ("Skip if there are no new files to
   compact", CompactDB). *)
SkipsOnlyOutdated ==
  \A dst \in CompactionLevels :
    /\ Unknown \notin {maxInfos[dst - 1], maxInfos[dst]}
    /\ CompactInputs(dst) # {} /\ ~Outdated(dst - 1)
    => NewFiles(dst)

(* Again and again all levels have caught up with the level below, by merging
   its files or because a snapshot makes that unnecessary: no level is left behind
   by what failed or what retention deleted below it ("the iterator start from
   the given TXID or the next available if not found", ReplicaClient.LTXFiles),
   except as long as maxLTXFileInfos keeps CompactDB from seeing new files. *)
EventuallyCompacted ==
  []<>(\A dst \in CompactionLevels : CaughtUp(dst) \/ Outdated(dst - 1))

=============================================================================
