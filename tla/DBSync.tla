------------------------------- MODULE DBSync -------------------------------
(***************************************************************************)
(* DB.Sync and DB.Checkpoint: how the write-ahead log of a SQLite database *)
(* that applications keep using becomes a sequence of L0 files.            *)
(*                                                                         *)
(*   applications            commit, checkpoint and truncate the WAL       *)
(*   DB.Sync                 verify; WALReader.PageMap; copy the pages one *)
(*                           by one; rename the file into place            *)
(*   DB.checkpoint           sync; release the read lock; PRAGMA; lock     *)
(*                           again; bump _litestream_seq; sync under the   *)
(*                           write lock if the WAL was restarted           *)
(*                                                                         *)
(* A page's content is the number of the commit that wrote it, a WAL       *)
(* offset is a number of frames, and salts are a generation number.        *)
(* Transactions reach the WAL in one step: module WALReader has the frames *)
(* and shows that PageMap returns a committed prefix.  Of the L0 files the *)
(* module keeps the last one, which verify reads, and what all of them     *)
(* restore to.                                                             *)
(***************************************************************************)
EXTENDS Integers, Sequences, FiniteSets

CONSTANTS Pages,       \* page numbers
          SeqPage,     \* the page that holds _litestream_seq
          MaxVersion,  \* bound: commits, litestream's own included
          Modes,       \* checkpoint modes DB.Checkpoint is called with
          ChkErrors,   \* TRUE: DB.Checkpoint may fail half way
          Downtime,    \* TRUE: litestream stops and starts while others write
          TailLoss     \* TRUE: the machine may fail and lose unsynced WAL frames

ASSUME PagesAssumption == Pages \subseteq Nat /\ IsFiniteSet(Pages) /\ SeqPage \in Pages
ASSUME VersionAssumption == MaxVersion \in Nat
ASSUME ModesAssumption == Modes \subseteq {"PASSIVE", "RESTART", "TRUNCATE"}
ASSUME SwitchAssumption == {ChkErrors, Downtime, TailLoss} \subseteq BOOLEAN

(* Litestream's own commits may go one past the applications' bound. *)
Version == 0..MaxVersion + 1
State == [Pages -> Version]
Frame == [pgno : Pages, version : Version, salt : Version]

(* The part of an L0 file that verify reads: the WAL position it ends at, the
   salt of that WAL and the pages; snapshot says writeLTXFromDB wrote it. *)
NoFile == [end |-> 0, salt |-> 0, pages |-> <<>>, snapshot |-> FALSE]
NoInfo == [offset |-> 0, salt |-> 0, snapshotting |-> FALSE]

VARIABLES
  (* SQLite *)
  version,   \* number of the last commit
  dbfile,    \* the database file
  wal,       \* the frames in the WAL file, those of earlier salts included
  hdr,       \* salt in the WAL header, zero if the file is empty
  mx,        \* frames of the current salt (mxFrame)
  nbackfill, \* of these, frames copied into the database file
  rmark,     \* read mark of DB.rtx: -1 without it, 0 if it reads the database file only
  (* DB *)
  pc,        \* down, idle, verify, verified, copying, exec, pragma, reacquire, bump or lock
  chk,       \* verifyAndSync runs in Sync, or before or after the PRAGMA of checkpoint
  info,      \* syncInfo
  pageMap,   \* page -> WAL frame
  buf,       \* page -> version, the file being written
  end,       \* the WAL position it will record
  hdr0,      \* header read at the start of checkpoint
  last,      \* the last L0 file
  replay,    \* the database the L0 files restore to
  (* history *)
  committed, \* every state of the database so far
  overrun    \* what the WAL was restarted over: "files" transactions no L0 file
             \* holds, "copy" the frames being copied, "torn" frames of the files;
             \* "copy" and "torn" also stand for pages of an unlocked snapshot;
             \* and what a power loss took: "loss" any frames, "tail" some of the files

sqlite == <<version, dbfile, wal, hdr, mx, nbackfill, committed>>
syncing == <<info, pageMap, buf, end>>
files == <<last, replay>>
vars == <<sqlite, rmark, pc, chk, syncing, hdr0, files, overrun>>

-----------------------------------------------------------------------------
(* SQLite, as far as the code depends on it. *)

Newest(state) == CHOOSE v \in {state[p] : p \in Pages} : \A p \in Pages : state[p] <= v

(* The last frame up to n that holds page p, zero if there is none. *)
LastFrame(p, from, to) ==
  LET at == {i \in from..to : wal[i].pgno = p}
  IN  IF at = {} THEN 0 ELSE CHOOSE i \in at : \A j \in at : j <= i

Overlay(to) ==
  [p \in Pages |-> IF LastFrame(p, 1, to) = 0 THEN dbfile[p]
                   ELSE wal[LastFrame(p, 1, to)].version]

(* The database as a new reader sees it. *)
Current == Overlay(mx)

(* A reader of the whole WAL reads the database file only (read mark 0). *)
ReadMark == IF nbackfill = mx THEN 0 ELSE mx

(* Nobody but DB.rtx holds a mark for long; mark 0 does not protect the WAL. *)
MayRestart == nbackfill = mx /\ rmark <= 0

(* What a restart of the WAL takes away: transactions the L0 files lack, and
   frames DB.sync is about to copy. *)
Overrun ==
  overrun \cup (IF last # NoFile /\ replay # Current THEN {"files"} ELSE {})
          \cup (IF pc = "copying" THEN {"copy"} ELSE {})

(* The frames of the pages in P, in page order. *)
FramesOf(P, salt) ==
  [i \in 1..Cardinality(P) |->
     [pgno |-> CHOOSE p \in P : Cardinality({q \in P : q < p}) = i - 1,
      version |-> version + 1, salt |-> salt]]

(* A transaction: appended to the WAL, or at its start with new salts when the
   WAL is empty or may be restarted and no other reader is in the way. *)
Commit(P) ==
  /\ version' = version + 1
  /\ \/ LET salt == version + 1
            new == FramesOf(P, salt)
        IN  /\ mx = 0 \/ MayRestart
            /\ wal' = new \o SubSeq(wal, Len(new) + 1, Len(wal))
            /\ hdr' = salt /\ mx' = Len(new) /\ nbackfill' = 0
            /\ overrun' = Overrun
     \/ /\ mx > 0
        /\ wal' = SubSeq(wal, 1, mx) \o FramesOf(P, hdr)
                    \o SubSeq(wal, mx + Cardinality(P) + 1, Len(wal))
        /\ mx' = mx + Cardinality(P)
        /\ UNCHANGED <<hdr, nbackfill, overrun>>
  /\ committed' = committed \cup {[p \in Pages |-> IF p \in P THEN version + 1 ELSE Current[p]]}
  /\ UNCHANGED dbfile

(* Copy the frames up to n into the database file. *)
Backfill(n) ==
  /\ dbfile' = Overlay(n)
  /\ nbackfill' = n
  /\ UNCHANGED <<version, wal, hdr, mx, committed>>

(* A TRUNCATE checkpoint of a WAL that is already copied. *)
TruncateWAL ==
  /\ MayRestart /\ mx > 0
  /\ wal' = <<>> /\ hdr' = 0 /\ mx' = 0 /\ nbackfill' = 0
  /\ overrun' = Overrun
  /\ UNCHANGED <<version, dbfile, committed>>

-----------------------------------------------------------------------------
Init ==
  /\ version = 0 /\ dbfile = [p \in Pages |-> 0] /\ committed = {dbfile}
  /\ wal = <<>> /\ hdr = 0 /\ mx = 0 /\ nbackfill = 0 /\ rmark = -1
  /\ pc = "down" /\ chk = "sync"
  /\ info = NoInfo /\ pageMap = <<>> /\ buf = <<>> /\ end = 0 /\ hdr0 = 0
  /\ last = NoFile /\ replay = dbfile
  /\ overrun = {}

-----------------------------------------------------------------------------
(* Applications. *)

(* The transaction of _litestream_lock keeps other writers out. *)
Locked == chk = "after" /\ pc \in {"verify", "verified", "copying"}

AppCommit(P) ==
  /\ version < MaxVersion /\ ~Locked
  /\ pc = "down" => Downtime \/ last = NoFile
  /\ Commit(P)
  /\ UNCHANGED <<rmark, pc, chk, syncing, hdr0, files>>

(* A checkpoint copies no frame beyond a reader's mark, and none while a
   reader relies on the database file alone; with no reader, it changes the
   file under a snapshot. *)
AppCheckpoint ==
  /\ rmark # 0
  /\ LET n == IF rmark > 0 THEN rmark ELSE mx
     IN  nbackfill < n /\ Backfill(n)
  /\ overrun' = overrun \cup (IF rmark = -1 /\ info.snapshotting THEN {"copy"} ELSE {})
  /\ UNCHANGED <<rmark, pc, chk, syncing, hdr0, files>>

AppTruncate ==
  /\ version < MaxVersion /\ ~Locked
  /\ pc = "down" => Downtime \/ last = NoFile
  /\ TruncateWAL
  /\ UNCHANGED <<rmark, pc, chk, syncing, hdr0, files>>

-----------------------------------------------------------------------------
(* DB.Sync *)

(* init: connect and take the read lock. *)
Open ==
  /\ pc = "down"
  /\ pc' = "idle" /\ rmark' = ReadMark
  /\ UNCHANGED <<sqlite, chk, syncing, hdr0, files, overrun>>

(* ensureWALExists, then verifyAndSync. *)
SyncStart ==
  /\ pc = "idle"
  /\ pc' = "verify" /\ chk' = "sync"
  /\ IF hdr # 0 THEN UNCHANGED <<sqlite, overrun>> ELSE Commit({SeqPage})
  /\ UNCHANGED <<rmark, syncing, hdr0, files>>

(* Mutant: the last page is not looked up in the last file. *)
VerifyInfoNoPage ==
  IF last = NoFile THEN [offset |-> 0, salt |-> 0, snapshotting |-> TRUE]
  ELSE IF hdr # 0 /\ last.end <= Len(wal) /\ hdr # last.salt
    THEN [offset |-> 0, salt |-> hdr, snapshotting |-> FALSE]
  ELSE [offset |-> last.end, salt |-> last.salt,
        snapshotting |-> hdr = 0 \/ last.end > Len(wal)]

(* Mutant: after a restart of the WAL reading goes on at the old offset. *)
VerifyInfoOldOffset ==
  IF last = NoFile THEN [offset |-> 0, salt |-> 0, snapshotting |-> TRUE]
  ELSE [offset |-> last.end, salt |-> hdr, snapshotting |-> hdr = 0 \/ last.end > Len(wal)]

(* Mutant: the frame after the last position counts as read. *)
VerifyInfoOneMore ==
  IF last = NoFile THEN [offset |-> 0, salt |-> 0, snapshotting |-> TRUE]
  ELSE IF hdr # 0 /\ last.end <= Len(wal) /\ hdr # last.salt
    THEN [offset |-> 0, salt |-> hdr, snapshotting |-> FALSE]
  ELSE [offset |-> IF last.end < Len(wal) THEN last.end + 1 ELSE last.end,
        salt |-> last.salt, snapshotting |-> hdr = 0 \/ last.end > Len(wal)]

(* Mutant: neither the length nor the header of the WAL is looked at. *)
VerifyInfoBlind ==
  IF last = NoFile THEN [offset |-> 0, salt |-> 0, snapshotting |-> TRUE]
  ELSE [offset |-> last.end, salt |-> last.salt, snapshotting |-> FALSE]

(* verify: where to go on reading, and whether from the WAL alone. *)
VerifyInfo ==
  IF last = NoFile THEN [offset |-> 0, salt |-> 0, snapshotting |-> TRUE]
  ELSE IF hdr # 0 /\ last.end <= Len(wal) /\ hdr # last.salt
    THEN [offset |-> 0, salt |-> hdr, snapshotting |-> FALSE]
  ELSE [offset |-> last.end, salt |-> last.salt,
        snapshotting |->
          \/ hdr = 0 \/ last.end > Len(wal)
          \/ /\ last.end > 0
             /\ LET f == wal[last.end]
                IN  \/ f.salt # last.salt
                    \/ f.pgno \notin DOMAIN last.pages
                    \/ last.pages[f.pgno] # f.version]

Verify ==
  /\ pc = "verify"
  /\ info' = VerifyInfo
  /\ pc' = "verified"
  /\ UNCHANGED <<sqlite, rmark, chk, pageMap, buf, end, hdr0, files, overrun>>

(* verifyAndSync returns: to Sync, to the PRAGMA, or after the rollback. *)
Return(ok) ==
  /\ pc' = IF ok /\ chk = "before" THEN "exec" ELSE "idle"
  /\ info' = NoInfo /\ pageMap' = <<>> /\ buf' = <<>> /\ end' = 0

(* NewWALReaderWithOffset if the frame before the offset is still there,
   NewWALReader from the first frame otherwise. *)
Reader ==
  IF info.offset > 0 /\ info.offset <= Len(wal) /\ wal[info.offset].salt = info.salt
  THEN [offset |-> info.offset, salt |-> info.salt]
  ELSE [offset |-> 0, salt |-> hdr]

(* The frame that PageMap reads last. *)
ReadTo ==
  CHOOSE n \in Reader.offset..Len(wal) :
    /\ \A i \in Reader.offset + 1..n : wal[i].salt = Reader.salt
    /\ n < Len(wal) => wal[n + 1].salt # Reader.salt

(* The first half of sync, up to the page map. *)
PageMap ==
  /\ pc = "verified"
  /\ IF hdr = 0 \/ (~info.snapshotting /\ ReadTo = Reader.offset)
     THEN Return(hdr # 0) /\ overrun' = overrun \ {"copy"}
     ELSE /\ pc' = "copying"
          /\ pageMap' = [p \in {wal[i].pgno : i \in Reader.offset + 1..ReadTo} |->
                           LastFrame(p, Reader.offset + 1, ReadTo)]
          /\ end' = ReadTo
          /\ info' = [offset |-> Reader.offset, salt |-> Reader.salt,
                      snapshotting |-> info.snapshotting]
          /\ UNCHANGED <<buf, overrun>>
  /\ UNCHANGED <<sqlite, rmark, chk, hdr0, files>>

(* Mutant: a snapshot, too, holds the pages of the WAL only. *)
UncopiedInWAL == DOMAIN pageMap \ DOMAIN buf

(* The pages writeLTXFromDB or writeLTXFromWAL has yet to copy. *)
Uncopied == (IF info.snapshotting THEN Pages ELSE DOMAIN pageMap) \ DOMAIN buf

(* One iteration of either loop; a short read fails the sync. *)
CopyPage ==
  /\ pc = "copying"
  /\ \E p \in Uncopied :
       /\ \A q \in Uncopied : p <= q
       /\ IF p \in DOMAIN pageMap /\ pageMap[p] > Len(wal)
          THEN Return(FALSE) /\ overrun' = overrun \ {"copy"}
          ELSE /\ buf' = [q \in DOMAIN buf \cup {p} |->
                            IF q # p THEN buf[q]
                            ELSE IF p \in DOMAIN pageMap THEN wal[pageMap[p]].version
                            ELSE dbfile[p]]
               /\ UNCHANGED <<pc, info, pageMap, end, overrun>>
  /\ UNCHANGED <<sqlite, rmark, chk, hdr0, files>>

(* The file is complete and renamed into place. *)
Rename ==
  /\ pc = "copying" /\ Uncopied = {}
  /\ last' = [end |-> end, salt |-> info.salt, pages |-> buf,
              snapshot |-> info.snapshotting]
  /\ replay' = [p \in Pages |-> IF p \in DOMAIN buf THEN buf[p] ELSE replay[p]]
  /\ overrun' = (IF info.snapshotting THEN overrun \cap {"loss", "tail"} ELSE overrun \ {"copy"})
                  \cup (IF "copy" \in overrun THEN {"torn"} ELSE {})
  /\ Return(TRUE)
  /\ UNCHANGED <<sqlite, rmark, chk, hdr0>>

-----------------------------------------------------------------------------
(* DB.Checkpoint *)

(* The header is read first, then verifyAndSync(true). *)
ChkStart ==
  /\ pc = "idle" /\ Modes # {} /\ version < MaxVersion /\ hdr # 0
  /\ hdr0' = hdr
  /\ pc' = "verify" /\ chk' = "before"
  /\ UNCHANGED <<sqlite, rmark, syncing, files, overrun>>

(* Mutant: the PRAGMA runs while the read lock is still held. *)
ChkReleaseNot ==
  /\ pc = "exec"
  /\ pc' = "pragma"
  /\ UNCHANGED <<sqlite, rmark, chk, syncing, hdr0, files, overrun>>

(* execCheckpoint: releaseReadLock, *)
ChkRelease ==
  /\ pc = "exec"
  /\ rmark' = -1 /\ pc' = "pragma"
  /\ UNCHANGED <<sqlite, chk, syncing, hdr0, files, overrun>>

(* the PRAGMA, which does nothing if other readers are in the way, *)
ChkPragma(mode) ==
  /\ pc = "pragma" /\ pc' = "reacquire"
  /\ \/ UNCHANGED <<sqlite, overrun>>
     \/ mode # "TRUNCATE" /\ Backfill(mx) /\ UNCHANGED overrun
     \/ /\ mode = "TRUNCATE"
        /\ dbfile' = Current
        /\ wal' = <<>> /\ hdr' = 0 /\ mx' = 0 /\ nbackfill' = 0
        /\ overrun' = Overrun
        /\ UNCHANGED <<version, committed>>
  /\ UNCHANGED <<rmark, chk, syncing, hdr0, files>>

(* and acquireReadLock. *)
ChkReacquire ==
  /\ pc = "reacquire"
  /\ rmark' = ReadMark /\ pc' = "bump"
  /\ UNCHANGED <<sqlite, chk, syncing, hdr0, files, overrun>>

(* Write to _litestream_seq; done unless that restarted the WAL. *)
ChkBump ==
  /\ pc = "bump"
  /\ Commit({SeqPage})
  /\ IF hdr' = hdr0 THEN pc' = "idle" /\ chk' = "sync"
     ELSE pc' = "lock" /\ chk' = chk
  /\ hdr0' = 0
  /\ UNCHANGED <<rmark, syncing, files>>

(* Take the write lock for a second verifyAndSync(true). *)
ChkLock ==
  /\ pc = "lock"
  /\ pc' = "verify" /\ chk' = "after"
  /\ UNCHANGED <<sqlite, rmark, syncing, hdr0, files, overrun>>

(* One of these fails and DB.Checkpoint returns its error: releaseReadLock, the
   PRAGMA or acquireReadLock, the write, a look at the header, the write lock.
   execCheckpoint tries to lock again on its way out and drops the error of
   that: the read lock may be gone until the next checkpoint. *)
ChkFail ==
  /\ ChkErrors
  /\ \/ pc = "exec" /\ rmark' = -1
     \/ pc = "reacquire" /\ rmark' \in {-1, ReadMark}
     \/ pc \in {"bump", "lock"} /\ UNCHANGED rmark
  /\ pc' = "idle" /\ chk' = "sync" /\ hdr0' = 0
  /\ UNCHANGED <<sqlite, syncing, files, overrun>>

-----------------------------------------------------------------------------
(* The process ends, by Close or by a crash; a temporary file is dropped. *)
Down ==
  /\ pc' = "down" /\ chk' = "sync" /\ rmark' = -1
  /\ info' = NoInfo /\ pageMap' = <<>> /\ buf' = <<>> /\ end' = 0 /\ hdr0' = 0
  /\ UNCHANGED files

Stop ==
  /\ Downtime /\ pc # "down"
  /\ Down /\ overrun' = overrun \ {"copy"}
  /\ UNCHANGED sqlite

(* The machine fails: the WAL keeps a prefix of its transactions, at least
   what was copied into the database file.  Bound: one failure. *)
PowerLoss ==
  /\ TailLoss /\ "loss" \notin overrun
  /\ Down
  /\ \E n \in {k \in nbackfill..mx - 1 : k > 0 => wal[k].version # wal[k + 1].version} :
       /\ wal' = SubSeq(wal, 1, n) /\ mx' = n
       /\ overrun' = (overrun \ {"copy"}) \cup {"loss"}
                       \cup (IF last.salt = hdr /\ last.end > n THEN {"tail"} ELSE {})
  /\ UNCHANGED <<version, dbfile, hdr, nbackfill, committed>>

Next ==
  \/ \E P \in (SUBSET Pages) \ {{}} : AppCommit(P)
  \/ AppCheckpoint \/ AppTruncate
  \/ Open \/ SyncStart \/ Verify \/ PageMap \/ CopyPage \/ Rename
  \/ ChkStart \/ ChkRelease \/ \E mode \in Modes : ChkPragma(mode)
  \/ ChkReacquire \/ ChkBump \/ ChkLock \/ ChkFail
  \/ Stop \/ PowerLoss

Spec == Init /\ [][Next]_vars

(* DB.monitor calls Sync on every tick and each call runs to its end; nobody
   has to commit, checkpoint or stop. *)
Fairness ==
  /\ WF_vars(Open) /\ SF_vars(SyncStart)
  /\ WF_vars(Verify \/ PageMap \/ CopyPage \/ Rename)
  /\ WF_vars(ChkRelease \/ ChkReacquire \/ ChkBump \/ ChkLock)
  /\ WF_vars(\E mode \in Modes : ChkPragma(mode))

FairSpec == Spec /\ Fairness

-----------------------------------------------------------------------------
(* Properties. *)

(* The variables hold what their counterparts can hold. *)
TypeOK ==
  /\ version \in Version /\ dbfile \in State /\ committed \subseteq State
  /\ \A i \in DOMAIN wal : wal[i] \in Frame
  /\ hdr \in Version /\ mx \in 0..Len(wal) /\ nbackfill \in 0..mx
  /\ rmark \in -1..mx
  /\ pc \in {"down", "idle", "verify", "verified", "copying", "exec", "pragma",
             "reacquire", "bump", "lock"}
  /\ chk \in {"sync", "before", "after"}
  /\ info.offset \in Nat /\ info.salt \in Version /\ info.snapshotting \in BOOLEAN
  /\ \A p \in DOMAIN pageMap : p \in Pages /\ pageMap[p] \in Nat
  /\ DOMAIN buf \subseteq Pages /\ end \in Nat /\ hdr0 \in Version
  /\ replay \in State /\ last.salt \in Version
  /\ overrun \subseteq {"files", "copy", "torn", "loss", "tail"}

(* Whatever applications and checkpoints do between the steps of a sync, the
   L0 files restore to a state the database really had, unless the WAL was
   restarted over transactions that no file holds or over frames that were
   being copied, or a checkpoint came under a snapshot that a failed
   DB.Checkpoint left without the read lock, or a power loss took frames that a
   file holds. *)
ReplayCommitted ==
  last # NoFile /\ overrun \cap {"files", "torn", "tail"} = {} => replay \in committed

(* "This ensures that the last sync position of the real WAL hasn't been
   overwritten by another process" (verifyAndSync): a restart of the WAL that
   takes transactions with it does not go unnoticed. *)
OverwriteNoticed == last # NoFile /\ "torn" \notin overrun => replay \in committed

(* "if true, a full snapshot is required" (syncInfo.snapshotting): a file
   written that way holds the whole database as it was at one moment. *)
SnapshotRequired == last.snapshot /\ "torn" \notin overrun => last.pages \in committed

(* A snapshot holds the whole database as it was at one moment, however commits
   and checkpoints interleave with the copying, unless a power loss took frames
   that a file holds, the WAL was restarted under the copying or a failed
   DB.Checkpoint left it without the read lock (writeLTXFromDB). *)
SnapshotIsFull == "tail" \notin overrun => SnapshotRequired

(* Even when the machine fails and SQLite goes on writing where frames that
   were already copied used to be, verify notices: a file of WAL pages only is
   never put on top of files that the WAL does not continue. *)
IncrementContinues ==
  [][overrun \subseteq {"loss", "tail"} /\ replay \in committed /\ ~last'.snapshot
       => replay' \in committed]_vars

(* A sync skips ("no new wal pages") only if the files already restore to the
   current state of the WAL they belong to. *)
NothingNewWhenSkipped ==
  [][/\ pc = "verified" /\ pc' \in {"idle", "exec"}
     /\ overrun \cap {"files", "torn", "tail"} = {}
     /\ last # NoFile /\ hdr = last.salt
     => replay = Current]_vars

(* Every transaction reaches the L0 files sooner or later unless the WAL is
   restarted before a sync could see it, provided litestream stays up. *)
EventuallySynced ==
  <>[](pc # "down") =>
    \A v \in 1..MaxVersion :
      Newest(Current) >= v ~> (Newest(replay) >= v \/ "files" \in overrun)

=============================================================================
