----------------------------- MODULE UltraSimple -----------------------------
(***************************************************************************)
(* The ultra-simple replicator: Replicator.Run scans the databases and     *)
(* uploads the changed ones whole, under a key that names the next hour,   *)
(* and deletes old backups every hour.  Scan and cleanup are one goroutine *)
(* and never overlap; the uploads of a scan run beside one another, and    *)
(* applications commit and checkpoint all the time.                        *)
(*                                                                         *)
(* A database is the number of the last commit its file holds and of the   *)
(* last one altogether; the file's modification time and size change when  *)
(* its content does.  The clock counts hours.                              *)
(***************************************************************************)
EXTENDS Integers, FiniteSetsExt

CONSTANTS Paths,
          MaxConcurrent,  \* S3Config.MaxConcurrent
          RetentionHours, \* S3Config.RetentionDays, in hours
          Behind,         \* hours local time is behind UTC
          MaxBatch,       \* keys in one delete request (1000 in the code)
          MaxCommit,      \* bound: commits of all databases
          MaxHour,        \* bound: hours
          Faults          \* which calls may fail: a subset of AllFaults

AllFaults == {"stat", "read", "upload", "delete"}
ASSUME UltraAssumption ==
  /\ MaxConcurrent \in Nat \ {0} /\ RetentionHours \in Nat /\ Behind \in 0..12
  /\ MaxBatch \in Nat \ {0} /\ Faults \subseteq AllFaults
  /\ MaxCommit \in Nat /\ MaxHour \in Nat

VARIABLES
  shared,    \* the databases have the same key, fixed
  file,      \* path -> last commit in the database file, zero before it exists
  committed, \* path -> last commit, in the file or in the WAL
  hour,      \* the clock
  run,       \* Run: wait, scan or cleanup
  last,      \* path -> the file as LastModTime and LastSize recorded it; zero: new
  job,       \* path -> its syncDatabase, or NoJob
  backups,   \* the objects in the bucket
  toDelete,  \* the keys cleanupOldBackups has yet to delete
  (* history *)
  failed,    \* paths whose last syncDatabase failed
  sent       \* path -> its last backup that was reported as uploaded

db == <<file, committed>>
scanner == <<run, last>>
vars == <<shared, db, hour, scanner, job, backups, toDelete, failed, sent>>

(* What ReadFile returns: the file's commit when it began and when it ended.
   Unless both are the same, a checkpoint got in between. *)
NoJob == [pc |-> "none", lo |-> 0, hi |-> 0, at |-> 0]
Job == [pc : {"none", "queued", "reading", "upload"}, lo : 0..MaxCommit,
        hi : 0..MaxCommit, at : 0..MaxHour]
NoBackup == [lo |-> 0, hi |-> 0, at |-> 0]
Content == [lo : 0..MaxCommit, hi : 0..MaxCommit, at : 0..MaxHour]
Backup == [name : Paths \cup {"same"}, at : 0..MaxHour, lo : 1..MaxCommit, hi : 1..MaxCommit]

Init ==
  /\ shared \in BOOLEAN
  /\ file = [p \in Paths |-> 0] /\ committed = [p \in Paths |-> 0]
  /\ hour = 0 /\ run = "wait"
  /\ last = [p \in Paths |-> 0] /\ job = [p \in Paths |-> NoJob]
  /\ backups = {} /\ toDelete = {}
  /\ failed = {} /\ sent = [p \in Paths |-> NoBackup]

-----------------------------------------------------------------------------
(* Applications and the clock. *)

replicator == <<scanner, job, backups, toDelete, failed, sent>>

Commits == MapThenSumSet(LAMBDA q : committed[q], Paths)

(* A commit goes to the WAL; the first one makes the file. *)
Commit(p) ==
  /\ committed[p] < MaxCommit /\ Commits < MaxCommit
  /\ committed' = [committed EXCEPT ![p] = @ + 1]
  /\ file' = [file EXCEPT ![p] = IF @ = 0 THEN 1 ELSE @]
  /\ UNCHANGED <<shared, hour, replicator>>

(* A checkpoint of the application copies the WAL, as far as readers let it. *)
Checkpoint(p) ==
  /\ \E v \in file[p] + 1..committed[p] : file' = [file EXCEPT ![p] = v]
  /\ UNCHANGED <<shared, committed, hour, replicator>>

Tick ==
  /\ hour < MaxHour
  /\ hour' = hour + 1
  /\ UNCHANGED <<shared, db, replicator>>

-----------------------------------------------------------------------------
(* scanAndSync. *)

(* Mutant: a modification time that is not before the recorded one counts. *)
ChangedOrSame == {p \in Paths : file[p] # 0 /\ file[p] >= last[p]}

Changed == {p \in Paths : file[p] # last[p]}

(* Glob and the loop over its matches: a file that has changed, or is new, is
   recorded and its syncDatabase started, one whose os.Stat fails is skipped.
   The loop is one step, because no database depends on another one in it; a
   scan that finds nothing is left out. *)
ScanStart(skipped) ==
  LET found == Changed \ skipped IN
  /\ run = "wait" /\ found # {}
  /\ skipped # {} => "stat" \in Faults
  /\ run' = "scan"
  /\ last' = [p \in Paths |-> IF p \in found THEN file[p] ELSE last[p]]
  /\ job' = [p \in Paths |-> IF p \in found THEN [job[p] EXCEPT !.pc = "queued"] ELSE job[p]]
  /\ failed' = failed \ found
  /\ UNCHANGED <<shared, db, hour, backups, toDelete, sent>>

(* Mutant: the uploads are not waited for, and a new one starts beside them. *)
ScanDoneNoWait ==
  /\ run = "scan"
  /\ run' = "wait"
  /\ UNCHANGED <<shared, db, hour, last, job, backups, toDelete, failed, sent>>

(* wg.Wait. *)
ScanDone ==
  /\ run = "scan" /\ \A p \in Paths : job[p] = NoJob
  /\ run' = "wait"
  /\ UNCHANGED <<shared, db, hour, last, job, backups, toDelete, failed, sent>>

-----------------------------------------------------------------------------
(* syncDatabase. *)

syncOnly == <<shared, committed, hour, scanner, toDelete>>
Active == {p \in Paths : job[p].pc \in {"reading", "upload"}}

(* With the semaphore: a WAL is checkpointed, in whole, in part or not at all
   (an error is only logged), and ReadFile begins. *)
ReadStart(p) ==
  /\ job[p].pc = "queued" /\ Cardinality(Active) < MaxConcurrent
  /\ \E v \in file[p]..committed[p] :
       /\ file' = [file EXCEPT ![p] = v]
       /\ job' = [job EXCEPT ![p] = [@ EXCEPT !.pc = "reading", !.lo = v]]
  /\ UNCHANGED <<syncOnly, backups, failed, sent>>

(* ReadFile ends; compressLZ4 and generateS3Key, which reads the clock. *)
ReadDone(p) ==
  /\ job[p].pc = "reading"
  /\ job' = [job EXCEPT ![p] = [@ EXCEPT !.pc = "upload", !.hi = file[p], !.at = hour]]
  /\ UNCHANGED <<syncOnly, file, backups, failed, sent>>

(* The database cannot be opened or read. *)
ReadFail(p) ==
  /\ "read" \in Faults
  /\ job[p].pc \in {"queued", "reading"}
  /\ job' = [job EXCEPT ![p] = NoJob]
  /\ failed' = failed \cup {p}
  /\ UNCHANGED <<syncOnly, file, backups, sent>>

(* generateS3Key but for the hour: two databases have the same key when their
   paths lack the parts that the template names and their file names agree. *)
Name(p) == IF shared THEN "same" ELSE p

(* The object replaces the one with the same name and hour. *)
Stored(p) ==
  {b \in backups : b.name # Name(p) \/ b.at # job[p].at} \cup
  {[name |-> Name(p), at |-> job[p].at, lo |-> job[p].lo, hi |-> job[p].hi]}

(* Mutant: the modification time is taken after the upload. *)
UploadDoneStats(p) ==
  /\ job[p].pc = "upload"
  /\ backups' = Stored(p)
  /\ sent' = [sent EXCEPT ![p] = [lo |-> job[p].lo, hi |-> job[p].hi, at |-> job[p].at]]
  /\ job' = [job EXCEPT ![p] = NoJob]
  /\ last' = [last EXCEPT ![p] = file[p]]
  /\ UNCHANGED <<shared, db, hour, run, toDelete, failed>>

UploadDone(p) ==
  /\ job[p].pc = "upload"
  /\ backups' = Stored(p)
  /\ sent' = [sent EXCEPT ![p] = [lo |-> job[p].lo, hi |-> job[p].hi, at |-> job[p].at]]
  /\ job' = [job EXCEPT ![p] = NoJob]
  /\ UNCHANGED <<syncOnly, file, failed>>

(* The upload fails, possibly after it took effect. *)
UploadFail(p) ==
  /\ "upload" \in Faults
  /\ job[p].pc = "upload"
  /\ backups' \in {backups, Stored(p)}
  /\ job' = [job EXCEPT ![p] = NoJob]
  /\ failed' = failed \cup {p}
  /\ UNCHANGED <<syncOnly, file, sent>>

-----------------------------------------------------------------------------
(* cleanupOldBackups. *)

cleanOnly == <<shared, db, hour, last, job, failed, sent>>

(* Mutant: a month is taken for a day less. *)
OldEarly == {b \in backups : b.at + 1 - Behind <= hour - RetentionHours + 1}

(* The key's time is the hour after at, written in local time, parsed as UTC and
   compared with the cutoff, which lies within the current hour. *)
Old == {b \in backups : b.at + 1 - Behind <= hour - RetentionHours}

CleanupStart ==
  /\ run = "wait" /\ Old # {}
  /\ run' = "cleanup" /\ toDelete' = Old
  /\ UNCHANGED <<cleanOnly, backups>>

(* One batch of keys. *)
Batch(S) ==
  /\ run = "cleanup" /\ S \subseteq toDelete
  /\ Cardinality(S) = IF Cardinality(toDelete) < MaxBatch THEN Cardinality(toDelete)
                                                          ELSE MaxBatch
  /\ toDelete' = toDelete \ S
  /\ run' = IF toDelete' = {} THEN "wait" ELSE run

(* Mutant: the last key of a batch is left out. *)
DeleteBatchShort ==
  \E S \in SUBSET toDelete, b \in toDelete :
    /\ Batch(S) /\ b \in S
    /\ backups' = backups \ (S \ {b})
    /\ UNCHANGED cleanOnly

DeleteBatch ==
  \E S \in SUBSET toDelete :
    /\ Batch(S)
    /\ backups' = backups \ S
    /\ UNCHANGED cleanOnly

(* A batch that fails is passed over. *)
DeleteFail ==
  /\ "delete" \in Faults
  /\ \E S \in SUBSET toDelete : Batch(S)
  /\ UNCHANGED <<cleanOnly, backups>>

(* The process is stopped, or dies, and starts anew: it knows no database. *)
Restart ==
  /\ run' = "wait" /\ toDelete' = {}
  /\ last' = [p \in Paths |-> 0] /\ job' = [p \in Paths |-> NoJob]
  /\ UNCHANGED <<shared, db, hour, backups, failed, sent>>

-----------------------------------------------------------------------------
Sync(p) == ReadStart(p) \/ ReadDone(p) \/ UploadDone(p)

Next ==
  \/ \E p \in Paths : Commit(p) \/ Checkpoint(p)
  \/ Tick
  \/ \E skipped \in SUBSET Paths : ScanStart(skipped)
  \/ ScanDone
  \/ \E p \in Paths : Sync(p) \/ ReadFail(p) \/ UploadFail(p)
  \/ CleanupStart \/ DeleteBatch \/ DeleteFail
  \/ Restart

Spec == Init /\ [][Next]_vars

(* The tickers fire and both cases of the select are taken in turn; a call that
   is tried for ever succeeds again; the process is not restarted for ever.
   Nothing makes applications commit or checkpoint. *)
Fairness ==
  /\ SF_vars(ScanStart({})) /\ WF_vars(ScanDone)
  /\ SF_vars(CleanupStart) /\ WF_vars(DeleteBatch \/ DeleteFail) /\ SF_vars(DeleteBatch)
  /\ \A p \in Paths : WF_vars(Sync(p))
  /\ <>[][~Restart]_vars

FairSpec == Spec /\ Fairness

-----------------------------------------------------------------------------
(* Properties. *)

(* The variables hold what their counterparts can hold. *)
TypeOK ==
  /\ shared \in BOOLEAN
  /\ committed \in [Paths -> 0..MaxCommit]
  /\ \A p \in Paths : file[p] \in 0..committed[p] /\ last[p] \in 0..file[p]
  /\ hour \in 0..MaxHour
  /\ run \in {"wait", "scan", "cleanup"}
  /\ job \in [Paths -> Job]
  /\ backups \subseteq Backup /\ toDelete \subseteq backups
  /\ failed \subseteq Paths /\ sent \in [Paths -> Content]

(* The newest object of a database is at least as new as the last backup that
   was reported as uploaded, until that one is older than the retention: no
   older content replaces it or comes after it, whatever the order in which
   uploads begin, end and fail, and restarts included.  Databases that share a
   key are the exception. *)
NewestNotOlder ==
  \A p \in Paths :
    ~shared /\ sent[p] # NoBackup /\ hour - sent[p].at < RetentionHours + 1 - Behind =>
      \E b \in backups :
        /\ b.name = Name(p) /\ b.at >= sent[p].at
        /\ b.lo >= sent[p].lo /\ b.hi >= sent[p].hi
        /\ \A c \in backups : c.name = b.name => c.at <= b.at

(* "Failed uploads retry naturally on next cycle": the content of a database
   file is backed up whole in the end, although applications checkpoint while
   it is read.  What the code does not do is retry a backup that failed when
   the file has not changed since the scan that began it. *)
EventuallyBackedUp ==
  \A p \in Paths :
    []<>(\/ sent[p].lo = file[p] /\ sent[p].hi = file[p]
         \/ p \in failed /\ last[p] = file[p])

(* The checkpoints of readDatabaseSafely change files, so that the next scan
   finds them changed; that does not go on for ever. *)
EventuallyQuiet == <>[](run # "scan")

(* Backups past the retention are deleted in the end, although a batch that
   fails is passed over. *)
EventuallyClean == []<>(Old = {})

=============================================================================
