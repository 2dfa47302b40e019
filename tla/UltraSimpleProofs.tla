-------------------------- MODULE UltraSimpleProofs --------------------------
(***************************************************************************)
(* Proofs about UltraSimple: for any number of databases, commits and      *)
(* hours, the newest backup of a database is never older than one that was *)
(* reported as uploaded.                                                   *)
(***************************************************************************)
EXTENDS UltraSimple, TLAPS

-----------------------------------------------------------------------------
(* The inductive invariant. *)

(* What TypeOK leaves out: these are functions. *)
Mappings == file \in [Paths -> 0..MaxCommit] /\ last \in [Paths -> 0..MaxCommit]

(* Uploads run during a scan and deletions during a cleanup, so that no upload
   replaces an object that is about to be deleted. *)
OneAtATime ==
  /\ run # "scan" => \A p \in Paths : job[p].pc = "none"
  /\ run # "cleanup" => toDelete = {}

Began(p) == job[p].pc \in {"reading", "upload"}

(* What is read of a file is no older than the file was when it began. *)
JobOK ==
  \A p \in Paths :
    /\ job[p].pc # "none" => file[p] >= 1
    /\ Began(p) => 1 <= job[p].lo /\ job[p].lo <= file[p]
    /\ job[p].pc = "upload" =>
         job[p].lo <= job[p].hi /\ job[p].hi <= file[p] /\ job[p].at <= hour

(* Every object holds no more than the file does. *)
BackupOK ==
  \A b \in backups :
    /\ b.lo <= b.hi /\ b.at <= hour
    /\ ~shared /\ b.name \in Paths => b.hi <= file[b.name]

(* What is being uploaded is newer than every object of the database. *)
UploadNewer ==
  ~shared => \A p \in Paths : \A b \in backups : b.name = p =>
    /\ Began(p) => b.hi <= job[p].lo
    /\ job[p].pc = "upload" => b.at <= job[p].at

DeleteOld == \A b \in toDelete : b.at + 1 - Behind <= hour - RetentionHours

Inv ==
  /\ TypeOK /\ Mappings /\ OneAtATime
  /\ JobOK /\ BackupOK /\ UploadNewer /\ DeleteOld
  /\ NewestNotOlder

-----------------------------------------------------------------------------
(* Applications and the clock. *)

(* A file that grows takes nothing away. *)
LEMMA GrowthKeepsInv ==
  ASSUME Inv, UNCHANGED <<shared, hour, replicator>>,
         committed' \in [Paths -> 0..MaxCommit], file' \in [Paths -> 0..MaxCommit],
         \A p \in Paths : file[p] <= file'[p] /\ file'[p] <= committed'[p]
  PROVE  Inv'
<1>1. /\ shared' = shared /\ hour' = hour /\ run' = run /\ last' = last /\ job' = job
      /\ backups' = backups /\ toDelete' = toDelete /\ failed' = failed /\ sent' = sent
  BY DEF replicator, scanner
<1>2. /\ file \in [Paths -> 0..MaxCommit] /\ \A p \in Paths : last[p] \in 0..file[p]
      /\ MaxCommit \in Nat /\ job \in [Paths -> Job] /\ backups \subseteq Backup
  BY UltraAssumption DEF Inv, TypeOK, Mappings
<1>3. TypeOK' /\ Mappings'
  BY <1>1, <1>2 DEF Inv, TypeOK, Mappings
<1>4. OneAtATime' /\ UploadNewer' /\ DeleteOld' /\ NewestNotOlder'
  BY <1>1 DEF Inv, OneAtATime, UploadNewer, DeleteOld, NewestNotOlder, Began, Name
<1>5. JobOK'
  <2>1. \A p \in Paths : job[p].lo \in Int /\ job[p].hi \in Int
    BY <1>2 DEF Job
  <2> QED BY <1>1, <1>2, <2>1 DEF Inv, JobOK, Began
<1>6. BackupOK'
  <2>1. \A b \in backups : b.hi \in Int
    BY <1>2 DEF Backup
  <2> QED BY <1>1, <1>2, <2>1 DEF Inv, BackupOK
<1> QED BY <1>3, <1>4, <1>5, <1>6 DEF Inv

LEMMA AppStepsKeepInv ==
  ASSUME Inv, NEW p \in Paths, Commit(p) \/ Checkpoint(p)
  PROVE  Inv'
<1>1. /\ file \in [Paths -> 0..MaxCommit] /\ committed \in [Paths -> 0..MaxCommit]
      /\ \A q \in Paths : file[q] <= committed[q]
      /\ MaxCommit \in Nat
  BY UltraAssumption DEF Inv, TypeOK, Mappings
<1>2. CASE Commit(p)
  <2>1. /\ committed[p] < MaxCommit /\ committed' = [committed EXCEPT ![p] = @ + 1]
        /\ file' = [file EXCEPT ![p] = IF @ = 0 THEN 1 ELSE @]
        /\ UNCHANGED <<shared, hour, replicator>>
    BY <1>2 DEF Commit
  <2>2. /\ committed' \in [Paths -> 0..MaxCommit] /\ file' \in [Paths -> 0..MaxCommit]
        /\ \A q \in Paths : file[q] <= file'[q] /\ file'[q] <= committed'[q]
    BY <1>1, <2>1
  <2> QED BY <2>1, <2>2, GrowthKeepsInv
<1>3. CASE Checkpoint(p)
  <2>1. PICK v \in file[p] + 1..committed[p] : file' = [file EXCEPT ![p] = v]
    BY <1>3 DEF Checkpoint
  <2>2. committed' = committed /\ UNCHANGED <<shared, hour, replicator>>
    BY <1>3 DEF Checkpoint
  <2>3. /\ committed' \in [Paths -> 0..MaxCommit] /\ file' \in [Paths -> 0..MaxCommit]
        /\ \A q \in Paths : file[q] <= file'[q] /\ file'[q] <= committed'[q]
    BY <1>1, <2>1, <2>2
  <2> QED BY <2>2, <2>3, GrowthKeepsInv
<1> QED BY <1>2, <1>3

LEMMA TickKeepsInv ==
  ASSUME Inv, Tick
  PROVE  Inv'
<1>1. /\ hour' = hour + 1 /\ hour < MaxHour /\ shared' = shared
      /\ file' = file /\ committed' = committed /\ run' = run /\ last' = last /\ job' = job
      /\ backups' = backups /\ toDelete' = toDelete /\ failed' = failed /\ sent' = sent
  BY DEF Tick, db, replicator, scanner
<1>2. /\ hour \in 0..MaxHour /\ MaxHour \in Nat /\ job \in [Paths -> Job]
      /\ backups \subseteq Backup /\ sent \in [Paths -> Content]
      /\ RetentionHours \in Nat /\ Behind \in Nat /\ toDelete \subseteq backups
  BY UltraAssumption DEF Inv, TypeOK
<1>3. /\ \A p \in Paths : job[p].at \in Int /\ sent[p].at \in Int
      /\ \A b \in backups : b.at \in Int
  BY <1>2 DEF Job, Content, Backup
<1>4. TypeOK' /\ Mappings' /\ OneAtATime'
  BY <1>1, <1>2 DEF Inv, TypeOK, Mappings, OneAtATime
<1>5. JobOK' /\ BackupOK' /\ UploadNewer'
  BY <1>1, <1>2, <1>3 DEF Inv, JobOK, BackupOK, UploadNewer, Began
<1>6. DeleteOld'
  BY <1>1, <1>2, <1>3 DEF Inv, DeleteOld
<1>7. NewestNotOlder'
  <2> SUFFICES ASSUME NEW p \in Paths, ~shared, sent[p] # NoBackup,
                      hour' - sent[p].at < RetentionHours + 1 - Behind
               PROVE  hour - sent[p].at < RetentionHours + 1 - Behind
    BY <1>1 DEF Inv, NewestNotOlder, Name
  <2> QED BY <1>1, <1>2, <1>3
<1> QED BY <1>4, <1>5, <1>6, <1>7 DEF Inv

-----------------------------------------------------------------------------
(* scanAndSync. *)

LEMMA ScanKeepsInv ==
  ASSUME Inv, ScanDone \/ \E skipped \in SUBSET Paths : ScanStart(skipped)
  PROVE  Inv'
<1>1. /\ file \in [Paths -> 0..MaxCommit] /\ last \in [Paths -> 0..MaxCommit]
      /\ \A q \in Paths : last[q] \in 0..file[q] /\ MaxCommit \in Nat
      /\ job \in [Paths -> Job] /\ failed \subseteq Paths
  BY UltraAssumption DEF Inv, TypeOK, Mappings
<1>2. CASE ScanDone
  <2>1. /\ run = "scan" /\ \A p \in Paths : job[p].pc = "none"
        /\ run' = "wait" /\ UNCHANGED <<shared, db, hour, last, job, backups, toDelete, failed, sent>>
    BY <1>2 DEF ScanDone, NoJob
  <2> QED BY <2>1 DEF Inv, TypeOK, Mappings, OneAtATime, JobOK, BackupOK, UploadNewer, DeleteOld,
                      NewestNotOlder, Began, Name, db
<1>3. ASSUME NEW skipped \in SUBSET Paths, ScanStart(skipped)
      PROVE  Inv'
  <2> DEFINE found == Changed \ skipped
  <2>1. /\ run = "wait" /\ run' = "scan"
        /\ last' = [p \in Paths |-> IF p \in found THEN file[p] ELSE last[p]]
        /\ job' = [p \in Paths |-> IF p \in found THEN [job[p] EXCEPT !.pc = "queued"] ELSE job[p]]
        /\ failed' \subseteq failed
        /\ UNCHANGED <<shared, db, hour, backups, toDelete, sent>>
    BY <1>3 DEF ScanStart
  <2>2. \A p \in found : file[p] >= 1
    BY <1>1 DEF Changed
  <2> HIDE DEF found
  <2>3. /\ job' \in [Paths -> Job]
        /\ \A p \in Paths : job'[p].pc = IF p \in found THEN "queued" ELSE job[p].pc
    BY <1>1, <2>1 DEF Job
  <2>4. /\ \A p \in Paths : job[p].pc = "none" /\ job'[p].pc \in {"none", "queued"}
        /\ \A p \in Paths : job'[p].pc = "queued" => file[p] >= 1
        /\ toDelete = {}
    BY <2>1, <2>2, <2>3 DEF Inv, OneAtATime
  <2>5. TypeOK' /\ Mappings' /\ OneAtATime'
    BY <1>1, <2>1, <2>3, <2>4 DEF Inv, TypeOK, Mappings, OneAtATime, db
  <2>6. JobOK' /\ BackupOK' /\ UploadNewer' /\ DeleteOld' /\ NewestNotOlder'
    BY <2>1, <2>4 DEF Inv, JobOK, BackupOK, UploadNewer, DeleteOld, NewestNotOlder, Began, Name, db
  <2> QED BY <2>5, <2>6 DEF Inv
<1> QED BY <1>2, <1>3

LEMMA ReadStartKeepsInv ==
  ASSUME Inv, NEW p \in Paths, ReadStart(p)
  PROVE  Inv'
<1>1. PICK v \in file[p]..committed[p] :
        /\ file' = [file EXCEPT ![p] = v]
        /\ job' = [job EXCEPT ![p] = [@ EXCEPT !.pc = "reading", !.lo = v]]
  BY DEF ReadStart
<1>2. /\ job[p].pc = "queued" /\ UNCHANGED <<syncOnly, backups, failed, sent>>
  BY DEF ReadStart
<1>3. /\ shared' = shared /\ committed' = committed /\ hour' = hour /\ run' = run /\ last' = last
      /\ toDelete' = toDelete /\ backups' = backups /\ failed' = failed /\ sent' = sent
  BY <1>2 DEF syncOnly, scanner
<1>4. /\ file \in [Paths -> 0..MaxCommit] /\ committed \in [Paths -> 0..MaxCommit]
      /\ \A q \in Paths : last[q] \in 0..file[q] /\ file[q] <= committed[q]
      /\ job \in [Paths -> Job] /\ MaxCommit \in Nat /\ backups \subseteq Backup
  BY UltraAssumption DEF Inv, TypeOK, Mappings
<1>5. /\ file' \in [Paths -> 0..MaxCommit] /\ file'[p] = v /\ v \in 0..MaxCommit
      /\ file[p] <= v /\ v <= committed[p] /\ \A q \in Paths : q # p => file'[q] = file[q]
  BY <1>1, <1>4
<1>6. /\ job' \in [Paths -> Job] /\ job'[p].pc = "reading" /\ job'[p].lo = v
      /\ \A q \in Paths : q # p => job'[q] = job[q]
  BY <1>1, <1>4, <1>5 DEF Job
<1>7. TypeOK' /\ Mappings'
  <2>1. \A q \in Paths : file'[q] \in 0..committed'[q] /\ last'[q] \in 0..file'[q]
    BY <1>3, <1>4, <1>5
  <2> QED BY <1>3, <1>5, <1>6, <2>1 DEF Inv, TypeOK, Mappings
<1>8. OneAtATime'
  BY <1>2, <1>3 DEF Inv, OneAtATime
<1>9. JobOK'
  <2>1. file[p] >= 1
    BY <1>2 DEF Inv, JobOK
  <2> QED BY <1>3, <1>4, <1>5, <1>6, <2>1 DEF Inv, JobOK, Began
<1>10. BackupOK'
  <2>1. \A b \in backups : b.hi \in Int
    BY <1>4 DEF Backup
  <2> QED BY <1>3, <1>4, <1>5, <2>1 DEF Inv, BackupOK
<1>11. UploadNewer'
  <2>1. ASSUME ~shared, NEW b \in backups, b.name = p PROVE b.hi <= v
    <3>1. b.hi <= file[p] /\ b.hi \in Int
      BY <1>4, <2>1 DEF Inv, BackupOK, Backup
    <3> QED BY <1>4, <1>5, <3>1
  <2> QED BY <1>3, <1>6, <2>1 DEF Inv, UploadNewer, Began
<1>12. DeleteOld' /\ NewestNotOlder'
  BY <1>3 DEF Inv, DeleteOld, NewestNotOlder, Name
<1> QED BY <1>7, <1>8, <1>9, <1>10, <1>11, <1>12 DEF Inv

LEMMA ReadDoneKeepsInv ==
  ASSUME Inv, NEW p \in Paths, ReadDone(p)
  PROVE  Inv'
<1>1. /\ job[p].pc = "reading"
      /\ job' = [job EXCEPT ![p] = [@ EXCEPT !.pc = "upload", !.hi = file[p], !.at = hour]]
      /\ shared' = shared /\ committed' = committed /\ hour' = hour /\ run' = run /\ last' = last
      /\ toDelete' = toDelete /\ backups' = backups /\ failed' = failed /\ sent' = sent
      /\ file' = file
  BY DEF ReadDone, syncOnly, scanner
<1>2. /\ file \in [Paths -> 0..MaxCommit] /\ hour \in 0..MaxHour /\ job \in [Paths -> Job]
      /\ MaxCommit \in Nat /\ MaxHour \in Nat
  BY UltraAssumption DEF Inv, TypeOK, Mappings
<1>3. /\ job' \in [Paths -> Job] /\ job'[p].pc = "upload" /\ job'[p].lo = job[p].lo
      /\ job'[p].hi = file[p] /\ job'[p].at = hour
      /\ \A q \in Paths : q # p => job'[q] = job[q]
  BY <1>1, <1>2 DEF Job
<1>4. TypeOK' /\ Mappings' /\ OneAtATime'
  BY <1>1, <1>3 DEF Inv, TypeOK, Mappings, OneAtATime
<1>5. JobOK'
  BY <1>1, <1>2, <1>3 DEF Inv, JobOK, Began
<1>6. BackupOK' /\ UploadNewer'
  BY <1>1, <1>3 DEF Inv, BackupOK, UploadNewer, Began
<1>7. DeleteOld' /\ NewestNotOlder'
  BY <1>1 DEF Inv, DeleteOld, NewestNotOlder, Name
<1> QED BY <1>4, <1>5, <1>6, <1>7 DEF Inv

(* A syncDatabase that ends without storing anything. *)
LEMMA JobEndKeepsInv ==
  ASSUME Inv, NEW p \in Paths, job' = [job EXCEPT ![p] = NoJob],
         failed' \subseteq failed \cup {p}, UNCHANGED <<syncOnly, file, backups, sent>>
  PROVE  Inv'
<1>1. /\ shared' = shared /\ committed' = committed /\ hour' = hour /\ run' = run /\ last' = last
      /\ toDelete' = toDelete /\ backups' = backups /\ sent' = sent /\ file' = file
  BY DEF syncOnly, scanner
<1>2. /\ job \in [Paths -> Job] /\ NoJob \in Job /\ NoJob.pc = "none"
  BY UltraAssumption DEF Inv, TypeOK, Job, NoJob
<1>3. /\ job' \in [Paths -> Job] /\ job'[p].pc = "none"
      /\ \A q \in Paths : q # p => job'[q] = job[q]
  BY <1>2
<1>4. TypeOK' /\ Mappings' /\ OneAtATime'
  BY <1>1, <1>3 DEF Inv, TypeOK, Mappings, OneAtATime
<1>5. JobOK' /\ BackupOK' /\ UploadNewer'
  BY <1>1, <1>3 DEF Inv, JobOK, BackupOK, UploadNewer, Began
<1>6. DeleteOld' /\ NewestNotOlder'
  BY <1>1 DEF Inv, DeleteOld, NewestNotOlder, Name
<1> QED BY <1>4, <1>5, <1>6 DEF Inv

(* What is stored becomes the newest object of its database, and it is no older
   than what was reported before. *)
LEMMA StoredKeepsInv ==
  ASSUME Inv, NEW p \in Paths, job[p].pc = "upload", backups' = Stored(p),
         job' = [job EXCEPT ![p] = NoJob], failed' \subseteq failed \cup {p},
         UNCHANGED <<syncOnly, file>>,
         \/ sent' = sent
         \/ sent' = [sent EXCEPT ![p] = [lo |-> job[p].lo, hi |-> job[p].hi, at |-> job[p].at]]
  PROVE  Inv'
<1>1. /\ shared' = shared /\ committed' = committed /\ hour' = hour /\ run' = run /\ last' = last
      /\ toDelete' = toDelete /\ file' = file
  BY DEF syncOnly, scanner
<1>2. /\ job \in [Paths -> Job] /\ NoJob \in Job /\ NoJob.pc = "none"
      /\ MaxCommit \in Nat /\ MaxHour \in Nat /\ hour \in 0..MaxHour
      /\ file \in [Paths -> 0..MaxCommit] /\ backups \subseteq Backup
      /\ sent \in [Paths -> Content]
  BY UltraAssumption DEF Inv, TypeOK, Job, NoJob, Mappings
<1>3. /\ job' \in [Paths -> Job] /\ job'[p].pc = "none"
      /\ \A q \in Paths : q # p => job'[q] = job[q]
  BY <1>2
<1>4. PICK c : c = [name |-> Name(p), at |-> job[p].at, lo |-> job[p].lo, hi |-> job[p].hi]
  OBVIOUS
<1>5. /\ c.name = Name(p) /\ c.at = job[p].at /\ c.lo = job[p].lo /\ c.hi = job[p].hi
      /\ c.at \in 0..MaxHour /\ c.lo \in 1..MaxCommit /\ c.hi \in 1..MaxCommit
      /\ c.lo <= c.hi /\ c.hi <= file[p] /\ c.at <= hour
  <2>1. job[p] \in Job /\ 1 <= job[p].lo /\ job[p].lo <= job[p].hi /\ job[p].hi <= file[p]
        /\ job[p].at <= hour
    BY <1>2 DEF Inv, JobOK, Began
  <2> QED BY <1>2, <1>4, <2>1 DEF Job
<1>6. c \in Backup
  <2>1. Name(p) \in Paths \cup {"same"}
    BY DEF Name
  <2> QED BY <1>4, <1>5, <2>1 DEF Backup
<1>7. /\ c \in backups' /\ \A b \in backups' : b = c \/ b \in backups
      /\ \A b \in backups' : b.name = c.name /\ b.at = c.at => b = c
      /\ \A b \in backups : b.name # c.name => b \in backups'
  BY <1>4, <1>5 DEF Stored
<1>8. toDelete = {}
  BY DEF Inv, OneAtATime
<1>9. sent' \in [Paths -> Content]
  <2>1. [lo |-> job[p].lo, hi |-> job[p].hi, at |-> job[p].at] \in Content
    BY <1>2, <1>5 DEF Content
  <2> QED BY <1>2, <2>1
<1>10. TypeOK' /\ Mappings' /\ OneAtATime'
  BY <1>1, <1>3, <1>6, <1>7, <1>8, <1>9 DEF Inv, TypeOK, Mappings, OneAtATime
<1>11. JobOK'
  BY <1>1, <1>3 DEF Inv, JobOK, Began
<1>12. BackupOK'
  BY <1>1, <1>5, <1>7 DEF Inv, BackupOK, Name
<1>13. UploadNewer'
  BY <1>1, <1>3, <1>5, <1>7 DEF Inv, UploadNewer, Began, Name
<1>14. DeleteOld'
  BY <1>1, <1>8 DEF DeleteOld
<1>15. NewestNotOlder'
  <2> SUFFICES ASSUME NEW q \in Paths, ~shared, sent'[q] # NoBackup,
                      hour - sent'[q].at < RetentionHours + 1 - Behind
               PROVE  \E b \in backups' :
                        /\ b.name = q /\ b.at >= sent'[q].at
                        /\ b.lo >= sent'[q].lo /\ b.hi >= sent'[q].hi
                        /\ \A d \in backups' : d.name = b.name => d.at <= b.at
    BY <1>1 DEF NewestNotOlder, Name
  <2>1. c.name = p
    BY <1>5 DEF Name
  <2>2. CASE q # p
    <3>1. sent'[q] = sent[q]
      BY <1>2, <2>2
    <3>2. PICK b \in backups :
            /\ b.name = q /\ b.at >= sent[q].at
            /\ b.lo >= sent[q].lo /\ b.hi >= sent[q].hi
            /\ \A d \in backups : d.name = b.name => d.at <= b.at
      BY <3>1 DEF Inv, NewestNotOlder, Name
    <3>3. b \in backups' /\ \A d \in backups' : d.name = q => d \in backups
      BY <1>7, <2>1, <2>2, <3>2
    <3> QED BY <3>1, <3>2, <3>3
  <2>3. CASE q = p
    <3>1. \A d \in backups' : d.name = c.name => d.at <= c.at
      <4>1. \A d \in backups : d.name = p => d.at <= job[p].at
        BY DEF Inv, UploadNewer
      <4> QED BY <1>5, <1>7, <2>1, <4>1
    <3>2. c.at >= sent'[p].at /\ c.lo >= sent'[p].lo /\ c.hi >= sent'[p].hi
      <4>1. CASE sent' = [sent EXCEPT ![p] = [lo |-> job[p].lo, hi |-> job[p].hi, at |-> job[p].at]]
        BY <1>2, <1>5, <4>1
      <4>2. CASE sent' = sent
        <5>1. PICK b \in backups :
                /\ b.name = p /\ b.at >= sent[p].at
                /\ b.lo >= sent[p].lo /\ b.hi >= sent[p].hi
          BY <2>3, <4>2 DEF Inv, NewestNotOlder, Name
        <5>2. b.at <= c.at /\ b.hi <= c.lo /\ b.lo <= b.hi
          BY <1>5, <5>1 DEF Inv, UploadNewer, BackupOK, Began
        <5>3. /\ b.at \in Int /\ b.lo \in Int /\ b.hi \in Int
              /\ sent[p].at \in Int /\ sent[p].lo \in Int /\ sent[p].hi \in Int
          BY <1>2, <5>1 DEF Backup, Content
        <5> QED BY <1>5, <4>2, <5>1, <5>2, <5>3
      <4> QED BY <4>1, <4>2
    <3> QED BY <1>7, <2>1, <2>3, <3>1, <3>2
  <2> QED BY <2>2, <2>3
<1> QED BY <1>10, <1>11, <1>12, <1>13, <1>14, <1>15 DEF Inv

-----------------------------------------------------------------------------
(* cleanupOldBackups, and a restart. *)

(* Deleting, or passing over, some of what is to be deleted. *)
LEMMA BatchKeepsInv ==
  ASSUME Inv, NEW S \in SUBSET toDelete, Batch(S), UNCHANGED cleanOnly,
         backups' \in {backups, backups \ S}
  PROVE  Inv'
<1>1. /\ shared' = shared /\ committed' = committed /\ hour' = hour /\ last' = last
      /\ file' = file /\ job' = job /\ failed' = failed /\ sent' = sent
  BY DEF cleanOnly, db
<1>2. /\ run = "cleanup" /\ toDelete' = toDelete \ S /\ run' \in {"wait", "cleanup"}
      /\ run' = "wait" => toDelete' = {}
  BY DEF Batch
<1>3. /\ backups' \subseteq backups /\ \A b \in backups : b \in backups' \/ b \in S
      /\ toDelete' \subseteq backups'
  BY <1>2 DEF Inv, TypeOK
<1>4. TypeOK' /\ Mappings' /\ OneAtATime'
  BY <1>1, <1>2, <1>3 DEF Inv, TypeOK, Mappings, OneAtATime
<1>5. JobOK' /\ BackupOK' /\ UploadNewer' /\ DeleteOld'
  BY <1>1, <1>2, <1>3 DEF Inv, JobOK, BackupOK, UploadNewer, DeleteOld, Began
<1>6. NewestNotOlder'
  <2> SUFFICES ASSUME NEW p \in Paths, ~shared, sent[p] # NoBackup,
                      hour - sent[p].at < RetentionHours + 1 - Behind
               PROVE  \E b \in backups' :
                        /\ b.name = p /\ b.at >= sent[p].at
                        /\ b.lo >= sent[p].lo /\ b.hi >= sent[p].hi
                        /\ \A d \in backups' : d.name = b.name => d.at <= b.at
    BY <1>1 DEF NewestNotOlder, Name
  <2>1. PICK b \in backups :
          /\ b.name = p /\ b.at >= sent[p].at
          /\ b.lo >= sent[p].lo /\ b.hi >= sent[p].hi
          /\ \A d \in backups : d.name = b.name => d.at <= b.at
    BY DEF Inv, NewestNotOlder, Name
  <2>2. b \notin S
    <3>1. b \in S => b.at + 1 - Behind <= hour - RetentionHours
      BY DEF Inv, DeleteOld
    <3>2. b.at \in Int /\ sent[p].at \in Int /\ hour \in Int
      BY <2>1, UltraAssumption DEF Inv, TypeOK, Backup, Content
    <3> QED BY <2>1, <3>1, <3>2, UltraAssumption
  <2> QED BY <1>3, <2>1, <2>2
<1> QED BY <1>4, <1>5, <1>6 DEF Inv

LEMMA CleanupStartKeepsInv ==
  ASSUME Inv, CleanupStart
  PROVE  Inv'
<1>1. /\ shared' = shared /\ committed' = committed /\ hour' = hour /\ last' = last
      /\ file' = file /\ job' = job /\ failed' = failed /\ sent' = sent /\ backups' = backups
      /\ run = "wait" /\ run' = "cleanup" /\ toDelete' = Old
  BY DEF CleanupStart, cleanOnly, db
<1>2. TypeOK' /\ Mappings' /\ OneAtATime'
  BY <1>1 DEF Inv, TypeOK, Mappings, OneAtATime, Old
<1>3. JobOK' /\ BackupOK' /\ UploadNewer' /\ DeleteOld' /\ NewestNotOlder'
  BY <1>1 DEF Inv, JobOK, BackupOK, UploadNewer, DeleteOld, NewestNotOlder, Began, Name, Old
<1> QED BY <1>2, <1>3 DEF Inv

LEMMA RestartKeepsInv ==
  ASSUME Inv, Restart
  PROVE  Inv'
<1>1. /\ shared' = shared /\ committed' = committed /\ hour' = hour /\ file' = file
      /\ failed' = failed /\ sent' = sent /\ backups' = backups
      /\ run' = "wait" /\ toDelete' = {}
      /\ last' = [p \in Paths |-> 0] /\ job' = [p \in Paths |-> NoJob]
  BY DEF Restart, db
<1>2. NoJob \in Job /\ NoJob.pc = "none" /\ MaxCommit \in Nat
  BY UltraAssumption DEF Job, NoJob
<1>3. TypeOK' /\ Mappings' /\ OneAtATime'
  BY <1>1, <1>2 DEF Inv, TypeOK, Mappings, OneAtATime
<1>4. JobOK' /\ BackupOK' /\ UploadNewer' /\ DeleteOld' /\ NewestNotOlder'
  BY <1>1, <1>2 DEF Inv, JobOK, BackupOK, UploadNewer, DeleteOld, NewestNotOlder, Began, Name
<1> QED BY <1>3, <1>4 DEF Inv

-----------------------------------------------------------------------------
(* The invariant, and what it means. *)

LEMMA InitInv == Init => Inv
<1> SUFFICES ASSUME Init PROVE Inv
  OBVIOUS
<1>1. /\ NoJob \in Job /\ NoJob.pc = "none" /\ NoBackup \in Content
      /\ MaxCommit \in Nat /\ MaxHour \in Nat
  BY UltraAssumption DEF Job, NoJob, NoBackup, Content
<1>2. TypeOK /\ Mappings
  BY <1>1 DEF Init, TypeOK, Mappings
<1>3. OneAtATime /\ JobOK /\ BackupOK /\ UploadNewer /\ DeleteOld /\ NewestNotOlder
  BY <1>1 DEF Init, OneAtATime, JobOK, BackupOK, UploadNewer, DeleteOld, NewestNotOlder, Began
<1> QED BY <1>2, <1>3 DEF Inv

LEMMA NextKeepsInv ==
  ASSUME Inv, [Next]_vars
  PROVE  Inv'
<1>1. CASE UNCHANGED vars
  BY <1>1 DEF vars, db, scanner, Inv, TypeOK, Mappings, OneAtATime, JobOK, BackupOK, UploadNewer,
              DeleteOld, NewestNotOlder, Began, Name
<1>2. ASSUME NEW p \in Paths, ReadFail(p) PROVE Inv'
  BY <1>2, JobEndKeepsInv DEF ReadFail
<1>3. ASSUME NEW p \in Paths, UploadDone(p) PROVE Inv'
  BY <1>3, StoredKeepsInv DEF UploadDone
<1>4. ASSUME NEW p \in Paths, UploadFail(p) PROVE Inv'
  BY <1>4, StoredKeepsInv, JobEndKeepsInv DEF UploadFail
<1>5. CASE DeleteBatch
  BY <1>5, BatchKeepsInv DEF DeleteBatch
<1>6. CASE DeleteFail
  BY <1>6, BatchKeepsInv DEF DeleteFail
<1> QED
  BY <1>1, <1>2, <1>3, <1>4, <1>5, <1>6, AppStepsKeepInv, TickKeepsInv, ScanKeepsInv,
     ReadStartKeepsInv, ReadDoneKeepsInv, CleanupStartKeepsInv, RestartKeepsInv DEF Next, Sync

(* The invariant holds after every step of applications, scanAndSync,
   syncDatabase, cleanupOldBackups and a restart. *)
THEOREM Invariance == Spec => []Inv
BY InitInv, NextKeepsInv, PTL DEF Spec

(* The variables keep their types: the replicator never records a file it has
   not seen, and cleanupOldBackups only deletes objects that are there. *)
THEOREM TypeCorrect == Spec => []TypeOK
<1>1. Inv => TypeOK
  BY DEF Inv
<1> QED BY <1>1, Invariance, PTL

(* For any number of databases and hours, whatever uploads fail and however the
   process is restarted: as long as it is within the retention, a backup that
   syncDatabase reported is the newest object of its database, or a newer one
   is. *)
THEOREM NewestIsNotOlder == Spec => []NewestNotOlder
<1>1. Inv => NewestNotOlder
  BY DEF Inv
<1> QED BY <1>1, Invariance, PTL

=============================================================================
