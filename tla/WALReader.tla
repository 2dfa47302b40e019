------------------------------ MODULE WALReader ------------------------------
(***************************************************************************)
(* WALReader reads the frames of a WAL while SQLite goes on writing it.    *)
(* The reader takes no lock: a transaction may be half written, rolled     *)
(* back and written over, or the whole WAL restarted between any two       *)
(* frames it reads.  Salts and cumulative checksums are all it has to      *)
(* notice.                                                                 *)
(*                                                                         *)
(* A checksum covers everything before it in the WAL, so it is modelled by *)
(* the number of the frame it belongs to: a frame holds its own number and *)
(* that of the frame it was chained to.                                    *)
(***************************************************************************)
EXTENDS Integers, Sequences

CONSTANTS Pages,      \* page numbers
          MaxFrames,  \* bound: frames written in all
          MaxSalt     \* bound: times the WAL is started

ASSUME FramesAssumption == MaxFrames \in Nat \ {0}
ASSUME SaltAssumption == MaxSalt \in Nat \ {0}

(* The checksum of the WAL header comes first. *)
Checksum == -MaxSalt..MaxFrames
HeaderChecksum(s) == -s

Frame == [pgno : Pages, commit : BOOLEAN, salt : 1..MaxSalt,
          prev : Checksum, checksum : Checksum]
NoMap == <<>>

VARIABLES
  (* SQLite *)
  file,      \* the frames in the file
  salt,      \* the salt in its header
  mx,        \* end of the committed frames
  tx,        \* end of the frames of the running transaction
  written,   \* frames written so far
  history,   \* salt -> the committed frames, which never change
  (* WALReader *)
  pc,        \* idle, reading or done
  rsalt,     \* salt1, salt2
  rchksum,   \* chksum1, chksum2
  frameN,    \* the frames read or skipped
  m, txMap,  \* page -> frame
  from,      \* where the reader began
  floor      \* committed frames at that time, zero once the WAL is restarted

sqlite == <<file, salt, mx, tx, written, history>>
reader == <<rsalt, rchksum, frameN, m, txMap, from>>
vars == <<sqlite, pc, reader, floor>>

-----------------------------------------------------------------------------
Init ==
  /\ file = <<>> /\ salt = 1 /\ mx = 0 /\ tx = 0 /\ written = 0
  /\ history = [s \in 1..MaxSalt |-> <<>>]
  /\ pc = "idle" /\ rsalt = 0 /\ rchksum = 0 /\ frameN = 0
  /\ m = NoMap /\ txMap = NoMap /\ from = 0 /\ floor = 0

-----------------------------------------------------------------------------
(* SQLite. *)

(* The next frame of the running transaction, which it may commit. *)
WriteFrame(pgno, commit) ==
  LET f == [pgno |-> pgno, commit |-> commit, salt |-> salt,
            prev |-> IF tx = 0 THEN HeaderChecksum(salt) ELSE file[tx].checksum,
            checksum |-> written + 1]
  IN  /\ written < MaxFrames
      /\ written' = written + 1
      /\ file' = SubSeq(file, 1, tx) \o <<f>> \o SubSeq(file, tx + 2, Len(file))
      /\ tx' = tx + 1
      /\ IF commit
         THEN /\ mx' = tx + 1
              /\ history' = [history EXCEPT ![salt] = SubSeq(file', 1, tx + 1)]
         ELSE UNCHANGED <<mx, history>>
      /\ UNCHANGED <<salt, pc, reader, floor>>

(* A transaction whose frames were spilled to the WAL is rolled back. *)
Rollback ==
  /\ tx > mx
  /\ tx' = mx
  /\ UNCHANGED <<file, salt, mx, written, history, pc, reader, floor>>

(* The WAL is started again at its first frame, with new salts. *)
Restart ==
  /\ tx = mx /\ mx > 0 /\ salt < MaxSalt
  /\ salt' = salt + 1 /\ mx' = 0 /\ tx' = 0
  /\ floor' = 0
  /\ UNCHANGED <<file, written, history, pc, reader>>

-----------------------------------------------------------------------------
(* NewWALReader: from the first frame, with the salts in the header. *)
New ==
  /\ pc = "idle"
  /\ rsalt' = salt /\ rchksum' = HeaderChecksum(salt)
  /\ frameN' = 0 /\ from' = 0
  /\ pc' = "reading" /\ floor' = mx
  /\ UNCHANGED <<sqlite, m, txMap>>

(* NewWALReaderWithOffset: from the end of an earlier read of a WAL with salt
   s, which starts again at the top if the frame before it is gone. *)
NewWithOffset(s, n) ==
  /\ pc = "idle"
  /\ n \in DOMAIN history[s] /\ history[s][n].commit
  /\ IF n <= Len(file) /\ file[n].salt = s
     THEN /\ rsalt' = s /\ rchksum' = file[n].checksum
          /\ frameN' = n /\ from' = n
     ELSE /\ rsalt' = salt /\ rchksum' = HeaderChecksum(salt)
          /\ frameN' = 0 /\ from' = 0
  /\ pc' = "reading" /\ floor' = IF rsalt' = salt THEN mx ELSE 0
  /\ UNCHANGED <<sqlite, m, txMap>>

(* Mutant: checksums are not compared. *)
ReadableBySalt ==
  /\ frameN < Len(file)
  /\ file[frameN + 1].salt = rsalt

(* readFrame accepts the next frame. *)
Readable ==
  /\ frameN < Len(file)
  /\ file[frameN + 1].salt = rsalt
  /\ file[frameN + 1].prev = rchksum

(* f with page p mapped to n, and f overridden by g. *)
With(f, p, n) == [q \in DOMAIN f \cup {p} |-> IF q = p THEN n ELSE f[q]]
Merge(f, g) == [q \in DOMAIN f \cup DOMAIN g |-> IF q \in DOMAIN g THEN g[q] ELSE f[q]]

(* One iteration of PageMap's loop. *)
ReadFrame ==
  LET f == file[frameN + 1] IN
  /\ pc = "reading" /\ Readable
  /\ frameN' = frameN + 1 /\ rchksum' = f.checksum
  /\ txMap' = With(txMap, f.pgno, frameN + 1)
  /\ m' = IF f.commit THEN Merge(m, txMap') ELSE m
  /\ UNCHANGED <<sqlite, pc, rsalt, from, floor>>

(* PageMap returns m; Forget is the caller's next use of a reader. *)
ReadEOF ==
  /\ pc = "reading" /\ ~Readable
  /\ pc' = "done"
  /\ UNCHANGED <<sqlite, reader, floor>>

Forget ==
  /\ pc = "done"
  /\ pc' = "idle" /\ rsalt' = 0 /\ rchksum' = 0 /\ frameN' = 0 /\ from' = 0
  /\ m' = NoMap /\ txMap' = NoMap /\ floor' = 0
  /\ UNCHANGED sqlite

Next ==
  \/ \E pgno \in Pages, commit \in BOOLEAN : WriteFrame(pgno, commit)
  \/ Rollback \/ Restart
  \/ New \/ \E s \in 1..MaxSalt, n \in 1..MaxFrames : NewWithOffset(s, n)
  \/ ReadFrame \/ ReadEOF \/ Forget

Spec == Init /\ [][Next]_vars

-----------------------------------------------------------------------------
(* Properties. *)

(* The variables hold what their Go counterparts can hold. *)
TypeOK ==
  /\ \A i \in DOMAIN file : file[i] \in Frame
  /\ salt \in 1..MaxSalt /\ mx \in 0..tx /\ tx \in 0..Len(file)
  /\ written \in 0..MaxFrames
  /\ pc \in {"idle", "reading", "done"}
  /\ rsalt \in 0..MaxSalt /\ rchksum \in Checksum /\ frameN \in 0..Len(file)
  /\ DOMAIN m \subseteq DOMAIN txMap /\ DOMAIN txMap \subseteq Pages
  /\ from \in 0..frameN /\ floor \in 0..mx

(* The last frame after from and up to n that holds page p. *)
LastAt(log, p, n) ==
  CHOOSE i \in from + 1..n : log[i].pgno = p /\ \A j \in i + 1..n : log[j].pgno # p

(* The page map of the committed frames from+1..n. *)
MapOf(log, n) == [p \in {log[i].pgno : i \in from + 1..n} |-> LastAt(log, p, n)]

(* Where the transactions of a WAL end. *)
Ends(log) == {from} \cup {i \in from + 1..Len(log) : log[i].commit}

(* Whatever is rolled back, written over or restarted while it reads, what
   PageMap returns is the page map of the first so many transactions of one
   WAL, and, unless that WAL is restarted meanwhile, of all those committed
   when it began: it never mixes in a frame of an unfinished transaction, of
   one that was rolled back, or of another WAL. *)
PageMapIsCommittedPrefix ==
  pc = "done" => \E n \in Ends(history[rsalt]) :
                   n >= floor /\ m = MapOf(history[rsalt], n)

=============================================================================
