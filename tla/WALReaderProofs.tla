--------------------------- MODULE WALReaderProofs ---------------------------
(***************************************************************************)
(* Proofs about WALReader: for any number of pages, frames and restarts of *)
(* the WAL, what PageMap returns is the page map of a committed prefix of  *)
(* one WAL.                                                                *)
(***************************************************************************)
EXTENDS WALReader, SequenceTheorems, TLAPS

-----------------------------------------------------------------------------
(* The inductive invariant. *)

(* The types, with the file and the logs as sequences. *)
Shape ==
  /\ file \in Seq(Frame) /\ history \in [1..MaxSalt -> Seq(Frame)]
  /\ salt \in 1..MaxSalt /\ mx \in Nat /\ tx \in Nat /\ mx <= tx /\ tx <= Len(file)
  /\ written \in 0..MaxFrames
  /\ pc \in {"idle", "reading", "done"}
  /\ rsalt \in 0..MaxSalt /\ rchksum \in Checksum
  /\ frameN \in Nat /\ frameN <= Len(file) /\ from \in Nat /\ from <= frameN
  /\ floor \in Nat /\ floor <= mx

(* The log of the current salt is the committed part of the file; the logs of
   later salts are empty. *)
LogIsCommitted ==
  /\ Len(history[salt]) = mx
  /\ \A i \in 1..mx : history[salt][i] = file[i]
  /\ mx > 0 => file[mx].commit
  /\ \A s \in 1..MaxSalt : s > salt => Len(history[s]) = 0

(* Committed frames, and those of the running transaction, form one chain. *)
Linked(log, n, s) ==
  \A i \in 1..n :
    /\ log[i].salt = s
    /\ log[i].prev = IF i = 1 THEN HeaderChecksum(s) ELSE log[i - 1].checksum
Chains ==
  /\ Linked(file, tx, salt)
  /\ \A s \in 1..MaxSalt : Linked(history[s], Len(history[s]), s)

(* Frame f is, or was when it was committed, the i-th of the WAL. *)
Occurs(i, f) ==
  \/ i \in 1..Len(file) /\ file[i] = f
  \/ \E s \in 1..MaxSalt : i \in 1..Len(history[s]) /\ history[s][i] = f

(* A checksum belongs to one frame at one place. *)
Unique ==
  /\ \A i \in Nat : \A f \in Frame : Occurs(i, f) => f.checksum \in 1..written
  /\ \A i, j \in Nat : \A f, g \in Frame :
       Occurs(i, f) /\ Occurs(j, g) /\ f.checksum = g.checksum => i = j /\ f = g

(* What is left in the file of a log is as it was committed, and the only
   frames that commit are those. *)
Remains ==
  \A i \in 1..Len(file) :
    /\ file[i].salt <= salt
    /\ i <= Len(history[file[i].salt]) => file[i] = history[file[i].salt][i]
    /\ file[i].commit => i <= Len(history[file[i].salt])

(* The log the reader follows, with the running transaction. *)
End == IF rsalt = salt THEN tx ELSE Len(history[rsalt])
At(i) == IF rsalt = salt THEN file[i] ELSE history[rsalt][i]

(* g is the page map of the first n frames after from of a log. *)
IsMap(g, log, n) ==
  /\ \A i \in from + 1..n : log[i].pgno \in DOMAIN g /\ i <= g[log[i].pgno]
  /\ \A p \in DOMAIN g : g[p] \in from + 1..n /\ log[g[p]].pgno = p

(* The reader read the log as it stands, *)
Follows ==
  /\ frameN <= End
  /\ rchksum = IF frameN = 0 THEN HeaderChecksum(rsalt) ELSE At(frameN).checksum
  /\ \A i \in from + 1..frameN : At(i).pgno \in DOMAIN txMap /\ i <= txMap[At(i).pgno]
  /\ \A p \in DOMAIN txMap : txMap[p] \in from + 1..frameN /\ At(txMap[p]).pgno = p

(* or frames that were rolled back, to which no frame of the log is chained. *)
Strays ==
  /\ rchksum \in 1..written
  /\ \A i \in 1..End : At(i).checksum # rchksum

(* What the reader keeps is the page map of the first n frames. *)
Holds(n) ==
  /\ n <= Len(history[rsalt]) /\ (n = from \/ history[rsalt][n].commit)
  /\ IsMap(m, history[rsalt], n)
  /\ \/ Follows /\ \A i \in n + 1..frameN : ~At(i).commit
     \/ Strays /\ n >= floor
  /\ pc = "done" => n >= floor

(* txMap and m are functions, and what is in m is in txMap. *)
Maps ==
  /\ m = [p \in DOMAIN m |-> m[p]] /\ txMap = [p \in DOMAIN txMap |-> txMap[p]]
  /\ DOMAIN m \subseteq DOMAIN txMap /\ DOMAIN txMap \subseteq Pages

(* What was committed when the reader began is committed still. *)
FloorOK == floor > 0 => rsalt = salt /\ file[floor].commit

ReaderOK ==
  IF pc = "idle" THEN DOMAIN m = {} /\ DOMAIN txMap = {} /\ floor = 0
  ELSE rsalt \in 1..salt /\ \E n \in from..frameN : Holds(n)

Inv ==
  /\ Shape /\ LogIsCommitted /\ Chains /\ Unique /\ Remains
  /\ Maps /\ FloorOK /\ ReaderOK

-----------------------------------------------------------------------------
(* A sequence of which the elements after the first t are overwritten by u, as
   SQLite overwrites the frames in the file. *)
LEMMA Overwrite ==
  ASSUME NEW S, NEW s \in Seq(S), NEW u \in Seq(S), NEW t \in Nat, t <= Len(s)
  PROVE  LET r == SubSeq(s, 1, t) \o u \o SubSeq(s, t + Len(u) + 1, Len(s))
         IN  /\ r \in Seq(S)
             /\ Len(r) = IF t + Len(u) <= Len(s) THEN Len(s) ELSE t + Len(u)
             /\ \A i \in 1..Len(r) :
                  r[i] = IF i <= t THEN s[i] ELSE IF i <= t + Len(u) THEN u[i - t] ELSE s[i]
<1> DEFINE a == SubSeq(s, 1, t)
           c == SubSeq(s, t + Len(u) + 1, Len(s))
           n == Len(u)
<1>0. n \in Nat /\ Len(s) \in Nat
  OBVIOUS
<1>e. \A i \in 1..Len(s) : s[i] \in S
  OBVIOUS
<1>1. a \in Seq(S) /\ Len(a) = t /\ \A i \in 1..t : a[i] = s[i]
  <2>1. \A i \in 1..t : s[i] \in S
    BY <1>e, <1>0
  <2> QED
    BY <2>1, SubSeqProperties
<1>2. /\ c \in Seq(S)
      /\ Len(c) = IF t + n <= Len(s) THEN Len(s) - t - n ELSE 0
      /\ \A i \in 1..Len(c) : c[i] = s[t + n + i]
  <2>1. \A i \in t + n + 1..Len(s) : s[i] \in S
    BY <1>e, <1>0
  <2>2. /\ c \in Seq(S)
        /\ Len(c) = IF t + n + 1 <= Len(s) THEN Len(s) - (t + n + 1) + 1 ELSE 0
        /\ \A i \in 1..Len(s) - (t + n + 1) + 1 : c[i] = s[t + n + 1 + i - 1]
    BY <2>1, <1>0, SubSeqProperties
  <2> QED
    BY <2>2, <1>0
<1> HIDE DEF a, c, n
<1> DEFINE b == a \o u
           r == b \o c
<1>3. b \in Seq(S) /\ Len(b) = t + n
      /\ \A i \in 1..t + n : b[i] = IF i <= t THEN a[i] ELSE u[i - t]
  BY <1>1, <1>0, ConcatProperties DEF n
<1> HIDE DEF b
<1>4. r \in Seq(S) /\ Len(r) = Len(b) + Len(c)
      /\ \A i \in 1..Len(b) + Len(c) : r[i] = IF i <= Len(b) THEN b[i] ELSE c[i - Len(b)]
  <2>1. b \in Seq(S) /\ c \in Seq(S)
    BY <1>2, <1>3
  <2> QED
    BY <2>1, ConcatProperties
<1> HIDE DEF r
<1>l. Len(r) = t + n + Len(c)
  BY <1>4, <1>3
<1>k. Len(c) \in Nat /\ (t + n <= Len(s) => Len(c) = Len(s) - t - n) /\ (~(t + n <= Len(s)) => Len(c) = 0)
  BY <1>2, <1>0
<1>5. Len(r) = IF t + n <= Len(s) THEN Len(s) ELSE t + n
  BY <1>l, <1>k, <1>0
<1>6. ASSUME NEW i \in 1..Len(r)
      PROVE  r[i] = IF i <= t THEN s[i] ELSE IF i <= t + n THEN u[i - t] ELSE s[i]
  <2>1. CASE i <= t
    BY <2>1, <1>1, <1>3, <1>4, <1>0
  <2>2. CASE t < i /\ i <= t + n
    BY <2>2, <1>1, <1>3, <1>4, <1>0
  <2>3. CASE t + n < i
    <3>1. r[i] = c[i - (t + n)] /\ i - (t + n) \in 1..Len(c)
      BY <2>3, <1>3, <1>4, <1>l, <1>k, <1>0
    <3> QED
      BY <3>1, <2>3, <1>2, <1>0
  <2> QED
    BY <2>1, <2>2, <2>3, <1>0
<1> QED
  BY <1>4, <1>5, <1>6 DEF a, b, c, n, r

-----------------------------------------------------------------------------
(* The WAL. *)
WALInv == Shape /\ LogIsCommitted /\ Chains /\ Unique /\ Remains

(* What WriteFrame writes, and where. *)
LEMMA FrameWritten ==
  ASSUME Shape, NEW pgno \in Pages, NEW commit \in BOOLEAN, WriteFrame(pgno, commit)
  PROVE  \E f \in Frame :
           /\ f.salt = salt /\ f.commit = commit /\ f.checksum = written + 1
           /\ f.prev = IF tx = 0 THEN HeaderChecksum(salt) ELSE file[tx].checksum
           /\ file' \in Seq(Frame)
           /\ Len(file') = IF tx + 1 <= Len(file) THEN Len(file) ELSE tx + 1
           /\ \A i \in 1..Len(file') : file'[i] = IF i = tx + 1 THEN f ELSE file[i]
           /\ tx' = tx + 1 /\ written' = written + 1 /\ written < MaxFrames
           /\ salt' = salt
           /\ commit =>
                /\ mx' = tx + 1
                /\ history' \in [1..MaxSalt -> Seq(Frame)]
                /\ \A s \in 1..MaxSalt : s # salt => history'[s] = history[s]
                /\ Len(history'[salt]) = tx + 1
                /\ \A i \in 1..tx + 1 : history'[salt][i] = file'[i]
           /\ ~commit => mx' = mx /\ history' = history
<1> DEFINE f == [pgno |-> pgno, commit |-> commit, salt |-> salt,
                 prev |-> IF tx = 0 THEN HeaderChecksum(salt) ELSE file[tx].checksum,
                 checksum |-> written + 1]
<1>1. /\ written < MaxFrames /\ written' = written + 1
      /\ file' = SubSeq(file, 1, tx) \o <<f>> \o SubSeq(file, tx + 2, Len(file))
      /\ tx' = tx + 1 /\ salt' = salt
      /\ IF commit
         THEN mx' = tx + 1 /\ history' = [history EXCEPT ![salt] = SubSeq(file', 1, tx + 1)]
         ELSE mx' = mx /\ history' = history
  BY DEF WriteFrame
<1>2. f \in Frame
  <2>1. tx # 0 => file[tx] \in Frame
    BY DEF Shape
  <2>2. f.prev \in Checksum
    <3>1. tx # 0 => file[tx].checksum \in Checksum
      BY <2>1 DEF Frame
    <3>2. HeaderChecksum(salt) \in Checksum
      BY SaltAssumption, FramesAssumption DEF Shape, HeaderChecksum, Checksum
    <3> QED
      BY <3>1, <3>2
  <2>3. f.checksum \in Checksum
    BY <1>1, SaltAssumption, FramesAssumption DEF Shape, Checksum
  <2> QED
    BY <2>2, <2>3 DEF Frame, Shape
<1>3. /\ f.salt = salt /\ f.commit = commit /\ f.checksum = written + 1
      /\ f.prev = IF tx = 0 THEN HeaderChecksum(salt) ELSE file[tx].checksum
  OBVIOUS
<1> HIDE DEF f
<1>4. <<f>> \in Seq(Frame) /\ Len(<<f>>) = 1 /\ <<f>>[1] = f
  BY <1>2
<1>5. /\ file' \in Seq(Frame)
      /\ Len(file') = IF tx + 1 <= Len(file) THEN Len(file) ELSE tx + 1
      /\ \A i \in 1..Len(file') :
           file'[i] = IF i <= tx THEN file[i] ELSE IF i <= tx + 1 THEN <<f>>[i - tx] ELSE file[i]
  <2>1. tx + 2 = tx + Len(<<f>>) + 1
    BY <1>4 DEF Shape
  <2>2. file' = SubSeq(file, 1, tx) \o <<f>> \o SubSeq(file, tx + Len(<<f>>) + 1, Len(file))
    BY <1>1, <2>1
  <2>3. file \in Seq(Frame) /\ tx \in Nat /\ tx <= Len(file)
    BY DEF Shape
  <2> DEFINE u == <<f>>
  <2>4. u \in Seq(Frame)
    BY <1>4
  <2> HIDE DEF u
  <2>5. LET r == SubSeq(file, 1, tx) \o u \o SubSeq(file, tx + Len(u) + 1, Len(file))
        IN  /\ r \in Seq(Frame)
            /\ Len(r) = IF tx + Len(u) <= Len(file) THEN Len(file) ELSE tx + Len(u)
            /\ \A i \in 1..Len(r) :
                 r[i] = IF i <= tx THEN file[i] ELSE IF i <= tx + Len(u) THEN u[i - tx] ELSE file[i]
    BY <2>3, <2>4, Overwrite
  <2> QED
    BY <2>2, <2>5, <1>4 DEF u
<1>6. \A i \in 1..Len(file') : file'[i] = IF i = tx + 1 THEN f ELSE file[i]
  BY <1>5, <1>4 DEF Shape
<1>7. ASSUME commit
      PROVE  /\ history' \in [1..MaxSalt -> Seq(Frame)]
             /\ \A s \in 1..MaxSalt : s # salt => history'[s] = history[s]
             /\ Len(history'[salt]) = tx + 1
             /\ \A i \in 1..tx + 1 : history'[salt][i] = file'[i]
  <2> DEFINE h == SubSeq(file', 1, tx + 1)
  <2>1. \A i \in 1..tx + 1 : file'[i] \in Frame
    BY <1>5 DEF Shape
  <2>2. /\ h \in Seq(Frame) /\ Len(h) = tx + 1
        /\ \A i \in 1..tx + 1 : h[i] = file'[i]
    <3>1. tx + 1 \in Int /\ 1 <= tx + 1
      BY DEF Shape
    <3>2. PICK n : n = tx + 1
      OBVIOUS
    <3>3. n \in Int /\ \A i \in 1..n : file'[i] \in Frame
      BY <2>1, <3>1, <3>2
    <3>4. /\ SubSeq(file', 1, n) \in Seq(Frame)
          /\ Len(SubSeq(file', 1, n)) = IF 1 <= n THEN n - 1 + 1 ELSE 0
          /\ \A i \in 1..n - 1 + 1 : SubSeq(file', 1, n)[i] = file'[1 + i - 1]
      BY <3>3, SubSeqProperties
    <3> QED
      BY <3>1, <3>2, <3>4
  <2>3. history' = [history EXCEPT ![salt] = h]
    BY <1>1, <1>7
  <2> HIDE DEF h
  <2> QED
    BY <2>2, <2>3 DEF Shape
<1> QED
  BY <1>1, <1>2, <1>3, <1>5, <1>6, <1>7

(* A frame that is in the WAL after WriteFrame was there, or was just written. *)
LEMMA WriteKeepsWAL ==
  ASSUME WALInv, NEW pgno \in Pages, NEW commit \in BOOLEAN, WriteFrame(pgno, commit)
  PROVE  LogIsCommitted' /\ Chains' /\ Unique' /\ Remains'
<1>1. PICK f \in Frame :
        /\ f.salt = salt /\ f.commit = commit /\ f.checksum = written + 1
        /\ f.prev = IF tx = 0 THEN HeaderChecksum(salt) ELSE file[tx].checksum
        /\ file' \in Seq(Frame)
        /\ Len(file') = IF tx + 1 <= Len(file) THEN Len(file) ELSE tx + 1
        /\ \A i \in 1..Len(file') : file'[i] = IF i = tx + 1 THEN f ELSE file[i]
        /\ tx' = tx + 1 /\ written' = written + 1 /\ written < MaxFrames
        /\ salt' = salt
        /\ commit =>
             /\ mx' = tx + 1
             /\ history' \in [1..MaxSalt -> Seq(Frame)]
             /\ \A s \in 1..MaxSalt : s # salt => history'[s] = history[s]
             /\ Len(history'[salt]) = tx + 1
             /\ \A i \in 1..tx + 1 : history'[salt][i] = file'[i]
        /\ ~commit => mx' = mx /\ history' = history
  BY FrameWritten DEF WALInv
<1> DEFINE n == tx + 1
<1>2. /\ file \in Seq(Frame) /\ history \in [1..MaxSalt -> Seq(Frame)]
      /\ salt \in 1..MaxSalt /\ mx \in Nat /\ tx \in Nat /\ mx <= tx /\ tx <= Len(file)
      /\ Len(file) \in Nat /\ written \in Nat /\ MaxSalt \in Nat
  BY SaltAssumption DEF WALInv, Shape
<1>3. Len(file') \in Nat /\ Len(file) <= Len(file') /\ tx + 1 <= Len(file')
  BY <1>1, <1>2
<1>4. \A s \in 1..MaxSalt : Len(history[s]) \in Nat /\ \A i \in 1..Len(history[s]) : history[s][i] \in Frame
  BY <1>2
<1>5. \A i \in 1..tx : file'[i] = file[i]
  <2> TAKE i \in 1..tx
  <2>1. i \in 1..Len(file') /\ i # tx + 1
    BY <1>2, <1>3
  <2> QED
    BY <2>1, <1>1
<1>6. file'[tx + 1] = f
  <2>1. tx + 1 \in 1..Len(file')
    BY <1>2, <1>3
  <2> QED
    BY <2>1, <1>1
<1>7. LogIsCommitted'
  <2>0. /\ Len(history[salt]) = mx
        /\ \A i \in 1..mx : history[salt][i] = file[i]
        /\ mx > 0 => file[mx].commit
        /\ \A s \in 1..MaxSalt : s > salt => Len(history[s]) = 0
    BY DEF WALInv, LogIsCommitted
  <2>1. CASE commit
    <3>1. mx' = tx + 1 /\ Len(history'[salt]) = mx' /\ file'[mx'].commit
      BY <2>1, <1>1, <1>6
    <3>2. \A i \in 1..mx' : history'[salt][i] = file'[i]
      BY <2>1, <3>1, <1>1
    <3>3. \A s \in 1..MaxSalt : s > salt => Len(history'[s]) = 0
      BY <2>0, <2>1, <1>1, <1>2
    <3> QED
      BY <3>1, <3>2, <3>3, <1>1 DEF LogIsCommitted
  <2>2. CASE ~commit
    <3>1. \A i \in 1..mx : file'[i] = file[i]
      BY <1>5, <1>2
    <3>2. mx > 0 => file'[mx] = file[mx]
      BY <3>1, <1>2
    <3>3. mx' = mx /\ history' = history /\ salt' = salt
      BY <2>2, <1>1
    <3> QED
      BY <2>0, <3>1, <3>2, <3>3 DEF LogIsCommitted
  <2> QED
    BY <2>1, <2>2
<1>8. Linked(file, tx, salt)'
  <2>1. ASSUME NEW i \in 1..tx + 1
        PROVE  /\ file'[i].salt = salt
               /\ file'[i].prev = IF i = 1 THEN HeaderChecksum(salt) ELSE file'[i - 1].checksum
    <3>1. CASE i = tx + 1
      <4>1. i # 1 => file'[i - 1] = file[tx] /\ tx # 0
        BY <3>1, <1>5, <1>2
      <4>2. i = 1 => tx = 0
        BY <3>1, <1>2
      <4> QED
        BY <3>1, <4>1, <4>2, <1>1, <1>6, <1>2
    <3>2. CASE i <= tx
      <4>1. /\ file'[i] = file[i] /\ (i # 1 => file'[i - 1] = file[i - 1])
        BY <3>2, <1>5, <1>2
      <4>2. /\ file[i].salt = salt
            /\ file[i].prev = IF i = 1 THEN HeaderChecksum(salt) ELSE file[i - 1].checksum
        BY <3>2, <1>2 DEF WALInv, Chains, Linked
      <4> QED
        BY <4>1, <4>2
    <3> QED
      BY <3>1, <3>2, <1>2
  <2> QED
    BY <2>1, <1>1 DEF Linked
<1>9. ASSUME NEW s \in 1..MaxSalt
      PROVE  Linked(history[s], Len(history[s]), s)'
  <2>1. CASE s = salt /\ commit
    <3>1. Linked(file', tx + 1, salt)
      BY <1>8, <1>1 DEF Linked
    <3>2. \A i \in 1..tx + 1 : i # 1 => i - 1 \in 1..tx + 1
      BY <1>2
    <3>3. Len(history'[s]) = tx + 1 /\ \A i \in 1..tx + 1 : history'[s][i] = file'[i]
      BY <2>1, <1>1
    <3> QED
      BY <2>1, <3>1, <3>2, <3>3 DEF Linked
  <2>2. CASE s # salt \/ ~commit
    <3>1. history'[s] = history[s]
      BY <2>2, <1>1
    <3> QED
      BY <3>1 DEF WALInv, Chains, Linked
  <2> QED
    BY <2>1, <2>2
<1>10. ASSUME NEW i \in Nat, NEW g \in Frame, Occurs(i, g)'
       PROVE  Occurs(i, g) \/ (i = tx + 1 /\ g = f)
  <2>1. CASE i \in 1..Len(file') /\ file'[i] = g
    <3>1. CASE i = tx + 1
      BY <3>1, <2>1, <1>6
    <3>2. CASE i # tx + 1
      <4>1. i \in 1..Len(file) /\ file'[i] = file[i]
        BY <3>2, <2>1, <1>1, <1>2
      <4> QED
        BY <4>1, <2>1 DEF Occurs
    <3> QED
      BY <3>1, <3>2
  <2>2. ASSUME NEW s \in 1..MaxSalt, i \in 1..Len(history'[s]), history'[s][i] = g
        PROVE  Occurs(i, g) \/ (i = tx + 1 /\ g = f)
    <3>1. CASE s = salt /\ commit
      <4>1. i \in 1..tx + 1 /\ file'[i] = g
        BY <3>1, <2>2, <1>1
      <4>2. i \in 1..Len(file')
        BY <4>1, <1>3, <1>2
      <4> QED
        BY <4>1, <4>2, <2>1
    <3>2. CASE s # salt \/ ~commit
      <4>1. history'[s] = history[s]
        BY <3>2, <1>1
      <4> QED
        BY <4>1, <2>2 DEF Occurs
    <3> QED
      BY <3>1, <3>2
  <2> QED
    BY <2>1, <2>2, <1>10 DEF Occurs
<1>11. Unique'
  <2>1. /\ \A i \in Nat : \A g \in Frame : Occurs(i, g) => g.checksum \in 1..written
        /\ \A i, j \in Nat : \A g, h \in Frame :
             Occurs(i, g) /\ Occurs(j, h) /\ g.checksum = h.checksum => i = j /\ g = h
    BY DEF WALInv, Unique
  <2>2. ASSUME NEW i \in Nat, NEW g \in Frame, Occurs(i, g)'
        PROVE  g.checksum \in 1..written + 1
    <3>1. Occurs(i, g) \/ (i = tx + 1 /\ g = f)
      BY <1>10, <2>2
    <3>2. CASE Occurs(i, g)
      <4>1. g.checksum \in 1..written
        BY <3>2, <2>1
      <4> QED
        BY <4>1, <1>2
    <3>3. CASE g = f
      BY <3>3, <1>1, <1>2
    <3> QED
      BY <3>1, <3>2, <3>3
  <2>3. ASSUME NEW i \in Nat, NEW j \in Nat, NEW g \in Frame, NEW h \in Frame,
               Occurs(i, g)', Occurs(j, h)', g.checksum = h.checksum
        PROVE  i = j /\ g = h
    <3>1. (Occurs(i, g) \/ (i = tx + 1 /\ g = f)) /\ (Occurs(j, h) \/ (j = tx + 1 /\ h = f))
      BY <1>10, <2>3
    <3>2. written + 1 \notin 1..written
      BY <1>2
    <3> QED
      BY <3>1, <3>2, <2>1, <2>3, <1>1
  <2>4. written' = written + 1
    BY <1>1
  <2> QED
    BY <2>2, <2>3, <2>4 DEF Unique
<1>12. Remains'
  <2> SUFFICES ASSUME NEW i \in 1..Len(file')
               PROVE  /\ file'[i].salt <= salt'
                      /\ i <= Len(history'[file'[i].salt]) => file'[i] = history'[file'[i].salt][i]
                      /\ file'[i].commit => i <= Len(history'[file'[i].salt])
    BY DEF Remains
  <2>0. i \in Nat /\ 1 <= i /\ i <= Len(file')
    BY <1>3
  <2>1. CASE i = tx + 1
    <3>1. file'[i] = f /\ file'[i].salt = salt
      BY <2>1, <1>6, <1>1
    <3>2. CASE commit
      <4>1. i <= Len(history'[salt]) /\ history'[salt][i] = file'[i]
        BY <2>1, <3>2, <1>1, <1>2
      <4> QED
        BY <3>1, <4>1, <1>1, <1>2
    <3>3. CASE ~commit
      <4>1. history'[salt] = history[salt] /\ ~(i <= Len(history[salt]))
        BY <3>3, <2>1, <1>1, <1>2 DEF WALInv, LogIsCommitted
      <4>2. ~file'[i].commit /\ file'[i].salt <= salt'
        BY <3>1, <3>3, <1>1, <1>2
      <4> QED
        BY <3>1, <4>1, <4>2
    <3> QED
      BY <3>2, <3>3
  <2>2. CASE i # tx + 1
    <3>0. file'[i] = file[i]
      BY <2>2, <1>1
    <3>1. file'[i] = file[i] /\ i \in 1..Len(file)
      <4>1. PICK k : k = Len(file')
        OBVIOUS
      <4>2. k \in Nat /\ i <= k /\ (k = Len(file) \/ (k = tx + 1 /\ tx + 1 > Len(file)))
        BY <4>1, <2>0, <1>1, <1>2
      <4>3. i <= Len(file)
        BY <4>2, <2>0, <2>2, <1>2
      <4> QED
        BY <3>0, <4>3, <2>0, <1>2
    <3> DEFINE s == file[i].salt
    <3>2. /\ s <= salt /\ s \in 1..MaxSalt
          /\ i <= Len(history[s]) => file[i] = history[s][i]
          /\ file[i].commit => i <= Len(history[s])
      <4>1. file[i] \in Frame
        BY <3>1, <1>2
      <4> QED
        BY <3>1, <4>1 DEF WALInv, Remains, Frame
    <3> HIDE DEF s
    <3>3. CASE s = salt /\ commit
      <4>1. Len(history'[s]) = tx + 1 /\ \A k \in 1..tx + 1 : history'[s][k] = file'[k]
        BY <3>3, <1>1
      <4>2. i <= tx + 1 => file'[i] = history'[s][i]
        BY <4>1, <2>0, <1>2
      <4>3. file[i].commit => i <= tx + 1
        BY <3>2, <3>3, <1>2, <1>4 DEF WALInv, LogIsCommitted
      <4> QED
        BY <3>1, <3>2, <4>1, <4>2, <4>3, <1>1 DEF s
    <3>4. CASE s # salt \/ ~commit
      <4>1. history'[s] = history[s]
        BY <3>4, <3>2, <1>1
      <4> QED
        BY <3>1, <3>2, <4>1, <1>1 DEF s
    <3> QED
      BY <3>3, <3>4
  <2> QED
    BY <2>1, <2>2
<1> QED
  BY <1>7, <1>8, <1>9, <1>11, <1>12 DEF Chains

LEMMA RollbackKeepsWAL ==
  ASSUME WALInv, Rollback
  PROVE  LogIsCommitted' /\ Chains' /\ Unique' /\ Remains'
<1>1. tx' = mx /\ UNCHANGED <<file, salt, mx, written, history>>
  BY DEF Rollback
<1>2. \A i \in 1..mx : i \in 1..tx
  BY DEF WALInv, Shape
<1>3. LogIsCommitted'
  BY <1>1 DEF WALInv, LogIsCommitted
<1>4. Chains'
  BY <1>1, <1>2 DEF WALInv, Chains, Linked
<1>5. Unique'
  BY <1>1 DEF WALInv, Unique, Occurs
<1>6. Remains'
  BY <1>1 DEF WALInv, Remains
<1> QED
  BY <1>3, <1>4, <1>5, <1>6

LEMMA RestartKeepsWAL ==
  ASSUME WALInv, Restart
  PROVE  LogIsCommitted' /\ Chains' /\ Unique' /\ Remains'
<1>1. /\ salt < MaxSalt /\ salt' = salt + 1 /\ mx' = 0 /\ tx' = 0
      /\ UNCHANGED <<file, written, history>>
  BY DEF Restart
<1>2. salt \in 1..MaxSalt /\ MaxSalt \in Nat
  BY SaltAssumption DEF WALInv, Shape
<1>3. LogIsCommitted'
  BY <1>1, <1>2 DEF WALInv, LogIsCommitted
<1>4. Chains'
  BY <1>1 DEF WALInv, Chains, Linked
<1>5. Unique'
  BY <1>1 DEF WALInv, Unique, Occurs
<1>6. Remains'
  <2> SUFFICES ASSUME NEW i \in 1..Len(file)
               PROVE  /\ file[i].salt <= salt + 1
                      /\ i <= Len(history[file[i].salt]) => file[i] = history[file[i].salt][i]
                      /\ file[i].commit => i <= Len(history[file[i].salt])
    BY <1>1 DEF Remains
  <2>0. file[i] \in Frame
    BY DEF WALInv, Shape
  <2>1. file[i].salt \in Int
    BY <2>0, <1>2 DEF Frame
  <2> QED
    BY <2>1, <1>2 DEF WALInv, Remains
<1> QED
  BY <1>3, <1>4, <1>5, <1>6

(* The reader does not change the WAL. *)
LEMMA ReaderKeepsWAL ==
  ASSUME WALInv, UNCHANGED sqlite
  PROVE  LogIsCommitted' /\ Chains' /\ Unique' /\ Remains'
<1>1. UNCHANGED <<file, salt, mx, tx, written, history>>
  BY DEF sqlite
<1>2. LogIsCommitted' /\ Remains'
  BY <1>1 DEF WALInv, LogIsCommitted, Remains
<1>3. Chains'
  BY <1>1 DEF WALInv, Chains, Linked
<1>4. Unique'
  BY <1>1 DEF WALInv, Unique, Occurs
<1> QED
  BY <1>2, <1>3, <1>4

-----------------------------------------------------------------------------
(* Types. *)
LEMMA ShapeStep ==
  ASSUME Shape, Next
  PROVE  Shape'
<1> USE SaltAssumption, FramesAssumption
<1>1. ASSUME NEW pgno \in Pages, NEW commit \in BOOLEAN, WriteFrame(pgno, commit)
      PROVE  Shape'
  <2>1. PICK f \in Frame :
          /\ file' \in Seq(Frame)
          /\ Len(file') = IF tx + 1 <= Len(file) THEN Len(file) ELSE tx + 1
          /\ tx' = tx + 1 /\ written' = written + 1 /\ written < MaxFrames /\ salt' = salt
          /\ commit => mx' = tx + 1 /\ history' \in [1..MaxSalt -> Seq(Frame)]
          /\ ~commit => mx' = mx /\ history' = history
    BY <1>1, FrameWritten
  <2>2. UNCHANGED <<pc, rsalt, rchksum, frameN, from, floor>>
    BY <1>1 DEF WriteFrame, reader
  <2>3. PICK k : k = Len(file')
    OBVIOUS
  <2>4. k \in Nat /\ Len(file) <= k /\ tx + 1 <= k /\ Len(file) \in Nat
    BY <2>1, <2>3 DEF Shape
  <2>s. /\ frameN \in Nat /\ frameN <= Len(file) /\ tx \in Nat /\ mx \in Nat /\ mx <= tx
        /\ floor \in Nat /\ floor <= mx /\ written \in 0..MaxFrames
    BY DEF Shape
  <2>t. mx' = tx + 1 \/ mx' = mx
    BY <2>1
  <2>5. frameN' \in Nat /\ frameN' <= k /\ tx' \in Nat /\ tx' <= k /\ mx' \in Nat /\ mx' <= tx'
        /\ floor' \in Nat /\ floor' <= mx' /\ written' \in 0..MaxFrames
    <3>1. tx' = tx + 1 /\ written' = written + 1 /\ written < MaxFrames /\ frameN' = frameN
          /\ floor' = floor
      BY <2>1, <2>2
    <3> QED
      BY <3>1, <2>4, <2>s, <2>t
  <2>6. file' \in Seq(Frame) /\ history' \in [1..MaxSalt -> Seq(Frame)]
    BY <2>1 DEF Shape
  <2> QED
    BY <2>1, <2>2, <2>3, <2>5, <2>6 DEF Shape
<1>2. ASSUME Rollback PROVE Shape'
  BY <1>2 DEF Rollback, Shape, reader
<1>3. ASSUME Restart PROVE Shape'
  BY <1>3 DEF Restart, Shape, reader
<1>h. HeaderChecksum(salt) \in Checksum
  BY DEF Shape, HeaderChecksum, Checksum
<1>4. ASSUME New PROVE Shape'
  BY <1>4, <1>h DEF New, Shape, sqlite
<1>5. ASSUME NEW s \in 1..MaxSalt, NEW n \in 1..MaxFrames, NewWithOffset(s, n) PROVE Shape'
  <2>1. UNCHANGED <<file, salt, mx, tx, written, history>> /\ pc' = "reading"
        /\ floor' = IF rsalt' = salt THEN mx ELSE 0
    BY <1>5 DEF NewWithOffset, sqlite
  <2>2. /\ rsalt' \in 0..MaxSalt /\ rchksum' \in Checksum
        /\ frameN' \in Nat /\ frameN' <= Len(file) /\ from' \in Nat /\ from' <= frameN'
    <3>1. CASE n <= Len(file) /\ file[n].salt = s
      <4>1. rsalt' = s /\ rchksum' = file[n].checksum /\ frameN' = n /\ from' = n
        BY <3>1, <1>5 DEF NewWithOffset
      <4>2. file[n] \in Frame
        BY <3>1 DEF Shape
      <4> QED
        BY <3>1, <4>1, <4>2 DEF Frame
    <3>2. CASE ~(n <= Len(file) /\ file[n].salt = s)
      BY <3>2, <1>5, <1>h DEF NewWithOffset, Shape
    <3> QED
      BY <3>1, <3>2
  <2> QED
    BY <2>1, <2>2 DEF Shape
<1>6. ASSUME ReadFrame PROVE Shape'
  <2>1. /\ UNCHANGED <<file, salt, mx, tx, written, history, pc, rsalt, from, floor>>
        /\ frameN' = frameN + 1 /\ rchksum' = file[frameN + 1].checksum
        /\ frameN < Len(file)
    BY <1>6 DEF ReadFrame, Readable, sqlite
  <2>2. file[frameN + 1] \in Frame
    BY <2>1 DEF Shape
  <2>3. rchksum' \in Checksum
    BY <2>1, <2>2 DEF Frame
  <2> QED
    BY <2>1, <2>3 DEF Shape
<1>7. ASSUME ReadEOF PROVE Shape'
  BY <1>7 DEF ReadEOF, Shape, sqlite, reader
<1>8. ASSUME Forget PROVE Shape'
  <2>1. 0 \in Checksum
    BY DEF Checksum
  <2> QED
    BY <1>8, <2>1 DEF Forget, Shape, sqlite
<1> QED
  BY <1>1, <1>2, <1>3, <1>4, <1>5, <1>6, <1>7, <1>8 DEF Next

-----------------------------------------------------------------------------
(* The reader, while SQLite writes. *)

(* A committed frame is where it was in the log the reader follows. *)
LEMMA LogInAt ==
  ASSUME WALInv, rsalt \in 1..salt
  PROVE  /\ Len(history[rsalt]) <= End /\ End \in Nat
         /\ \A i \in 1..Len(history[rsalt]) : At(i) = history[rsalt][i]
         /\ \A i \in 1..End : At(i) \in Frame /\ Occurs(i, At(i))
<1>1. /\ rsalt \in 1..MaxSalt /\ Len(history[rsalt]) \in Nat
      /\ \A i \in 1..Len(history[rsalt]) : history[rsalt][i] \in Frame
  BY SaltAssumption DEF WALInv, Shape
<1>2. CASE rsalt = salt
  BY <1>1, <1>2 DEF WALInv, LogIsCommitted, End, At, Shape, Occurs
<1>3. CASE rsalt # salt
  BY <1>1, <1>3 DEF End, At, Occurs
<1> QED
  BY <1>2, <1>3

(* The log goes on, or SQLite leaves it for a new one. *)
LEMMA LogGrows ==
  ASSUME WALInv, ReaderOK, pc # "idle", rsalt \in 1..salt',
         UNCHANGED <<pc, rsalt, rchksum, frameN, m, txMap, from>>,
         floor' \in {0, floor},
         written' \in Nat, written <= written',
         End' \in Nat, End <= End',
         \A i \in 1..End : At(i)' = At(i),
         \A i \in 1..End' : i <= End \/ At(i)'.checksum > written,
         Len(history'[rsalt]) \in Nat, Len(history[rsalt]) <= Len(history'[rsalt]),
         \A i \in 1..Len(history[rsalt]) : history'[rsalt][i] = history[rsalt][i]
  PROVE  ReaderOK'
<1>1. PICK n \in from..frameN : Holds(n)
  BY DEF ReaderOK
<1>2. n \in Nat /\ from \in Nat /\ frameN \in Nat /\ from <= n /\ n <= frameN /\ floor \in Nat
      /\ written \in Nat
  BY DEF WALInv, Shape
<1>3. Len(history[rsalt]) \in Nat /\ End \in Nat
  BY LogInAt, SaltAssumption DEF WALInv, Shape, ReaderOK
<1>4. \A i \in from + 1..n : i \in 1..Len(history[rsalt])
  BY <1>1, <1>2, <1>3 DEF Holds
<1>5. n <= Len(history'[rsalt]) /\ (n = from \/ history'[rsalt][n].commit)
  BY <1>1, <1>2, <1>3 DEF Holds
<1>6. IsMap(m, history'[rsalt], n)
  BY <1>1, <1>4 DEF Holds, IsMap
<1>7. CASE Follows /\ \A i \in n + 1..frameN : ~At(i).commit
  <2>1. \A i \in from + 1..frameN : i \in 1..End
    BY <1>7, <1>2, <1>3 DEF Follows
  <2>2. frameN # 0 => frameN \in 1..End
    BY <1>7, <1>2, <1>3 DEF Follows
  <2>3. \A i \in n + 1..frameN : i \in from + 1..frameN
    BY <1>2
  <2>4. /\ frameN <= End'
        /\ rchksum = IF frameN = 0 THEN HeaderChecksum(rsalt) ELSE At(frameN)'.checksum
    BY <1>7, <1>2, <1>3, <2>2 DEF Follows
  <2>5. \A i \in from + 1..frameN : At(i)'.pgno \in DOMAIN txMap /\ i <= txMap[At(i)'.pgno]
    BY <1>7, <2>1 DEF Follows
  <2>6. ASSUME NEW p \in DOMAIN txMap
        PROVE  txMap[p] \in from + 1..frameN /\ At(txMap[p])'.pgno = p
    <3>1. txMap[p] \in from + 1..frameN /\ At(txMap[p]).pgno = p
      BY <1>7 DEF Follows
    <3>2. PICK i \in from + 1..frameN : i = txMap[p]
      BY <3>1
    <3>3. At(i)' = At(i)
      BY <2>1
    <3> QED
      BY <3>1, <3>2, <3>3 DEF At
  <2>7. \A i \in n + 1..frameN : ~At(i)'.commit
    BY <1>7, <2>1, <2>3
  <2>8. Follows'
    <3>1. (frameN <= End)' /\ (rchksum = IF frameN = 0 THEN HeaderChecksum(rsalt)
                                         ELSE At(frameN).checksum)'
      BY <2>4 DEF At
    <3>2. (\A i \in from + 1..frameN : At(i).pgno \in DOMAIN txMap /\ i <= txMap[At(i).pgno])'
      BY <2>5
    <3>3. (\A p \in DOMAIN txMap : txMap[p] \in from + 1..frameN /\ At(txMap[p]).pgno = p)'
      BY <2>6 DEF At
    <3> QED
      BY <3>1, <3>2, <3>3 DEF Follows
  <2>9. Holds(n)'
    <3>1. (\A i \in n + 1..frameN : ~At(i).commit)'
      BY <2>7
    <3>2. (pc = "done" => n >= floor)'
      BY <1>1, <1>2 DEF Holds
    <3>3. (n <= Len(history[rsalt]) /\ (n = from \/ history[rsalt][n].commit))'
      BY <1>5
    <3>4. IsMap(m, history[rsalt], n)'
      BY <1>6 DEF IsMap
    <3> QED
      BY <2>8, <3>1, <3>2, <3>3, <3>4 DEF Holds
  <2> QED
    BY <1>1, <2>9 DEF ReaderOK
<1>8. CASE Strays /\ n >= floor
  <2>1. rchksum \in 1..written' /\ rchksum \in Nat /\ rchksum <= written
    BY <1>8, <1>2 DEF Strays
  <2>2. ASSUME NEW i \in 1..End'
        PROVE  At(i)'.checksum # rchksum
    <3>1. CASE i <= End
      <4>1. i \in 1..End
        BY <3>1, <1>3
      <4> QED
        BY <4>1, <1>8 DEF Strays
    <3>2. CASE At(i)'.checksum > written
      BY <3>2, <2>1, <1>2
    <3> QED
      BY <3>1, <3>2
  <2>3. Strays'
    BY <2>1, <2>2 DEF Strays
  <2>4. Holds(n)'
    BY <1>1, <1>2, <1>5, <1>6, <1>8, <2>3 DEF Holds, IsMap
  <2> QED
    BY <1>1, <2>4 DEF ReaderOK
<1> QED
  BY <1>1, <1>7, <1>8 DEF Holds

LEMMA WriteKeepsReader ==
  ASSUME Inv, NEW pgno \in Pages, NEW commit \in BOOLEAN, WriteFrame(pgno, commit)
  PROVE  FloorOK' /\ ReaderOK'
<1>0. WALInv
  BY DEF Inv, WALInv
<1>1. PICK f \in Frame :
        /\ f.checksum = written + 1
        /\ Len(file') = IF tx + 1 <= Len(file) THEN Len(file) ELSE tx + 1
        /\ \A i \in 1..Len(file') : file'[i] = IF i = tx + 1 THEN f ELSE file[i]
        /\ tx' = tx + 1 /\ written' = written + 1 /\ salt' = salt
        /\ commit =>
             /\ \A s \in 1..MaxSalt : s # salt => history'[s] = history[s]
             /\ Len(history'[salt]) = tx + 1
             /\ \A i \in 1..tx + 1 : history'[salt][i] = file'[i]
        /\ ~commit => history' = history
  <2>1. Shape
    BY DEF Inv
  <2> QED
    BY <2>1, FrameWritten
<1>2. UNCHANGED <<pc, rsalt, rchksum, frameN, m, txMap, from, floor>>
  BY DEF WriteFrame, reader
<1>3. /\ salt \in 1..MaxSalt /\ mx \in Nat /\ tx \in Nat /\ mx <= tx /\ tx <= Len(file)
      /\ Len(file) \in Nat /\ written \in Nat /\ MaxSalt \in Nat /\ floor \in Nat /\ floor <= mx
      /\ rsalt \in 0..MaxSalt
  BY SaltAssumption DEF Inv, Shape
<1>4. ASSUME NEW i \in 1..tx + 1 PROVE i \in 1..Len(file')
  <2>1. PICK k : k = Len(file')
    OBVIOUS
  <2> QED
    BY <2>1, <1>1, <1>3
<1>5. /\ \A i \in 1..tx : file'[i] = file[i]
      /\ file'[tx + 1] = f
  <2>1. \A i \in 1..tx : i \in 1..tx + 1 /\ i # tx + 1
    BY <1>3
  <2>2. tx + 1 \in 1..tx + 1
    BY <1>3
  <2> QED
    BY <2>1, <2>2, <1>4, <1>1
<1>6. FloorOK'
  <2>1. floor > 0 => file'[floor] = file[floor]
    BY <1>5, <1>3
  <2> QED
    BY <2>1, <1>1, <1>2 DEF Inv, FloorOK
<1>7. CASE pc = "idle"
  BY <1>7, <1>2, <1>6 DEF Inv, ReaderOK
<1>8. CASE pc # "idle"
  <2>1. rsalt \in 1..salt /\ rsalt \in 1..MaxSalt
    BY <1>8, <1>3 DEF Inv, ReaderOK
  <2>2. /\ Len(history'[rsalt]) \in Nat /\ Len(history[rsalt]) <= Len(history'[rsalt])
        /\ \A i \in 1..Len(history[rsalt]) : history'[rsalt][i] = history[rsalt][i]
    <3>1. Len(history[rsalt]) \in Nat
      BY <2>1 DEF Inv, Shape
    <3>2. CASE rsalt = salt /\ commit
      <4>1. Len(history[rsalt]) = mx /\ \A i \in 1..mx : history[rsalt][i] = file[i]
        BY <3>2 DEF Inv, LogIsCommitted
      <4>2. \A i \in 1..mx : i \in 1..tx /\ i \in 1..tx + 1
        BY <1>3
      <4> QED
        BY <3>2, <4>1, <4>2, <1>1, <1>3, <1>5
    <3>3. CASE rsalt # salt \/ ~commit
      <4>1. history'[rsalt] = history[rsalt]
        BY <3>3, <2>1, <1>1
      <4> QED
        BY <4>1, <3>1
    <3> QED
      BY <3>2, <3>3
  <2>3. /\ End' \in Nat /\ End <= End'
        /\ \A i \in 1..End : At(i)' = At(i)
        /\ \A i \in 1..End' : i <= End \/ At(i)'.checksum > written
    <3>1. CASE rsalt = salt
      <4>1. End = tx /\ End' = tx + 1 /\ \A i : At(i) = file[i] /\ At(i)' = file'[i]
        BY <3>1, <1>1, <1>2 DEF End, At
      <4>2. \A i \in 1..tx + 1 : i <= tx \/ i = tx + 1
        BY <1>3
      <4> QED
        BY <4>1, <4>2, <1>1, <1>3, <1>5
    <3>2. CASE rsalt # salt
      <4>1. history'[rsalt] = history[rsalt]
        BY <3>2, <2>1, <1>1
      <4>2. End = Len(history[rsalt]) /\ End' = End /\ \A i : At(i) = At(i)'
        BY <3>2, <4>1, <1>1, <1>2 DEF End, At
      <4> QED
        BY <4>1, <4>2, <2>2
    <3> QED
      BY <3>1, <3>2
  <2>4. rsalt \in 1..salt' /\ written' \in Nat /\ written <= written' /\ floor' \in {0, floor}
    BY <2>1, <1>1, <1>2, <1>3
  <2>5. ReaderOK
    BY DEF Inv
  <2> QED
    BY <1>0, <1>2, <1>6, <1>8, <2>2, <2>3, <2>4, <2>5, LogGrows
<1> QED
  BY <1>7, <1>8

LEMMA RestartKeepsReader ==
  ASSUME Inv, Restart
  PROVE  FloorOK' /\ ReaderOK'
<1>0. WALInv
  BY DEF Inv, WALInv
<1>1. /\ tx = mx /\ salt' = salt + 1 /\ tx' = 0 /\ floor' = 0
      /\ UNCHANGED <<file, written, history, pc, rsalt, rchksum, frameN, m, txMap, from>>
  BY DEF Restart, reader
<1>2. FloorOK'
  BY <1>1 DEF FloorOK
<1>3. CASE pc = "idle"
  BY <1>3, <1>1, <1>2 DEF Inv, ReaderOK
<1>4. CASE pc # "idle"
  <2>1. rsalt \in 1..salt /\ salt \in 1..MaxSalt /\ MaxSalt \in Nat /\ written \in Nat
    BY <1>4, SaltAssumption DEF Inv, ReaderOK, Shape
  <2>2. rsalt \in 1..salt' /\ rsalt # salt'
    BY <2>1, <1>1
  <2>3. End' = Len(history[rsalt]) /\ \A i : At(i)' = history[rsalt][i]
    BY <2>2, <1>1 DEF End, At
  <2>4. /\ Len(history[rsalt]) <= End /\ End \in Nat /\ Len(history[rsalt]) \in Nat
        /\ \A i \in 1..Len(history[rsalt]) : At(i) = history[rsalt][i]
    <3>1. Len(history[rsalt]) \in Nat
      BY <2>1 DEF Inv, Shape
    <3> QED
      BY <3>1, <2>1, <1>0, LogInAt
  <2>5. End <= Len(history[rsalt])
    BY <1>1, <2>4 DEF End, Inv, LogIsCommitted, Shape
  <2>6. End = Len(history[rsalt])
    BY <2>4, <2>5
  <2>7. /\ End' \in Nat /\ End <= End'
        /\ \A i \in 1..End : At(i)' = At(i)
        /\ \A i \in 1..End' : i <= End \/ At(i)'.checksum > written
    BY <2>3, <2>4, <2>6
  <2>8. /\ Len(history'[rsalt]) \in Nat /\ Len(history[rsalt]) <= Len(history'[rsalt])
        /\ \A i \in 1..Len(history[rsalt]) : history'[rsalt][i] = history[rsalt][i]
    BY <1>1, <2>4
  <2>9. written' \in Nat /\ written <= written' /\ floor' \in {0, floor}
    BY <2>1, <1>1
  <2>10. ReaderOK
    BY DEF Inv
  <2> QED
    BY <1>0, <1>1, <1>2, <1>4, <2>2, <2>7, <2>8, <2>9, <2>10, LogGrows
<1> QED
  BY <1>3, <1>4

(* What commits is below the frames that are rolled back. *)
LEMMA FloorBelow ==
  ASSUME Inv, pc # "idle", NEW n \in from..frameN, Holds(n), Follows,
         \A i \in n + 1..frameN : ~At(i).commit, frameN >= floor
  PROVE  n >= floor
<1>1. n \in Nat /\ frameN \in Nat /\ floor \in Nat /\ n <= frameN
  BY DEF Inv, Shape
<1>2. SUFFICES ASSUME n < floor PROVE FALSE
  BY <1>1
<1>3. floor > 0 /\ floor \in n + 1..frameN
  BY <1>1, <1>2
<1>4. rsalt = salt /\ file[floor].commit
  BY <1>3 DEF Inv, FloorOK
<1>5. At(floor) = file[floor]
  BY <1>4 DEF At
<1> QED
  BY <1>3, <1>4, <1>5

LEMMA RollbackKeepsReader ==
  ASSUME Inv, Rollback
  PROVE  FloorOK' /\ ReaderOK'
<1>0. WALInv
  BY DEF Inv, WALInv
<1>1. /\ tx > mx /\ tx' = mx
      /\ UNCHANGED <<file, salt, mx, written, history, pc, rsalt, rchksum, frameN, m, txMap,
                     from, floor>>
  BY DEF Rollback, reader
<1>2. FloorOK'
  BY <1>1 DEF Inv, FloorOK
<1>3. CASE pc = "idle"
  BY <1>3, <1>1, <1>2 DEF Inv, ReaderOK
<1>4. CASE pc # "idle"
  <2>1. PICK n \in from..frameN : Holds(n)
    BY <1>4 DEF Inv, ReaderOK
  <2>2. /\ rsalt \in 1..salt /\ frameN \in Nat /\ from \in Nat /\ n \in Nat /\ tx \in Nat /\ mx \in Nat
        /\ floor \in Nat /\ floor <= mx /\ mx <= tx
    BY <1>4 DEF Inv, ReaderOK, Shape
  <2>3. \A i : At(i)' = At(i)
    BY <1>1 DEF At
  <2>4. rsalt # salt => End' = End
    BY <1>1 DEF End
  <2>5. rsalt = salt => End = tx /\ End' = mx
    BY <1>1 DEF End
  <2>6. End \in Nat
    BY <1>0, <2>2, LogInAt
  <2>7. IsMap(m, history[rsalt], n)' /\ (pc = "done" => n >= floor)'
        /\ (n <= Len(history[rsalt]) /\ (n = from \/ history[rsalt][n].commit))'
    BY <2>1, <1>1 DEF Holds, IsMap
  <2>r. (\E k \in from..frameN : Holds(k))' => ReaderOK'
    BY <2>2, <1>1, <1>4 DEF ReaderOK
  <2>n. n \in (from..frameN)'
    BY <2>1, <1>1
  <2>8. CASE Strays /\ n >= floor
    <3>1. \A i \in 1..End' : i \in 1..End
      BY <2>2, <2>4, <2>5, <2>6
    <3>2. Strays'
      BY <2>8, <3>1, <2>3, <1>1 DEF Strays
    <3> QED
      <4>1. Holds(n)'
        BY <2>7, <2>8, <3>2, <1>1 DEF Holds
      <4> QED
        BY <4>1, <2>n, <2>r, <1>2
  <2>9. CASE (Follows /\ \A i \in n + 1..frameN : ~At(i).commit) /\ (rsalt # salt \/ frameN <= mx)
    <3>1. frameN <= End'
      BY <2>9, <2>4, <2>5 DEF Follows
    <3>2. Follows'
      <4>1. (rchksum = IF frameN = 0 THEN HeaderChecksum(rsalt) ELSE At(frameN).checksum)'
        BY <2>9, <2>3, <1>1 DEF Follows, At
      <4>2. (\A i \in from + 1..frameN : At(i).pgno \in DOMAIN txMap /\ i <= txMap[At(i).pgno])'
        BY <2>9, <2>3, <1>1 DEF Follows
      <4>3. (\A p \in DOMAIN txMap : txMap[p] \in from + 1..frameN /\ At(txMap[p]).pgno = p)'
        BY <2>9, <1>1 DEF Follows, At
      <4> QED
        BY <3>1, <4>1, <4>2, <4>3, <1>1 DEF Follows
    <3>3. (\A i \in n + 1..frameN : ~At(i).commit)'
      BY <2>9, <2>3, <1>1
    <3> QED
      <4>1. Holds(n)'
        BY <2>7, <3>2, <3>3 DEF Holds
      <4> QED
        BY <4>1, <2>n, <2>r, <1>2
  <2>10. CASE (Follows /\ \A i \in n + 1..frameN : ~At(i).commit) /\ rsalt = salt /\ frameN > mx
    <3>1. n >= floor
      BY <2>10, <2>1, <2>2, <1>4, FloorBelow
    <3>2. frameN \in 1..End /\ frameN # 0 /\ rchksum = At(frameN).checksum
      BY <2>10, <2>2, <2>6 DEF Follows
    <3>3. Occurs(frameN, At(frameN)) /\ At(frameN) \in Frame
      BY <3>2, <2>2, <1>0, LogInAt
    <3>4. rchksum \in 1..written
      BY <3>2, <3>3, <2>2 DEF Inv, Unique
    <3>5. ASSUME NEW i \in 1..mx PROVE At(i).checksum # rchksum
      <4>1. i \in 1..End /\ i # frameN /\ i \in Nat
        BY <2>2, <2>5, <2>10
      <4>2. Occurs(i, At(i)) /\ At(i) \in Frame
        BY <4>1, <2>2, <1>0, LogInAt
      <4> QED
        BY <4>1, <4>2, <3>2, <3>3, <2>2 DEF Inv, Unique
    <3>6. Strays'
      BY <3>4, <3>5, <2>3, <2>5, <2>10, <1>1 DEF Strays
    <3> QED
      <4>1. Holds(n)'
        BY <2>7, <3>1, <3>6, <1>1 DEF Holds
      <4> QED
        BY <4>1, <2>n, <2>r, <1>2
  <2> QED
    BY <2>1, <2>2, <2>8, <2>9, <2>10 DEF Holds
<1> QED
  BY <1>3, <1>4

-----------------------------------------------------------------------------
(* The reader's own steps. *)

(* A frame of an old log that is still in the file, or of the current log. *)
LEMMA InFile ==
  ASSUME WALInv, rsalt \in 1..salt, NEW k \in 1..Len(file), file[k].salt = rsalt
  PROVE  /\ k <= End => file[k] = At(k)
         /\ k > End => ~file[k].commit
<1>1. k \in Nat /\ End \in Nat /\ Len(history[rsalt]) <= End /\ Len(history[rsalt]) \in Nat
  <2>1. Len(history[rsalt]) \in Nat
    BY SaltAssumption DEF WALInv, Shape
  <2> QED
    BY <2>1, LogInAt DEF WALInv, Shape
<1>2. /\ k <= Len(history[rsalt]) => file[k] = history[rsalt][k]
      /\ file[k].commit => k <= Len(history[rsalt])
  BY DEF WALInv, Remains
<1>3. k <= End => file[k] = At(k)
  BY <1>1, <1>2 DEF End, At
<1> QED
  BY <1>1, <1>2, <1>3

(* The reader follows the log from where it begins: at the header, *)
LEMMA NewReader ==
  ASSUME Inv, UNCHANGED sqlite, rsalt' = salt, rchksum' = HeaderChecksum(salt),
         frameN' = 0, from' = 0, pc' = "reading", floor' = mx,
         pc = "idle", UNCHANGED <<m, txMap>>
  PROVE  FloorOK' /\ ReaderOK'
<1>1. UNCHANGED <<file, salt, mx, tx, written, history>>
  BY DEF sqlite
<1>2. FloorOK'
  BY <1>1 DEF Inv, FloorOK, LogIsCommitted
<1>3. DOMAIN m' = {} /\ DOMAIN txMap' = {}
  BY DEF Inv, ReaderOK
<1>4. /\ salt \in 1..MaxSalt /\ MaxSalt \in Nat /\ tx \in Nat /\ Len(history[salt]) \in Nat
  BY SaltAssumption DEF Inv, Shape
<1>5. Follows'
  <2>1. End' = tx
    BY <1>1 DEF End
  <2>2. (from + 1..frameN)' = {}
    OBVIOUS
  <2> QED
    BY <2>1, <2>2, <1>1, <1>3, <1>4 DEF Follows
<1>6. Holds(0)'
  <2>1. (0 <= Len(history[rsalt]))' /\ (0 = from)'
    BY <1>1, <1>4
  <2>2. IsMap(m, history[rsalt], 0)'
    BY <1>3 DEF IsMap
  <2>3. (\A i \in 0 + 1..frameN : ~At(i).commit)' /\ (pc # "done")'
    OBVIOUS
  <2> QED
    BY <1>5, <2>1, <2>2, <2>3 DEF Holds
<1>7. rsalt' \in 1..salt' /\ 0 \in (from..frameN)' /\ pc' # "idle"
  BY <1>1, <1>4
<1> QED
  BY <1>2, <1>6, <1>7 DEF ReaderOK

(* or after a frame that commits. *)
LEMMA NewReaderWithOffset ==
  ASSUME Inv, NEW s \in 1..MaxSalt, NEW n \in 1..MaxFrames, NewWithOffset(s, n),
         n <= Len(file), file[n].salt = s
  PROVE  FloorOK' /\ ReaderOK'
<1>0. WALInv
  BY DEF Inv, WALInv
<1>1. /\ UNCHANGED <<file, salt, mx, tx, written, history>> /\ UNCHANGED <<m, txMap>>
      /\ rsalt' = s /\ rchksum' = file[n].checksum /\ frameN' = n /\ from' = n
      /\ pc = "idle" /\ pc' = "reading" /\ floor' = IF s = salt THEN mx ELSE 0
      /\ n \in DOMAIN history[s]
  BY DEF NewWithOffset, sqlite
<1>2. DOMAIN m' = {} /\ DOMAIN txMap' = {}
  BY <1>1 DEF Inv, ReaderOK
<1>3. /\ n \in Nat /\ n # 0 /\ n \in 1..Len(file) /\ n <= Len(history[s]) /\ Len(history[s]) \in Nat
      /\ salt \in 1..MaxSalt /\ MaxSalt \in Nat /\ tx \in Nat /\ mx \in Nat /\ mx <= tx
  BY <1>1, SaltAssumption, FramesAssumption DEF Inv, Shape
<1>4. s \in 1..salt
  BY <1>3 DEF Inv, Remains
<1>5. FloorOK'
  BY <1>1 DEF Inv, FloorOK, LogIsCommitted
<1>6. n <= End' /\ At(n)' = file[n]
  <2>1. file[n] = history[s][n]
    BY <1>3 DEF Inv, Remains
  <2>2. CASE s = salt
    BY <2>1, <2>2, <1>1, <1>3 DEF Inv, LogIsCommitted, End, At
  <2>3. CASE s # salt
    BY <2>1, <2>3, <1>1, <1>3 DEF End, At
  <2> QED
    BY <2>2, <2>3
<1>7. Follows'
  <2>1. (from + 1..frameN)' = {}
    BY <1>1, <1>3
  <2>2. (rchksum = IF frameN = 0 THEN HeaderChecksum(rsalt) ELSE At(frameN).checksum)'
    <3>1. At(frameN)' = At(n)'
      BY <1>1 DEF At
    <3> QED
      BY <3>1, <1>1, <1>3, <1>6
  <2> QED
    BY <2>1, <2>2, <1>1, <1>2, <1>6 DEF Follows
<1>8. Holds(n)'
  <2>1. (n <= Len(history[rsalt]))' /\ (n = from)'
    BY <1>1, <1>3
  <2>2. IsMap(m, history[rsalt], n)'
    <3>1. (from + 1..n)' = {}
      BY <1>1, <1>3
    <3> QED
      BY <3>1, <1>2 DEF IsMap
  <2>3. (\A i \in n + 1..frameN : ~At(i).commit)' /\ (pc # "done")'
    <3>1. (n + 1..frameN)' = {}
      BY <1>1, <1>3
    <3> QED
      BY <3>1, <1>1
  <2> QED
    BY <1>7, <2>1, <2>2, <2>3 DEF Holds
<1>9. rsalt' \in 1..salt' /\ n \in (from..frameN)' /\ pc' # "idle"
  BY <1>1, <1>3, <1>4
<1> QED
  BY <1>5, <1>8, <1>9 DEF ReaderOK

(* A frame is read: the next of the log, or one that was rolled back. *)
LEMMA ReadFrameKeepsReader ==
  ASSUME Inv, ReadFrame
  PROVE  Maps' /\ FloorOK' /\ ReaderOK'
<1>0. WALInv
  BY DEF Inv, WALInv
<1>1. PICK k, f : k = frameN + 1 /\ f = file[k]
  OBVIOUS
<1>2. /\ UNCHANGED <<file, salt, mx, tx, written, history>> /\ UNCHANGED <<pc, rsalt, from, floor>>
      /\ pc = "reading" /\ frameN < Len(file) /\ f.salt = rsalt /\ f.prev = rchksum
      /\ frameN' = k /\ rchksum' = f.checksum
      /\ txMap' = With(txMap, f.pgno, k)
      /\ m' = IF f.commit THEN Merge(m, txMap') ELSE m
  BY <1>1 DEF ReadFrame, Readable, sqlite
<1>3. /\ frameN \in Nat /\ from \in Nat /\ from <= frameN /\ floor \in Nat /\ floor <= mx /\ mx \in Nat
      /\ mx <= tx /\ tx \in Nat /\ k \in Nat /\ k \in 1..Len(file) /\ f \in Frame /\ file[k] = f
      /\ rsalt \in 1..salt /\ rsalt \in 1..MaxSalt
  <2>1. rsalt \in 1..salt
    BY <1>2 DEF Inv, ReaderOK
  <2> QED
    BY <2>1, <1>1, <1>2, SaltAssumption DEF Inv, Shape
<1>4. /\ DOMAIN txMap' = DOMAIN txMap \cup {f.pgno} /\ txMap' = [p \in DOMAIN txMap' |-> txMap'[p]]
      /\ txMap'[f.pgno] = k
      /\ \A p \in DOMAIN txMap : p # f.pgno => txMap'[p] = txMap[p]
  BY <1>2 DEF With
<1>5. f.commit => /\ DOMAIN m' = DOMAIN txMap' /\ m' = [p \in DOMAIN m' |-> m'[p]]
                  /\ \A p \in DOMAIN txMap' : m'[p] = txMap'[p]
  BY <1>2, <1>4 DEF Merge, Inv, Maps
<1>6. Maps'
  <2>1. f.pgno \in Pages
    BY <1>3 DEF Frame
  <2>2. DOMAIN txMap' \subseteq Pages
    BY <2>1, <1>4 DEF Inv, Maps
  <2>3. m' = [p \in DOMAIN m' |-> m'[p]] /\ DOMAIN m' \subseteq DOMAIN txMap'
    <3>1. CASE f.commit
      BY <3>1, <1>5
    <3>2. CASE ~f.commit
      <4>1. m' = m
        BY <3>2, <1>2
      <4> QED
        BY <4>1, <1>4 DEF Inv, Maps
    <3> QED
      BY <3>1, <3>2
  <2> QED
    BY <2>2, <2>3, <1>4 DEF Maps
<1>7. FloorOK'
  BY <1>2 DEF Inv, FloorOK
<1>8. End' = End /\ \A i : At(i)' = At(i)
  BY <1>2 DEF End, At
<1>9. /\ Len(history[rsalt]) <= End /\ End \in Nat /\ Len(history[rsalt]) \in Nat
      /\ \A i \in 1..Len(history[rsalt]) : At(i) = history[rsalt][i]
      /\ \A i \in 1..End : At(i) \in Frame /\ Occurs(i, At(i))
  <2>1. Len(history[rsalt]) \in Nat
    BY <1>3 DEF Inv, Shape
  <2> QED
    BY <2>1, <1>0, <1>3, LogInAt
<1>10. /\ k <= End => f = At(k)
       /\ k > End => ~f.commit
  BY <1>0, <1>2, <1>3, InFile
<1>11. PICK n \in from..frameN : Holds(n)
  BY <1>2 DEF Inv, ReaderOK
<1>12. n \in Nat /\ n <= frameN /\ from <= n
  BY <1>3
<1>r. (\E j \in from..frameN : Holds(j))' => ReaderOK'
  BY <1>2, <1>3 DEF ReaderOK
<1>n. n \in (from..frameN)' /\ k \in (from..frameN)'
  BY <1>1, <1>2, <1>3, <1>12
<1>d. (pc # "done")'
  BY <1>2
(* A stray reader has read past the log and goes on past it. *)
<1>13. ASSUME k > End, n >= floor
       PROVE  Holds(n)'
  <2>1. m' = m
    BY <1>10, <1>13, <1>2
  <2>2. IsMap(m, history[rsalt], n)'
        /\ (n <= Len(history[rsalt]) /\ (n = from \/ history[rsalt][n].commit))'
    BY <2>1, <1>2, <1>11 DEF Holds, IsMap
  <2>3. Occurs(k, f)
    BY <1>3 DEF Occurs
  <2>4. f.checksum \in 1..written
    BY <2>3, <1>3 DEF Inv, Unique
  <2>5. ASSUME NEW i \in 1..End PROVE At(i).checksum # f.checksum
    <3>1. i \in Nat /\ i # k
      BY <1>13, <1>9, <1>3
    <3> QED
      BY <3>1, <2>3, <1>3, <1>9 DEF Inv, Unique
  <2>6. Strays'
    BY <2>4, <2>5, <1>2, <1>8 DEF Strays
  <2> QED
    BY <2>2, <2>6, <1>2, <1>13, <1>d DEF Holds
<1>14. CASE Strays /\ n >= floor
  <2>1. k > End
    <3>1. SUFFICES ASSUME k <= End PROVE FALSE
      BY <1>3, <1>9
    <3>2. f = At(k)
      BY <3>1, <1>10
    <3>3. At(k).prev = IF k = 1 THEN HeaderChecksum(rsalt) ELSE At(k - 1).checksum
      <4>1. CASE rsalt = salt
        BY <4>1, <3>1, <1>3 DEF Inv, Chains, Linked, End, At
      <4>2. CASE rsalt # salt
        BY <4>2, <3>1, <1>3 DEF Inv, Chains, Linked, End, At
      <4> QED
        BY <4>1, <4>2
    <3>4. rchksum > 0 /\ \A i \in 1..End : At(i).checksum # rchksum
      BY <1>14 DEF Strays, Inv, Shape
    <3>5. CASE k = 1
      <4>1. rchksum = HeaderChecksum(rsalt)
        BY <3>5, <3>3, <3>2, <1>2
      <4> QED
        BY <4>1, <3>4, <1>3 DEF HeaderChecksum
    <3>6. CASE k # 1
      <4>1. k - 1 \in 1..End
        BY <3>6, <3>1, <1>3, <1>9
      <4> QED
        BY <4>1, <3>6, <3>2, <3>3, <3>4, <1>2
    <3> QED
      BY <3>5, <3>6
  <2> QED
    BY <2>1, <1>13, <1>14, <1>6, <1>7, <1>n, <1>r
<1>15. CASE (Follows /\ \A i \in n + 1..frameN : ~At(i).commit) /\ k > End
  <2>1. frameN = End
    BY <1>15, <1>1, <1>3, <1>9 DEF Follows
  <2>2. frameN >= floor
    <3>1. CASE rsalt = salt
      BY <3>1, <2>1, <1>3 DEF End
    <3>2. CASE rsalt # salt
      BY <3>2, <1>3 DEF Inv, FloorOK
    <3> QED
      BY <3>1, <3>2
  <2>3. n >= floor
    BY <2>2, <1>15, <1>11, <1>2, FloorBelow
  <2> QED
    BY <2>3, <1>13, <1>15, <1>6, <1>7, <1>n, <1>r
(* The next frame of the log. *)
<1>16. CASE (Follows /\ \A i \in n + 1..frameN : ~At(i).commit) /\ k <= End
  <2>0. f = At(k) /\ k # 0
    BY <1>16, <1>10, <1>3
  <2>1. ASSUME NEW i \in from + 1..k
        PROVE  At(i).pgno \in DOMAIN txMap' /\ i <= txMap'[At(i).pgno]
    <3>1. CASE i = k
      BY <3>1, <2>0, <1>4, <1>3
    <3>2. CASE i # k
      <4>1. i \in from + 1..frameN /\ i <= k
        BY <3>2, <1>1, <1>3
      <4>2. At(i).pgno \in DOMAIN txMap /\ i <= txMap[At(i).pgno]
        BY <4>1, <1>16 DEF Follows
      <4> QED
        BY <4>1, <4>2, <1>4
    <3> QED
      BY <3>1, <3>2
  <2>2. ASSUME NEW p \in DOMAIN txMap'
        PROVE  txMap'[p] \in from + 1..k /\ At(txMap'[p]).pgno = p
    <3>1. CASE p = f.pgno
      <4>1. k \in from + 1..k
        BY <1>1, <1>3
      <4> QED
        BY <3>1, <4>1, <2>0, <1>4
    <3>2. CASE p # f.pgno
      <4>1. p \in DOMAIN txMap /\ txMap'[p] = txMap[p]
        BY <3>2, <1>4
      <4>2. txMap[p] \in from + 1..frameN /\ At(txMap[p]).pgno = p
        BY <4>1, <1>16 DEF Follows
      <4>3. \A i \in from + 1..frameN : i \in from + 1..k
        BY <1>1, <1>3
      <4> QED
        BY <4>1, <4>2, <4>3
    <3> QED
      BY <3>1, <3>2
  <2>3. Follows'
    <3>1. (frameN <= End)'
          /\ (rchksum = IF frameN = 0 THEN HeaderChecksum(rsalt) ELSE At(frameN).checksum)'
      <4>1. At(frameN)' = At(k)
        BY <1>2 DEF At
      <4> QED
        BY <4>1, <2>0, <1>2, <1>8, <1>16
    <3>2. (\A i \in from + 1..frameN : At(i).pgno \in DOMAIN txMap /\ i <= txMap[At(i).pgno])'
      BY <2>1, <1>2, <1>8
    <3>3. (\A p \in DOMAIN txMap : txMap[p] \in from + 1..frameN /\ At(txMap[p]).pgno = p)'
      BY <2>2, <1>2 DEF At
    <3> QED
      BY <3>1, <3>2, <3>3 DEF Follows
  <2>4. CASE ~f.commit
    <3>1. m' = m
      BY <2>4, <1>2
    <3>2. IsMap(m, history[rsalt], n)'
          /\ (n <= Len(history[rsalt]) /\ (n = from \/ history[rsalt][n].commit))'
      BY <3>1, <1>2, <1>11 DEF Holds, IsMap
    <3>3. \A i \in n + 1..k : ~At(i).commit
      <4>1. \A i \in n + 1..k : i = k \/ i \in n + 1..frameN
        BY <1>1, <1>3, <1>12
      <4> QED
        BY <4>1, <2>0, <2>4, <1>16
    <3>4. (\A i \in n + 1..frameN : ~At(i).commit)'
      BY <3>3, <1>2, <1>8
    <3>5. Holds(n)'
      BY <2>3, <3>2, <3>4, <1>d DEF Holds
    <3> QED
      BY <3>5, <1>6, <1>7, <1>n, <1>r
  <2>5. CASE f.commit
    <3>1. k <= Len(history[rsalt]) /\ history[rsalt][k] = f
      BY <2>5, <1>2, <1>3 DEF Inv, Remains
    <3>2. \A i \in from + 1..k : i \in 1..Len(history[rsalt])
      BY <3>1, <1>3, <1>9
    <3>3. \A i \in from + 1..k : At(i) = history[rsalt][i]
      BY <3>2, <1>9
    <3>4. \A i \in from + 1..k : history[rsalt][i].pgno \in DOMAIN m' /\ i <= m'[history[rsalt][i].pgno]
      BY <3>3, <2>1, <2>5, <1>5
    <3>5. \A p \in DOMAIN m' : m'[p] \in from + 1..k /\ history[rsalt][m'[p]].pgno = p
      BY <3>3, <2>2, <2>5, <1>5
    <3>6. IsMap(m, history[rsalt], k)'
      BY <3>4, <3>5, <1>2 DEF IsMap
    <3>7. (k <= Len(history[rsalt]) /\ (k = from \/ history[rsalt][k].commit))'
      BY <3>1, <2>5, <1>2
    <3>8. (\A i \in k + 1..frameN : ~At(i).commit)'
      <4>1. (k + 1..frameN)' = {}
        BY <1>2, <1>3
      <4> QED
        BY <4>1
    <3>9. Holds(k)'
      BY <2>3, <3>6, <3>7, <3>8, <1>d DEF Holds
    <3> QED
      BY <3>9, <1>6, <1>7, <1>n, <1>r
  <2> QED
    BY <2>4, <2>5
<1> QED
  BY <1>11, <1>14, <1>15, <1>16, <1>3, <1>9 DEF Holds

(* The reader stops only where the log it follows ends. *)
LEMMA ReadEOFKeepsReader ==
  ASSUME Inv, ReadEOF
  PROVE  ReaderOK'
<1>1. /\ UNCHANGED <<file, salt, mx, tx, written, history>>
      /\ UNCHANGED <<rsalt, rchksum, frameN, m, txMap, from, floor>>
      /\ pc = "reading" /\ pc' = "done" /\ ~Readable
  BY DEF ReadEOF, sqlite, reader
<1>2. PICK n \in from..frameN : Holds(n)
  BY <1>1 DEF Inv, ReaderOK
<1>3. /\ frameN \in Nat /\ frameN <= Len(file) /\ Len(file) \in Nat /\ n \in Nat /\ floor \in Nat
      /\ floor <= mx /\ mx \in Nat /\ tx \in Nat /\ mx <= tx /\ tx <= Len(file) /\ rsalt \in 1..salt
  BY <1>1 DEF Inv, Shape, ReaderOK
<1>4. n >= floor
  <2>1. CASE Follows /\ \A i \in n + 1..frameN : ~At(i).commit
    <3>1. frameN >= floor
      <4>1. SUFFICES ASSUME frameN < floor PROVE FALSE
        BY <1>3
      <4>2. rsalt = salt
        BY <4>1, <1>3 DEF Inv, FloorOK
      <4> DEFINE k == frameN + 1
      <4>3. k \in 1..tx /\ frameN < Len(file) /\ (frameN = 0 <=> k = 1) /\ k - 1 = frameN
        BY <4>1, <1>3
      <4> HIDE DEF k
      <4>4. file[k].salt = salt
            /\ file[k].prev = IF k = 1 THEN HeaderChecksum(salt) ELSE file[k - 1].checksum
        BY <4>3 DEF Inv, Chains, Linked
      <4>5. rchksum = IF frameN = 0 THEN HeaderChecksum(salt) ELSE file[frameN].checksum
        BY <2>1, <4>2 DEF Follows, At
      <4>6. file[k].prev = rchksum
        BY <4>3, <4>4, <4>5
      <4> QED
        BY <4>2, <4>3, <4>4, <4>6, <1>1 DEF k, Readable
    <3> QED
      BY <2>1, <3>1, <1>1, <1>2, FloorBelow
  <2>2. CASE Strays /\ n >= floor
    BY <2>2
  <2> QED
    BY <1>2, <2>1, <2>2 DEF Holds
<1>5. End' = End /\ \A i : At(i)' = At(i)
  BY <1>1 DEF End, At
<1>6. Follows => Follows'
  <2> SUFFICES ASSUME Follows PROVE Follows'
    OBVIOUS
  <2>1. (frameN <= End)'
        /\ (rchksum = IF frameN = 0 THEN HeaderChecksum(rsalt) ELSE At(frameN).checksum)'
    BY <1>1, <1>5 DEF Follows, At
  <2>2. (\A i \in from + 1..frameN : At(i).pgno \in DOMAIN txMap /\ i <= txMap[At(i).pgno])'
    BY <1>1, <1>5 DEF Follows
  <2>3. (\A p \in DOMAIN txMap : txMap[p] \in from + 1..frameN /\ At(txMap[p]).pgno = p)'
    BY <1>1 DEF Follows, At
  <2> QED
    BY <2>1, <2>2, <2>3 DEF Follows
<1>7. Strays => Strays'
  BY <1>1, <1>5 DEF Strays
<1>8. Holds(n)'
  <2>1. IsMap(m, history[rsalt], n)'
        /\ (n <= Len(history[rsalt]) /\ (n = from \/ history[rsalt][n].commit))'
    BY <1>1, <1>2 DEF Holds, IsMap
  <2>2. (\A i \in n + 1..frameN : ~At(i).commit) => (\A i \in n + 1..frameN : ~At(i).commit)'
    BY <1>1, <1>5
  <2>3. (n >= floor)'
    BY <1>1, <1>4
  <2> QED
    BY <2>1, <2>2, <2>3, <1>2, <1>6, <1>7 DEF Holds
<1>9. n \in (from..frameN)' /\ (rsalt \in 1..salt)' /\ (pc # "idle")'
  BY <1>1, <1>3
<1> QED
  BY <1>8, <1>9 DEF ReaderOK

-----------------------------------------------------------------------------
LEMMA NoMapEmpty == DOMAIN NoMap = {} /\ NoMap = [p \in DOMAIN NoMap |-> NoMap[p]]
BY DEF NoMap

LEMMA InitInv == Init => Inv
<1> SUFFICES ASSUME Init PROVE Inv
  OBVIOUS
<1> USE SaltAssumption, FramesAssumption
<1>1. \A s \in 1..MaxSalt : history[s] = <<>> /\ Len(history[s]) = 0
  BY DEF Init
<1>2. Shape
  <2>1. 0 \in Checksum
    BY DEF Checksum
  <2>2. <<>> \in Seq(Frame) /\ Len(<<>>) = 0
    OBVIOUS
  <2>3. history \in [1..MaxSalt -> Seq(Frame)]
    BY <2>2 DEF Init
  <2> QED
    BY <2>1, <2>2, <2>3 DEF Init, Shape
<1>3. LogIsCommitted /\ Chains
  BY <1>1 DEF Init, LogIsCommitted, Chains, Linked
<1>4. Unique /\ Remains
  <2>1. Len(file) = 0
    BY DEF Init
  <2>2. \A i \in Nat : \A f \in Frame : ~Occurs(i, f)
    BY <2>1, <1>1 DEF Occurs
  <2> QED
    BY <2>1, <2>2 DEF Unique, Remains
<1>5. Maps /\ FloorOK /\ ReaderOK
  BY NoMapEmpty DEF Init, Maps, FloorOK, ReaderOK
<1> QED
  BY <1>2, <1>3, <1>4, <1>5 DEF Inv

LEMMA StepInv == Inv /\ [Next]_vars => Inv'
<1> SUFFICES ASSUME Inv, [Next]_vars PROVE Inv'
  OBVIOUS
<1>0. WALInv
  BY DEF Inv, WALInv
<1>m. UNCHANGED <<m, txMap>> => Maps'
  BY DEF Inv, Maps
<1>1. ASSUME Next PROVE Shape'
  BY <1>1, ShapeStep DEF Inv
<1>2. ASSUME NEW pgno \in Pages, NEW commit \in BOOLEAN, WriteFrame(pgno, commit) PROVE Inv'
  <2>1. Next
    BY <1>2 DEF Next
  <2>2. UNCHANGED <<m, txMap>>
    BY <1>2 DEF WriteFrame, reader
  <2> QED
    BY <2>1, <2>2, <1>0, <1>1, <1>2, <1>m, WriteKeepsWAL, WriteKeepsReader DEF Inv
<1>3. ASSUME Rollback PROVE Inv'
  <2>1. Next /\ UNCHANGED <<m, txMap>>
    BY <1>3 DEF Next, Rollback, reader
  <2> QED
    BY <2>1, <1>0, <1>1, <1>3, <1>m, RollbackKeepsWAL, RollbackKeepsReader DEF Inv
<1>4. ASSUME Restart PROVE Inv'
  <2>1. Next /\ UNCHANGED <<m, txMap>>
    BY <1>4 DEF Next, Restart, reader
  <2> QED
    BY <2>1, <1>0, <1>1, <1>4, <1>m, RestartKeepsWAL, RestartKeepsReader DEF Inv
<1>5. ASSUME New PROVE Inv'
  <2>1. Next /\ UNCHANGED <<m, txMap>> /\ UNCHANGED sqlite
    BY <1>5 DEF Next, New
  <2>2. FloorOK' /\ ReaderOK'
    BY <1>5, NewReader DEF New
  <2> QED
    BY <2>1, <2>2, <1>0, <1>1, <1>m, ReaderKeepsWAL DEF Inv
<1>6. ASSUME NEW s \in 1..MaxSalt, NEW n \in 1..MaxFrames, NewWithOffset(s, n) PROVE Inv'
  <2>1. Next /\ UNCHANGED <<m, txMap>> /\ UNCHANGED sqlite
    BY <1>6 DEF Next, NewWithOffset
  <2>2. FloorOK' /\ ReaderOK'
    <3>1. CASE n <= Len(file) /\ file[n].salt = s
      BY <3>1, <1>6, NewReaderWithOffset
    <3>2. CASE ~(n <= Len(file) /\ file[n].salt = s)
      <4>1. /\ rsalt' = salt /\ rchksum' = HeaderChecksum(salt) /\ frameN' = 0 /\ from' = 0
            /\ pc' = "reading" /\ floor' = mx /\ pc = "idle"
        BY <3>2, <1>6 DEF NewWithOffset
      <4> QED
        BY <4>1, <2>1, NewReader
    <3> QED
      BY <3>1, <3>2
  <2> QED
    BY <2>1, <2>2, <1>0, <1>1, <1>m, ReaderKeepsWAL DEF Inv
<1>7. ASSUME ReadFrame PROVE Inv'
  <2>1. Next /\ UNCHANGED sqlite
    BY <1>7 DEF Next, ReadFrame
  <2> QED
    BY <2>1, <1>0, <1>1, <1>7, ReaderKeepsWAL, ReadFrameKeepsReader DEF Inv
<1>8. ASSUME ReadEOF PROVE Inv'
  <2>1. Next /\ UNCHANGED sqlite /\ UNCHANGED <<m, txMap, rsalt, floor>>
    BY <1>8 DEF Next, ReadEOF, reader
  <2>2. FloorOK'
    BY <2>1 DEF Inv, FloorOK, sqlite
  <2> QED
    BY <2>1, <2>2, <1>0, <1>1, <1>8, <1>m, ReaderKeepsWAL, ReadEOFKeepsReader DEF Inv
<1>9. ASSUME Forget PROVE Inv'
  <2>1. Next /\ UNCHANGED sqlite
    BY <1>9 DEF Next, Forget
  <2>2. Maps' /\ FloorOK' /\ ReaderOK'
    BY <1>9, NoMapEmpty DEF Forget, Maps, FloorOK, ReaderOK
  <2> QED
    BY <2>1, <2>2, <1>0, <1>1, ReaderKeepsWAL DEF Inv
<1>10. ASSUME UNCHANGED vars PROVE Inv'
  <2>1. /\ UNCHANGED sqlite /\ UNCHANGED <<file, salt, mx, tx, written, history>>
        /\ UNCHANGED <<pc, rsalt, rchksum, frameN, m, txMap, from, floor>>
    BY <1>10 DEF vars, sqlite, reader
  <2>2. Shape' /\ FloorOK'
    BY <2>1 DEF Inv, Shape, FloorOK
  <2>3. ReaderOK'
    BY <2>1 DEF Inv, ReaderOK, Holds, IsMap, Follows, Strays, End, At
  <2> QED
    BY <2>1, <2>2, <2>3, <1>0, <1>m, ReaderKeepsWAL DEF Inv
<1> QED
  BY <1>2, <1>3, <1>4, <1>5, <1>6, <1>7, <1>8, <1>9, <1>10 DEF Next

(* The WAL's logs are chains of frames with checksums of their own, and the
   reader either follows such a chain or has left it for good. *)
THEOREM Invariance == Spec => []Inv
BY InitInv, StepInv, PTL DEF Spec

(* A function that the invariant describes is the page map of the property. *)
LEMMA MapIsMapOf ==
  ASSUME NEW log, NEW n \in Nat, from \in Nat, IsMap(m, log, n), m = [p \in DOMAIN m |-> m[p]]
  PROVE  m = MapOf(log, n)
<1> DEFINE D == {log[i].pgno : i \in from + 1..n}
<1>1. DOMAIN m = D
  BY DEF IsMap
<1>2. ASSUME NEW p \in D PROVE m[p] = LastAt(log, p, n)
  <2> DEFINE P(i) == log[i].pgno = p /\ \A j \in i + 1..n : log[j].pgno # p
  <2>1. m[p] \in from + 1..n /\ log[m[p]].pgno = p
    BY <1>1 DEF IsMap
  <2>2. ASSUME NEW j \in m[p] + 1..n PROVE log[j].pgno # p
    <3>1. j \in from + 1..n /\ ~(j <= m[p])
      BY <2>1
    <3> QED
      BY <3>1 DEF IsMap
  <2>3. P(m[p])
    BY <2>1, <2>2
  <2>4. ASSUME NEW i \in from + 1..n, P(i) PROVE i = m[p]
    <3>1. i <= m[p]
      BY <2>4 DEF IsMap
    <3>2. ~(i < m[p])
      <4>1. i < m[p] => m[p] \in i + 1..n
        BY <2>1
      <4> QED
        BY <4>1, <2>1, <2>4
    <3> QED
      BY <3>1, <3>2, <2>1
  <2> HIDE DEF P
  <2>5. (CHOOSE i \in from + 1..n : P(i)) = m[p]
    BY <2>1, <2>3, <2>4
  <2> QED
    BY <2>5 DEF P, LastAt
<1> QED
  BY <1>1, <1>2 DEF MapOf

(* PageMap returns the page map of the first so many transactions of one WAL,
   and of all those that were committed when it began unless that WAL was
   restarted, whatever SQLite writes, rolls back or restarts meanwhile. *)
THEOREM PageMapCommitted == Spec => []PageMapIsCommittedPrefix
<1>1. Inv => PageMapIsCommittedPrefix
  <2> SUFFICES ASSUME Inv, pc = "done"
               PROVE  \E n \in Ends(history[rsalt]) : n >= floor /\ m = MapOf(history[rsalt], n)
    BY DEF PageMapIsCommittedPrefix
  <2>1. PICK n \in from..frameN : Holds(n)
    BY DEF Inv, ReaderOK
  <2>2. n \in Nat /\ from \in Nat /\ from <= n
    BY DEF Inv, Shape
  <2>3. m = MapOf(history[rsalt], n)
    BY <2>1, <2>2, MapIsMapOf DEF Inv, Maps, Holds
  <2>4. n \in Ends(history[rsalt]) /\ n >= floor
    BY <2>1, <2>2 DEF Holds, Ends
  <2> QED
    BY <2>3, <2>4
<1> QED
  BY <1>1, Invariance, PTL

(* The variables keep their types: the reader never counts past the end of the
   file, and what it hands out is part of what it has read. *)
THEOREM TypeCorrect == Spec => []TypeOK
<1>1. Inv => TypeOK
  BY DEF Inv, Shape, Maps, TypeOK
<1> QED
  BY <1>1, Invariance, PTL

=============================================================================
