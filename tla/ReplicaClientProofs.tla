------------------------- MODULE ReplicaClientProofs -------------------------
(***************************************************************************)
(* Proofs about ReplicaClient: for any number of files and writers and     *)
(* however often calls fail, a file that was reported as written stays     *)
(* whole, and retention deletes what it was asked to and spares a later    *)
(* file.                                                                   *)
(***************************************************************************)
EXTENDS ReplicaClient, WellFoundedInduction, TLAPS

-----------------------------------------------------------------------------
(* The inductive invariant. *)

(* The variables without what the proofs do not need; records are records. *)
Shape ==
  /\ backend \in Backends
  /\ obj \in [File -> Content] /\ tmp \in [File -> Content]
  /\ wr \in [Writers -> 0..MaxFile]
  /\ told \in [File -> {"new", "stored", "dropped"}]
  /\ itr = [on |-> itr.on, cut |-> itr.cut, items |-> itr.items]
  /\ itr.on \in BOOLEAN /\ itr.cut \in Int
  /\ del = [on |-> del.on, cut |-> del.cut, infos |-> del.infos, asked |-> del.asked]
  /\ del.on \in BOOLEAN

Writes(w, f) == f # 0 /\ wr[w] = f

(* A file that is being filled belongs to the writer filling it; the final name
   is only filled in place by sftp, or when the ".tmp" file was shared. *)
FillsOwn ==
  \A f \in File :
    /\ obj[f] \in Writers =>
         /\ wr[obj[f]] = f
         /\ backend = "sftp" \/ (backend = "file" /\ f \in shared)
    /\ tmp[f] \in Writers => backend = "file" /\ wr[tmp[f]] = f

TwoShare ==
  \A f \in File : \A v, w \in Writers :
    Writes(v, f) /\ Writes(w, f) => v = w \/ f \in shared

(* A file that is neither shared nor written again was not stored before; it
   may have been deleted meanwhile if an attempt that failed left it behind,
   which on sftp it does not. *)
FirstTime ==
  \A f \in File : \A w \in Writers :
    Writes(w, f) /\ f \notin again \cup shared =>
      told[f] # "stored" /\ (backend = "sftp" => told[f] = "new")

(* What a writer fills it finds as it left it, unless it shares the file or, on
   sftp, the file was deleted under it. *)
TmpKept ==
  backend = "file" => \A f \in File : \A w \in Writers :
    Writes(w, f) /\ f \notin shared => tmp[f] = w
FinalKept ==
  backend = "sftp" => \A f \in File : \A w \in Writers :
    Writes(w, f) /\ f \notin shared => obj[f] = w \/ (obj[f] = "none" /\ f \in again)

(* On sftp, retention only looks at files that were stored once. *)
StoredOnce ==
  backend = "sftp" =>
    /\ \A f \in File : obj[f] = "whole" => told[f] # "new"
    /\ itr.on => \A f \in File : f < itr.cut => told[f] # "new"
    /\ \A k \in DOMAIN del.infos : told[k] # "new"

(* The list to delete lies below the target and before a file that stays. *)
ListOK ==
  /\ ~(itr.on /\ del.on)
  /\ itr.on => itr.items \subseteq Visible
  /\ ~del.on => DOMAIN del.infos = {} /\ del.asked = {}
  /\ DOMAIN del.infos \subseteq File /\ del.asked \subseteq File

SparesLast ==
  backend # "abs" => \A k \in DOMAIN del.infos :
    /\ del.infos[k] = k /\ k < del.cut
    /\ \E g \in Visible : g > k /\ g \notin DOMAIN del.infos

(* What was asked for is still on the list or gone, and nobody writes it. *)
AskedOK ==
  backend # "abs" => \A f \in del.asked :
    /\ \A w \in Writers : ~Writes(w, f)
    /\ f \in DOMAIN del.infos \/ obj[f] = "none"

Inv ==
  /\ Shape
  /\ FillsOwn /\ TwoShare /\ FirstTime /\ TmpKept /\ FinalKept /\ StoredOnce
  /\ StoredIsWhole /\ ListedIsWhole
  /\ ListOK /\ SparesLast /\ AskedOK

-----------------------------------------------------------------------------
(* WriteLTXFile. *)

LEMMA Basics ==
  /\ 0 \notin File /\ File \subseteq Int /\ File \subseteq 0..MaxFile
  /\ "none" \notin Writers /\ "whole" \notin Writers /\ "torn" \notin Writers
  /\ Writers \subseteq Content /\ {"none", "whole", "torn"} \subseteq Content
BY BoundAssumption, WriterAssumption DEF File, Content

(* A write removes no file and leaves retention alone. *)
LEMMA WriteKeepsLists ==
  ASSUME ListOK, SparesLast, backend' = backend, itr' = itr,
         del'.on = del.on, del'.cut = del.cut, del'.infos = del.infos,
         del'.asked \subseteq del.asked,
         \A g \in File : obj[g] # "none" => obj'[g] # "none"
  PROVE  ListOK' /\ SparesLast'
<1>1. Visible \subseteq Visible'
  BY DEF Visible
<1>2. ListOK'
  BY <1>1 DEF ListOK
<1>3. SparesLast'
  BY <1>1 DEF SparesLast
<1> QED BY <1>2, <1>3

LEMMA WriteStartKeepsInv ==
  ASSUME Inv, NEW w \in Writers, NEW f \in File, WriteStart(w, f)
  PROVE  Inv'
<1> USE Basics DEF Writes
<1>1. /\ backend' = backend /\ told' = told /\ failed' = failed /\ itr' = itr
      /\ wr[w] = 0 /\ wr'[w] = f /\ \A v \in Writers : v # w => wr'[v] = wr[v]
      /\ wr' \in [Writers -> 0..MaxFile]
  BY DEF WriteStart, MayWrite, Inv, Shape
<1>2. /\ obj' \in [File -> Content] /\ tmp' \in [File -> Content]
      /\ \A g \in File : g # f => obj'[g] = obj[g] /\ tmp'[g] = tmp[g]
      /\ IF backend = "sftp" THEN obj'[f] = w ELSE obj'[f] = obj[f]
      /\ IF backend = "file" THEN tmp'[f] = w ELSE tmp'[f] = tmp[f]
  BY DEF WriteStart, Inv, Shape
<1>3. /\ again \subseteq again' /\ shared \subseteq shared'
      /\ told[f] # "new" => f \in again'
      /\ \A v \in Writers : wr[v] = f => f \in shared'
  BY DEF WriteStart
<1>4. /\ del' = [del EXCEPT !.asked = @ \ {f}]
      /\ del'.on = del.on /\ del'.cut = del.cut /\ del'.infos = del.infos
      /\ del'.asked = del.asked \ {f}
      /\ del' = [on |-> del'.on, cut |-> del'.cut, infos |-> del'.infos, asked |-> del'.asked]
  BY DEF WriteStart, Inv, Shape
<1>5. Shape'
  BY <1>1, <1>2, <1>4 DEF Inv, Shape
<1>6. FillsOwn'
  BY <1>1, <1>2, <1>3 DEF Inv, Shape, FillsOwn
<1>7. TwoShare' /\ FirstTime'
  BY <1>1, <1>3 DEF Inv, Shape, TwoShare, FirstTime
<1>8. TmpKept'
  BY <1>1, <1>2, <1>3 DEF Inv, Shape, TmpKept
<1>9. FinalKept'
  BY <1>1, <1>2, <1>3 DEF Inv, Shape, FinalKept
<1>10. StoredOnce'
  BY <1>1, <1>2, <1>4 DEF Inv, Shape, StoredOnce
<1>11. StoredIsWhole'
  BY <1>1, <1>2, <1>3 DEF Inv, StoredIsWhole
<1>12. ListedIsWhole'
  BY <1>1, <1>2, <1>3 DEF Inv, ListedIsWhole, Visible
<1>13. ListOK' /\ SparesLast'
  BY <1>1, <1>2, <1>4, WriteKeepsLists DEF Inv
<1>14. AskedOK'
  BY <1>1, <1>2, <1>4 DEF Inv, AskedOK, ListOK
<1> QED BY <1>5, <1>6, <1>7, <1>8, <1>9, <1>10, <1>11, <1>12, <1>13, <1>14 DEF Inv

(* A copy that is over settles at most the file it was for. *)
LEMMA SettleIsLocal ==
  ASSUME Inv, NEW w \in Writers, NEW f \in File, wr[w] = f, NEW r \in Content
  PROVE  /\ Settle(obj, w, r) \in [File -> Content]
         /\ Settle(tmp, w, r) \in [File -> Content]
         /\ \A g \in File : g # f => Settle(obj, w, r)[g] = obj[g] /\ Settle(tmp, w, r)[g] = tmp[g]
         /\ Settle(obj, w, r)[f] = IF obj[f] = w THEN r ELSE obj[f]
         /\ Settle(tmp, w, r)[f] = IF tmp[f] = w THEN r ELSE tmp[f]
BY DEF Inv, Shape, FillsOwn, Settle

LEMMA WriteEndKeepsAsked ==
  ASSUME ListOK, AskedOK, NEW w \in Writers, NEW f \in File, wr[w] = f, wr'[w] = 0,
         \A v \in Writers : v # w => wr'[v] = wr[v],
         \A g \in File : g # f => obj'[g] = obj[g], del' = del, backend' = backend
  PROVE  AskedOK'
<1> SUFFICES ASSUME backend # "abs", NEW g \in del.asked
             PROVE  /\ \A v \in Writers : ~Writes(v, g)'
                    /\ g \in DOMAIN del.infos \/ obj'[g] = "none"
  BY DEF AskedOK, Writes
<1>1. g \in File /\ (\A v \in Writers : ~Writes(v, g)) /\ (g \in DOMAIN del.infos \/ obj[g] = "none")
  BY DEF AskedOK, ListOK
<1>2. g # f /\ g # 0
  BY <1>1, Basics DEF Writes
<1> QED BY <1>1, <1>2 DEF Writes

LEMMA WriteDoneKeepsInv ==
  ASSUME Inv, NEW w \in Writers, WriteDone(w)
  PROVE  Inv'
<1> USE Basics DEF Writes
<1>1. PICK f \in File : wr[w] = f
  BY DEF WriteDone, Inv, Shape, File
<1>2. /\ backend' = backend /\ again' = again /\ shared' = shared /\ itr' = itr /\ del' = del
      /\ wr'[w] = 0 /\ \A v \in Writers : v # w => wr'[v] = wr[v]
      /\ wr' \in [Writers -> 0..MaxFile]
      /\ told' \in [File -> {"new", "stored", "dropped"}] /\ told'[f] = "stored"
      /\ \A g \in File : g # f => told'[g] = told[g]
      /\ failed' = failed \ {f}
  BY <1>1, BoundAssumption DEF WriteDone, Inv, Shape
<1>3. FileWrite(w) \/ SFTPWrite(w) \/ ObjectWrite(w)
  BY DEF WriteDone
<1>4. CASE FileWrite(w)
  <2> DEFINE done == Settle(tmp, w, "whole")
             kept == Settle(obj, w, "whole")
  <2>1. /\ done \in [File -> Content] /\ kept \in [File -> Content]
        /\ \A g \in File : g # f => kept[g] = obj[g] /\ done[g] = tmp[g]
        /\ done[f] = IF tmp[f] = w THEN "whole" ELSE tmp[f]
    BY <1>1, SettleIsLocal
  <2>2. /\ backend = "file" /\ tmp[f] # "none"
        /\ obj' = [kept EXCEPT ![f] = done[f]] /\ tmp' = [done EXCEPT ![f] = "none"]
    BY <1>1, <1>4 DEF FileWrite
  <2> HIDE DEF done, kept
  <2>3. /\ obj' \in [File -> Content] /\ tmp' \in [File -> Content]
        /\ \A g \in File : g # f => obj'[g] = obj[g] /\ tmp'[g] = tmp[g]
        /\ obj'[f] = IF tmp[f] = w THEN "whole" ELSE tmp[f]
        /\ tmp'[f] = "none" /\ obj'[f] # "none"
    BY <2>1, <2>2
  <2>4. /\ f \notin shared => obj'[f] = "whole"
        /\ obj'[f] \in Writers => obj'[f] # w /\ wr[obj'[f]] = f /\ f \in shared
    BY <1>1, <2>2, <2>3 DEF Inv, Shape, TmpKept, FillsOwn, TwoShare
  <2>5. Shape'
    BY <1>2, <2>3 DEF Inv, Shape
  <2>6. FillsOwn'
    BY <1>1, <1>2, <2>2, <2>3, <2>4 DEF Inv, Shape, FillsOwn
  <2>7. TwoShare' /\ FirstTime'
    BY <1>1, <1>2 DEF Inv, Shape, TwoShare, FirstTime
  <2>8. TmpKept'
    BY <1>1, <1>2, <2>2, <2>3 DEF Inv, Shape, TmpKept, TwoShare
  <2>9. FinalKept' /\ StoredOnce'
    BY <1>2, <2>2 DEF FinalKept, StoredOnce
  <2>10. StoredIsWhole'
    BY <1>2, <2>2, <2>3, <2>4 DEF Inv, StoredIsWhole
  <2>11. ListedIsWhole'
    BY <1>2, <2>2, <2>3, <2>4 DEF Inv, ListedIsWhole, Visible
  <2>12. ListOK' /\ SparesLast'
    BY <1>2, <2>3, WriteKeepsLists DEF Inv
  <2>13. AskedOK'
    BY <1>1, <1>2, <2>3, WriteEndKeepsAsked DEF Inv
  <2> QED BY <2>5, <2>6, <2>7, <2>8, <2>9, <2>10, <2>11, <2>12, <2>13 DEF Inv
<1>5. CASE SFTPWrite(w)
  <2>1. /\ backend = "sftp" /\ tmp' = tmp /\ obj' \in [File -> Content]
        /\ \A g \in File : g # f => obj'[g] = obj[g]
        /\ obj'[f] = IF obj[f] = w THEN "whole" ELSE obj[f]
    BY <1>1, <1>5, SettleIsLocal DEF SFTPWrite
  <2>2. f \notin shared => obj'[f] = "whole" \/ (obj'[f] = "none" /\ f \in again)
    BY <1>1, <2>1 DEF Inv, Shape, FinalKept
  <2>3. Shape'
    BY <1>2, <2>1 DEF Inv, Shape
  <2>4. FillsOwn'
    BY <1>1, <1>2, <2>1 DEF Inv, Shape, FillsOwn
  <2>5. TwoShare' /\ FirstTime'
    BY <1>1, <1>2 DEF Inv, Shape, TwoShare, FirstTime
  <2>6. TmpKept' /\ FinalKept'
    BY <1>1, <1>2, <2>1 DEF Inv, Shape, TmpKept, FinalKept, TwoShare
  <2>7. StoredOnce'
    BY <1>2, <2>1 DEF Inv, Shape, StoredOnce, ListOK
  <2>8. StoredIsWhole'
    BY <1>2, <2>1, <2>2 DEF Inv, StoredIsWhole
  <2>9. ListedIsWhole'
    BY <1>1, <1>2, <2>1, <2>2 DEF Inv, Shape, ListedIsWhole, Visible
  <2>10. ListOK' /\ SparesLast'
    BY <1>2, <2>1, WriteKeepsLists DEF Inv
  <2>11. AskedOK'
    BY <1>1, <1>2, <2>1, WriteEndKeepsAsked DEF Inv
  <2> QED BY <2>3, <2>4, <2>5, <2>6, <2>7, <2>8, <2>9, <2>10, <2>11 DEF Inv
<1>6. CASE ObjectWrite(w)
  <2>1. /\ backend \in {"s3", "gcs", "abs"} /\ tmp' = tmp /\ obj' \in [File -> Content]
        /\ \A g \in File : g # f => obj'[g] = obj[g]
        /\ obj'[f] = "whole"
    BY <1>1, <1>6 DEF ObjectWrite, Inv, Shape
  <2>2. Shape'
    BY <1>2, <2>1 DEF Inv, Shape
  <2>3. FillsOwn'
    BY <1>1, <1>2, <2>1 DEF Inv, Shape, FillsOwn
  <2>4. TwoShare' /\ FirstTime'
    BY <1>1, <1>2 DEF Inv, Shape, TwoShare, FirstTime
  <2>5. TmpKept' /\ FinalKept' /\ StoredOnce'
    BY <1>2, <2>1 DEF TmpKept, FinalKept, StoredOnce
  <2>6. StoredIsWhole'
    BY <1>2, <2>1 DEF Inv, StoredIsWhole
  <2>7. ListedIsWhole'
    BY <1>2, <2>1 DEF Inv, ListedIsWhole, Visible
  <2>8. ListOK' /\ SparesLast'
    BY <1>2, <2>1, WriteKeepsLists DEF Inv
  <2>9. AskedOK'
    BY <1>1, <1>2, <2>1, WriteEndKeepsAsked DEF Inv
  <2> QED BY <2>2, <2>3, <2>4, <2>5, <2>6, <2>7, <2>8, <2>9 DEF Inv
<1> QED BY <1>3, <1>4, <1>5, <1>6

LEMMA WriteFailKeepsInv ==
  ASSUME Inv, NEW w \in Writers, WriteFail(w)
  PROVE  Inv'
<1> USE Basics DEF Writes
<1>1. PICK f \in File : wr[w] = f
  BY DEF WriteFail, Inv, Shape, File
<1>2. /\ backend' = backend /\ again' = again /\ shared' = shared /\ itr' = itr /\ del' = del
      /\ wr'[w] = 0 /\ \A v \in Writers : v # w => wr'[v] = wr[v]
      /\ wr' \in [Writers -> 0..MaxFile]
      /\ told' = told /\ failed' = failed \cup {f}
  BY <1>1, BoundAssumption DEF WriteFail, Inv, Shape
<1>3. /\ obj' \in [File -> Content] /\ tmp' \in [File -> Content]
      /\ \A g \in File : g # f => obj'[g] = obj[g] /\ tmp'[g] = tmp[g]
      /\ tmp'[f] = IF tmp[f] = w THEN "torn" ELSE tmp[f]
      /\ backend = "sftp" => obj'[f] = IF obj[f] = w THEN "torn" ELSE obj[f]
      /\ backend = "file" =>
           \/ obj'[f] = IF obj[f] = w THEN "torn" ELSE obj[f]
           \/ obj'[f] = IF obj[f] = w THEN "whole" ELSE obj[f]
      /\ backend \in {"s3", "abs"} => obj'[f] \in {obj[f], "whole"}
      /\ backend = "gcs" => obj'[f] \in {obj[f], "whole", "torn"}
  <2>1. CASE obj' \in Leftover(w) /\ tmp' = Settle(tmp, w, "torn")
    <3>1. /\ tmp' \in [File -> Content] /\ \A g \in File : g # f => tmp'[g] = tmp[g]
          /\ tmp'[f] = IF tmp[f] = w THEN "torn" ELSE tmp[f]
      BY <1>1, <2>1, SettleIsLocal
    <3>2. CASE backend \in {"file", "sftp"}
      <4>1. obj' = Settle(obj, w, "torn")
        BY <2>1, <3>2 DEF Leftover
      <4> QED BY <1>1, <3>1, <3>2, <4>1, SettleIsLocal
    <3>3. CASE backend \in {"s3", "abs"}
      <4>1. obj' \in {obj, [obj EXCEPT ![f] = "whole"]}
        BY <1>1, <2>1, <3>3 DEF Leftover
      <4> QED BY <3>1, <3>3, <4>1 DEF Inv, Shape
    <3>4. CASE backend = "gcs"
      <4>1. obj' \in {obj, [obj EXCEPT ![f] = "whole"], [obj EXCEPT ![f] = "torn"]}
        BY <1>1, <2>1, <3>4 DEF Leftover
      <4> QED BY <3>1, <3>4, <4>1 DEF Inv, Shape
    <3> QED BY <3>2, <3>3, <3>4, BackendAssumption DEF Inv, Shape, AllBackends
  <2>2. CASE backend = "file" /\ tmp[f] = "none" /\ obj' = Settle(obj, w, "whole") /\ tmp' = tmp
    <3>1. /\ obj' \in [File -> Content] /\ \A g \in File : g # f => obj'[g] = obj[g]
          /\ obj'[f] = IF obj[f] = w THEN "whole" ELSE obj[f]
      BY <1>1, <2>2, SettleIsLocal
    <3>2. tmp \in [File -> Content] /\ tmp[f] # w
      BY <1>1, <2>2 DEF Inv, Shape
    <3> QED BY <2>2, <3>1, <3>2
  <2>3. \/ obj' \in Leftover(w) /\ tmp' = Settle(tmp, w, "torn")
        \/ backend = "file" /\ tmp[f] = "none" /\ obj' = Settle(obj, w, "whole") /\ tmp' = tmp
    BY <1>1 DEF WriteFail
  <2> QED BY <2>1, <2>2, <2>3
<1>4. /\ obj[f] # "none" => obj'[f] # "none"
      /\ obj[f] = "none" => obj'[f] \in {"none", "whole", "torn"}
      /\ obj'[f] \in Writers => obj'[f] = obj[f] /\ obj'[f] # w
      /\ backend \in {"file", "sftp"} => obj'[f] = obj[f] \/ obj[f] = w
  <2>1. backend \in {"file", "sftp", "s3", "gcs", "abs"} /\ obj[f] \in Content
    BY BackendAssumption DEF Inv, Shape, AllBackends
  <2>2. CASE backend \in {"file", "sftp"}
    BY <1>3, <2>2
  <2>3. CASE backend \in {"s3", "gcs", "abs"}
    <3>1. obj[f] \notin Writers
      BY <2>3 DEF Inv, FillsOwn
    <3> QED BY <1>3, <2>3, <3>1
  <2> QED BY <2>1, <2>2, <2>3
<1>5. Shape'
  BY <1>2, <1>3 DEF Inv, Shape
<1>6. FillsOwn'
  BY <1>1, <1>2, <1>3, <1>4 DEF Inv, Shape, FillsOwn
<1>7. TwoShare' /\ FirstTime'
  BY <1>1, <1>2 DEF Inv, Shape, TwoShare, FirstTime
<1>8. TmpKept' /\ FinalKept'
  BY <1>1, <1>2, <1>3 DEF Inv, Shape, TmpKept, FinalKept, TwoShare
<1>9. StoredOnce'
  BY <1>2, <1>3 DEF Inv, Shape, StoredOnce
<1>10. StoredIsWhole'
  BY <1>1, <1>2, <1>3, <1>4, BackendAssumption
     DEF Inv, Shape, StoredIsWhole, FirstTime, FillsOwn, AllBackends
<1>11. ListedIsWhole'
  BY <1>1, <1>2, <1>3, <1>4, BackendAssumption
     DEF Inv, Shape, ListedIsWhole, Visible, FillsOwn, AllBackends
<1>12. ListOK' /\ SparesLast'
  BY <1>2, <1>3, <1>4, WriteKeepsLists DEF Inv
<1>13. AskedOK'
  BY <1>1, <1>2, <1>3, WriteEndKeepsAsked DEF Inv
<1> QED BY <1>5, <1>6, <1>7, <1>8, <1>9, <1>10, <1>11, <1>12, <1>13 DEF Inv

LEMMA CrashKeepsInv ==
  ASSUME Inv, Crash
  PROVE  Inv'
<1> USE Basics DEF Writes
<1> DEFINE busy == {w \in Writers : wr[w] # 0}
<1>1. PICK late \in SUBSET {wr[w] : w \in IF backend \in {"file", "sftp"} THEN {} ELSE busy} :
        obj' = [f \in File |-> IF f \in late THEN "whole"
                              ELSE IF obj[f] \in Writers THEN "torn" ELSE obj[f]]
  BY DEF Crash
<1>2. /\ tmp' = [f \in File |-> IF tmp[f] \in Writers THEN "torn" ELSE tmp[f]]
      /\ failed' = failed \cup {wr[w] : w \in busy}
      /\ wr' = [w \in Writers |-> 0] /\ itr' = NoItr /\ del' = NoDel
      /\ backend' = backend /\ told' = told /\ again' = again /\ shared' = shared
  BY DEF Crash
<1>3. /\ backend \in {"file", "sftp"} => late = {}
      /\ \A f \in late : \E w \in Writers : wr[w] = f
  BY <1>1
<1>4. \A w \in Writers : wr[w] # 0 => wr[w] \in failed'
  BY <1>2
<1> HIDE DEF busy
<1>5. /\ obj' \in [File -> Content] /\ tmp' \in [File -> Content]
      /\ \A f \in File : obj'[f] \notin Writers /\ tmp'[f] \notin Writers
      /\ \A f \in File : obj'[f] = "torn" => obj[f] = "torn" \/ obj[f] \in Writers
      /\ \A f \in File : obj'[f] = "whole" => obj[f] = "whole" \/ f \in late
      /\ \A f \in File : obj[f] = "whole" => obj'[f] = "whole"
  BY <1>1, <1>2 DEF Inv, Shape
<1>6. Shape'
  BY <1>2, <1>5, BoundAssumption DEF Inv, Shape, NoItr, NoDel
<1>7. FillsOwn' /\ TwoShare' /\ FirstTime' /\ TmpKept' /\ FinalKept'
  BY <1>2, <1>5 DEF FillsOwn, TwoShare, FirstTime, TmpKept, FinalKept
<1>8. itr'.on = FALSE /\ del'.on = FALSE /\ DOMAIN del'.infos = {} /\ del'.asked = {}
  BY <1>2 DEF NoItr, NoDel
<1>9. StoredOnce'
  BY <1>2, <1>3, <1>5, <1>8 DEF Inv, StoredOnce
<1>10. StoredIsWhole'
  BY <1>2, <1>5 DEF Inv, StoredIsWhole
<1>11. ListedIsWhole'
  <2> SUFFICES ASSUME NEW f \in File, obj'[f] # "none", obj'[f] # "whole"
               PROVE  \/ backend = "sftp" /\ f \in failed' \cup shared
                      \/ backend = "gcs" /\ f \in failed' \cup shared
                      \/ backend = "file" /\ f \in shared
    BY <1>2 DEF ListedIsWhole, Visible
  <2>1. obj[f] = "torn" \/ obj[f] \in Writers
    BY <1>5 DEF Content
  <2>2. obj[f] # "none" /\ obj[f] # "whole"
    BY <2>1
  <2> QED BY <1>2, <1>4, <2>2 DEF Inv, ListedIsWhole, Visible
<1>12. ListOK' /\ SparesLast' /\ AskedOK'
  BY <1>8 DEF ListOK, SparesLast, AskedOK
<1> QED BY <1>6, <1>7, <1>9, <1>10, <1>11, <1>12 DEF Inv

-----------------------------------------------------------------------------
(* EnforceRetentionByTXID. *)

(* Listing changes nothing but the iterator and the list. *)
LEMMA ListingKeepsWriters ==
  ASSUME Inv, UNCHANGED <<backend, merged, obj, tmp, wr, history>>
  PROVE  /\ FillsOwn' /\ TwoShare' /\ FirstTime' /\ TmpKept' /\ FinalKept'
         /\ StoredIsWhole' /\ ListedIsWhole' /\ Visible' = Visible
BY DEF Inv, history, FillsOwn, TwoShare, FirstTime, TmpKept, FinalKept, StoredIsWhole,
       ListedIsWhole, Visible, Writes

LEMMA RetentionStartKeepsInv ==
  ASSUME Inv, NEW cut \in 2..(MaxFile + 1), RetentionStart(cut)
  PROVE  Inv'
<1>1. /\ UNCHANGED <<backend, merged, obj, tmp, wr, history>> /\ del' = del /\ ~del.on
      /\ \A f \in File : f < cut => obj[f] = "whole" \/ told[f] # "new"
      /\ itr' = [on |-> TRUE, cut |-> cut,
                 items |-> IF backend \in {"file", "sftp"} THEN Visible ELSE {}]
  BY DEF RetentionStart
<1>2. /\ FillsOwn' /\ TwoShare' /\ FirstTime' /\ TmpKept' /\ FinalKept'
      /\ StoredIsWhole' /\ ListedIsWhole' /\ Visible' = Visible
  BY <1>1, ListingKeepsWriters
<1>3. Shape'
  BY <1>1, BoundAssumption DEF Inv, Shape, history
<1>4. StoredOnce'
  BY <1>1 DEF Inv, StoredOnce, history
<1>5. ListOK' /\ SparesLast' /\ AskedOK'
  BY <1>1, <1>2 DEF Inv, ListOK, SparesLast, AskedOK
<1> QED BY <1>2, <1>3, <1>4, <1>5 DEF Inv

LEMMA NextItemKeepsInv ==
  ASSUME Inv, NextItem
  PROVE  Inv'
<1>1. PICK f \in Ahead : itr' = [itr EXCEPT !.items = @ \cup {f}]
  BY DEF NextItem
<1>2. /\ UNCHANGED <<backend, merged, obj, tmp, wr, history>> /\ del' = del
      /\ itr.on /\ f \in Visible
  BY <1>1 DEF NextItem, Ahead
<1>3. /\ itr'.on = itr.on /\ itr'.cut = itr.cut /\ itr'.items = itr.items \cup {f}
      /\ itr' = [on |-> itr'.on, cut |-> itr'.cut, items |-> itr'.items]
  BY <1>1 DEF Inv, Shape
<1>4. /\ FillsOwn' /\ TwoShare' /\ FirstTime' /\ TmpKept' /\ FinalKept'
      /\ StoredIsWhole' /\ ListedIsWhole' /\ Visible' = Visible
  BY <1>2, ListingKeepsWriters
<1>5. Shape'
  BY <1>2, <1>3 DEF Inv, Shape, history
<1>6. StoredOnce'
  BY <1>2, <1>3 DEF Inv, StoredOnce, history
<1>7. ListOK' /\ SparesLast' /\ AskedOK'
  BY <1>2, <1>3, <1>4 DEF Inv, ListOK, SparesLast, AskedOK, Writes
<1> QED BY <1>4, <1>5, <1>6, <1>7 DEF Inv

(* A set of files that is not empty has a last one. *)
LEMMA FilesHaveLast ==
  ASSUME NEW S \in SUBSET File, S # {}
  PROVE  \E g \in S : \A f \in S : f <= g
<1> DEFINE R == OpToRel(<, Nat)
           T == {n \in Nat : \E f \in S : n = MaxFile - f}
<1>1. IsWellFoundedOn(R, Nat)
  BY NatLessThanWellFounded
<1>2. T \in SUBSET Nat
  OBVIOUS
<1>3. T # {}
  <2>1. PICK f \in S : TRUE
    OBVIOUS
  <2>2. MaxFile - f \in T
    BY BoundAssumption DEF File
  <2> QED BY <2>2
<1>4. PICK x \in T : \A y \in T : ~(<<y, x>> \in R)
  <2> HIDE DEF R, T
  <2> QED BY <1>1, <1>2, <1>3, WFMin
<1>5. PICK g \in S : x = MaxFile - g
  BY <1>4
<1>6. ASSUME NEW f \in S PROVE f <= g
  <2>1. f \in File /\ g \in File /\ MaxFile \in Nat
    BY BoundAssumption
  <2>2. MaxFile - f \in Nat /\ MaxFile - f \in T
    BY <2>1 DEF File
  <2>3. ~(MaxFile - f < x)
    <3>1. <<MaxFile - f, x>> \in Nat \X Nat
      BY <1>2, <1>4, <2>2
    <3>2. ~(<<MaxFile - f, x>> \in R)
      BY <1>4, <2>2
    <3> QED BY <3>1, <3>2 DEF OpToRel
  <2> QED BY <1>5, <2>1, <2>3 DEF File
<1> QED BY <1>6

LEMMA RetentionListedKeepsInv ==
  ASSUME Inv, NEW complete, RetentionListed(complete)
  PROVE  Inv'
<1> USE Basics DEF Writes
<1>1. /\ UNCHANGED <<backend, merged, obj, tmp, wr, history>> /\ itr.on /\ itr' = NoItr
      /\ del' = [on |-> TRUE, cut |-> itr.cut, infos |-> [f \in Marked |-> Item(f)],
                 asked |-> {Item(f) : f \in Marked} \ {wr[w] : w \in Writers}]
  BY DEF RetentionListed
<1>2. /\ FillsOwn' /\ TwoShare' /\ FirstTime' /\ TmpKept' /\ FinalKept'
      /\ StoredIsWhole' /\ ListedIsWhole' /\ Visible' = Visible
  BY <1>1, ListingKeepsWriters
<1>3. /\ itr.items \in SUBSET File /\ itr.items \subseteq Visible
      /\ Marked \subseteq itr.items /\ \A k \in Marked : k < itr.cut
      /\ backend # "abs" => \A k \in itr.items : k \in Marked => \E g \in itr.items : k < g
  BY <1>1 DEF Inv, ListOK, Visible, Marked
<1>4. /\ itr'.on = FALSE /\ del'.on = TRUE /\ del'.cut = itr.cut
      /\ DOMAIN del'.infos = Marked /\ \A k \in Marked : del'.infos[k] = Item(k)
  BY <1>1 DEF NoItr
<1>5. backend # "abs" => \A f \in itr.items : Item(f) = f
  BY DEF Item
<1>6. /\ del'.asked \subseteq File
      /\ backend # "abs" => \A f \in del'.asked : f \in Marked /\ \A w \in Writers : wr[w] # f
  <2>1. CASE backend # "abs"
    BY <1>1, <1>3, <1>5, <2>1
  <2>2. CASE backend = "abs"
    <3>1. itr.items # {} => Max(itr.items) \in File
      <4>1. ASSUME itr.items # {}
            PROVE  \E g \in itr.items : \A f \in itr.items : g >= f
        <5>1. PICK g \in itr.items : \A f \in itr.items : f <= g
          BY <1>3, <4>1, FilesHaveLast
        <5> QED BY <1>3, <5>1
      <4> QED BY <1>3, <4>1 DEF Max
    <3>2. \A f \in Marked : Item(f) \in File
      BY <1>3, <2>2, <3>1 DEF Item
    <3> QED BY <1>1, <2>2, <3>2
  <2> QED BY <2>1, <2>2
<1>7. Shape'
  BY <1>1 DEF Inv, Shape, history, NoItr
<1>8. StoredOnce'
  <2>1. backend = "sftp" => \A k \in Marked : told[k] # "new"
    BY <1>1, <1>3 DEF Inv, StoredOnce
  <2> QED BY <1>1, <1>4, <2>1 DEF Inv, StoredOnce, history
<1>9. ListOK'
  BY <1>3, <1>4, <1>6 DEF ListOK
<1>10. SparesLast'
  <2> SUFFICES ASSUME backend # "abs", NEW k \in Marked
               PROVE  Item(k) = k /\ k < itr.cut /\ \E g \in Visible : g > k /\ g \notin Marked
    BY <1>1, <1>2, <1>4 DEF SparesLast
  <2>1. PICK g \in itr.items : \A f \in itr.items : f <= g
    BY <1>3, FilesHaveLast
  <2>2. g \in Int /\ k \in Int /\ \A h \in itr.items : h \in Int
    BY <1>3, <2>1
  <2>3. g \notin Marked
    BY <1>3, <2>1, <2>2
  <2>4. g > k
    BY <1>3, <2>1, <2>2, <2>3
  <2> QED BY <1>3, <1>5, <2>1, <2>3, <2>4
<1>11. AskedOK'
  BY <1>1, <1>4, <1>6 DEF AskedOK
<1> QED BY <1>2, <1>7, <1>8, <1>9, <1>10, <1>11 DEF Inv

(* A request removes files of its items only, and their callers know. *)
LEMMA DeleteRemoves ==
  ASSUME Inv, NEW S \in SUBSET Request, Delete(S)
  PROVE  /\ obj' \in [File -> Content] /\ told' \in [File -> {"new", "stored", "dropped"}]
         /\ UNCHANGED <<backend, merged, tmp, wr, failed, again, shared, itr>>
         /\ del.on /\ Request \subseteq DOMAIN del.infos
         /\ \A f \in File : obj'[f] = obj[f] \/ (obj'[f] = "none" /\ told'[f] = "dropped")
         /\ \A f \in File : told'[f] \in {told[f], "dropped"}
         /\ backend # "abs" => \A f \in File : obj'[f] = IF f \in S THEN "none" ELSE obj[f]
<1>1. /\ obj' = Without(UNION {Named(del.infos[k]) : k \in S})
      /\ told' = [f \in File |-> IF \E k \in Request : del.infos[k] = f THEN "dropped"
                                 ELSE told[f]]
      /\ UNCHANGED <<backend, merged, tmp, wr, failed, again, shared, itr>>
      /\ del.on
  BY DEF Delete
<1>2. Request \subseteq DOMAIN del.infos
  BY DEF Request
<1> DEFINE gone == UNION {Named(del.infos[k]) : k \in S}
<1>3. obj' \in [File -> Content] /\ \A f \in File : obj'[f] = IF f \in gone THEN "none" ELSE obj[f]
  BY <1>1, Basics DEF Without, Inv, Shape
<1>4. \A f \in gone : \E k \in Request : del.infos[k] = f
  BY DEF Named
<1>5. backend # "abs" => gone = S
  <2> SUFFICES ASSUME backend # "abs" PROVE gone = S
    OBVIOUS
  <2>1. \A k \in S : del.infos[k] = k
    BY <1>2 DEF Inv, SparesLast
  <2>2. \A k \in S : Named(del.infos[k]) = {k}
    BY <2>1 DEF Named
  <2> QED BY <2>2
<1> HIDE DEF gone
<1>6. told' \in [File -> {"new", "stored", "dropped"}] /\ \A f \in File : told'[f] \in {told[f], "dropped"}
  BY <1>1 DEF Inv, Shape
<1>7. \A f \in File : f \in gone => told'[f] = "dropped"
  BY <1>1, <1>4
<1> QED BY <1>1, <1>2, <1>3, <1>5, <1>6, <1>7

(* The writers and what is told of the files after a request. *)
LEMMA DeleteKeepsWriters ==
  ASSUME Inv, NEW S \in SUBSET Request, Delete(S)
  PROVE  FillsOwn' /\ TwoShare' /\ FirstTime' /\ TmpKept' /\ FinalKept'
         /\ StoredIsWhole' /\ ListedIsWhole'
<1> USE Basics DEF Writes
<1>1. /\ obj' \in [File -> Content] /\ told' \in [File -> {"new", "stored", "dropped"}]
      /\ UNCHANGED <<backend, merged, tmp, wr, failed, again, shared, itr>>
      /\ del.on /\ Request \subseteq DOMAIN del.infos
      /\ \A f \in File : obj'[f] = obj[f] \/ (obj'[f] = "none" /\ told'[f] = "dropped")
      /\ \A f \in File : told'[f] \in {told[f], "dropped"}
  BY DeleteRemoves
<1>2. /\ backend = "sftp" => \A f \in File : f \notin S => obj'[f] = obj[f]
      /\ backend = "sftp" => \A f \in S : told[f] # "new"
  BY <1>1, DeleteRemoves DEF Inv, StoredOnce
<1>3. FillsOwn' /\ TwoShare' /\ TmpKept'
  BY <1>1 DEF Inv, Shape, FillsOwn, TwoShare, TmpKept
<1>4. FirstTime'
  <2> SUFFICES ASSUME NEW f \in File, NEW w \in Writers, Writes(w, f), f \notin again \cup shared
               PROVE  told'[f] # "stored" /\ (backend = "sftp" => told'[f] = "new")
    BY <1>1 DEF FirstTime
  <2>1. told[f] # "stored" /\ (backend = "sftp" => told[f] = "new")
    BY DEF Inv, FirstTime
  <2>2. backend = "sftp" => ~\E k \in Request : del.infos[k] = f
    BY <1>1, <2>1 DEF Inv, StoredOnce, SparesLast
  <2>3. told'[f] = IF \E k \in Request : del.infos[k] = f THEN "dropped" ELSE told[f]
    BY DEF Delete
  <2> QED BY <2>1, <2>2, <2>3
<1>5. FinalKept'
  <2> SUFFICES ASSUME backend = "sftp", NEW f \in File, NEW w \in Writers, Writes(w, f),
                      f \notin shared
               PROVE  obj'[f] = w \/ (obj'[f] = "none" /\ f \in again)
    BY <1>1 DEF FinalKept
  <2>1. CASE f \in S
    BY <1>1, <1>2, <2>1 DEF Inv, FirstTime, FinalKept
  <2>2. CASE f \notin S
    BY <1>2, <2>2 DEF Inv, FinalKept
  <2> QED BY <2>1, <2>2
<1>6. StoredIsWhole'
  BY <1>1 DEF Inv, StoredIsWhole
<1>7. ListedIsWhole'
  BY <1>1 DEF Inv, ListedIsWhole, Visible
<1> QED BY <1>3, <1>4, <1>5, <1>6, <1>7

LEMMA DeleteNextKeepsInv ==
  ASSUME Inv, DeleteNext
  PROVE  Inv'
<1> USE Basics DEF Writes
<1>1. Delete(Request) /\ del' = Rest
  BY DEF DeleteNext
<1>2. /\ obj' \in [File -> Content] /\ told' \in [File -> {"new", "stored", "dropped"}]
      /\ UNCHANGED <<backend, merged, tmp, wr, failed, again, shared, itr>>
      /\ del.on /\ Request \subseteq DOMAIN del.infos
      /\ \A f \in File : told'[f] \in {told[f], "dropped"}
      /\ \A f \in File : obj'[f] = obj[f] \/ obj'[f] = "none"
      /\ backend # "abs" => \A f \in File : obj'[f] = IF f \in Request THEN "none" ELSE obj[f]
  BY <1>1, DeleteRemoves
<1>3. /\ FillsOwn' /\ TwoShare' /\ FirstTime' /\ TmpKept' /\ FinalKept'
      /\ StoredIsWhole' /\ ListedIsWhole'
  BY <1>1, DeleteKeepsWriters
<1>4. /\ del' = [del EXCEPT !.infos = [k \in DOMAIN del.infos \ Request |-> del.infos[k]]]
      /\ del'.on = del.on /\ del'.cut = del.cut /\ del'.asked = del.asked
      /\ del'.infos = [k \in DOMAIN del.infos \ Request |-> del.infos[k]]
      /\ del' = [on |-> del'.on, cut |-> del'.cut, infos |-> del'.infos, asked |-> del'.asked]
  BY <1>1 DEF Rest, Restrict, Inv, Shape
<1>5. /\ DOMAIN del'.infos = DOMAIN del.infos \ Request
      /\ \A k \in DOMAIN del'.infos : del'.infos[k] = del.infos[k]
  BY <1>4
<1>6. Shape'
  BY <1>2, <1>4 DEF Inv, Shape
<1>7. StoredOnce'
  BY <1>2, <1>5 DEF Inv, StoredOnce, ListOK
<1>8. ListOK'
  BY <1>2, <1>4, <1>5 DEF Inv, ListOK
<1>9. SparesLast'
  <2> SUFFICES ASSUME backend # "abs", NEW k \in DOMAIN del.infos \ Request
               PROVE  /\ del.infos[k] = k /\ k < del.cut
                      /\ \E g \in Visible' : g > k /\ g \notin DOMAIN del.infos \ Request
    BY <1>2, <1>4, <1>5 DEF SparesLast
  <2>1. PICK g \in Visible : g > k /\ g \notin DOMAIN del.infos
    BY DEF Inv, SparesLast
  <2>2. g \in Visible'
    BY <1>2, <2>1 DEF Visible
  <2> QED BY <2>1, <2>2 DEF Inv, SparesLast
<1>10. AskedOK'
  BY <1>2, <1>4, <1>5 DEF Inv, AskedOK, ListOK
<1> QED BY <1>3, <1>6, <1>7, <1>8, <1>9, <1>10 DEF Inv

(* The list is dropped when it is done, or given up. *)
LEMMA DeleteEndsKeepsInv ==
  ASSUME Inv, DeleteDone \/ DeleteFail
  PROVE  Inv'
<1>1. /\ del' = NoDel /\ del'.on = FALSE /\ DOMAIN del'.infos = {} /\ del'.asked = {}
  <2>1. del' = NoDel
    BY DEF DeleteDone, DeleteFail
  <2> QED BY <2>1 DEF NoDel
<1>2. /\ obj' \in [File -> Content] /\ told' \in [File -> {"new", "stored", "dropped"}]
      /\ UNCHANGED <<backend, tmp, wr, itr>>
      /\ \A f \in File : told'[f] \in {told[f], "dropped"}
      /\ \A f \in File : obj'[f] \in {obj[f], "none"}
      /\ FillsOwn' /\ TwoShare' /\ FirstTime' /\ TmpKept' /\ FinalKept'
      /\ StoredIsWhole' /\ ListedIsWhole'
  <2>1. CASE DeleteDone
    <3>1. UNCHANGED <<backend, merged, obj, tmp, wr, history, itr>>
      BY <2>1 DEF DeleteDone
    <3> QED BY <3>1, ListingKeepsWriters DEF Inv, Shape, history
  <2>2. CASE DeleteFail
    <3>1. PICK S \in SUBSET Request : Delete(S)
      BY <2>2 DEF DeleteFail
    <3> QED BY <3>1, DeleteRemoves, DeleteKeepsWriters
  <2> QED BY <2>1, <2>2
<1>3. Shape'
  BY <1>1, <1>2 DEF Inv, Shape, NoDel
<1>4. itr'.on = FALSE
  <2>1. del.on
    BY DEF DeleteDone, DeleteFail, Delete
  <2> QED BY <1>2, <2>1 DEF Inv, ListOK, Shape
<1>5. StoredOnce'
  BY <1>1, <1>2, <1>4 DEF Inv, StoredOnce
<1>6. ListOK' /\ SparesLast' /\ AskedOK'
  BY <1>1, <1>4 DEF ListOK, SparesLast, AskedOK
<1> QED BY <1>2, <1>3, <1>5, <1>6 DEF Inv

-----------------------------------------------------------------------------
(* The invariant, and what it means. *)

LEMMA InitInv == Init => Inv
<1> SUFFICES ASSUME Init PROVE Inv
  OBVIOUS
<1>1. Shape /\ del.on = FALSE /\ itr.on = FALSE /\ DOMAIN del.infos = {} /\ del.asked = {}
  BY Basics, BoundAssumption DEF Init, Shape, NoItr, NoDel
<1>2. /\ FillsOwn /\ TwoShare /\ FirstTime /\ TmpKept /\ FinalKept /\ StoredOnce
      /\ StoredIsWhole /\ ListedIsWhole
  BY <1>1, Basics DEF Init, FillsOwn, TwoShare, FirstTime, TmpKept, FinalKept, StoredOnce,
                      StoredIsWhole, ListedIsWhole, Visible, Writes
<1>3. ListOK /\ SparesLast /\ AskedOK
  BY <1>1 DEF ListOK, SparesLast, AskedOK
<1> QED BY <1>1, <1>2, <1>3 DEF Inv

LEMMA NextKeepsInv ==
  ASSUME Inv, [Next]_vars
  PROVE  Inv'
<1>1. CASE UNCHANGED vars
  BY <1>1 DEF vars, history, Inv, Shape, FillsOwn, TwoShare, FirstTime, TmpKept, FinalKept,
              StoredOnce, StoredIsWhole, ListedIsWhole, ListOK, SparesLast, AskedOK, Visible,
              Writes
<1> QED
  BY <1>1, WriteStartKeepsInv, WriteDoneKeepsInv, WriteFailKeepsInv, RetentionStartKeepsInv,
     NextItemKeepsInv, RetentionListedKeepsInv, DeleteNextKeepsInv, DeleteEndsKeepsInv,
     CrashKeepsInv DEF Next

(* Uploads, listings and deletions of one level fit together after every step
   of WriteLTXFile, LTXFiles, DeleteLTXFiles and a crash. *)
THEOREM Invariance == Spec => []Inv
BY InitInv, NextKeepsInv, PTL DEF Spec

(* The last item of a listing, which Item of abs returns, is an item. *)
LEMMA LastItemListed ==
  ASSUME NEW S \in SUBSET File, S # {}
  PROVE  Max(S) \in S
<1>1. PICK g \in S : \A f \in S : g >= f
  <2>1. PICK g \in S : \A f \in S : f <= g
    BY FilesHaveLast
  <2> QED BY <2>1 DEF File
<1> QED BY <1>1 DEF Max

(* What a step may do to the history, the listing and the list to delete. *)
Bookkeeping ==
  /\ merged \in BOOLEAN /\ failed \cup again \cup shared \subseteq File
  /\ itr.cut \in 0..MaxFile + 1 /\ itr.items \subseteq File
  /\ \A k \in DOMAIN del.infos : del.infos[k] \in File

LEMMA TypeIs == ASSUME Inv PROVE TypeOK <=> Bookkeeping
BY DEF Inv, Shape, ListOK, TypeOK, Bookkeeping

LEMMA BookkeepingStep ==
  ASSUME Inv, Bookkeeping, [Next]_vars
  PROVE  Bookkeeping'
<1>0. \A w \in Writers : wr[w] # 0 => wr[w] \in File
  BY BoundAssumption DEF Inv, Shape, File
<1>1. CASE UNCHANGED vars
  BY <1>1 DEF vars, history, Bookkeeping
<1>2. ASSUME NEW w \in Writers, NEW f \in File, WriteStart(w, f) PROVE Bookkeeping'
  <2>1. del'.infos = del.infos
    BY <1>2 DEF WriteStart, Inv, Shape
  <2> QED BY <1>2, <2>1 DEF WriteStart, Bookkeeping
<1>3. ASSUME NEW w \in Writers, WriteDone(w) \/ WriteFail(w) PROVE Bookkeeping'
  BY <1>0, <1>3 DEF WriteDone, WriteFail, Bookkeeping
<1>4. ASSUME NEW cut \in 2..(MaxFile + 1), RetentionStart(cut) PROVE Bookkeeping'
  <2>1. itr'.cut = cut /\ itr'.items \subseteq File /\ cut \in 0..MaxFile + 1
    BY <1>4, BoundAssumption DEF RetentionStart, Visible
  <2> QED BY <1>4, <2>1 DEF RetentionStart, Bookkeeping, history
<1>5. CASE NextItem
  <2>1. itr'.cut = itr.cut /\ itr'.items \subseteq itr.items \cup Visible
    BY <1>5 DEF NextItem, Ahead, Inv, Shape
  <2> QED BY <1>5, <2>1 DEF NextItem, Bookkeeping, history, Visible
<1>6. ASSUME NEW complete \in BOOLEAN, RetentionListed(complete) PROVE Bookkeeping'
  <2>1. itr'.cut \in 0..MaxFile + 1 /\ itr'.items = {}
    BY <1>6, BoundAssumption DEF RetentionListed, NoItr
  <2>2. ASSUME NEW f \in Marked PROVE Item(f) \in File
    <3>1. f \in itr.items /\ itr.items \in SUBSET File
      BY <2>2 DEF Marked, Bookkeeping
    <3>2. Max(itr.items) \in File
      BY <3>1, LastItemListed
    <3> QED BY <3>1, <3>2 DEF Item
  <2>3. del'.infos = [f \in Marked |-> Item(f)]
    BY <1>6 DEF RetentionListed
  <2> QED BY <1>6, <2>1, <2>2, <2>3 DEF RetentionListed, Bookkeeping, history
<1>7. CASE DeleteNext
  <2>1. del'.infos = Restrict(del.infos, DOMAIN del.infos \ Request)
    BY <1>7 DEF DeleteNext, Rest, Inv, Shape
  <2>2. \A k \in DOMAIN del'.infos : k \in DOMAIN del.infos /\ del'.infos[k] = del.infos[k]
    BY <2>1 DEF Restrict
  <2> QED BY <1>7, <2>2 DEF DeleteNext, Delete, Bookkeeping
<1>8. CASE DeleteDone \/ DeleteFail
  <2>1. DOMAIN del'.infos = {}
    BY <1>8 DEF DeleteDone, DeleteFail, NoDel
  <2> QED BY <1>8, <2>1 DEF DeleteDone, DeleteFail, Delete, Bookkeeping, history
<1>9. CASE Crash
  <2>1. DOMAIN del'.infos = {} /\ itr'.cut \in 0..MaxFile + 1 /\ itr'.items = {}
    BY <1>9, BoundAssumption DEF Crash, NoDel, NoItr
  <2> QED BY <1>0, <1>9, <2>1 DEF Crash, Bookkeeping
<1> QED
  BY <1>1, <1>2, <1>3, <1>4, <1>5, <1>6, <1>7, <1>8, <1>9 DEF Next

(* The variables keep their types: what is listed, marked and about to be
   deleted are files of the level, whatever Item returns. *)
THEOREM TypeCorrect == Spec => []TypeOK
<1>1. Init => Bookkeeping
  BY BoundAssumption DEF Init, Bookkeeping, NoItr, NoDel
<1>2. Inv /\ Bookkeeping /\ [Next]_vars => Bookkeeping'
  BY BookkeepingStep
<1>3. Inv /\ Bookkeeping => TypeOK
  BY TypeIs
<1> QED BY <1>1, <1>2, <1>3, Invariance, PTL DEF Spec

(* A file that WriteLTXFile reported stays there, complete, until its deletion
   is asked for, with any number of writers, whatever fails or dies beside it
   and whatever the client, but for the exceptions the property names. *)
THEOREM StoredStaysWhole == Spec => []StoredIsWhole
<1>1. Inv => StoredIsWhole
  BY DEF Inv
<1> QED BY <1>1, Invariance, PTL

(* What LTXFiles lists is complete, but for the exceptions it names. *)
THEOREM ListsWholeFiles == Spec => []ListedIsWhole
<1>1. Inv => ListedIsWhole
  BY DEF Inv
<1> QED BY <1>1, Invariance, PTL

(* Every client but abs returns from DeleteLTXFiles without an error only if
   what it was asked to delete is gone or was uploaded again. *)
THEOREM DeletesWhatItReports ==
  ASSUME "abs" \notin Backends
  PROVE  Spec => DeleteHonest
<1>1. Inv /\ [Next]_vars => [DeleteDone => del.asked \cap Visible = {}]_vars
  <2> SUFFICES ASSUME Inv, DeleteDone PROVE del.asked \cap Visible = {}
    OBVIOUS
  <2>1. backend # "abs" /\ DOMAIN del.infos = {}
    BY DEF Inv, Shape, DeleteDone
  <2> QED BY <2>1 DEF Inv, AskedOK, Visible
<1> QED BY <1>1, Invariance, PTL DEF Spec, DeleteHonest

(* Every step but a deletion keeps what is visible. *)
LEMMA OnlyDeleteRemoves ==
  ASSUME Inv, [Next]_vars, NEW f \in Visible, obj'[f] = "none"
  PROVE  \E S \in SUBSET Request : Delete(S)
<1> USE Basics
<1>1. f \in File /\ obj[f] # "none"
  BY DEF Visible
<1>2. ASSUME NEW w \in Writers, NEW g \in File, WriteStart(w, g) PROVE FALSE
  BY <1>1, <1>2 DEF WriteStart, Inv, Shape
<1>3. ASSUME NEW w \in Writers, WriteDone(w) PROVE FALSE
  <2>1. PICK g \in File : wr[w] = g
    BY <1>3 DEF WriteDone, Inv, Shape, File
  <2>2. CASE FileWrite(w)
    BY <1>1, <2>1, <2>2 DEF FileWrite, Settle, Inv, Shape
  <2>3. CASE SFTPWrite(w)
    BY <1>1, <2>1, <2>3 DEF SFTPWrite, Settle, Inv, Shape
  <2>4. CASE ObjectWrite(w)
    BY <1>1, <2>1, <2>4 DEF ObjectWrite, Inv, Shape
  <2> QED BY <1>3, <2>2, <2>3, <2>4 DEF WriteDone
<1>4. ASSUME NEW w \in Writers, WriteFail(w) PROVE FALSE
  <2>1. PICK g \in File : wr[w] = g
    BY <1>4 DEF WriteFail, Inv, Shape, File
  <2>2. CASE obj' \in {Settle(obj, w, "torn"), Settle(obj, w, "whole")}
    BY <1>1, <2>2 DEF Settle
  <2>3. CASE obj' \in {obj, [obj EXCEPT ![g] = "whole"], [obj EXCEPT ![g] = "torn"]}
    BY <1>1, <2>3 DEF Inv, Shape
  <2>4. CASE obj' \in Leftover(w)
    <3>1. backend \in {"file", "sftp", "s3", "gcs", "abs"}
      BY BackendAssumption DEF Inv, Shape, AllBackends
    <3>2. backend \in {"file", "sftp"} => Leftover(w) = {Settle(obj, w, "torn")}
      BY DEF Leftover
    <3>3. backend \in {"s3", "abs"} => Leftover(w) = {obj, [obj EXCEPT ![g] = "whole"]}
      BY <2>1 DEF Leftover
    <3>4. backend = "gcs" =>
            Leftover(w) = {obj, [obj EXCEPT ![g] = "whole"], [obj EXCEPT ![g] = "torn"]}
      BY <2>1 DEF Leftover
    <3> QED BY <2>2, <2>3, <2>4, <3>1, <3>2, <3>3, <3>4
  <2> QED BY <1>4, <2>2, <2>4 DEF WriteFail
<1>5. CASE Crash
  BY <1>1, <1>5 DEF Crash, Inv, Shape
<1>6. CASE \/ UNCHANGED vars \/ NextItem \/ DeleteDone
           \/ \E cut \in 2..(MaxFile + 1) : RetentionStart(cut)
           \/ \E complete \in BOOLEAN : RetentionListed(complete)
  BY <1>1, <1>6 DEF vars, NextItem, DeleteDone, RetentionStart, RetentionListed
<1>7. CASE DeleteNext \/ DeleteFail
  BY <1>7 DEF DeleteNext, DeleteFail
<1> QED BY <1>2, <1>3, <1>4, <1>5, <1>6, <1>7 DEF Next

(* What EnforceRetentionByTXID makes disappear lies below its target, and a later
   file stays, with every client but abs and whatever is written meanwhile. *)
THEOREM RetentionStaysBelow ==
  ASSUME "abs" \notin Backends
  PROVE  Spec => RetentionBelow
<1>1. Inv /\ [Next]_vars =>
        [\A f \in Visible \ {g \in File : obj'[g] # "none"} :
           /\ f < del.cut
           /\ \E g \in File : g > f /\ obj'[g] # "none"]_vars
  <2> SUFFICES ASSUME Inv, [Next]_vars, NEW f \in Visible, obj'[f] = "none"
               PROVE  f < del.cut /\ \E g \in File : g > f /\ obj'[g] # "none"
    BY DEF Visible
  <2>1. PICK S \in SUBSET Request : Delete(S)
    BY OnlyDeleteRemoves
  <2>2. backend # "abs" /\ f \in File /\ obj[f] # "none"
    BY DEF Inv, Shape, Visible
  <2>3. /\ Request \subseteq DOMAIN del.infos
        /\ \A g \in File : obj'[g] = IF g \in S THEN "none" ELSE obj[g]
    BY <2>1, <2>2, DeleteRemoves
  <2>4. f \in DOMAIN del.infos
    BY <2>2, <2>3
  <2>5. PICK g \in Visible : g > f /\ g \notin DOMAIN del.infos
    BY <2>2, <2>4 DEF Inv, SparesLast
  <2> QED BY <2>2, <2>3, <2>4, <2>5 DEF Inv, SparesLast, Visible
<1> QED BY <1>1, Invariance, PTL DEF Spec, RetentionBelow

=============================================================================
