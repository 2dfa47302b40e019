---------------------------- MODULE ReplicaClient ----------------------------
(***************************************************************************)
(* The five replica clients, call by call: how WriteLTXFile makes a file   *)
(* visible, how LTXFiles iterates while files come and go, and how         *)
(* DeleteLTXFiles stops half way.  Their callers are Replica.Sync and      *)
(* DB.Compact (writes) and EnforceRetentionByTXID (list, then delete).     *)
(*                                                                         *)
(* One level of one replica.  The files of a level follow one another, so  *)
(* a file is its place in that order: at L0 file i is TXID i, above L0     *)
(* every file holds several TXIDs.                                         *)
(***************************************************************************)
EXTENDS Integers, FiniteSetsExt, Functions, TLC

CONSTANTS Backends,  \* the clients to look at: a subset of AllBackends
          Writers,   \* concurrent callers of WriteLTXFile at L0
          MaxFile,   \* bound: files written to the level
          MaxAgain,  \* bound: files uploaded again
          MaxFail,   \* bound: files whose last write failed, at one time
          MaxKeys    \* keys in one delete request of s3 (1000 in the code)

AllBackends == {"file", "sftp", "s3", "gcs", "abs"}
ASSUME BackendAssumption == Backends \subseteq AllBackends
ASSUME BoundAssumption == MaxFile \in Nat \ {0} /\ MaxKeys \in Nat \ {0}
ASSUME WriterAssumption == Writers \cap {"none", "whole", "torn"} = {}

VARIABLES
  backend, \* the client in use, fixed
  merged,  \* the level is above L0: its files hold several TXIDs; fixed
  obj,     \* file -> what is stored under its name: none, whole, torn, or the
           \* writer that truncated it and is still filling it
  tmp,     \* the same for its ".tmp" name (client file)
  wr,      \* writer -> the file it writes, 0 when idle
  told,    \* history: file -> what its callers know: new, stored or dropped
           \* (stored until its deletion was asked for)
  failed,  \* history: files whose last write to end failed or was cut off
  again,   \* history: files written again after they were stored
  shared,  \* history: files two writers wrote at the same time
  itr,     \* the iterator of EnforceRetentionByTXID and what it returned so far
  del      \* its DeleteLTXFiles: infos is what is left of its list, item -> the
           \* file its info names; as history, the target and the files asked
           \* for that nobody wrote since

File == 1..MaxFile
Content == {"none", "whole", "torn"} \cup Writers
Visible == {f \in File : obj[f] # "none"}

history == <<told, failed, again, shared>>
vars == <<backend, merged, obj, tmp, wr, history, itr, del>>

NoItr == [on |-> FALSE, cut |-> 0, items |-> {}]
NoDel == [on |-> FALSE, cut |-> 0, infos |-> <<>>, asked |-> {}]

Init ==
  /\ backend \in Backends /\ merged \in BOOLEAN
  /\ obj = [f \in File |-> "none"] /\ tmp = [f \in File |-> "none"]
  /\ wr = [w \in Writers |-> 0]
  /\ told = [f \in File |-> "new"]
  /\ failed = {} /\ again = {} /\ shared = {}
  /\ itr = NoItr /\ del = NoDel

-----------------------------------------------------------------------------
(* WriteLTXFile. *)

(* Replica.Sync uploads the file after the last one; if its position was
   cleared under it, it uploads files again that were uploaded before.  Above
   L0 there is one compaction at a time, and it never writes a file twice. *)
MayWrite(w, f) ==
  LET seen == Visible \cup {g \in File : told[g] # "new"}
  IN  /\ wr[w] = 0
      /\ merged => f \notin seen /\ \A v \in Writers : wr[v] = 0
      /\ \A g \in File : g < f => g \in seen
      /\ told[f] # "new" => Cardinality(again) < MaxAgain

(* The copy of writer w is over: whatever it was still filling is complete, or
   stays incomplete for good. *)
Settle(content, w, result) ==
  [f \in File |-> IF content[f] = w THEN result ELSE content[f]]

(* Mutant: the local client writes to the final name. *)
WriteStartInPlace(w, f) ==
  /\ MayWrite(w, f)
  /\ wr' = [wr EXCEPT ![w] = f]
  /\ obj' = IF backend \in {"file", "sftp"} THEN [obj EXCEPT ![f] = w] ELSE obj
  /\ tmp' = IF backend = "file" THEN [tmp EXCEPT ![f] = w] ELSE tmp
  /\ again' = IF told[f] # "new" THEN again \cup {f} ELSE again
  /\ del' = [del EXCEPT !.asked = @ \ {f}]
  /\ shared' = IF \E v \in Writers : wr[v] = f THEN shared \cup {f} ELSE shared
  /\ UNCHANGED <<backend, merged, told, failed, itr>>

(* file opens the ".tmp" name with O_TRUNC, sftp the final name; the object
   stores show nothing yet. *)
WriteStart(w, f) ==
  /\ MayWrite(w, f)
  /\ wr' = [wr EXCEPT ![w] = f]
  /\ obj' = IF backend = "sftp" THEN [obj EXCEPT ![f] = w] ELSE obj
  /\ tmp' = IF backend = "file" THEN [tmp EXCEPT ![f] = w] ELSE tmp
  /\ again' = IF told[f] # "new" THEN again \cup {f} ELSE again
  /\ del' = [del EXCEPT !.asked = @ \ {f}]
  /\ shared' = IF \E v \in Writers : wr[v] = f THEN shared \cup {f} ELSE shared
  /\ UNCHANGED <<backend, merged, told, failed, itr>>

(* file: copy, sync, close and rename.  The rename takes the ".tmp" file as it
   is, whoever is filling it, and fails if another writer renamed it already. *)
FileWrite(w) ==
  LET f == wr[w]
      done == Settle(tmp, w, "whole")
  IN  /\ backend = "file" /\ tmp[f] # "none"
      /\ obj' = [Settle(obj, w, "whole") EXCEPT ![f] = done[f]]
      /\ tmp' = [done EXCEPT ![f] = "none"]

(* sftp: copy and close the final name. *)
SFTPWrite(w) ==
  /\ backend = "sftp"
  /\ obj' = Settle(obj, w, "whole")
  /\ UNCHANGED tmp

(* s3, gcs and abs: the upload as a whole takes effect. *)
ObjectWrite(w) ==
  /\ backend \in {"s3", "gcs", "abs"}
  /\ obj' = [obj EXCEPT ![wr[w]] = "whole"]
  /\ UNCHANGED tmp

(* WriteLTXFile returns the file info. *)
WriteDone(w) ==
  /\ wr[w] # 0
  /\ FileWrite(w) \/ SFTPWrite(w) \/ ObjectWrite(w)
  /\ told' = [told EXCEPT ![wr[w]] = "stored"]
  /\ wr' = [wr EXCEPT ![w] = 0]
  /\ failed' = failed \ {wr[w]}
  /\ UNCHANGED <<backend, merged, again, shared, itr, del>>

(* Mutant: an upload of s3 that fails leaves the parts it had. *)
LeftoverParts(w) ==
  {obj, [obj EXCEPT ![wr[w]] = IF backend = "s3" THEN "torn" ELSE @]}

(* The copy breaks off: the source fails (a compaction writes through a pipe)
   or the connection does, or the answer is lost.  What is left behind: *)
Leftover(w) ==
  LET f == wr[w] IN
  CASE backend \in {"file", "sftp"} -> {Settle(obj, w, "torn")}
    [] backend \in {"s3", "abs"}    -> {obj, [obj EXCEPT ![f] = "whole"]}
       \* the deferred Close commits what was written before the source failed
    [] backend = "gcs" -> {obj, [obj EXCEPT ![f] = "whole"], [obj EXCEPT ![f] = "torn"]}

WriteFail(w) ==
  /\ wr[w] # 0
  /\ Cardinality(failed \cup {wr[w]}) <= MaxFail
  /\ \/ /\ obj' \in Leftover(w)
        /\ tmp' = Settle(tmp, w, "torn")
     \/ /\ backend = "file" /\ tmp[wr[w]] = "none"   \* os.Rename: no such file
        /\ obj' = Settle(obj, w, "whole") /\ UNCHANGED tmp
  /\ failed' = failed \cup {wr[w]}
  /\ wr' = [wr EXCEPT ![w] = 0]
  /\ UNCHANGED <<backend, merged, told, again, shared, itr, del>>

-----------------------------------------------------------------------------
(* EnforceRetentionByTXID: iterate over the level ... *)

(* LTXFiles(level, 0); file and sftp read the directory at once.  The level
   above, or a snapshot, holds what is below the target: each of these files
   was complete once. *)
RetentionStart(cut) ==
  /\ ~itr.on /\ ~del.on
  /\ \A f \in File : f < cut => obj[f] = "whole" \/ told[f] # "new"
  /\ itr' = [on |-> TRUE, cut |-> cut,
             items |-> IF backend \in {"file", "sftp"} THEN Visible ELSE {}]
  /\ UNCHANGED <<backend, merged, obj, tmp, wr, history, del>>

Ahead == {f \in Visible : \A g \in itr.items : g < f}

(* The object stores list by pages: the next name after the last one, among
   what is there when its page is fetched. *)
NextItem ==
  /\ itr.on /\ backend \in {"s3", "gcs", "abs"}
  /\ \E f \in Ahead :
       /\ \A g \in Ahead : f <= g
       /\ itr' = [itr EXCEPT !.items = @ \cup {f}]
  /\ UNCHANGED <<backend, merged, obj, tmp, wr, history, del>>

(* Item() of abs returns the address of the iterator's one info, so that every
   item kept by the caller becomes the last one; the others return a new one. *)
Item(f) == IF backend = "abs" THEN Max(itr.items) ELSE f

(* Mutant: the last file is not spared. *)
MarkedAll == {f \in itr.items : f < itr.cut}

(* The items below the TXID, except one whose info is that of the last item:
   with abs the last one that is marked, for all have the same. *)
Marked ==
  LET below == {f \in itr.items : f < itr.cut}
  IN  {f \in below : \E g \in (IF backend = "abs" THEN below ELSE itr.items) : f < g}

(* The listing ends, or is cut short by an error that only itr.Close would
   tell and nobody asks for; DeleteLTXFiles is called. *)
RetentionListed(complete) ==
  /\ itr.on
  /\ IF backend \in {"file", "sftp"} THEN complete ELSE complete => Ahead = {}
  /\ itr' = NoItr
  /\ del' = [on |-> TRUE, cut |-> itr.cut, infos |-> [f \in Marked |-> Item(f)],
             asked |-> {Item(f) : f \in Marked} \ {wr[w] : w \in Writers}]
  /\ UNCHANGED <<backend, merged, obj, tmp, wr, history>>

-----------------------------------------------------------------------------
(* ... and delete.  abs builds the name from (MaxTXID, MaxTXID), which only is
   the file's name if it holds a single TXID; a missing file is no error. *)
Named(f) == IF backend = "abs" /\ merged THEN {} ELSE {f}

Without(S) == [f \in File |-> IF f \in S THEN "none" ELSE obj[f]]

(* One request: the next item of the list, or a batch of them with s3. *)
Request ==
  LET items == DOMAIN del.infos
      n == IF backend = "s3" THEN MaxKeys ELSE 1
  IN  {k \in items : Cardinality({j \in items : j < k}) < n}

(* The request removes the files of the items in S. *)
Delete(S) ==
  /\ del.on /\ DOMAIN del.infos # {}
  /\ obj' = Without(UNION {Named(del.infos[k]) : k \in S})
  /\ told' = [f \in File |-> IF \E k \in Request : del.infos[k] = f THEN "dropped"
                             ELSE told[f]]
  /\ UNCHANGED <<backend, merged, tmp, wr, failed, again, shared, itr>>

Rest == [del EXCEPT !.infos = Restrict(@, DOMAIN @ \ Request)]

(* Mutant: the errors in the answer to a batch are overlooked. *)
DeleteNextUnchecked ==
  /\ \E S \in SUBSET Request : Delete(S)
  /\ del' = Rest

DeleteNext == Delete(Request) /\ del' = Rest

(* DeleteLTXFiles returns nil. *)
DeleteDone ==
  /\ del.on /\ DOMAIN del.infos = {}
  /\ del' = NoDel
  /\ UNCHANGED <<backend, merged, obj, tmp, wr, history, itr>>

(* A request fails, possibly after it took effect, on s3 for some keys of the
   batch only (deleteOutputError); the rest of the list is left alone. *)
DeleteFail ==
  /\ \E S \in SUBSET Request : Delete(S)
  /\ del' = NoDel

(* The process dies: uploads to the object stores may still complete. *)
Crash ==
  LET busy == {w \in Writers : wr[w] # 0} IN
  /\ busy # {} \/ itr.on \/ del.on
  /\ \E late \in SUBSET {wr[w] : w \in IF backend \in {"file", "sftp"} THEN {} ELSE busy} :
       obj' = [f \in File |-> IF f \in late THEN "whole"
                              ELSE IF obj[f] \in Writers THEN "torn" ELSE obj[f]]
  /\ tmp' = [f \in File |-> IF tmp[f] \in Writers THEN "torn" ELSE tmp[f]]
  /\ failed' = failed \cup {wr[w] : w \in busy}
  /\ wr' = [w \in Writers |-> 0]
  /\ itr' = NoItr /\ del' = NoDel
  /\ UNCHANGED <<backend, merged, told, again, shared>>

Next ==
  \/ \E w \in Writers : \/ \E f \in File : WriteStart(w, f)
                        \/ WriteDone(w) \/ WriteFail(w)
  \/ \E cut \in 2..MaxFile + 1 : RetentionStart(cut)
  \/ NextItem
  \/ \E complete \in BOOLEAN : RetentionListed(complete)
  \/ DeleteNext \/ DeleteDone \/ DeleteFail
  \/ Crash

Spec == Init /\ [][Next]_vars

(* Nothing tells one writer from another. *)
Symmetry == Permutations(Writers)

-----------------------------------------------------------------------------
(* Properties. *)

(* The variables hold what their counterparts can hold. *)
TypeOK ==
  /\ backend \in Backends /\ merged \in BOOLEAN
  /\ obj \in [File -> Content] /\ tmp \in [File -> Content]
  /\ wr \in [Writers -> 0..MaxFile]
  /\ told \in [File -> {"new", "stored", "dropped"}]
  /\ failed \cup again \cup shared \subseteq File
  /\ itr.cut \in 0..MaxFile + 1 /\ itr.items \subseteq File
  /\ DOMAIN del.infos \subseteq File /\ \A k \in DOMAIN del.infos : del.infos[k] \in File
  /\ del.asked \subseteq File

(* A file that WriteLTXFile reported as written is there, and complete, until
   its deletion is asked for: whatever fails or dies beside it, except that
   sftp and gcs replace it in place when it is uploaded again, and that two
   writers of the local client share one ".tmp" file. *)
StoredIsWhole ==
  \A f \in File : told[f] = "stored" =>
    \/ obj[f] = "whole"
    \/ backend \in {"sftp", "gcs"} /\ f \in again \cup shared
    \/ backend = "file" /\ f \in shared

(* What LTXFiles lists is a complete file, so that calcPos counts only
   transactions that can be restored.  The exceptions are sftp, which fills
   the final name, gcs, which commits what came before a failure, and the
   shared ".tmp" file. *)
ListedIsWhole ==
  \A f \in Visible : obj[f] # "whole" =>
    \/ backend = "sftp" /\ (f \in failed \cup shared \/ \E w \in Writers : wr[w] = f)
    \/ backend = "gcs" /\ f \in failed \cup shared
    \/ backend = "file" /\ f \in shared

(* "EnforceRetentionByTXID enforces retention so that any LTX files below the
   target TXID are deleted. Always keep at least one file": what disappears
   lies below the target, and a later file stays, although the listing may have
   been cut short and files are written meanwhile. *)
RetentionBelow ==
  [][\A f \in Visible \ {g \in File : obj'[g] # "none"} :
       /\ f < del.cut
       /\ \E g \in File : g > f /\ obj'[g] # "none"]_vars

(* DeleteLTXFiles returns nil only if each file it was asked to delete is gone
   or was uploaded again meanwhile. *)
DeleteHonest ==
  [][DeleteDone => del.asked \cap Visible = {}]_vars

=============================================================================
