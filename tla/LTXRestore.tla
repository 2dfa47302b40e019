----------------------------- MODULE LTXRestore -----------------------------
(***************************************************************************)
(* Replica.Restore beside a running Store: another process lists the       *)
(* replica level by level, from the snapshots down to L0, and opens the    *)
(* files of its plan afterwards, while uploads, compactions, snapshots and *)
(* retention of module LTXStore go on changing the files.                  *)
(*                                                                         *)
(* The restore is to the latest transaction (no -txid, no -timestamp).     *)
(***************************************************************************)
EXTENDS LTXStore

VARIABLES
  rspc,    \* Restore: idle, listing or opening
  rlvl,    \* the level CalcRestorePlan lists next
  infos,   \* the files of the plan that are not open yet
  reached, \* infos.MaxTXID() of the whole plan
  goal,    \* history: the last TXID on the replica when Restore began
  moved    \* history: a file was deleted from the replica since

restorer == <<rspc, rlvl, infos, reached, goal, moved>>
rvars == <<vars, restorer>>

RInit == Init /\ rspc = "idle" /\ rlvl = 0 /\ infos = {} /\ reached = 0
              /\ goal = 0 /\ moved = FALSE

-----------------------------------------------------------------------------
Return == /\ rspc' = "idle" /\ rlvl' = 0 /\ infos' = {} /\ reached' = 0
          /\ goal' = 0 /\ moved' = FALSE
          /\ UNCHANGED vars

(* Restore is called and CalcRestorePlan finds the last snapshot, if any. *)
RestoreStart ==
  LET snapshots == At(SnapshotLevel) IN
  /\ rspc = "idle"
  /\ rspc' = "listing" /\ rlvl' = MaxLevel
  /\ infos' = IF snapshots = {} THEN {} ELSE {Last(snapshots)}
  /\ reached' = MaxTXID(snapshots)
  /\ goal' = MaxTXID(remote) /\ moved' = FALSE
  /\ UNCHANGED vars

(* Mutant: files that end where the plan ends are taken as well. *)
FromReached(level) == {f \in At(level) : f.max >= reached}

(* The files of the level that go beyond what is planned, in their order. *)
Beyond(level) == {f \in At(level) : f.max > reached}

(* Mutant: the check that files follow one another is missing. *)
AlwaysContiguous == TRUE

Contiguous == Appendable(reached, Beyond(rlvl))

ListLevel ==
  /\ rspc = "listing" /\ Contiguous
  /\ infos' = infos \cup Beyond(rlvl)
  /\ reached' = IF Beyond(rlvl) = {} THEN reached ELSE MaxTXID(Beyond(rlvl))
  /\ IF rlvl = 0 THEN rspc' = "opening" /\ rlvl' = 0
                 ELSE rspc' = rspc /\ rlvl' = rlvl - 1
  /\ UNCHANGED <<vars, goal, moved>>

(* "non-contiguous transaction files". *)
ListGap == rspc = "listing" /\ ~Contiguous /\ Return

(* OpenLTXFile of the next file of the plan; a file that is open stays
   readable when it is deleted. *)
OpenFile ==
  /\ rspc = "opening"
  /\ \E f \in infos \cap remote :
       /\ \A g \in infos : f.max <= g.max
       /\ infos' = infos \ {f}
  /\ UNCHANGED <<vars, rspc, rlvl, reached, goal, moved>>

OpenMissing ==
  /\ rspc = "opening"
  /\ \E f \in infos \ remote : \A g \in infos : f.max <= g.max
  /\ Return

(* ErrTxNotAvailable: the plan is empty. *)
NotAvailable == rspc = "opening" /\ reached = 0 /\ Return

(* All files are open: they are merged into the database and renamed. *)
RestoreDone == rspc = "opening" /\ infos = {} /\ reached # 0 /\ Return

-----------------------------------------------------------------------------
StoreStep ==
  /\ Next
  /\ moved' = (moved \/ (rspc # "idle" /\ ~(remote \subseteq remote')))
  /\ UNCHANGED <<rspc, rlvl, infos, reached, goal>>

Failure == ListGap \/ OpenMissing \/ NotAvailable

RNext == \/ StoreStep
         \/ RestoreStart \/ ListLevel \/ OpenFile \/ RestoreDone
         \/ ListGap \/ OpenMissing \/ NotAvailable

RSpec == RInit /\ [][RNext]_rvars

-----------------------------------------------------------------------------
(* Properties. *)

(* A plan that is made holds every transaction up to its end, and a restore
   that succeeds ends at or after the last transaction the replica held when it
   began, although the levels were listed one after the other while files moved
   up between them: what slips through the listing shows up as a gap, never as
   a shorter database or as one with a hole. *)
RestoreNotBehind ==
  [][/\ RestoreDone => reached >= goal
     /\ rspc = "listing" /\ rspc' = "opening" =>
          \A t \in 1..reached' : \E f \in infos' : f.min <= t /\ t <= f.max]_rvars

(* A restore fails only if the replica was empty when it began or files were
   deleted while it ran: the files alone never make it fail, and neither do
   uploads, compactions or snapshots beside it. *)
FailsOnlyIfMoved == [][Failure => moved \/ goal = 0]_rvars

=============================================================================
