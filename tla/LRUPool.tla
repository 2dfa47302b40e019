------------------------------ MODULE LRUPool ------------------------------
(***************************************************************************)
(* What a connection pool with least-recently-used eviction promises: the  *)
(* connection that has to go is the one whose last Get lies furthest back, *)
(* and one that a Get finds at the limit goes, or is stuck because it      *)
(* could not be closed.                                                    *)
(***************************************************************************)
EXTENDS Integers, FiniteSets

CONSTANTS Paths, Nil, maxConnections

VARIABLES open,    \* the open connections
          recent,  \* the pairs of them whose first was got after the second
          stuck,   \* connections that were to be closed and could not be
          got      \* the path if the last operation was a Get, else Nil

Init == open = {} /\ recent = {} /\ stuck = {} /\ got = Nil

(* The connections in S stay, in their order, behind those in front. *)
Keep(S, front) ==
  /\ open' = front \cup S
  /\ recent' = (recent \cap (S \X S)) \cup (front \X S)

GetOpen(path) ==
  /\ got' = path
  /\ \/ path \in open /\ Keep(open \ {path}, {path})
     \/ path \in stuck /\ UNCHANGED <<open, recent>>
  /\ UNCHANGED stuck

Oldest == {p \in open : \A q \in open \ {p} : <<q, p>> \in recent}

(* What has to go at the limit goes, or is stuck; front is what comes first. *)
MakeRoom(front) ==
  IF Cardinality(open) + Cardinality(stuck) < maxConnections \/ open = {}
  THEN Keep(open, front) /\ UNCHANGED stuck
  ELSE \E p \in Oldest :
         /\ Keep(open \ {p}, front)
         /\ stuck' \in {stuck, stuck \cup {p}}

GetNew(path) == path \notin open \cup stuck /\ got' = path /\ MakeRoom({path})

(* The connection could not be opened. *)
GetFail == got' = Nil /\ MakeRoom({})

Close(S) == Keep(open \ S, {}) /\ stuck' = stuck \ S /\ got' = Nil

Next ==
  \/ \E path \in Paths : GetOpen(path) \/ GetNew(path)
  \/ GetFail
  \/ \E S \in SUBSET Paths : Close(S)

Spec == Init /\ [][Next]_<<open, recent, stuck, got>>

=============================================================================
