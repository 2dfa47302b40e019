--------------------------- MODULE ConnectionPool ---------------------------
(***************************************************************************)
(* ConnectionPool: Get, Release and Close by any number of users, and the  *)
(* Cleanup goroutine.  Every operation holds the pool's mutex from end to  *)
(* end.  Instead of a clock the module keeps the connections that were     *)
(* last used more than idleTimeout ago.                                    *)
(*                                                                         *)
(* closeConnectionLocked returns early when sql.DB.Close fails.  The       *)
(* handle is unusable from then on and a second Close of it succeeds, but  *)
(* until then the pool still counts it as open.                            *)
(***************************************************************************)
EXTENDS LRUCache, Functions

CONSTANTS maxConnections

ASSUME PoolAssumption == maxConnections \in Nat \ {0}

VARIABLES
  connections,  \* the paths in the map
  lru,          \* the linked list
  currentOpen,
  stale,        \* connections last used more than idleTimeout ago
  dead,         \* connections whose sql.DB.Close failed
  got           \* history: the path if the last operation was a Get, else Nil

vars == <<connections, lru, currentOpen, stale, dead, got>>

Paths == Keys

-----------------------------------------------------------------------------
Init ==
  /\ connections = {} /\ lru = NewLRUCache /\ currentOpen = 0
  /\ stale = {} /\ dead = {} /\ got = Nil

(* Mutant: a hit does not move the connection to the front. *)
GetOpenUntouched(path) ==
  /\ path \in connections /\ got' = path
  /\ stale' = stale \ {path}
  /\ UNCHANGED <<connections, lru, currentOpen, dead>>

GetOpen(path) ==
  /\ path \in connections /\ got' = path
  /\ lru' = Touch(lru, path)
  /\ stale' = stale \ {path}
  /\ UNCHANGED <<connections, currentOpen, dead>>

(* sql.DB.Close on each of a set of handles: which of them it closes without
   an error.  The others are closed too, but Close reports an error. *)
CloseOutcomes(S) == {ok \in SUBSET S : S \cap dead \subseteq ok}

(* Mutant: one connection too many. *)
FullAboveLimit == currentOpen > maxConnections

Full == currentOpen >= maxConnections

(* At the limit the tail of the list is closed before Get opens a connection,
   and Get goes on whether or not that succeeds. *)
Victim == IF Full THEN {lru.tail} \ {Nil} ELSE {}
EvictLRU == IF Full THEN Evict(lru) ELSE lru

GetNew(path) ==
  /\ path \notin connections /\ got' = path
  /\ \E closed \in CloseOutcomes(Victim) :
       /\ connections' = (connections \ closed) \cup {path}
       /\ currentOpen' = currentOpen - Cardinality(closed) + 1
       /\ stale' = stale \ closed
       /\ dead' = (dead \cup Victim) \ closed
       /\ lru' = Add(EvictLRU, path)

(* sql.Open fails: the connection that had to go is gone all the same. *)
GetFail(path) ==
  /\ path \notin connections /\ got' = Nil
  /\ \E closed \in CloseOutcomes(Victim) :
       /\ connections' = connections \ closed
       /\ currentOpen' = currentOpen - Cardinality(closed)
       /\ stale' = stale \ closed
       /\ dead' = (dead \cup Victim) \ closed
       /\ lru' = EvictLRU

Release(path) ==
  /\ path \in stale /\ got' = Nil
  /\ stale' = stale \ {path}
  /\ UNCHANGED <<connections, lru, currentOpen, dead>>

(* The list after removing the keys ks[1], ..., ks[n], one by one. *)
RemoveAll(ks, n) ==
  LET rm[i \in 0..n] == IF i = 0 THEN lru ELSE Remove(rm[i - 1], ks[i])
  IN  rm[n]

(* The orders in which the connections of a set can be closed: ranging over the
   map, Cleanup meets them in any. *)
ClosingOrders(S) == Bijection(1..Cardinality(S), S)

(* Mutant: a connection whose close failed is no longer counted. *)
CloseConnectionsUncounted(S) ==
  \E closed \in CloseOutcomes(S) :
    /\ connections' = connections \ closed
    /\ \E ks \in ClosingOrders(closed) : lru' = RemoveAll(ks, Cardinality(closed))
    /\ currentOpen' = currentOpen - Cardinality(S)
    /\ stale' = stale \ closed
    /\ dead' = (dead \cup S) \ closed
    /\ got' = Nil

(* closeConnectionLocked of each of a set of connections. *)
CloseConnections(S) ==
  \E closed \in CloseOutcomes(S) :
    /\ connections' = connections \ closed
    /\ \E ks \in ClosingOrders(closed) : lru' = RemoveAll(ks, Cardinality(closed))
    /\ currentOpen' = currentOpen - Cardinality(closed)
    /\ stale' = stale \ closed
    /\ dead' = (dead \cup S) \ closed
    /\ got' = Nil

Close(path) == path \in connections /\ CloseConnections({path})

(* Cleanup: every connection that was not used for idleTimeout. *)
Cleanup == stale # {} /\ CloseConnections(stale)

(* idleTimeout passes since a connection was last got or released. *)
Elapse(path) ==
  /\ path \in connections \ stale /\ got' = Nil
  /\ stale' = stale \cup {path}
  /\ UNCHANGED <<connections, lru, currentOpen, dead>>

Next ==
  \/ \E path \in Paths : \/ GetOpen(path) \/ GetNew(path) \/ GetFail(path)
                         \/ Release(path) \/ Close(path) \/ Elapse(path)
  \/ Cleanup

Spec == Init /\ [][Next]_vars

-----------------------------------------------------------------------------
(* Properties. *)

(* The variables hold what their Go counterparts can hold; currentOpen counts
   the map. *)
TypeOK ==
  /\ connections \subseteq Paths
  /\ stale \subseteq connections /\ dead \subseteq connections
  /\ lru \in List
  /\ currentOpen = Cardinality(connections) /\ got \in Pointer

(* Through every sequence of Get, Close and Cleanup the list is one chain, the
   same in both directions, and it holds every connection of the map but those
   that a failed eviction left behind. *)
ListConsistent ==
  WellLinked(lru) /\ connections \ dead \subseteq lru.items
                  /\ lru.items \subseteq connections

(* "ConnectionPool manages database connections with limits": a failed close
   leaves an entry in the map beyond the limit, but never a usable one. *)
LimitHolds == Cardinality(connections \ dead) <= maxConnections

(* The pool with its list, its map and its counter behaves like LRUPool: it
   keeps connections in the order of their last Get, and what a new one
   displaces is the one whose last Get lies furthest back. *)
Abstract == INSTANCE LRUPool WITH open <- lru.items, recent <- Recent(lru),
                                  stuck <- connections \ lru.items
RefinesLRUPool == Abstract!Spec

=============================================================================
