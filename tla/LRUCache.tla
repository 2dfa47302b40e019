------------------------------ MODULE LRUCache ------------------------------
(***************************************************************************)
(* LRUCache, the doubly linked list of connection_pool.go, as operators    *)
(* from list to list.  Pointers are keys, or Nil; what a node that was     *)
(* taken out still points to is left in place, as the code leaves it.      *)
(***************************************************************************)
EXTENDS Integers, FiniteSets

CONSTANTS Keys, Nil
ASSUME NilAssumption == Nil \notin Keys

Pointer == Keys \cup {Nil}
List == [items : SUBSET Keys, head : Pointer, tail : Pointer,
         prev : [Keys -> Pointer], next : [Keys -> Pointer]]

NewLRUCache ==
  [items |-> {}, head |-> Nil, tail |-> Nil,
   prev |-> [k \in Keys |-> Nil], next |-> [k \in Keys |-> Nil]]

(* Mutant: the last item goes and the tail still points to it. *)
RemoveItemKeepTail(c, k) ==
  [c EXCEPT !.head = IF c.prev[k] = Nil THEN c.next[k] ELSE @,
            !.next = [p \in Keys |-> IF p = c.prev[k] THEN c.next[k] ELSE @[p]],
            !.prev = [n \in Keys |-> IF n = c.next[k] THEN c.prev[k] ELSE @[n]]]

(* Unlink k. *)
RemoveItem(c, k) ==
  [c EXCEPT !.head = IF c.prev[k] = Nil THEN c.next[k] ELSE @,
            !.tail = IF c.next[k] = Nil THEN c.prev[k] ELSE @,
            !.next = [p \in Keys |-> IF p = c.prev[k] THEN c.next[k] ELSE @[p]],
            !.prev = [n \in Keys |-> IF n = c.next[k] THEN c.prev[k] ELSE @[n]]]

(* Link k, which is in no list, in front of the head. *)
Prepend(c, k) ==
  [c EXCEPT !.prev = [@ EXCEPT ![k] = Nil],
            !.next = [@ EXCEPT ![k] = c.head],
            !.head = k]

MoveToFront(c, k) ==
  IF k = c.head THEN c
  ELSE LET r == Prepend(RemoveItem(c, k), k)
       IN  [r EXCEPT !.prev = [@ EXCEPT ![r.next[k]] = k]]

Add(c, k) ==
  IF k \in c.items THEN MoveToFront(c, k)
  ELSE LET r == [Prepend(c, k) EXCEPT !.items = c.items \cup {k}]
       IN  IF c.head = Nil THEN [r EXCEPT !.tail = k]
           ELSE [r EXCEPT !.prev = [@ EXCEPT ![c.head] = k]]

Touch(c, k) == IF k \in c.items THEN MoveToFront(c, k) ELSE c

Remove(c, k) ==
  IF k \in c.items THEN [RemoveItem(c, k) EXCEPT !.items = @ \ {k}] ELSE c

(* The key at the tail goes. *)
Evict(c) == IF c.tail = Nil THEN c ELSE Remove(c, c.tail)

-----------------------------------------------------------------------------
(* The keys from head to tail. *)
Order(c) ==
  LET at[i \in 1..Cardinality(c.items)] ==
        IF i = 1 THEN c.head ELSE IF at[i - 1] = Nil THEN Nil ELSE c.next[at[i - 1]]
  IN  at

(* The pairs of items in the order of the list. *)
Recent(c) ==
  LET o == Order(c)
      n == Cardinality(c.items)
  IN  UNION {{<<o[i], o[j]>> : j \in i + 1..n} : i \in 1..n}

(* The list is one chain through all items, the same in both directions. *)
WellLinked(c) ==
  LET o == Order(c)
      n == Cardinality(c.items)
  IN  /\ {o[i] : i \in 1..n} = c.items
      /\ c.head = IF n = 0 THEN Nil ELSE o[1]
      /\ c.tail = IF n = 0 THEN Nil ELSE o[n]
      /\ \A i \in 1..n : /\ c.prev[o[i]] = IF i = 1 THEN Nil ELSE o[i - 1]
                         /\ c.next[o[i]] = IF i = n THEN Nil ELSE o[i + 1]

=============================================================================
