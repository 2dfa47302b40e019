------------------------ MODULE ConnectionPoolProofs ------------------------
(***************************************************************************)
(* Proofs about ConnectionPool: for any set of paths and any limit, the    *)
(* linked list stays one chain through its items, the pool stays within    *)
(* its limit, and it implements LRUPool.                                   *)
(***************************************************************************)
EXTENDS ConnectionPool, FiniteSetTheorems, WellFoundedInduction, TLAPS

-----------------------------------------------------------------------------
(* The list. *)

(* s is the order of the n items of list c, and all pointers agree with it. *)
Chained(c, s, n) ==
  /\ n \in Nat /\ s \in [1..n -> c.items]
  /\ \A i, j \in 1..n : s[i] = s[j] => i = j
  /\ \A k \in c.items : \E i \in 1..n : s[i] = k
  /\ c.head = IF n = 0 THEN Nil ELSE s[1]
  /\ c.tail = IF n = 0 THEN Nil ELSE s[n]
  /\ \A i \in 1..n : c.prev[s[i]] = IF i = 1 THEN Nil ELSE s[i - 1]
  /\ \A i \in 1..n : c.next[s[i]] = IF i = n THEN Nil ELSE s[i + 1]

(* What Order(c) computes. *)
IsOrder(c, f, n) ==
  f = [i \in 1..n |-> IF i = 1 THEN c.head ELSE IF f[i - 1] = Nil THEN Nil ELSE c.next[f[i - 1]]]

LEMMA NatSetHasLeast ==
  ASSUME NEW S \in SUBSET Nat, S # {}
  PROVE  \E x \in S : \A y \in S : x <= y
<1>1. PICK x \in S : \A y \in S : ~(<<y, x>> \in OpToRel(<, Nat))
  BY NatLessThanWellFounded, WFMin
<1>2. \A y \in S : ~(y < x)
  BY <1>1 DEF OpToRel
<1> QED
  BY <1>2

(* Following the pointers from the head leads nowhere else. *)
LEMMA OrderUnique ==
  ASSUME NEW c, NEW n \in Nat, NEW f, NEW g, IsOrder(c, f, n), IsOrder(c, g, n)
  PROVE  f = g
<1> DEFINE B == {i \in 1..n : f[i] # g[i]}
<1>1. SUFFICES B = {}
  <2> SUFFICES ASSUME \A i \in 1..n : f[i] = g[i] PROVE f = g
    OBVIOUS
  <2>1. f = [i \in 1..n |-> f[i]] /\ g = [i \in 1..n |-> g[i]]
    BY DEF IsOrder
  <2> QED
    BY <2>1
<1>2. SUFFICES ASSUME B # {} PROVE FALSE
  OBVIOUS
<1>3. PICK i \in B : \A j \in B : i <= j
  <2>1. B \in SUBSET Nat
    OBVIOUS
  <2> QED
    BY <1>2, <2>1, NatSetHasLeast
<1>4. i \in 1..n /\ f[i] # g[i]
  BY <1>3
<1>5. CASE i = 1
  BY <1>4, <1>5 DEF IsOrder
<1>6. CASE i # 1
  <2>1. i - 1 \in 1..n /\ ~(i <= i - 1)
    BY <1>4, <1>6
  <2>2. f[i - 1] = g[i - 1]
    BY <1>3, <2>1
  <2>3. f[i] = (IF f[i - 1] = Nil THEN Nil ELSE c.next[f[i - 1]])
    BY <1>4, <1>6 DEF IsOrder
  <2>4. g[i] = (IF g[i - 1] = Nil THEN Nil ELSE c.next[g[i - 1]])
    BY <1>4, <1>6 DEF IsOrder
  <2> QED
    BY <1>4, <2>2, <2>3, <2>4
<1> QED
  BY <1>5, <1>6

LEMMA ChainIsOrder ==
  ASSUME NEW c \in List, NEW s, NEW n, Chained(c, s, n)
  PROVE  IsOrder(c, s, n)
<1> DEFINE g == [i \in 1..n |-> IF i = 1 THEN c.head
                                ELSE IF s[i - 1] = Nil THEN Nil ELSE c.next[s[i - 1]]]
<1>1. ASSUME NEW i \in 1..n
      PROVE  s[i] = IF i = 1 THEN c.head ELSE IF s[i - 1] = Nil THEN Nil ELSE c.next[s[i - 1]]
  <2>1. CASE i = 1
    BY <2>1 DEF Chained
  <2>2. CASE i # 1
    <3>1. n \in Nat /\ i - 1 \in 1..n /\ i - 1 # n /\ (i - 1) + 1 = i
      BY <2>2 DEF Chained
    <3>2. c.next[s[i - 1]] = s[(i - 1) + 1]
      BY <3>1 DEF Chained
    <3>3. s[i - 1] # Nil
      BY <3>1, NilAssumption DEF Chained, List
    <3> QED
      BY <2>2, <3>1, <3>2, <3>3
  <2> QED
    BY <2>1, <2>2
<1>2. s = [i \in 1..n |-> s[i]]
  BY DEF Chained
<1>3. s = g
  BY <1>1, <1>2
<1> QED
  BY <1>3 DEF IsOrder

(* A chain has as many places as items. *)
LEMMA ChainCounts ==
  ASSUME NEW c, NEW s, NEW n, Chained(c, s, n)
  PROVE  IsFiniteSet(c.items) /\ Cardinality(c.items) = n
<1>1. s \in Bijection(1..n, c.items) /\ n \in Nat
  BY DEF Chained, Bijection, Injection, Surjection, IsInjective
<1>2. ExistsBijection(1..n, c.items)
  BY <1>1 DEF ExistsBijection
<1>3. IsFiniteSet(1..n) /\ Cardinality(1..n) = n
  <2>1. PICK m \in Int : m = n
    BY <1>1
  <2>2. IsFiniteSet(1..m) /\ Cardinality(1..m) = IF 1 > m THEN 0 ELSE m - 1 + 1
    BY FS_Interval
  <2> QED
    BY <2>1, <2>2, <1>1
<1> QED
  BY <1>2, <1>3, FS_Bijection

LEMMA OrderExists ==
  ASSUME NEW c, NEW s, IsOrder(c, s, Cardinality(c.items))
  PROVE  IsOrder(c, Order(c), Cardinality(c.items))
BY DEF Order, IsOrder

(* The order that WellLinked and Recent compute is the chain. *)
LEMMA OrderIsChain ==
  ASSUME NEW c \in List, NEW s, NEW n, Chained(c, s, n)
  PROVE  Order(c) = s
<1>1. n \in Nat /\ Cardinality(c.items) = n
  <2>1. n \in Nat
    BY DEF Chained
  <2> QED
    BY <2>1, ChainCounts
<1>2. IsOrder(c, s, Cardinality(c.items))
  BY <1>1, ChainIsOrder
<1>3. \A f : IsOrder(c, f, Cardinality(c.items)) => f = s
  BY <1>1, <1>2, OrderUnique
<1>4. IsOrder(c, Order(c), Cardinality(c.items))
  BY <1>2, OrderExists
<1> QED
  BY <1>3, <1>4

LEMMA ChainWellLinked ==
  ASSUME NEW c \in List, NEW s, NEW n, Chained(c, s, n)
  PROVE  WellLinked(c)
<1>1. Order(c) = s /\ Cardinality(c.items) = n
  BY OrderIsChain, ChainCounts
<1>2. /\ {s[i] : i \in 1..n} = c.items
      /\ c.head = IF n = 0 THEN Nil ELSE s[1]
      /\ c.tail = IF n = 0 THEN Nil ELSE s[n]
      /\ \A i \in 1..n : /\ c.prev[s[i]] = IF i = 1 THEN Nil ELSE s[i - 1]
                         /\ c.next[s[i]] = IF i = n THEN Nil ELSE s[i + 1]
  BY DEF Chained
<1> QED
  BY <1>1, <1>2 DEF WellLinked

(* One item is before another in the order of the list. *)
Before(s, n, p, q) == \E i, j \in 1..n : i < j /\ p = s[i] /\ q = s[j]

LEMMA RecentIsBefore ==
  ASSUME NEW c \in List, NEW s, NEW n, Chained(c, s, n)
  PROVE  /\ Recent(c) \subseteq c.items \X c.items
         /\ \A p, q \in c.items : <<p, q>> \in Recent(c) <=> Before(s, n, p, q)
<1>1. Order(c) = s /\ Cardinality(c.items) = n
  BY OrderIsChain, ChainCounts
<1>2. Recent(c) = UNION {{<<s[i], s[j]>> : j \in i + 1..n} : i \in 1..n}
  BY <1>1 DEF Recent
<1>3. ASSUME NEW x
      PROVE  x \in Recent(c) <=> \E i, j \in 1..n : i < j /\ x = <<s[i], s[j]>>
  <2>1. x \in Recent(c) <=> \E i \in 1..n : \E j \in i + 1..n : x = <<s[i], s[j]>>
    BY <1>2
  <2>2. n \in Nat
    BY DEF Chained
  <2>3. \A i, j : i \in 1..n /\ j \in i + 1..n <=> i \in 1..n /\ j \in 1..n /\ i < j
    BY <2>2
  <2> QED
    BY <2>1, <2>3
<1>4. \A i \in 1..n : s[i] \in c.items
  BY DEF Chained
<1> QED
  BY <1>3, <1>4 DEF Before

-----------------------------------------------------------------------------
(* Add. *)
LEMMA AddFields ==
  ASSUME NEW c \in List, NEW s, NEW n, Chained(c, s, n), NEW k \in Keys, k \notin c.items,
         NEW d, d = Add(c, k)
  PROVE  /\ d \in List /\ d.items = c.items \cup {k} /\ d.head = k
         /\ d.tail = IF n = 0 THEN k ELSE c.tail
         /\ \A x \in Keys : d.prev[x] = IF n # 0 /\ x = s[1] THEN k
                                        ELSE IF x = k THEN Nil ELSE c.prev[x]
         /\ \A x \in Keys : d.next[x] = IF x = k THEN c.head ELSE c.next[x]
<1>1. /\ c = [items |-> c.items, head |-> c.head, tail |-> c.tail, prev |-> c.prev, next |-> c.next]
      /\ c.items \subseteq Keys /\ c.head \in Pointer /\ c.tail \in Pointer
      /\ c.prev \in [Keys -> Pointer] /\ c.next \in [Keys -> Pointer]
  BY DEF List
<1>2. /\ n \in Nat /\ (n = 0 => c.head = Nil)
      /\ n # 0 => c.head = s[1] /\ s[1] \in c.items /\ c.head # Nil /\ c.head # k
  BY <1>1, NilAssumption DEF Chained
<1>3. k \in Pointer /\ Nil \in Pointer
  BY DEF Pointer
<1>4. CASE n = 0
  <2>1. d = [items |-> c.items \cup {k}, head |-> k, tail |-> k,
             prev |-> [c.prev EXCEPT ![k] = Nil], next |-> [c.next EXCEPT ![k] = c.head]]
    BY <1>1, <1>2, <1>4 DEF Add, Prepend
  <2> QED
    BY <1>1, <1>2, <1>3, <1>4, <2>1 DEF List
<1>5. CASE n # 0
  <2>1. d = [items |-> c.items \cup {k}, head |-> k, tail |-> c.tail,
             prev |-> [[c.prev EXCEPT ![k] = Nil] EXCEPT ![c.head] = k],
             next |-> [c.next EXCEPT ![k] = c.head]]
    BY <1>1, <1>2, <1>5 DEF Add, Prepend
  <2> QED
    BY <1>1, <1>2, <1>3, <1>5, <2>1 DEF List
<1> QED
  BY <1>4, <1>5

InFront(k, s, n) == [i \in 1..n + 1 |-> IF i = 1 THEN k ELSE s[i - 1]]

LEMMA AddChained ==
  ASSUME NEW c \in List, NEW s, NEW n, Chained(c, s, n), NEW k \in Keys, k \notin c.items,
         NEW d, d = Add(c, k)
  PROVE  Chained(d, InFront(k, s, n), n + 1)
<1>1. /\ d \in List /\ d.items = c.items \cup {k} /\ d.head = k
      /\ d.tail = IF n = 0 THEN k ELSE c.tail
      /\ \A x \in Keys : d.prev[x] = IF n # 0 /\ x = s[1] THEN k
                                     ELSE IF x = k THEN Nil ELSE c.prev[x]
      /\ \A x \in Keys : d.next[x] = IF x = k THEN c.head ELSE c.next[x]
  BY AddFields
<1>2. /\ n \in Nat /\ s \in [1..n -> c.items] /\ c.items \subseteq Keys
      /\ \A i, j \in 1..n : s[i] = s[j] => i = j
      /\ \A x \in c.items : \E i \in 1..n : s[i] = x
      /\ c.head = IF n = 0 THEN Nil ELSE s[1]
      /\ c.tail = IF n = 0 THEN Nil ELSE s[n]
      /\ \A i \in 1..n : c.prev[s[i]] = IF i = 1 THEN Nil ELSE s[i - 1]
      /\ \A i \in 1..n : c.next[s[i]] = IF i = n THEN Nil ELSE s[i + 1]
  BY DEF Chained, List
<1>3. PICK t : t = InFront(k, s, n)
  OBVIOUS
<1>4. /\ t \in [1..n + 1 -> d.items] /\ t[1] = k
      /\ \A i \in 1..n + 1 : i # 1 => i - 1 \in 1..n /\ t[i] = s[i - 1] /\ t[i] \in c.items
  BY <1>1, <1>2, <1>3 DEF InFront
<1>5. \A i, j \in 1..n + 1 : t[i] = t[j] => i = j
  <2> SUFFICES ASSUME NEW i \in 1..n + 1, NEW j \in 1..n + 1, t[i] = t[j] PROVE i = j
    OBVIOUS
  <2>1. CASE i = 1 \/ j = 1
    BY <2>1, <1>4
  <2>2. CASE i # 1 /\ j # 1
    <3>1. i - 1 = j - 1
      BY <2>2, <1>4, <1>2
    <3> QED
      BY <3>1, <1>2
  <2> QED
    BY <2>1, <2>2
<1>6. \A x \in d.items : \E i \in 1..n + 1 : t[i] = x
  <2> SUFFICES ASSUME NEW x \in c.items PROVE \E i \in 1..n + 1 : t[i] = x
    <3>1. 1 \in 1..n + 1
      BY <1>2
    <3> QED
      BY <3>1, <1>1, <1>4
  <2>1. PICK i \in 1..n : s[i] = x
    BY <1>2
  <2>2. i + 1 \in 1..n + 1 /\ i + 1 # 1 /\ (i + 1) - 1 = i
    BY <1>2
  <2>3. t[i + 1] = s[i]
    BY <2>2, <1>4
  <2> QED
    BY <2>1, <2>2, <2>3
<1>7. d.head = t[1] /\ d.tail = t[n + 1]
  <2>1. n # 0 => n + 1 \in 1..n + 1 /\ n + 1 # 1 /\ (n + 1) - 1 = n
    BY <1>2
  <2>2. n # 0 => t[n + 1] = s[n]
    BY <2>1, <1>4
  <2> QED
    BY <2>2, <1>1, <1>2, <1>4
<1>8. ASSUME NEW i \in 1..n + 1
      PROVE  d.prev[t[i]] = IF i = 1 THEN Nil ELSE t[i - 1]
  <2>1. CASE i = 1
    <3>1. n # 0 => s[1] \in c.items
      BY <1>2
    <3> QED
      BY <2>1, <3>1, <1>1, <1>4
  <2>2. CASE i = 2
    <3>1. n # 0 /\ i - 1 = 1 /\ t[i] = s[1] /\ t[i] \in Keys
      BY <2>2, <1>2, <1>4
    <3> QED
      BY <3>1, <2>2, <1>1, <1>4
  <2>3. CASE i # 1 /\ i # 2
    <3>1. PICK j \in 1..n : j = i - 1
      BY <2>3, <1>4
    <3>2. j # 1 /\ j \in 1..n + 1 /\ 1 \in 1..n /\ n # 0
      BY <3>1, <2>3, <1>2
    <3>3. t[i] = s[j] /\ s[j] \in c.items /\ s[j] # s[1] /\ s[j] # k
      BY <3>1, <3>2, <2>3, <1>2, <1>4
    <3>4. d.prev[t[i]] = c.prev[s[j]]
      BY <3>3, <1>1, <1>2
    <3>5. c.prev[s[j]] = s[j - 1] /\ t[j] = s[j - 1]
      BY <3>2, <1>2, <1>4
    <3> QED
      BY <3>1, <3>4, <3>5, <2>3
  <2> QED
    BY <2>1, <2>2, <2>3
<1>9. ASSUME NEW i \in 1..n + 1
      PROVE  d.next[t[i]] = IF i = n + 1 THEN Nil ELSE t[i + 1]
  <2>1. CASE i = 1
    <3>1. d.next[t[i]] = c.head
      BY <2>1, <1>1, <1>4
    <3>2. n # 0 => 2 \in 1..n + 1 /\ t[2] = s[1]
      <4>1. n # 0 => 2 \in 1..n + 1 /\ 2 # 1 /\ 2 - 1 = 1
        BY <1>2
      <4> QED
        BY <4>1, <1>4
    <3> QED
      BY <3>1, <3>2, <2>1, <1>2
  <2>2. CASE i # 1
    <3>1. PICK j \in 1..n : j = i - 1
      BY <2>2, <1>4
    <3>2. t[i] = s[j] /\ s[j] \in c.items /\ s[j] # k
      BY <3>1, <2>2, <1>2, <1>4
    <3>3. d.next[t[i]] = c.next[s[j]]
      BY <3>2, <1>1, <1>2
    <3>4. c.next[s[j]] = IF j = n THEN Nil ELSE s[j + 1]
      BY <1>2
    <3>5. (j = n <=> i = n + 1) /\ j + 1 = i
      BY <3>1, <1>2
    <3>6. i # n + 1 => t[i + 1] = s[i]
      <4>1. i # n + 1 => i + 1 \in 1..n + 1 /\ i + 1 # 1 /\ (i + 1) - 1 = i
        BY <1>2
      <4> QED
        BY <4>1, <1>4
    <3> QED
      BY <3>3, <3>4, <3>5, <3>6
  <2> QED
    BY <2>1, <2>2
<1>10. n + 1 \in Nat /\ n + 1 # 0
  BY <1>2
<1> QED
  BY <1>3, <1>4, <1>5, <1>6, <1>7, <1>8, <1>9, <1>10 DEF Chained

-----------------------------------------------------------------------------
(* Remove. *)
LEMMA RemoveFields ==
  ASSUME NEW c \in List, NEW s, NEW n, Chained(c, s, n), NEW m \in 1..n, NEW k, k = s[m],
         NEW d, d = Remove(c, k)
  PROVE  /\ d \in List /\ d.items = c.items \ {k}
         /\ d.head = IF m = 1 THEN c.next[k] ELSE c.head
         /\ d.tail = IF m = n THEN c.prev[k] ELSE c.tail
         /\ \A x \in Keys : d.next[x] = IF x = c.prev[k] THEN c.next[k] ELSE c.next[x]
         /\ \A x \in Keys : d.prev[x] = IF x = c.next[k] THEN c.prev[k] ELSE c.prev[x]
<1>1. /\ c = [items |-> c.items, head |-> c.head, tail |-> c.tail, prev |-> c.prev, next |-> c.next]
      /\ c.items \subseteq Keys /\ c.head \in Pointer /\ c.tail \in Pointer
      /\ c.prev \in [Keys -> Pointer] /\ c.next \in [Keys -> Pointer]
  BY DEF List
<1>2. n \in Nat /\ k \in c.items /\ k \in Keys
  BY <1>1 DEF Chained
<1>3. c.prev[k] = Nil <=> m = 1
  <2>1. m # 1 => m - 1 \in 1..n
    BY <1>2
  <2>2. m # 1 => s[m - 1] \in Keys
    BY <2>1, <1>1 DEF Chained
  <2> QED
    BY <2>2, NilAssumption DEF Chained
<1>4. c.next[k] = Nil <=> m = n
  <2>1. m # n => m + 1 \in 1..n
    BY <1>2
  <2>2. m # n => s[m + 1] \in Keys
    BY <2>1, <1>1 DEF Chained
  <2> QED
    BY <2>2, NilAssumption DEF Chained
<1>5. c.prev[k] \in Pointer /\ c.next[k] \in Pointer
  BY <1>1, <1>2
<1> DEFINE nx == [p \in Keys |-> IF p = c.prev[k] THEN c.next[k] ELSE c.next[p]]
           pv == [q \in Keys |-> IF q = c.next[k] THEN c.prev[k] ELSE c.prev[q]]
<1>6. nx \in [Keys -> Pointer] /\ pv \in [Keys -> Pointer]
  BY <1>1, <1>5
<1>7. d = [items |-> c.items \ {k}, head |-> IF m = 1 THEN c.next[k] ELSE c.head,
           tail |-> IF m = n THEN c.prev[k] ELSE c.tail, prev |-> pv, next |-> nx]
  <2>1. d = [RemoveItem(c, k) EXCEPT !.items = @ \ {k}]
    BY <1>2 DEF Remove
  <2>2. PICK h, t : /\ h = IF m = 1 THEN c.next[k] ELSE c.head
                    /\ t = IF m = n THEN c.prev[k] ELSE c.tail
    OBVIOUS
  <2>3. /\ h = IF c.prev[k] = Nil THEN c.next[k] ELSE c.head
        /\ t = IF c.next[k] = Nil THEN c.prev[k] ELSE c.tail
    BY <1>3, <1>4, <2>2
  <2>4. RemoveItem(c, k) = [items |-> c.items, head |-> h, tail |-> t, prev |-> pv, next |-> nx]
    <3>1. RemoveItem(c, k) = [c EXCEPT !.head = h, !.tail = t, !.next = nx, !.prev = pv]
      BY <1>1, <2>3 DEF RemoveItem
    <3> HIDE DEF pv, nx
    <3> QED
      BY <3>1, <1>1
  <2> HIDE DEF pv, nx
  <2>5. d = [items |-> c.items \ {k}, head |-> h, tail |-> t, prev |-> pv, next |-> nx]
    BY <2>1, <2>4
  <2> QED
    BY <2>2, <2>5
<1> HIDE DEF pv, nx
<1>8. d \in List
  BY <1>1, <1>5, <1>6, <1>7 DEF List
<1> QED
  BY <1>7, <1>8 DEF pv, nx

TakenOut(s, n, m) == [i \in 1..n - 1 |-> IF i < m THEN s[i] ELSE s[i + 1]]

LEMMA RemoveChained ==
  ASSUME NEW c \in List, NEW s, NEW n, Chained(c, s, n), NEW m \in 1..n, NEW k, k = s[m],
         NEW d, d = Remove(c, k)
  PROVE  Chained(d, TakenOut(s, n, m), n - 1)
<1>1. /\ d \in List /\ d.items = c.items \ {k}
      /\ d.head = IF m = 1 THEN c.next[k] ELSE c.head
      /\ d.tail = IF m = n THEN c.prev[k] ELSE c.tail
      /\ \A x \in Keys : d.next[x] = IF x = c.prev[k] THEN c.next[k] ELSE c.next[x]
      /\ \A x \in Keys : d.prev[x] = IF x = c.next[k] THEN c.prev[k] ELSE c.prev[x]
  BY RemoveFields
<1>2. /\ n \in Nat /\ s \in [1..n -> c.items] /\ c.items \subseteq Keys
      /\ \A i, j \in 1..n : s[i] = s[j] => i = j
      /\ \A x \in c.items : \E i \in 1..n : s[i] = x
      /\ c.head = IF n = 0 THEN Nil ELSE s[1]
      /\ c.tail = IF n = 0 THEN Nil ELSE s[n]
      /\ \A i \in 1..n : c.prev[s[i]] = IF i = 1 THEN Nil ELSE s[i - 1]
      /\ \A i \in 1..n : c.next[s[i]] = IF i = n THEN Nil ELSE s[i + 1]
  BY DEF Chained, List
<1>0. n \in Nat /\ m \in Nat /\ 1 <= m /\ m <= n
  BY <1>2
<1> USE <1>0
<1>p. c.prev[k] = IF m = 1 THEN Nil ELSE s[m - 1]
  BY <1>2
<1>n. c.next[k] = IF m = n THEN Nil ELSE s[m + 1]
  BY <1>2
<1>3. PICK t : t = TakenOut(s, n, m)
  OBVIOUS
<1>i. \A i \in 1..n - 1 : i \in 1..n /\ i + 1 \in 1..n /\ i \in Nat
  BY <1>2
<1>4. \A i \in 1..n - 1 : /\ i < m => t[i] = s[i]
                          /\ ~(i < m) => t[i] = s[i + 1]
  BY <1>3 DEF TakenOut
<1>5. \A i \in 1..n - 1 : t[i] \in d.items
  <2> SUFFICES ASSUME NEW i \in 1..n - 1 PROVE t[i] \in c.items /\ t[i] # k
    BY <1>1
  <2>1. CASE i < m
    <3>1. i # m
      BY <2>1, <1>i
    <3> QED
      BY <2>1, <3>1, <1>i, <1>2, <1>4
  <2>2. CASE ~(i < m)
    <3>1. i + 1 # m
      BY <2>2, <1>i
    <3> QED
      BY <2>2, <3>1, <1>i, <1>2, <1>4
  <2> QED
    BY <2>1, <2>2
<1>6. t \in [1..n - 1 -> d.items]
  <2>1. t = [i \in 1..n - 1 |-> t[i]]
    BY <1>3 DEF TakenOut
  <2> QED
    BY <2>1, <1>5
<1>7. \A i, j \in 1..n - 1 : t[i] = t[j] => i = j
  <2> SUFFICES ASSUME NEW i \in 1..n - 1, NEW j \in 1..n - 1, t[i] = t[j] PROVE i = j
    OBVIOUS
  <2>1. PICK a \in 1..n : t[i] = s[a] /\ a = IF i < m THEN i ELSE i + 1
    BY <1>i, <1>4
  <2>2. PICK b \in 1..n : t[j] = s[b] /\ b = IF j < m THEN j ELSE j + 1
    BY <1>i, <1>4
  <2>3. a = b
    <3>1. s[a] = s[b]
      BY <2>1, <2>2
    <3> QED
      BY <3>1, <1>2
  <2> QED
    BY <2>1, <2>2, <2>3
<1>8. \A x \in d.items : \E i \in 1..n - 1 : t[i] = x
  <2> SUFFICES ASSUME NEW x \in c.items, x # k PROVE \E i \in 1..n - 1 : t[i] = x
    BY <1>1
  <2>1. PICK a \in 1..n : s[a] = x
    BY <1>2
  <2>2. a # m
    BY <2>1
  <2>3. CASE a < m
    <3>1. a \in 1..n - 1
      BY <2>3, <1>2
    <3> QED
      BY <3>1, <2>1, <2>3, <1>4
  <2>4. CASE ~(a < m)
    <3>1. a - 1 \in 1..n - 1 /\ ~(a - 1 < m) /\ (a - 1) + 1 = a
      BY <2>2, <2>4, <1>2
    <3>2. t[a - 1] = s[(a - 1) + 1]
      BY <3>1, <1>4
    <3> QED
      BY <3>1, <3>2, <2>1
  <2> QED
    BY <2>3, <2>4
<1>9. n - 1 \in Nat
  BY <1>2
<1>10. d.head = IF n - 1 = 0 THEN Nil ELSE t[1]
  <2>1. n - 1 # 0 => 1 \in 1..n - 1
    BY <1>9
  <2>2. CASE m = 1
    <3>1. n - 1 # 0 => t[1] = s[2] /\ m # n
      BY <2>1, <2>2, <1>4
    <3> QED
      BY <3>1, <2>2, <1>1, <1>n, <1>2
  <2>3. CASE m # 1
    <3>1. 1 < m /\ n - 1 # 0 /\ n # 0
      BY <2>3, <1>2
    <3> QED
      BY <3>1, <2>1, <2>3, <1>1, <1>2, <1>4
  <2> QED
    BY <2>2, <2>3
<1>11. d.tail = IF n - 1 = 0 THEN Nil ELSE t[n - 1]
  <2>1. n - 1 # 0 => n - 1 \in 1..n - 1 /\ (n - 1) + 1 = n
    BY <1>9
  <2>2. CASE m = n
    <3>1. n - 1 # 0 => n - 1 < m /\ t[n - 1] = s[n - 1] /\ m # 1
      BY <2>1, <2>2, <1>4, <1>2
    <3>2. n - 1 = 0 => m = 1
      BY <2>2, <1>2
    <3> QED
      BY <3>1, <3>2, <2>2, <1>1, <1>p
  <2>3. CASE m # n
    <3>1. ~(n - 1 < m) /\ n - 1 # 0 /\ n # 0
      BY <2>3, <1>2
    <3>2. t[n - 1] = s[(n - 1) + 1]
      BY <3>1, <2>1, <1>4
    <3> QED
      BY <3>1, <3>2, <2>1, <2>3, <1>1, <1>2
  <2> QED
    BY <2>2, <2>3
<1>12. ASSUME NEW i \in 1..n - 1
       PROVE  d.next[t[i]] = IF i = n - 1 THEN Nil ELSE t[i + 1]
  <2>0. i \in 1..n /\ i + 1 \in 1..n /\ i \in Nat /\ m \in Nat /\ t[i] \in Keys
    BY <1>i, <1>1, <1>2, <1>5
  <2>1. i # n - 1 => i + 1 \in 1..n - 1
    BY <2>0, <1>9
  <2>2. CASE i + 1 < m
    <3>1. i < m /\ i # n - 1 /\ i # n /\ m # 1 /\ i # m - 1 /\ m - 1 \in 1..n
      BY <2>0, <2>2, <1>2
    <3>2. t[i] = s[i] /\ t[i + 1] = s[i + 1]
      BY <3>1, <2>1, <2>2, <1>4
    <3>3. s[i] # s[m - 1]
      BY <3>1, <2>0, <1>2
    <3>4. d.next[t[i]] = c.next[s[i]]
      BY <3>1, <3>2, <3>3, <2>0, <1>1, <1>p
    <3> QED
      BY <3>1, <3>2, <3>4, <2>0, <1>2
  <2>3. CASE i + 1 = m
    <3>1. i < m /\ m # 1 /\ i = m - 1 /\ ~(i + 1 < m) /\ (m = n <=> i = n - 1)
      BY <2>0, <2>3, <1>2
    <3>2. t[i] = s[m - 1]
      BY <3>1, <1>4
    <3>3. d.next[t[i]] = c.next[k]
      BY <3>1, <3>2, <2>0, <1>1, <1>p
    <3>4. i # n - 1 => t[i + 1] = s[m + 1]
      BY <3>1, <2>1, <2>3, <1>4
    <3> QED
      BY <3>1, <3>3, <3>4, <1>n
  <2>4. CASE m < i + 1
    <3>1. ~(i < m) /\ ~(i + 1 < m) /\ (i + 1 = n <=> i = n - 1)
      BY <2>0, <2>4, <1>2
    <3>2. t[i] = s[i + 1] /\ (i # n - 1 => t[i + 1] = s[(i + 1) + 1])
      BY <3>1, <2>1, <1>4
    <3>3. m # 1 => m - 1 \in 1..n /\ i + 1 # m - 1
      BY <2>0, <2>4
    <3>4. s[i + 1] # c.prev[k]
      <4>1. m # 1 => s[i + 1] # s[m - 1]
        BY <3>3, <2>0, <1>2
      <4>2. s[i + 1] # Nil
        BY <2>0, <3>2, NilAssumption
      <4> QED
        BY <4>1, <4>2, <1>p
    <3>5. d.next[t[i]] = c.next[s[i + 1]]
      BY <3>2, <3>4, <2>0, <1>1
    <3>6. c.next[s[i + 1]] = IF i + 1 = n THEN Nil ELSE s[(i + 1) + 1]
      BY <2>0, <1>2
    <3> QED
      BY <3>1, <3>2, <3>5, <3>6
  <2> QED
    BY <2>0, <2>2, <2>3, <2>4
<1>13. ASSUME NEW i \in 1..n - 1
       PROVE  d.prev[t[i]] = IF i = 1 THEN Nil ELSE t[i - 1]
  <2>0. i \in 1..n /\ i + 1 \in 1..n /\ i \in Nat /\ m \in Nat /\ t[i] \in Keys
    BY <1>i, <1>1, <1>2, <1>5
  <2>1. i # 1 => i - 1 \in 1..n - 1
    BY <2>0, <1>9
  <2>2. CASE i < m
    <3>1. (i # 1 => i - 1 < m) /\ (m # n => m + 1 \in 1..n /\ i # m + 1)
      BY <2>0, <2>2, <1>2
    <3>2. t[i] = s[i] /\ (i # 1 => t[i - 1] = s[i - 1])
      BY <3>1, <2>1, <2>2, <1>4
    <3>3. s[i] # c.next[k]
      <4>1. m # n => s[i] # s[m + 1]
        BY <3>1, <2>0, <1>2
      <4>2. s[i] # Nil
        BY <2>0, <3>2, NilAssumption
      <4> QED
        BY <4>1, <4>2, <1>n
    <3>4. d.prev[t[i]] = c.prev[s[i]]
      BY <3>2, <3>3, <2>0, <1>1
    <3>5. c.prev[s[i]] = IF i = 1 THEN Nil ELSE s[i - 1]
      BY <2>0, <1>2
    <3> QED
      BY <3>2, <3>4, <3>5
  <2>3. CASE i = m
    <3>1. m # n /\ ~(i < m) /\ (i # 1 => i - 1 < m)
      BY <2>0, <2>3, <1>2
    <3>2. t[i] = s[m + 1] /\ (i # 1 => t[i - 1] = s[i - 1])
      BY <3>1, <2>1, <2>3, <1>4
    <3>3. d.prev[t[i]] = c.prev[k]
      BY <3>1, <3>2, <2>0, <1>1, <1>n
    <3> QED
      BY <3>2, <3>3, <2>3, <1>p
  <2>4. CASE m < i
    <3>1. ~(i < m) /\ ~(i - 1 < m) /\ i # 1 /\ (i - 1) + 1 = i /\ i + 1 # 1 /\ (i + 1) - 1 = i
      BY <2>0, <2>4
    <3>2. t[i] = s[i + 1] /\ t[i - 1] = s[i]
      <4>1. t[i - 1] = s[(i - 1) + 1]
        BY <3>1, <2>1, <1>4
      <4> QED
        BY <4>1, <3>1, <1>4
    <3>3. m # n => m + 1 \in 1..n /\ i + 1 # m + 1
      BY <2>0, <2>4, <1>2
    <3>4. s[i + 1] # c.next[k]
      <4>1. m # n => s[i + 1] # s[m + 1]
        BY <3>3, <2>0, <1>2
      <4>2. s[i + 1] # Nil
        BY <2>0, <3>2, NilAssumption
      <4> QED
        BY <4>1, <4>2, <1>n
    <3>5. d.prev[t[i]] = c.prev[s[i + 1]]
      BY <3>2, <3>4, <2>0, <1>1
    <3>6. c.prev[s[i + 1]] = s[(i + 1) - 1]
      BY <3>1, <2>0, <1>2
    <3> QED
      BY <3>1, <3>2, <3>5, <3>6
  <2> QED
    BY <2>0, <2>2, <2>3, <2>4
<1> QED
  BY <1>3, <1>6, <1>7, <1>8, <1>9, <1>10, <1>11, <1>12, <1>13 DEF Chained

-----------------------------------------------------------------------------
(* What the operations do to the items and their order. *)

Linear(c) == c \in List /\ \E n : \E s : Chained(c, s, n)

LEMMA LinearIs ==
  ASSUME NEW c, Linear(c)
  PROVE  /\ c \in List /\ c.items \subseteq Keys /\ WellLinked(c)
         /\ IsFiniteSet(c.items) /\ Recent(c) \subseteq c.items \X c.items
         /\ c.tail = Nil <=> c.items = {}
         /\ c.tail # Nil => /\ c.tail \in c.items
                            /\ \A q \in c.items : q # c.tail => <<q, c.tail>> \in Recent(c)
<1>1. c \in List
  BY DEF Linear
<1>2. PICK n, s : Chained(c, s, n)
  BY DEF Linear
<1>3. /\ c.items \subseteq Keys /\ WellLinked(c) /\ IsFiniteSet(c.items)
      /\ Recent(c) \subseteq c.items \X c.items
      /\ \A p, q \in c.items : <<p, q>> \in Recent(c) <=> Before(s, n, p, q)
  BY <1>1, <1>2, ChainWellLinked, ChainCounts, RecentIsBefore DEF List
<1>4. n \in Nat /\ \A i \in 1..n : s[i] \in c.items
  BY <1>2 DEF Chained
<1>5. \A q \in c.items : \E i \in 1..n : s[i] = q
  BY <1>2 DEF Chained
<1>6. CASE n = 0
  <2>1. c.items = {}
    BY <1>5, <1>6
  <2>2. c.tail = Nil
    BY <1>2, <1>6 DEF Chained
  <2> QED
    BY <1>1, <1>3, <2>1, <2>2
<1>7. CASE n # 0
  <2>1. n \in 1..n
    BY <1>4, <1>7
  <2>2. c.tail = s[n]
    BY <1>2, <1>7 DEF Chained
  <2>3. s[n] \in c.items /\ s[n] # Nil
    BY <1>3, <1>4, <2>1, NilAssumption
  <2>4. ASSUME NEW q \in c.items, q # s[n] PROVE <<q, s[n]>> \in Recent(c)
    <3>1. PICK i \in 1..n : s[i] = q
      BY <1>5
    <3>2. i < n
      BY <1>4, <2>4, <3>1
    <3>3. Before(s, n, q, s[n])
      BY <2>1, <3>1, <3>2 DEF Before
    <3> QED
      BY <1>3, <2>3, <3>3
  <2> QED
    BY <1>1, <1>3, <2>2, <2>3, <2>4
<1> QED
  BY <1>6, <1>7

LEMMA AddKeeps ==
  ASSUME NEW c, Linear(c), NEW k \in Keys, k \notin c.items, NEW d, d = Add(c, k)
  PROVE  /\ Linear(d) /\ d.items = c.items \cup {k}
         /\ Recent(d) = Recent(c) \cup ({k} \X c.items)
<1>1. c \in List
  BY DEF Linear
<1>2. PICK n, s : Chained(c, s, n)
  BY DEF Linear
<1>3. PICK t : t = InFront(k, s, n)
  OBVIOUS
<1>4. d \in List /\ d.items = c.items \cup {k} /\ Chained(d, t, n + 1)
  BY <1>1, <1>2, <1>3, AddFields, AddChained
<1>5. Linear(d)
  BY <1>4 DEF Linear
<1>6. /\ Recent(c) \subseteq c.items \X c.items
      /\ \A p, q \in c.items : <<p, q>> \in Recent(c) <=> Before(s, n, p, q)
  BY <1>1, <1>2, RecentIsBefore
<1>7. /\ Recent(d) \subseteq d.items \X d.items
      /\ \A p, q \in d.items : <<p, q>> \in Recent(d) <=> Before(t, n + 1, p, q)
  BY <1>4, RecentIsBefore
<1>8. /\ n \in Nat /\ \A i \in 1..n : s[i] \in c.items
      /\ \A q \in c.items : \E i \in 1..n : s[i] = q
  BY <1>2 DEF Chained
<1>9. t[1] = k /\ \A i \in 1..n + 1 : i # 1 => i - 1 \in 1..n /\ t[i] = s[i - 1]
  BY <1>3, <1>8 DEF InFront
<1>10. \A i \in 1..n : i + 1 \in 1..n + 1 /\ t[i + 1] = s[i] /\ 1 < i + 1
  <2> TAKE i \in 1..n
  <2>1. i + 1 \in 1..n + 1 /\ i + 1 # 1 /\ (i + 1) - 1 = i /\ 1 < i + 1
    BY <1>8
  <2> QED
    BY <2>1, <1>9
<1>11. ASSUME NEW p \in d.items, NEW q \in d.items, Before(t, n + 1, p, q)
       PROVE  q \in c.items /\ (p = k \/ (p \in c.items /\ Before(s, n, p, q)))
  <2>1. PICK i \in 1..n + 1, j \in 1..n + 1 : i < j /\ p = t[i] /\ q = t[j]
    BY <1>11 DEF Before
  <2>2. j # 1 /\ j - 1 \in 1..n /\ q = s[j - 1] /\ q \in c.items
    BY <1>8, <1>9, <2>1
  <2>3. i # 1 => i - 1 \in 1..n /\ p = s[i - 1] /\ p \in c.items /\ i - 1 < j - 1
    BY <1>8, <1>9, <2>1
  <2> QED
    BY <1>9, <2>1, <2>2, <2>3 DEF Before
<1>12. ASSUME NEW q \in c.items PROVE Before(t, n + 1, k, q)
  <2>1. PICK i \in 1..n : s[i] = q
    BY <1>8
  <2>2. 1 \in 1..n + 1
    BY <1>8
  <2> QED
    BY <1>9, <1>10, <2>1, <2>2 DEF Before
<1>13. ASSUME NEW p \in c.items, NEW q \in c.items, Before(s, n, p, q)
       PROVE  Before(t, n + 1, p, q)
  <2>1. PICK i \in 1..n, j \in 1..n : i < j /\ p = s[i] /\ q = s[j]
    BY <1>13 DEF Before
  <2>2. i + 1 < j + 1
    BY <2>1, <1>8
  <2> QED
    BY <1>10, <2>1, <2>2 DEF Before
<1>14. ASSUME NEW p \in d.items, NEW q \in d.items
       PROVE  <<p, q>> \in Recent(d) <=> <<p, q>> \in Recent(c) \cup ({k} \X c.items)
  BY <1>4, <1>6, <1>7, <1>11, <1>12, <1>13
<1> QED
  BY <1>4, <1>5, <1>6, <1>7, <1>14

LEMMA RemoveKeeps ==
  ASSUME NEW c, Linear(c), NEW k, NEW d, d = Remove(c, k)
  PROVE  /\ Linear(d) /\ d.items = c.items \ {k}
         /\ Recent(d) = Recent(c) \cap (d.items \X d.items)
<1>1. c \in List
  BY DEF Linear
<1>2. PICK n, s : Chained(c, s, n)
  BY DEF Linear
<1>3. CASE k \notin c.items
  <2>1. d = c
    BY <1>3 DEF Remove
  <2> QED
    BY <1>3, <2>1, LinearIs
<1>4. CASE k \in c.items
  <2>1. PICK m \in 1..n : k = s[m]
    BY <1>2, <1>4 DEF Chained
  <2>2. PICK t : t = TakenOut(s, n, m)
    OBVIOUS
  <2>3. d \in List /\ d.items = c.items \ {k} /\ Chained(d, t, n - 1)
    BY <1>1, <1>2, <2>1, <2>2, RemoveFields, RemoveChained
  <2>4. Linear(d)
    BY <2>3 DEF Linear
  <2>5. /\ Recent(c) \subseteq c.items \X c.items
        /\ \A p, q \in c.items : <<p, q>> \in Recent(c) <=> Before(s, n, p, q)
    BY <1>1, <1>2, RecentIsBefore
  <2>6. /\ Recent(d) \subseteq d.items \X d.items
        /\ \A p, q \in d.items : <<p, q>> \in Recent(d) <=> Before(t, n - 1, p, q)
    BY <2>3, RecentIsBefore
  <2>7. n \in Nat /\ m \in Nat /\ 1 <= m /\ m <= n
    <3>1. n \in Nat
      BY <1>2 DEF Chained
    <3> QED
      BY <3>1
  <2>8. \A i \in 1..n - 1 : /\ i < m => t[i] = s[i]
                            /\ ~(i < m) => t[i] = s[i + 1]
    BY <2>2 DEF TakenOut
  <2>9. ASSUME NEW p \in d.items, NEW q \in d.items, Before(t, n - 1, p, q)
        PROVE  Before(s, n, p, q)
    <3>1. PICK i \in 1..n - 1, j \in 1..n - 1 : i < j /\ p = t[i] /\ q = t[j]
      BY <2>9 DEF Before
    <3>2. PICK a \in 1..n : p = s[a] /\ a = IF i < m THEN i ELSE i + 1
      BY <2>7, <2>8, <3>1
    <3>3. PICK b \in 1..n : q = s[b] /\ b = IF j < m THEN j ELSE j + 1
      BY <2>7, <2>8, <3>1
    <3>4. a < b
      BY <2>7, <3>1, <3>2, <3>3
    <3> QED
      BY <3>2, <3>3, <3>4 DEF Before
  <2>10. ASSUME NEW p \in d.items, NEW q \in d.items, Before(s, n, p, q)
         PROVE  Before(t, n - 1, p, q)
    <3>1. PICK a \in 1..n, b \in 1..n : a < b /\ p = s[a] /\ q = s[b]
      BY <2>10 DEF Before
    <3>2. a # m /\ b # m
      BY <2>1, <2>3, <3>1
    <3>3. PICK i \in 1..n - 1 : p = t[i] /\ i = IF a < m THEN a ELSE a - 1
      <4>1. CASE a < m
        <5>1. a \in 1..n - 1
          BY <4>1, <2>7
        <5> QED
          BY <5>1, <4>1, <2>8, <3>1
      <4>2. CASE ~(a < m)
        <5>1. a - 1 \in 1..n - 1 /\ ~(a - 1 < m) /\ (a - 1) + 1 = a
          BY <4>2, <3>2, <2>7
        <5> QED
          BY <5>1, <4>2, <2>8, <3>1
      <4> QED
        BY <4>1, <4>2
    <3>4. PICK j \in 1..n - 1 : q = t[j] /\ j = IF b < m THEN b ELSE b - 1
      <4>1. CASE b < m
        <5>1. b \in 1..n - 1
          BY <4>1, <2>7
        <5> QED
          BY <5>1, <4>1, <2>8, <3>1
      <4>2. CASE ~(b < m)
        <5>1. b - 1 \in 1..n - 1 /\ ~(b - 1 < m) /\ (b - 1) + 1 = b
          BY <4>2, <3>2, <2>7
        <5> QED
          BY <5>1, <4>2, <2>8, <3>1
      <4> QED
        BY <4>1, <4>2
    <3>5. i < j
      BY <2>7, <3>1, <3>2, <3>3, <3>4
    <3> QED
      BY <3>3, <3>4, <3>5 DEF Before
  <2>11. \A p, q \in d.items : <<p, q>> \in Recent(d) <=> <<p, q>> \in Recent(c)
    BY <2>3, <2>5, <2>6, <2>9, <2>10
  <2> QED
    BY <2>3, <2>4, <2>5, <2>6, <2>11
<1> QED
  BY <1>3, <1>4

(* A record with the five fields of a list. *)
IsRecord(c) == c = [items |-> c.items, head |-> c.head, tail |-> c.tail, prev |-> c.prev, next |-> c.next]

Put(f, k, v) == [f EXCEPT ![k] = v]

LEMMA PrependIs ==
  ASSUME NEW c, IsRecord(c), NEW k, NEW d, d = Prepend(c, k)
  PROVE  /\ IsRecord(d) /\ d.items = c.items /\ d.head = k /\ d.tail = c.tail
         /\ d.prev = Put(c.prev, k, Nil) /\ d.next = Put(c.next, k, c.head)
BY DEF IsRecord, Prepend, Put

LinkBack(c, k, l) == [c EXCEPT !.prev = [@ EXCEPT ![k] = l]]

LEMMA LinkBackIs ==
  ASSUME NEW c, IsRecord(c), NEW k, NEW l, NEW d, d = LinkBack(c, k, l)
  PROVE  /\ IsRecord(d) /\ d.items = c.items /\ d.head = c.head /\ d.tail = c.tail
         /\ d.prev = Put(c.prev, k, l) /\ d.next = c.next
BY DEF IsRecord, Put, LinkBack

LEMMA SetItemsIs ==
  ASSUME NEW c, IsRecord(c), NEW i, NEW d, d = [c EXCEPT !.items = i]
  PROVE  /\ IsRecord(d) /\ d.items = i /\ d.head = c.head /\ d.tail = c.tail
         /\ d.prev = c.prev /\ d.next = c.next
BY DEF IsRecord

(* Touch takes an item out and adds it in front. *)
LEMMA TouchKeeps ==
  ASSUME NEW c, Linear(c), NEW k \in c.items, NEW d, d = Touch(c, k), NEW rest, rest = c.items \ {k}
  PROVE  /\ Linear(d) /\ d.items = c.items
         /\ Recent(d) = (Recent(c) \cap (rest \X rest)) \cup ({k} \X rest)
<1>1. c \in List /\ k \in Keys /\ d = MoveToFront(c, k)
  BY DEF Linear, List, Touch
<1>2. PICK n, s : Chained(c, s, n)
  BY DEF Linear
<1>3. /\ n \in Nat /\ \A i \in 1..n : s[i] \in c.items
      /\ \A q \in c.items : \E i \in 1..n : s[i] = q
      /\ n # 0 => c.head = s[1]
  BY <1>2 DEF Chained
<1>4. CASE k = c.head
  <2>1. d = c
    BY <1>1, <1>4 DEF MoveToFront
  <2>2. n # 0 /\ 1 \in 1..n /\ k = s[1]
    BY <1>3, <1>4
  <2>3. /\ Recent(c) \subseteq c.items \X c.items
        /\ \A p, q \in c.items : <<p, q>> \in Recent(c) <=> Before(s, n, p, q)
    BY <1>1, <1>2, RecentIsBefore
  <2>4. ASSUME NEW q \in rest PROVE Before(s, n, k, q)
    <3>1. PICK i \in 1..n : s[i] = q
      BY <1>3
    <3>2. i # 1 /\ 1 < i
      BY <3>1, <2>2, <1>3
    <3> QED
      BY <2>2, <3>1, <3>2 DEF Before
  <2>5. ASSUME NEW p \in c.items PROVE ~Before(s, n, p, k)
    <3> SUFFICES ASSUME Before(s, n, p, k) PROVE FALSE
      OBVIOUS
    <3>1. PICK i \in 1..n, j \in 1..n : i < j /\ k = s[j]
      BY DEF Before
    <3>2. j = 1
      BY <3>1, <2>2, <1>2 DEF Chained
    <3> QED
      BY <3>1, <3>2, <1>3
  <2> QED
    BY <2>1, <2>3, <2>4, <2>5
<1>5. CASE k # c.head
  <2>1. PICK r : r = Remove(c, k)
    OBVIOUS
  <2>2. /\ Linear(r) /\ r.items = rest /\ Recent(r) = Recent(c) \cap (rest \X rest)
    BY <2>1, RemoveKeeps
  <2>3. d = Add(r, k)
    <3>1. PICK m \in 1..n : k = s[m]
      BY <1>3
    <3>2. c.prev[k] # Nil
      <4>1. m # 1 /\ m - 1 \in 1..n
        BY <1>3, <1>5, <3>1
      <4>2. c.prev[k] = s[m - 1]
        BY <3>1, <4>1, <1>2 DEF Chained
      <4>3. s[m - 1] \in Keys
        BY <4>1, <1>1, <1>3 DEF List
      <4> QED
        BY <4>2, <4>3, NilAssumption
    <3>3. c.head # Nil
      <4>1. n # 0 /\ 1 \in 1..n
        BY <1>3, <3>1
      <4>2. c.head \in Keys
        BY <4>1, <1>1, <1>3 DEF List
      <4> QED
        BY <4>2, NilAssumption
    <3>4. PICK q : q = RemoveItem(c, k)
      OBVIOUS
    <3>5. IsRecord(q) /\ q.items = c.items /\ q.head = c.head /\ DOMAIN q.next = Keys
      BY <3>2, <3>4, <1>1 DEF RemoveItem, List, IsRecord
    <3>6. /\ IsRecord(r) /\ r.items = rest /\ r.head = q.head /\ r.tail = q.tail
          /\ r.prev = q.prev /\ r.next = q.next
      <4>1. r = [q EXCEPT !.items = q.items \ {k}]
        BY <3>4, <2>1 DEF Remove
      <4>2. q.items \ {k} = rest
        BY <3>5
      <4> QED
        BY <3>5, <4>1, <4>2, SetItemsIs
    <3>7. PICK a : a = Put(Put(q.prev, k, Nil), c.head, k)
      OBVIOUS
    <3>8. PICK b : b = Put(q.next, k, c.head)
      OBVIOUS
    <3>9. ASSUME NEW x, x = Add(r, k)
          PROVE  /\ IsRecord(x) /\ x.items = c.items /\ x.head = k /\ x.tail = q.tail
                 /\ x.prev = a /\ x.next = b
      <4>1. rest \cup {k} = c.items /\ k \notin r.items
        BY <3>6
      <4>2. PICK u : u = Prepend(r, k)
        OBVIOUS
      <4>3. /\ IsRecord(u) /\ u.head = k /\ u.tail = q.tail
            /\ u.prev = Put(q.prev, k, Nil) /\ u.next = b
        <5>1. /\ IsRecord(u) /\ u.items = r.items /\ u.head = k /\ u.tail = r.tail
              /\ u.prev = Put(r.prev, k, Nil) /\ u.next = Put(r.next, k, r.head)
          BY <3>6, <4>2, PrependIs
        <5> QED
          BY <3>5, <3>6, <3>8, <5>1
      <4>4. PICK v : v = [u EXCEPT !.items = c.items]
        OBVIOUS
      <4>5. /\ IsRecord(v) /\ v.items = c.items /\ v.head = k /\ v.tail = q.tail
            /\ v.prev = Put(q.prev, k, Nil) /\ v.next = b
        BY <4>3, <4>4, SetItemsIs
      <4>6. x = LinkBack(v, c.head, k)
        BY <3>3, <3>5, <3>6, <3>9, <4>1, <4>2, <4>4 DEF Add, LinkBack
      <4>7. /\ IsRecord(x) /\ x.items = v.items /\ x.head = v.head /\ x.tail = v.tail
            /\ x.prev = Put(v.prev, c.head, k) /\ x.next = v.next
        BY <4>5, <4>6, LinkBackIs
      <4> QED
        BY <3>7, <4>5, <4>7
    <3>10. /\ IsRecord(d) /\ d.items = c.items /\ d.head = k /\ d.tail = q.tail
           /\ d.prev = a /\ d.next = b
      <4>1. PICK u : u = Prepend(q, k)
        OBVIOUS
      <4>2. /\ IsRecord(u) /\ u.items = c.items /\ u.head = k /\ u.tail = q.tail
            /\ u.prev = Put(q.prev, k, Nil) /\ u.next = b
        <5>1. /\ IsRecord(u) /\ u.items = q.items /\ u.head = k /\ u.tail = q.tail
              /\ u.prev = Put(q.prev, k, Nil) /\ u.next = Put(q.next, k, q.head)
          BY <3>5, <4>1, PrependIs
        <5> QED
          BY <3>5, <3>8, <5>1
      <4>3. u.next[k] = c.head
        BY <3>5, <3>8, <4>2, <1>1 DEF Put
      <4>4. d = LinkBack(u, c.head, k)
        BY <4>1, <4>3, <3>4, <1>1, <1>5 DEF MoveToFront, LinkBack
      <4>5. /\ IsRecord(d) /\ d.items = u.items /\ d.head = u.head /\ d.tail = u.tail
            /\ d.prev = Put(u.prev, c.head, k) /\ d.next = u.next
        BY <4>2, <4>4, LinkBackIs
      <4> QED
        BY <3>7, <4>2, <4>5
    <3>11. PICK x : x = Add(r, k)
      OBVIOUS
    <3>12. /\ IsRecord(x) /\ x.items = d.items /\ x.head = d.head /\ x.tail = d.tail
           /\ x.prev = d.prev /\ x.next = d.next
      BY <3>9, <3>10, <3>11
    <3> QED
      BY <3>10, <3>11, <3>12 DEF IsRecord
  <2>4. k \notin r.items
    BY <2>2
  <2>5. /\ Linear(d) /\ d.items = r.items \cup {k}
        /\ Recent(d) = Recent(r) \cup ({k} \X r.items)
    BY <1>1, <2>2, <2>3, <2>4, AddKeeps
  <2> QED
    BY <2>2, <2>5
<1> QED
  BY <1>4, <1>5

-----------------------------------------------------------------------------
(* Closing several connections. *)

(* What RemoveAll goes through. *)
IsTrace(c, ks, n, f) == f = [i \in 0..n |-> IF i = 0 THEN c ELSE Remove(f[i - 1], ks[i])]

LEMMA RemoveAllIs ==
  ASSUME NEW ks, NEW n, NEW f, IsTrace(lru, ks, n, f)
  PROVE  \E g : IsTrace(lru, ks, n, g) /\ RemoveAll(ks, n) = g[n]
BY DEF RemoveAll, IsTrace

LEMMA TraceExists ==
  ASSUME NEW c, NEW ks, NEW n \in Nat
  PROVE  \E f : IsTrace(c, ks, n, f)
<1> DEFINE B == {m \in Nat : ~\E f : IsTrace(c, ks, m, f)}
<1>1. SUFFICES ASSUME B # {} PROVE FALSE
  OBVIOUS
<1>2. PICK m \in B : \A j \in B : m <= j
  <2>1. B \in SUBSET Nat
    OBVIOUS
  <2> HIDE DEF B
  <2> QED
    BY <1>1, <2>1, NatSetHasLeast
<1>3. m \in Nat /\ ~\E f : IsTrace(c, ks, m, f)
  BY <1>2
<1>4. CASE m = 0
  <2>1. PICK f : f = [i \in 0..0 |-> c]
    OBVIOUS
  <2>2. f = [i \in 0..0 |-> IF i = 0 THEN c ELSE Remove(f[i - 1], ks[i])]
    BY <2>1
  <2> QED
    BY <1>3, <1>4, <2>2 DEF IsTrace
<1>5. CASE m # 0
  <2>1. m - 1 \in Nat /\ ~(m <= m - 1)
    BY <1>3, <1>5
  <2>2. PICK f : IsTrace(c, ks, m - 1, f)
    BY <1>2, <2>1
  <2>3. PICK g : g = [i \in 0..m |-> IF i = m THEN Remove(f[m - 1], ks[m]) ELSE f[i]]
    OBVIOUS
  <2>4. ASSUME NEW i \in 0..m
        PROVE  g[i] = IF i = 0 THEN c ELSE Remove(g[i - 1], ks[i])
    <3>1. CASE i = m
      <4>1. m - 1 \in 0..m /\ m - 1 # m
        BY <1>3, <2>1
      <4>2. g[i] = Remove(f[m - 1], ks[m]) /\ g[m - 1] = f[m - 1]
        BY <2>3, <3>1, <4>1
      <4> QED
        BY <1>5, <3>1, <4>2
    <3>2. CASE i # m
      <4>1. i \in 0..m - 1 /\ (i # 0 => i - 1 \in 0..m /\ i - 1 # m)
        BY <1>3, <3>2
      <4>2. f[i] = IF i = 0 THEN c ELSE Remove(f[i - 1], ks[i])
        BY <2>2, <4>1 DEF IsTrace
      <4>3. g[i] = f[i] /\ (i # 0 => g[i - 1] = f[i - 1])
        BY <2>3, <3>2, <4>1
      <4> QED
        BY <4>2, <4>3
    <3> QED
      BY <3>1, <3>2
  <2>5. g = [i \in 0..m |-> g[i]]
    BY <2>3
  <2>6. g = [i \in 0..m |-> IF i = 0 THEN c ELSE Remove(g[i - 1], ks[i])]
    BY <2>4, <2>5
  <2> QED
    BY <1>3, <2>6 DEF IsTrace
<1> QED
  BY <1>4, <1>5

(* d is c without the items in S, the others in the same order. *)
Without(c, S, d) ==
  /\ Linear(d) /\ d.items = c.items \ S
  /\ Recent(d) = Recent(c) \cap (d.items \X d.items)

FirstKeys(ks, i) == {ks[j] : j \in 1..i}

LEMMA TraceKeeps ==
  ASSUME NEW c, Linear(c), NEW ks, NEW n \in Nat, NEW f, IsTrace(c, ks, n, f)
  PROVE  \A i \in 0..n : Without(c, FirstKeys(ks, i), f[i])
<1> DEFINE B == {i \in 0..n : ~Without(c, FirstKeys(ks, i), f[i])}
<1>1. SUFFICES ASSUME B # {} PROVE FALSE
  OBVIOUS
<1>2. PICK i \in B : \A j \in B : i <= j
  <2>1. B \in SUBSET Nat
    OBVIOUS
  <2> HIDE DEF B
  <2> QED
    BY <1>1, <2>1, NatSetHasLeast
<1>3. i \in 0..n /\ ~Without(c, FirstKeys(ks, i), f[i])
  BY <1>2
<1>4. CASE i = 0
  <2>1. f[i] = c
    BY <1>3, <1>4 DEF IsTrace
  <2>2. FirstKeys(ks, i) = {}
    BY <1>4 DEF FirstKeys
  <2>3. Recent(c) = Recent(c) \cap (c.items \X c.items) /\ c.items \ {} = c.items
    BY LinearIs
  <2> QED
    BY <1>3, <2>1, <2>2, <2>3 DEF Without
<1>5. CASE i # 0
  <2>1. i - 1 \in 0..n /\ ~(i <= i - 1)
    BY <1>3, <1>5
  <2>2. PICK e : e = f[i - 1]
    OBVIOUS
  <2>3. PICK S : S = FirstKeys(ks, i - 1)
    OBVIOUS
  <2>4. Without(c, S, e)
    BY <1>2, <2>1, <2>2, <2>3
  <2>5. f[i] = Remove(e, ks[i])
    BY <1>3, <1>5, <2>2 DEF IsTrace
  <2>6. FirstKeys(ks, i) = S \cup {ks[i]}
    <3>1. \A j : j \in 1..i <=> j \in 1..(i - 1) \/ j = i
      BY <1>3, <1>5
    <3> QED
      BY <2>3, <3>1 DEF FirstKeys
  <2>7. PICK d, k : d = f[i] /\ k = ks[i]
    OBVIOUS
  <2>8. /\ Linear(d) /\ d.items = e.items \ {k}
        /\ Recent(d) = Recent(e) \cap (d.items \X d.items)
    BY <2>4, <2>5, <2>7, RemoveKeeps DEF Without
  <2>9. d.items = c.items \ (S \cup {k})
    BY <2>4, <2>8 DEF Without
  <2>10. Recent(d) = Recent(c) \cap (d.items \X d.items)
    <3>1. Recent(e) = Recent(c) \cap (e.items \X e.items) /\ d.items \subseteq e.items
      BY <2>4, <2>8 DEF Without
    <3> QED
      BY <2>8, <3>1
  <2>11. Without(c, S \cup {k}, d)
    BY <2>8, <2>9, <2>10 DEF Without
  <2> QED
    BY <1>3, <2>6, <2>7, <2>11
<1> QED
  BY <1>4, <1>5

(* In whichever order the keys go, the rest keeps its order. *)
LEMMA RemoveAllKeeps ==
  ASSUME Linear(lru), NEW S, IsFiniteSet(S), NEW ks \in ClosingOrders(S),
         NEW d, d = RemoveAll(ks, Cardinality(S))
  PROVE  Without(lru, S, d)
<1>1. PICK n \in Nat : n = Cardinality(S)
  BY FS_CardinalityType
<1>2. FirstKeys(ks, n) = S
  <2>1. ks \in [1..n -> S] /\ \A x \in S : \E j \in 1..n : ks[j] = x
    BY <1>1 DEF ClosingOrders, Bijection, Injection, Surjection
  <2> QED
    BY <2>1 DEF FirstKeys
<1>3. PICK g : IsTrace(lru, ks, n, g) /\ RemoveAll(ks, n) = g[n]
  <2>1. PICK f : IsTrace(lru, ks, n, f)
    BY TraceExists
  <2> QED
    BY <2>1, RemoveAllIs
<1>4. \A i \in 0..n : Without(lru, FirstKeys(ks, i), g[i])
  BY <1>3, TraceKeeps
<1>5. n \in 0..n
  BY <1>1
<1> QED
  BY <1>1, <1>2, <1>3, <1>4, <1>5

-----------------------------------------------------------------------------
(* The inductive invariant.  The limit is on the list, not on the map: what  *)
(* a failed close leaves in the map alone is dead.                           *)

MapOK ==
  /\ connections \subseteq Keys /\ IsFiniteSet(connections)
  /\ stale \subseteq connections /\ dead \subseteq connections
  /\ currentOpen = Cardinality(connections) /\ got \in Pointer

ListOK ==
  /\ Linear(lru)
  /\ connections \ dead \subseteq lru.items /\ lru.items \subseteq connections
  /\ Cardinality(lru.items) <= maxConnections

Inv == MapOK /\ ListOK

LEMMA PartCounts ==
  ASSUME NEW S, IsFiniteSet(S), NEW T \in SUBSET S
  PROVE  /\ IsFiniteSet(T) /\ IsFiniteSet(S \ T)
         /\ Cardinality(S) \in Nat /\ Cardinality(T) \in Nat
         /\ Cardinality(S \ T) = Cardinality(S) - Cardinality(T)
<1>1. PICK R : R = S \ T
  OBVIOUS
<1>2. IsFiniteSet(T) /\ IsFiniteSet(R)
  <2>1. R \in SUBSET S
    BY <1>1
  <2> QED
    BY <2>1, FS_Subset
<1>3. /\ Cardinality(S) \in Nat /\ Cardinality(T) \in Nat /\ Cardinality(R) \in Nat
      /\ Cardinality(R \cap T) \in Nat
  <2>1. R \cap T \in SUBSET R
    OBVIOUS
  <2>2. IsFiniteSet(R \cap T)
    BY <1>2, <2>1, FS_Subset
  <2> QED
    BY <1>2, <2>2, FS_CardinalityType
<1>4. R \cup T = S /\ R \cap T = {}
  BY <1>1
<1>5. Cardinality(R \cup T) = Cardinality(R) + Cardinality(T) - Cardinality(R \cap T)
  BY <1>2, FS_Union
<1>6. Cardinality({}) = 0
  BY FS_EmptySet
<1>7. Cardinality(S) = Cardinality(R) + Cardinality(T) - 0
  BY <1>4, <1>5, <1>6
<1> QED
  BY <1>1, <1>2, <1>3, <1>7

(* What the pool closes to stay within its limit is the tail, if the list has one. *)
LEMMA EvictKeeps ==
  ASSUME Inv, NEW d, d = EvictLRU
  PROVE  /\ Without(lru, Victim, d) /\ Victim \subseteq lru.items
         /\ Cardinality(d.items) + 1 <= maxConnections
         /\ \/ Victim = {} /\ d = lru /\ (currentOpen < maxConnections \/ lru.items = {})
            \/ /\ ~(currentOpen < maxConnections) /\ lru.items # {}
               /\ \E p \in lru.items : /\ Victim = {p}
                                       /\ \A q \in lru.items : q # p => <<q, p>> \in Recent(lru)
<1>1. /\ lru.tail = Nil <=> lru.items = {}
      /\ lru.tail # Nil => /\ lru.tail \in lru.items
                           /\ \A q \in lru.items : q # lru.tail => <<q, lru.tail>> \in Recent(lru)
      /\ Recent(lru) \subseteq lru.items \X lru.items
  BY LinearIs DEF Inv, ListOK
<1>2. IsFiniteSet(lru.items)
  BY LinearIs DEF Inv, ListOK
<1>3. /\ Cardinality(lru.items) \in Nat /\ currentOpen \in Nat /\ maxConnections \in Nat
      /\ maxConnections >= 1 /\ Cardinality(lru.items) <= maxConnections
      /\ Cardinality(lru.items) <= currentOpen
  <2>1. lru.items \in SUBSET connections /\ IsFiniteSet(connections)
    BY DEF Inv, MapOK, ListOK
  <2>2. Cardinality(lru.items) <= Cardinality(connections)
    BY <2>1, FS_Subset
  <2>3. Cardinality(connections) \in Nat /\ Cardinality(lru.items) \in Nat
    BY <1>2, <2>1, FS_CardinalityType
  <2> QED
    BY <2>2, <2>3, PoolAssumption DEF Inv, MapOK, ListOK
<1>4. Linear(lru)
  BY DEF Inv, ListOK
<1>5. Full <=> ~(currentOpen < maxConnections)
  BY <1>3 DEF Full
<1>6. CASE ~Full \/ lru.tail = Nil
  <2>1. Victim = {} /\ d = lru
    BY <1>6 DEF Victim, EvictLRU, Evict
  <2>2. Without(lru, {}, lru)
    BY <1>1, <1>4 DEF Without
  <2>3. currentOpen < maxConnections \/ lru.items = {}
    BY <1>1, <1>5, <1>6
  <2>4. lru.items = {} => Cardinality(lru.items) = 0
    BY FS_EmptySet
  <2>5. Cardinality(lru.items) + 1 <= maxConnections
    BY <1>3, <2>3, <2>4
  <2> QED
    BY <2>1, <2>2, <2>3, <2>5
<1>7. CASE Full /\ lru.tail # Nil
  <2>1. PICK p : p = lru.tail
    OBVIOUS
  <2>2. Victim = {p} /\ d = Remove(lru, p)
    BY <1>7, <2>1 DEF Victim, EvictLRU, Evict
  <2>3. Without(lru, {p}, d)
    BY <1>4, <2>2, RemoveKeeps DEF Without
  <2>4. p \in lru.items /\ \A q \in lru.items : q # p => <<q, p>> \in Recent(lru)
    BY <1>1, <1>7, <2>1
  <2>5. Cardinality(lru.items \ {p}) = Cardinality(lru.items) - 1
    BY <1>2, <2>4, FS_RemoveElement
  <2>6. Cardinality(d.items) + 1 <= maxConnections
    <3>1. d.items = lru.items \ {p}
      BY <2>3 DEF Without
    <3> QED
      BY <3>1, <1>3, <2>5
  <2> QED
    BY <1>5, <1>7, <2>2, <2>3, <2>4, <2>6
<1> QED
  BY <1>6, <1>7

-----------------------------------------------------------------------------
(* One lemma per action: the invariant, and the step of LRUPool it is. *)

LEMMA InitHolds ==
  ASSUME Init
  PROVE  Inv /\ Abstract!Init
<1>1. Chained(NewLRUCache, [i \in 1..0 |-> Nil], 0)
  BY DEF Chained, NewLRUCache
<1>2. NewLRUCache \in List
  BY DEF List, NewLRUCache, Pointer
<1>3. NewLRUCache.items = {}
  BY DEF NewLRUCache
<1>4. Linear(lru) /\ lru.items = {}
  BY <1>1, <1>2, <1>3 DEF Linear, Init
<1>5. Recent(lru) = {}
  BY <1>4, LinearIs
<1>6. IsFiniteSet({}) /\ Cardinality({}) = 0
  BY FS_EmptySet
<1>7. MapOK
  BY <1>6 DEF MapOK, Init, Pointer
<1>8. ListOK
  BY <1>4, <1>6, PoolAssumption DEF ListOK, Init
<1> QED
  BY <1>4, <1>5, <1>7, <1>8 DEF Inv, Abstract!Init, Init

LEMMA GetOpenHolds ==
  ASSUME Inv, NEW path \in Paths, GetOpen(path)
  PROVE  Inv' /\ Abstract!GetOpen(path)
<1>1. /\ path \in connections /\ got' = path /\ lru' = Touch(lru, path)
      /\ stale' = stale \ {path}
      /\ connections' = connections /\ currentOpen' = currentOpen /\ dead' = dead
  BY DEF GetOpen
<1>2. MapOK'
  BY <1>1 DEF Inv, MapOK, Pointer, Paths
<1>3. CASE path \in lru.items
  <2>1. PICK rest : rest = lru.items \ {path}
    OBVIOUS
  <2>2. PICK d : d = lru'
    OBVIOUS
  <2>3. /\ Linear(d) /\ d.items = lru.items
        /\ Recent(d) = (Recent(lru) \cap (rest \X rest)) \cup ({path} \X rest)
    BY <1>1, <1>3, <2>1, <2>2, TouchKeeps DEF Inv, ListOK
  <2>4. ListOK'
    BY <1>1, <2>2, <2>3 DEF Inv, ListOK
  <2>5. Abstract!Keep(lru.items \ {path}, {path})
    BY <1>3, <2>1, <2>2, <2>3 DEF Abstract!Keep
  <2>6. (connections \ lru.items)' = connections \ lru.items
    BY <1>1, <2>2, <2>3
  <2> QED
    BY <1>1, <1>2, <1>3, <2>4, <2>5, <2>6 DEF Inv, Abstract!GetOpen
<1>4. CASE path \notin lru.items
  <2>1. lru' = lru
    BY <1>1, <1>4 DEF Touch
  <2>2. ListOK'
    BY <1>1, <2>1 DEF Inv, ListOK
  <2> QED
    BY <1>1, <1>2, <1>4, <2>1, <2>2 DEF Inv, Abstract!GetOpen
<1> QED
  BY <1>3, <1>4

(* Release and Elapse do what closing nothing would. *)
LEMMA IdleHolds ==
  ASSUME Inv, got' = Nil, stale' \subseteq connections,
         UNCHANGED <<connections, lru, currentOpen, dead>>
  PROVE  Inv' /\ Abstract!Close({})
<1>1. MapOK'
  BY DEF Inv, MapOK, Pointer
<1>2. ListOK'
  BY DEF Inv, ListOK
<1>3. Recent(lru) = Recent(lru) \cap (lru.items \X lru.items)
  BY LinearIs DEF Inv, ListOK
<1>4. lru.items \ {} = lru.items /\ {} \X lru.items = {}
  OBVIOUS
<1>5. Abstract!Keep(lru.items \ {}, {})
  BY <1>3, <1>4 DEF Abstract!Keep
<1> QED
  BY <1>1, <1>2, <1>5 DEF Inv, Abstract!Close

LEMMA CloseHolds ==
  ASSUME Inv, NEW S \in SUBSET connections, CloseConnections(S)
  PROVE  Inv' /\ \E T \in SUBSET Paths : Abstract!Close(T)
<1>1. PICK T \in CloseOutcomes(S) :
        /\ connections' = connections \ T
        /\ \E ks \in ClosingOrders(T) : lru' = RemoveAll(ks, Cardinality(T))
        /\ currentOpen' = currentOpen - Cardinality(T)
        /\ stale' = stale \ T
        /\ dead' = (dead \cup S) \ T
        /\ got' = Nil
  BY DEF CloseConnections
<1>2. T \subseteq S /\ T \in SUBSET connections /\ T \in SUBSET Paths
  BY <1>1 DEF CloseOutcomes, Inv, MapOK, Paths
<1>3. /\ IsFiniteSet(T) /\ IsFiniteSet(connections \ T)
      /\ Cardinality(connections \ T) = Cardinality(connections) - Cardinality(T)
  BY <1>2, PartCounts DEF Inv, MapOK
<1>4. PICK d : d = lru'
  OBVIOUS
<1>5. Without(lru, T, d)
  <2>1. PICK ks \in ClosingOrders(T) : lru' = RemoveAll(ks, Cardinality(T))
    BY <1>1
  <2> QED
    BY <1>3, <1>4, <2>1, RemoveAllKeeps DEF Inv, ListOK
<1>6. /\ Linear(d) /\ d.items = lru.items \ T
      /\ Recent(d) = Recent(lru) \cap (d.items \X d.items)
  BY <1>5 DEF Without
<1>7. MapOK'
  BY <1>1, <1>2, <1>3 DEF Inv, MapOK, Pointer
<1>8. Cardinality(d.items) <= maxConnections
  <2>1. IsFiniteSet(lru.items) /\ d.items \in SUBSET lru.items
    BY <1>6, LinearIs DEF Inv, ListOK
  <2>2. /\ Cardinality(d.items) <= Cardinality(lru.items)
        /\ Cardinality(lru.items) \in Nat /\ Cardinality(d.items) \in Nat
    BY <2>1, FS_Subset, FS_CardinalityType
  <2>3. Cardinality(lru.items) <= maxConnections /\ maxConnections \in Nat
    BY PoolAssumption DEF Inv, ListOK
  <2> QED
    BY <2>2, <2>3
<1>9. ListOK'
  <2>1. Linear(lru') /\ Cardinality(lru'.items) <= maxConnections
    BY <1>4, <1>6, <1>8
  <2>2. connections' \ dead' \subseteq lru'.items /\ lru'.items \subseteq connections'
    BY <1>1, <1>4, <1>6 DEF Inv, ListOK
  <2> QED
    BY <2>1, <2>2 DEF ListOK
<1>10. Abstract!Close(T)
  <2>1. {} \X (lru.items \ T) = {}
    OBVIOUS
  <2>2. Abstract!Keep(lru.items \ T, {})
    BY <1>4, <1>6, <2>1 DEF Abstract!Keep
  <2>3. (connections \ lru.items)' = (connections \ lru.items) \ T
    BY <1>1, <1>4, <1>6 DEF Inv, ListOK
  <2> QED
    BY <1>1, <2>2, <2>3 DEF Abstract!Close
<1> QED
  BY <1>2, <1>7, <1>9, <1>10 DEF Inv

(* LRUPool counts as the pool does. *)
LEMMA SameCardinality ==
  ASSUME NEW S
  PROVE  Abstract!Cardinality(S) = Cardinality(S)
BY Zenon DEF Abstract!Cardinality, Cardinality, Abstract!IsFiniteSet, IsFiniteSet

(* The part of a Get that makes room, whether or not a connection comes in front. *)
LEMMA MakesRoom ==
  ASSUME Inv, NEW front, front \cap connections = {}, NEW closed \in CloseOutcomes(Victim),
         NEW e, e = EvictLRU, NEW d, d = lru', d.items = e.items \cup front,
         Recent(d) = Recent(e) \cup (front \X e.items),
         connections' = (connections \ closed) \cup front
  PROVE  Abstract!MakeRoom(front)
<1>1. /\ Without(lru, Victim, e) /\ Victim \subseteq lru.items
      /\ \/ Victim = {} /\ e = lru /\ (currentOpen < maxConnections \/ lru.items = {})
         \/ /\ ~(currentOpen < maxConnections) /\ lru.items # {}
            /\ \E p \in lru.items : /\ Victim = {p}
                                    /\ \A q \in lru.items : q # p => <<q, p>> \in Recent(lru)
  BY EvictKeeps
<1>2. Cardinality(lru.items) + Cardinality(connections \ lru.items) = currentOpen
  <2>1. lru.items \in SUBSET connections /\ IsFiniteSet(connections)
    BY DEF Inv, MapOK, ListOK
  <2>2. /\ Cardinality(connections \ lru.items) = Cardinality(connections) - Cardinality(lru.items)
        /\ Cardinality(connections) \in Nat /\ Cardinality(lru.items) \in Nat
    BY <2>1, PartCounts
  <2> QED
    BY <2>2 DEF Inv, MapOK
<1>8. Abstract!Cardinality(lru.items) + Abstract!Cardinality(connections \ lru.items) = currentOpen
  BY <1>2, SameCardinality
<1>3. closed \subseteq Victim /\ lru.items \subseteq connections
  BY DEF CloseOutcomes, Inv, ListOK
<1>4. e.items = lru.items \ Victim /\ Recent(e) = Recent(lru) \cap (e.items \X e.items)
  BY <1>1 DEF Without
<1>5. Abstract!Keep(lru.items \ Victim, front)
  BY <1>4 DEF Abstract!Keep
<1>6. CASE Victim = {} /\ (currentOpen < maxConnections \/ lru.items = {})
  <2>1. lru.items \ Victim = lru.items
    BY <1>6
  <2>2. (connections \ lru.items)' = connections \ lru.items
    BY <1>3, <1>4, <1>6
  <2>3. /\ Abstract!Keep(lru.items, front)
        /\ \/ Abstract!Cardinality(lru.items) + Abstract!Cardinality(connections \ lru.items)
                < maxConnections
           \/ lru.items = {}
    BY <1>8, <1>5, <1>6, <2>1
  <2> QED
    BY <2>2, <2>3 DEF Abstract!MakeRoom
<1>7. CASE /\ ~(currentOpen < maxConnections) /\ lru.items # {}
           /\ \E p \in lru.items : /\ Victim = {p}
                                   /\ \A q \in lru.items : q # p => <<q, p>> \in Recent(lru)
  <2>1. PICK p \in lru.items : /\ Victim = {p}
                               /\ \A q \in lru.items : q # p => <<q, p>> \in Recent(lru)
    BY <1>7
  <2>2. p \in Abstract!Oldest
    BY <2>1 DEF Abstract!Oldest
  <2>3. PICK stuck : stuck = connections \ lru.items
    OBVIOUS
  <2>4. (connections \ lru.items)' = stuck \/ (connections \ lru.items)' = stuck \cup {p}
    <3>1. CASE closed = {}
      BY <1>3, <1>4, <2>1, <2>3, <3>1
    <3>2. CASE closed = {p}
      BY <1>3, <1>4, <2>1, <2>3, <3>2
    <3> QED
      BY <1>3, <2>1, <3>1, <3>2
  <2>5. ~(\/ Abstract!Cardinality(lru.items) + Abstract!Cardinality(connections \ lru.items)
                < maxConnections
          \/ lru.items = {})
    BY <1>8, <1>7
  <2>6. Abstract!Keep(lru.items \ {p}, front)
    BY <1>5, <2>1
  <2>7. (connections \ lru.items)' \in
          {connections \ lru.items, (connections \ lru.items) \cup {p}}
    BY <2>3, <2>4
  <2> QED
    BY <2>2, <2>5, <2>6, <2>7 DEF Abstract!MakeRoom
<1> QED
  BY <1>1, <1>6, <1>7

LEMMA GetNewHolds ==
  ASSUME Inv, NEW path \in Paths, GetNew(path)
  PROVE  Inv' /\ Abstract!GetNew(path)
<1>1. PICK closed \in CloseOutcomes(Victim) :
        /\ connections' = (connections \ closed) \cup {path}
        /\ currentOpen' = currentOpen - Cardinality(closed) + 1
        /\ stale' = stale \ closed
        /\ dead' = (dead \cup Victim) \ closed
        /\ lru' = Add(EvictLRU, path)
  BY DEF GetNew
<1>2. path \notin connections /\ got' = path /\ path \in Keys
  BY DEF GetNew, Paths
<1>3. PICK e, d : e = EvictLRU /\ d = lru'
  OBVIOUS
<1>4. /\ Without(lru, Victim, e) /\ Victim \subseteq lru.items
      /\ Cardinality(e.items) + 1 <= maxConnections
  BY <1>3, EvictKeeps
<1>5. Linear(e) /\ e.items = lru.items \ Victim /\ path \notin e.items
  BY <1>2, <1>4 DEF Without, Inv, ListOK
<1>6. /\ Linear(d) /\ d.items = e.items \cup {path}
      /\ Recent(d) = Recent(e) \cup ({path} \X e.items)
  BY <1>1, <1>2, <1>3, <1>5, AddKeeps
<1>7. closed \subseteq Victim /\ closed \in SUBSET connections /\ lru.items \subseteq connections
  BY <1>1, <1>4 DEF CloseOutcomes, Inv, ListOK
<1>8. MapOK'
  <2>1. /\ IsFiniteSet(connections \ closed)
        /\ Cardinality(connections \ closed) = Cardinality(connections) - Cardinality(closed)
    BY <1>7, PartCounts DEF Inv, MapOK
  <2>2. PICK rest : rest = connections \ closed
    OBVIOUS
  <2>3. IsFiniteSet(rest \cup {path}) /\ Cardinality(rest \cup {path}) = Cardinality(rest) + 1
    <3>1. path \notin rest /\ IsFiniteSet(rest)
      BY <1>2, <2>1, <2>2
    <3> QED
      BY <3>1, FS_AddElement
  <2>4. IsFiniteSet(connections') /\ currentOpen' = Cardinality(connections')
    BY <1>1, <2>1, <2>2, <2>3 DEF Inv, MapOK
  <2>5. /\ connections' \subseteq Keys /\ stale' \subseteq connections'
        /\ dead' \subseteq connections' /\ got' \in Pointer
    BY <1>1, <1>2, <1>4, <1>7 DEF Inv, MapOK, Pointer
  <2> QED
    BY <2>4, <2>5 DEF MapOK
<1>9. ListOK'
  <2>1. Cardinality(d.items) <= maxConnections
    <3>1. IsFiniteSet(e.items)
      BY <1>5, LinearIs
    <3>2. Cardinality(e.items \cup {path}) = Cardinality(e.items) + 1
      BY <3>1, <1>5, FS_AddElement
    <3> QED
      BY <3>2, <1>4, <1>6
  <2>2. connections' \ dead' \subseteq d.items /\ d.items \subseteq connections'
    BY <1>1, <1>5, <1>6, <1>7 DEF Inv, ListOK
  <2> QED
    BY <1>3, <1>6, <2>1, <2>2 DEF ListOK
<1>10. Abstract!MakeRoom({path})
  <2>1. {path} \cap connections = {}
    BY <1>2
  <2> QED
    BY <1>1, <1>3, <1>6, <2>1, MakesRoom
<1>11. path \notin lru.items \cup (connections \ lru.items)
  BY <1>2, <1>7
<1> QED
  BY <1>2, <1>8, <1>9, <1>10, <1>11 DEF Inv, Abstract!GetNew

LEMMA GetFailHolds ==
  ASSUME Inv, NEW path \in Paths, GetFail(path)
  PROVE  Inv' /\ Abstract!GetFail
<1>1. PICK closed \in CloseOutcomes(Victim) :
        /\ connections' = connections \ closed
        /\ currentOpen' = currentOpen - Cardinality(closed)
        /\ stale' = stale \ closed
        /\ dead' = (dead \cup Victim) \ closed
        /\ lru' = EvictLRU
  BY DEF GetFail
<1>2. got' = Nil
  BY DEF GetFail
<1>3. PICK e : e = EvictLRU
  OBVIOUS
<1>4. /\ Without(lru, Victim, e) /\ Victim \subseteq lru.items
      /\ Cardinality(e.items) + 1 <= maxConnections
  BY <1>3, EvictKeeps
<1>5. Linear(e) /\ e.items = lru.items \ Victim /\ lru' = e
  BY <1>1, <1>3, <1>4 DEF Without
<1>6. closed \subseteq Victim /\ closed \in SUBSET connections /\ lru.items \subseteq connections
  BY <1>1, <1>4 DEF CloseOutcomes, Inv, ListOK
<1>7. MapOK'
  <2>1. /\ IsFiniteSet(connections \ closed)
        /\ Cardinality(connections \ closed) = Cardinality(connections) - Cardinality(closed)
    BY <1>6, PartCounts DEF Inv, MapOK
  <2>2. /\ connections' \subseteq Keys /\ stale' \subseteq connections'
        /\ dead' \subseteq connections' /\ got' \in Pointer
    BY <1>1, <1>2, <1>4, <1>6 DEF Inv, MapOK, Pointer
  <2> QED
    BY <1>1, <2>1, <2>2 DEF Inv, MapOK
<1>8. ListOK'
  <2>1. Cardinality(e.items) <= maxConnections
    <3>1. IsFiniteSet(e.items)
      BY <1>5, LinearIs
    <3>2. Cardinality(e.items) \in Nat /\ maxConnections \in Nat
      BY <3>1, FS_CardinalityType, PoolAssumption
    <3> QED
      BY <3>2, <1>4
  <2>2. connections' \ dead' \subseteq e.items /\ e.items \subseteq connections'
    BY <1>1, <1>5, <1>6 DEF Inv, ListOK
  <2> QED
    BY <1>5, <2>1, <2>2 DEF ListOK
<1>9. Abstract!MakeRoom({})
  <2>1. {} \cap connections = {} /\ connections' = (connections \ closed) \cup {}
    BY <1>1
  <2>2. e.items = e.items \cup {} /\ Recent(e) = Recent(e) \cup ({} \X e.items)
    OBVIOUS
  <2> QED
    BY <1>1, <1>3, <1>5, <2>1, <2>2, MakesRoom
<1> QED
  BY <1>2, <1>7, <1>8, <1>9 DEF Inv, Abstract!GetFail

-----------------------------------------------------------------------------
(* The variables of LRUPool, as the pool implements them. *)
AbstractVars == <<lru.items, Recent(lru), connections \ lru.items, got>>

LEMMA NextHolds ==
  ASSUME Inv, Next
  PROVE  Inv' /\ Abstract!Next
<1>1. ASSUME NEW path \in Paths, GetOpen(path)
      PROVE  Inv' /\ Abstract!Next
  BY <1>1, GetOpenHolds DEF Abstract!Next
<1>2. ASSUME NEW path \in Paths, GetNew(path)
      PROVE  Inv' /\ Abstract!Next
  BY <1>2, GetNewHolds DEF Abstract!Next
<1>3. ASSUME NEW path \in Paths, GetFail(path)
      PROVE  Inv' /\ Abstract!Next
  BY <1>3, GetFailHolds DEF Abstract!Next
<1>4. ASSUME NEW path \in Paths, Release(path)
      PROVE  Inv' /\ Abstract!Next
  <2>1. stale' \subseteq connections /\ got' = Nil
    BY <1>4 DEF Release, Inv, MapOK
  <2>2. Inv' /\ Abstract!Close({})
    BY <1>4, <2>1, IdleHolds DEF Release
  <2>3. {} \in SUBSET Paths
    OBVIOUS
  <2> QED
    BY <2>2, <2>3 DEF Abstract!Next
<1>5. ASSUME NEW path \in Paths, Close(path)
      PROVE  Inv' /\ Abstract!Next
  <2>1. {path} \in SUBSET connections /\ CloseConnections({path})
    BY <1>5 DEF Close
  <2> QED
    BY <2>1, CloseHolds DEF Abstract!Next
<1>6. ASSUME NEW path \in Paths, Elapse(path)
      PROVE  Inv' /\ Abstract!Next
  <2>1. stale' \subseteq connections /\ got' = Nil
    BY <1>6 DEF Elapse, Inv, MapOK
  <2>2. Inv' /\ Abstract!Close({})
    BY <1>6, <2>1, IdleHolds DEF Elapse
  <2>3. {} \in SUBSET Paths
    OBVIOUS
  <2> QED
    BY <2>2, <2>3 DEF Abstract!Next
<1>7. ASSUME Cleanup
      PROVE  Inv' /\ Abstract!Next
  <2>1. stale \in SUBSET connections /\ CloseConnections(stale)
    BY <1>7 DEF Cleanup, Inv, MapOK
  <2> QED
    BY <2>1, CloseHolds DEF Abstract!Next
<1> QED
  BY <1>1, <1>2, <1>3, <1>4, <1>5, <1>6, <1>7 DEF Next

LEMMA StutterHolds ==
  ASSUME Inv, UNCHANGED vars
  PROVE  Inv' /\ UNCHANGED AbstractVars
<1>1. MapOK'
  BY DEF Inv, MapOK, vars
<1>2. ListOK'
  BY DEF Inv, ListOK, vars
<1> QED
  BY <1>1, <1>2 DEF Inv, vars, AbstractVars

(* Through any sequence of Get, Release, Close and Cleanup of any number of
   connections, with any of the closes failing, the map, the list and the
   counter of the pool stay in step. *)
THEOREM Invariance == Spec => []Inv
<1>1. Init => Inv
  BY InitHolds
<1>2. Inv /\ [Next]_vars => Inv'
  BY NextHolds, StutterHolds
<1> QED
  BY <1>1, <1>2, PTL DEF Spec

(* The variables stay within their types, and currentOpen counts the map, for
   any set of paths and any limit. *)
THEOREM TypeCorrect == Spec => []TypeOK
<1>1. Inv => TypeOK
  BY DEF Inv, MapOK, ListOK, Linear, TypeOK, Paths
<1> QED
  BY <1>1, Invariance, PTL

(* removeItem, addToFront and moveToFront keep the doubly linked list one chain
   through its items, the same in both directions, whatever its length. *)
THEOREM ListStaysConsistent == Spec => []ListConsistent
<1>1. Inv => ListConsistent
  BY LinearIs DEF Inv, ListOK, ListConsistent
<1> QED
  BY <1>1, Invariance, PTL

(* The pool never holds more usable connections than maxConnections, although
   Get goes on when evicting one failed. *)
THEOREM LimitKept == Spec => []LimitHolds
<1>1. Inv => LimitHolds
  <2> SUFFICES ASSUME Inv PROVE LimitHolds
    OBVIOUS
  <2>1. IsFiniteSet(lru.items) /\ connections \ dead \in SUBSET lru.items
    BY LinearIs DEF Inv, ListOK
  <2>2. /\ Cardinality(connections \ dead) <= Cardinality(lru.items)
        /\ IsFiniteSet(connections \ dead)
    BY <2>1, FS_Subset
  <2>3. Cardinality(connections \ dead) \in Nat /\ Cardinality(lru.items) \in Nat
    BY <2>1, <2>2, FS_CardinalityType
  <2>4. Cardinality(lru.items) <= maxConnections /\ maxConnections \in Nat
    BY PoolAssumption DEF Inv, ListOK
  <2> QED
    BY <2>2, <2>3, <2>4 DEF LimitHolds
<1> QED
  BY <1>1, Invariance, PTL

(* ConnectionPool implements LRUPool: what Get evicts at the limit is the
   connection whose last Get lies furthest back, for any number of paths and any
   limit. *)
THEOREM ImplementsLRUPool == Spec => RefinesLRUPool
<1>1. Init => Abstract!Init
  BY InitHolds
<1>2. Inv /\ [Next]_vars => [Abstract!Next]_AbstractVars
  BY NextHolds, StutterHolds
<1> QED
  BY <1>1, <1>2, Invariance, PTL DEF Spec, RefinesLRUPool, Abstract!Spec, AbstractVars

=============================================================================
