----------------------------- MODULE SlabProofs -----------------------------
(***************************************************************************)
(* The memory pool stays sound, proved about Slab for pools of any size    *)
(* and any chunk sizes.                                                    *)
(***************************************************************************)
EXTENDS Slab, FiniteSetTheorems, WellFoundedInduction, TLAPS

-----------------------------------------------------------------------------
(* A set of natural numbers has a least one.                               *)
LEMMA LeastNat ==
  ASSUME NEW T \in SUBSET Nat, T # {}
  PROVE  \E m \in T : \A k \in T : m <= k
<1> DEFINE below == {pair \in Nat \X Nat : pair[1] < pair[2]}
<1>1. OpToRel(<, Nat) = below
  BY DEF OpToRel
<1>2. IsWellFoundedOn(below, Nat)
  BY <1>1, NatLessThanWellFounded
<1>3. PICK m \in T : \A k \in T : <<k, m>> \notin below
  BY <1>2, WFMin
<1>4. ASSUME NEW k \in T, k < m PROVE FALSE
  <2>1. <<k, m>> \in below
    BY <1>4
  <2>2. QED
    BY <1>3, <2>1
<1>5. QED
  BY <1>4

(* A set that has 0, and the successor of each number up to n that it has, *)
(* has all numbers up to n: no least one is missing.  It is stated of a    *)
(* set and not of a predicate, so that it can be cited.                    *)
LEMMA UpTo ==
  ASSUME NEW n \in Nat, NEW S, 0 \in S,
         \A k \in Nat : k < n /\ k \in S => k + 1 \in S
  PROVE  \A k \in 0 .. n : k \in S
<1> DEFINE missing == {k \in Nat : k <= n /\ k \notin S}
<1> SUFFICES ASSUME missing # {} PROVE FALSE
  OBVIOUS
<1>1. PICK m \in missing : \A k \in missing : m <= k
  BY LeastNat
<1>2. m # 0 /\ m - 1 \in Nat /\ m - 1 < n /\ m - 1 \notin missing
  BY <1>1
<1>3. (m - 1) + 1 \in S
  BY <1>2
<1>4. QED
  BY <1>1, <1>3

(* What a loop from m to n makes of a, step by step: a function that is    *)
(* defined by its value before.                                            *)
IsLoop(f, m, n, a, A, step) ==
  f \in [m .. n -> A] /\ f = [k \in m .. n |-> IF k = m THEN a ELSE step[k][f[k - 1]]]

LEMMA Iterated ==
  ASSUME NEW m \in Nat, NEW n \in Nat, m <= n, NEW A, NEW a \in A,
         NEW step \in [m + 1 .. n -> [A -> A]]
  PROVE  \E f : IsLoop(f, m, n, a, A, step)
<1> DEFINE Good(f, r) == f[m] = a /\ \A k \in m + 1 .. m + r : f[k] = step[k][f[k - 1]]
           S == {r \in 0 .. n - m : \E f \in [m .. m + r -> A] : Good(f, r)}
<1>1. 0 \in S
  <2>1. PICK f : f = [k \in m .. m + 0 |-> a]
    OBVIOUS
  <2>2. f \in [m .. m + 0 -> A] /\ Good(f, 0)
    BY <2>1
  <2>3. QED
    BY <2>2
<1>2. ASSUME NEW r \in Nat, r < n - m, r \in S PROVE r + 1 \in S
  <2>1. PICK f \in [m .. m + r -> A] : Good(f, r)
    BY <1>2
  <2>2. PICK last : last = m + r + 1
    OBVIOUS
  <2>3. /\ last \in m + 1 .. n /\ last - 1 \in m .. m + r /\ last \notin m .. m + r
        /\ m .. m + (r + 1) = (m .. m + r) \cup {last}
        /\ m + 1 .. m + (r + 1) = (m + 1 .. m + r) \cup {last}
    BY <1>2, <2>2
  <2>4. PICK v \in A : v = step[last][f[last - 1]]
    BY <2>3
  <2>5. PICK g : g = [k \in m .. m + (r + 1) |-> IF k = last THEN v ELSE f[k]]
    OBVIOUS
  <2>6. \A k \in m .. m + r : k # last /\ g[k] = f[k] /\ f[k] \in A
    BY <2>3, <2>5
  <2>7. g[last] = v
    BY <2>3, <2>5
  <2>8. g \in [m .. m + (r + 1) -> A]
    BY <2>3, <2>5, <2>6
  <2>9. ASSUME NEW k \in m + 1 .. m + (r + 1) PROVE g[k] = step[k][g[k - 1]]
    <3>1. CASE k = last
      <4>1. g[k - 1] = f[last - 1]
        BY <2>3, <2>6, <3>1
      <4>2. QED
        BY <2>4, <2>7, <3>1, <4>1
    <3>2. CASE k # last
      <4>1. k \in m + 1 .. m + r /\ k \in m .. m + r /\ k - 1 \in m .. m + r
        BY <2>3, <3>2
      <4>2. QED
        BY <2>1, <2>6, <4>1
    <3>3. QED
      BY <3>1, <3>2
  <2>10. g[m] = a
    <3>1. m \in m .. m + r
      OBVIOUS
    <3>2. QED
      BY <2>1, <2>6, <3>1
  <2>11. Good(g, r + 1) /\ r + 1 \in 0 .. n - m
    BY <1>2, <2>9, <2>10
  <2> HIDE DEF Good
  <2>12. QED
    BY <2>8, <2>11
<1>3. n - m \in S
  <2> HIDE DEF S
  <2>1. n - m \in Nat
    OBVIOUS
  <2>2. \A k \in 0 .. n - m : k \in S
    BY <1>1, <1>2, <2>1, UpTo
  <2>3. QED
    BY <2>1, <2>2
<1>4. PICK f \in [m .. m + (n - m) -> A] : Good(f, n - m)
  BY <1>3
<1>5. m + (n - m) = n
  OBVIOUS
<1>6. f = [k \in m .. n |-> f[k]]
  BY <1>5
<1>7. ASSUME NEW k \in m .. n PROVE f[k] = IF k = m THEN a ELSE step[k][f[k - 1]]
  BY <1>4, <1>5
<1>8. f = [k \in m .. n |-> IF k = m THEN a ELSE step[k][f[k - 1]]]
  BY <1>6, <1>7
<1>9. IsLoop(f, m, n, a, A, step)
  BY <1>5, <1>8 DEF IsLoop
<1>10. QED
  BY <1>9

-----------------------------------------------------------------------------
Heads == {Free} \cup Slot

LinkTable == [next : [Node -> Node \cup {Null}], prev : [Node -> Node \cup {Null}]]

(* L runs through m pages, from head h and back to it, along the links l,  *)
(* and backwards along the links back.                                     *)
Chain(l, h, m, L) ==
  /\ L[0] = h /\ L[m + 1] = h
  /\ \A k \in 1 .. m : L[k] \in Page
  /\ \A j, k \in 1 .. m : L[j] = L[k] => j = k
  /\ \A k \in 0 .. m : l.next[L[k]] = L[k + 1]
  /\ \A k \in 1 .. m : l.prev[L[k]] = L[k - 1]

(* The pages of S, in some order, are on the list of head h.               *)
IsList(l, h, S) ==
  \E m \in 0 .. Pages : \E L \in [0 .. m + 1 -> Page \cup {h}] :
    Chain(l, h, m, L) /\ S = {L[k] : k \in 1 .. m}

(* The first pages of free blocks, the pages of a size that have room, and *)
(* the pages that are on no list.                                          *)
FreeBlocks == {p \in First : page[p].is = "free"}
Room(s) == {p \in Page : HasRoom(p, s)}
Full(p) == page[p].is \in Slot /\ ~HasRoom(p, page[p].is)

Kinds == {"free", "start", "busy"} \cup Slot

PageInv == page \in [Page -> [is : Kinds, n : 0 .. Pages, used : SUBSET Nat]]

(* Blocks lie side by side. *)
BlockInv ==
  /\ \A p \in Page : /\ p + page[p].n <= Pages
                     /\ page[p].is = "start" => page[p].n > 0
                     /\ page[p].is \in Slot => page[p].n = 1
                     /\ page[p].is = "busy" => page[p].n = 0
  /\ \A q \in Page : \E p \in First : q \in p .. p + page[p].n - 1
  /\ \A p, o \in First : p < o => p + page[p].n <= o

(* Each page is on at most one list, of the head it belongs to. *)
Lists(l, F) ==
  /\ l \in LinkTable
  /\ F \in [Heads -> SUBSET Page]
  /\ \A g, h \in Heads : g # h => F[g] \cap F[h] = {}
  /\ \A h \in Heads : IsList(l, h, F[h])

Members == [h \in Heads |-> IF h = Free THEN FreeBlocks ELSE Room(h)]

LinkInv ==
  /\ Lists(Links, Members)
  /\ \A p \in Page : page[p].is = "start" \/ Full(p) => next[p] = Null

(* What callers hold is what the page table says is handed out. *)
HeldInv ==
  /\ live \subseteq [is : {"pages"} \cup Slot, first : Page, n : Nat]
  /\ \A p \in Page, n \in Nat :
       WholePages(p, n) \in live <=> page[p].is = "start" /\ page[p].n = n
  /\ \A p \in Page, s \in Slot, i \in Nat :
       Chunk(p, s, i) \in live <=>
         page[p].is = s /\ i \in page[p].used /\ i >= Reserved[s]
  /\ \A p \in Page : page[p].is \in Slot =>
       /\ page[p].used \subseteq 0 .. Chunks[page[p].is] - 1
       /\ 0 .. Reserved[page[p].is] - 1 \subseteq page[p].used
       /\ page[p].used # 0 .. Reserved[page[p].is] - 1

Inv == PageInv /\ BlockInv /\ LinkInv /\ HeldInv

-----------------------------------------------------------------------------
(* Lists.                                                                  *)
LEMMA HeadIsNoPage ==
  ASSUME NEW h \in Heads
  PROVE  h \notin Page /\ h \in Node /\ h # Null /\ Null \notin Node
<1>1. h \notin Nat /\ Null \notin Nat /\ Null \notin Heads
  BY SlotAssumption DEF Heads
<1>2. Page \subseteq Nat
  BY PagesAssumption DEF Page
<1>3. QED
  BY <1>1, <1>2 DEF Heads, Node

(* As many different pages as there are numbers up to m are at most all.   *)
LEMMA Pigeonhole ==
  ASSUME NEW m \in Nat, NEW f, \A k \in 1 .. m : f[k] \in Page,
         \A j, k \in 1 .. m : f[j] = f[k] => j = k
  PROVE  m <= Pages
<1> DEFINE g == [k \in 1 .. m |-> f[k]]
<1>1. g \in Injection(1 .. m, Page)
  BY DEF Injection, IsInjective
<1>2. IsFiniteSet(Page) /\ Cardinality(Page) = Pages
  BY FS_Interval, PagesAssumption DEF Page
<1>3. IsFiniteSet(1 .. m) /\ Cardinality(1 .. m) = m
  BY FS_Interval
<1>4. Cardinality(1 .. m) <= Cardinality(Page)
  BY <1>1, <1>2, FS_Injection
<1>5. QED
  BY <1>2, <1>3, <1>4

LEMMA ListNodes ==
  ASSUME NEW l, NEW h \in Heads, NEW S, IsList(l, h, S)
  PROVE  /\ S \subseteq Page
         /\ \A q \in S : /\ l.next[q] \in S \cup {h} /\ l.prev[q] \in S \cup {h}
                         /\ l.next[l.prev[q]] = q
         /\ l.next[h] \in S \cup {h}
         /\ l.next[h] = h <=> S = {}
<1>0. PICK m \in 0 .. Pages :
        \E L \in [0 .. m + 1 -> Page \cup {h}] :
          Chain(l, h, m, L) /\ S = {L[k] : k \in 1 .. m}
  BY DEF IsList
<1>1. PICK L \in [0 .. m + 1 -> Page \cup {h}] :
        Chain(l, h, m, L) /\ S = {L[k] : k \in 1 .. m}
  BY <1>0
<1>2. m \in Nat
  BY PagesAssumption
<1>3. \A k \in 0 .. m + 1 : L[k] \in S \cup {h}
  BY <1>1, <1>2 DEF Chain
<1>4. S \subseteq Page
  BY <1>1 DEF Chain
<1>5. ASSUME NEW q \in S
      PROVE  /\ l.next[q] \in S \cup {h} /\ l.prev[q] \in S \cup {h}
             /\ l.next[l.prev[q]] = q
  <2>1. PICK k \in 1 .. m : q = L[k]
    BY <1>1
  <2>2. /\ k \in 0 .. m /\ k + 1 \in 0 .. m + 1 /\ k - 1 \in 0 .. m
        /\ k - 1 \in 0 .. m + 1 /\ (k - 1) + 1 = k
    BY <1>2
  <2>3. l.next[q] = L[k + 1] /\ l.prev[q] = L[k - 1] /\ l.next[L[k - 1]] = q
    BY <1>1, <2>1, <2>2 DEF Chain
  <2>4. QED
    BY <1>3, <2>2, <2>3
<1>6. l.next[h] = L[1] /\ 1 \in 0 .. m + 1
  BY <1>1, <1>2 DEF Chain
<1>7. l.next[h] = h <=> S = {}
  <2>1. CASE m = 0
    BY <1>1, <1>6, <2>1 DEF Chain
  <2>2. CASE m # 0
    <3>1. 1 \in 1 .. m
      BY <1>2, <2>2
    <3>2. L[1] \in Page /\ L[1] \in S
      BY <1>1, <3>1 DEF Chain
    <3>3. QED
      BY <1>6, <3>2, HeadIsNoPage
  <2>3. QED
    BY <2>1, <2>2
<1>8. QED
  BY <1>3, <1>4, <1>5, <1>6, <1>7

(* Relinking elsewhere leaves a list alone. *)
LEMMA ListKept ==
  ASSUME NEW l, NEW l2, NEW h, NEW S, IsList(l, h, S),
         \A q \in S \cup {h} : l2.next[q] = l.next[q],
         \A q \in S : l2.prev[q] = l.prev[q]
  PROVE  IsList(l2, h, S)
<1>0. PICK m \in 0 .. Pages :
        \E L \in [0 .. m + 1 -> Page \cup {h}] :
          Chain(l, h, m, L) /\ S = {L[k] : k \in 1 .. m}
  BY DEF IsList
<1>1. PICK L \in [0 .. m + 1 -> Page \cup {h}] :
        Chain(l, h, m, L) /\ S = {L[k] : k \in 1 .. m}
  BY <1>0
<1>2. m \in Nat
  BY PagesAssumption
<1>3. \A k \in 0 .. m : L[k] \in S \cup {h}
  BY <1>1, <1>2 DEF Chain
<1>4. Chain(l2, h, m, L)
  BY <1>1, <1>3 DEF Chain
<1>5. QED
  BY <1>1, <1>4 DEF IsList

LEMMA ListPushed ==
  ASSUME NEW l \in LinkTable, NEW h \in Heads, NEW S, IsList(l, h, S),
         NEW q \in Page \ S
  PROVE  /\ Pushed(l, h, q) \in LinkTable
         /\ IsList(Pushed(l, h, q), h, S \cup {q})
         /\ \A r \in Node \ {q, h} : Pushed(l, h, q).next[r] = l.next[r]
         /\ \A r \in Node \ {q, l.next[h]} : Pushed(l, h, q).prev[r] = l.prev[r]
<1> DEFINE l2 == Pushed(l, h, q)
<1>0. PICK m \in 0 .. Pages :
        \E L \in [0 .. m + 1 -> Page \cup {h}] :
          Chain(l, h, m, L) /\ S = {L[k] : k \in 1 .. m}
  BY DEF IsList
<1>1. PICK L \in [0 .. m + 1 -> Page \cup {h}] :
        Chain(l, h, m, L) /\ S = {L[k] : k \in 1 .. m}
  BY <1>0
<1>2. m \in Nat /\ Pages \in Nat
  BY PagesAssumption
<1>3. h \notin Page /\ h \in Node /\ q \in Node /\ q # h
  BY HeadIsNoPage DEF Node
<1>4. l.next[h] \in S \cup {h} /\ S \subseteq Page /\ l.next[h] \in Node /\ l.next[h] # q
  <2>1. l.next[h] \in S \cup {h} /\ S \subseteq Page
    BY ListNodes
  <2>2. QED
    BY <1>3, <2>1 DEF Node
<1>n. l.next[h] = L[1]
  <2>1. 0 \in 0 .. m /\ 0 + 1 = 1
    BY <1>2
  <2>2. l.next[L[0]] = L[0 + 1] /\ L[0] = h
    BY <1>1, <2>1 DEF Chain
  <2>3. QED
    BY <2>1, <2>2
<1>5. /\ l.next \in [Node -> Node \cup {Null}] /\ l.prev \in [Node -> Node \cup {Null}]
      /\ l2 = [next |-> [l.next EXCEPT ![q] = l.next[h], ![h] = q],
               prev |-> [l.prev EXCEPT ![q] = h, ![l.next[h]] = q]]
  BY SMTT(20) DEF LinkTable, Pushed
<1> HIDE DEF l2
<1>6. /\ l2 \in LinkTable
      /\ l2.next[q] = l.next[h] /\ l2.next[h] = q
      /\ \A r \in Node \ {q, h} : l2.next[r] = l.next[r]
      /\ l2.prev[q] = h /\ l2.prev[l.next[h]] = q
      /\ \A r \in Node \ {q, l.next[h]} : l2.prev[r] = l.prev[r]
  <2>1. l2.next = [l.next EXCEPT ![q] = l.next[h], ![h] = q]
        /\ l2.prev = [l.prev EXCEPT ![q] = h, ![l.next[h]] = q]
    BY <1>5
  <2>2. l2.next \in [Node -> Node \cup {Null}] /\ l2.prev \in [Node -> Node \cup {Null}]
    BY <1>3, <1>4, <1>5, <2>1
  <2>3. l2 \in LinkTable
    BY <1>5, <2>1, <2>2 DEF LinkTable
  <2>4. QED
    BY <1>3, <1>4, <1>5, <2>1, <2>3
<1> DEFINE L2 == [k \in 0 .. m + 2 |-> IF k = 0 THEN h ELSE IF k = 1 THEN q ELSE L[k - 1]]
<1>7. /\ L2[0] = h /\ L2[1] = q /\ \A k \in 1 .. m + 1 : L2[k + 1] = L[k]
      /\ \A k \in 2 .. m + 2 : L2[k] = L[k - 1] /\ k - 1 \in 1 .. m + 1
  BY <1>2
<1>8. L2 \in [0 .. (m + 1) + 1 -> Page \cup {h}]
  BY <1>1, <1>2
<1> HIDE DEF L2
<1>9. Chain(l2, h, m + 1, L2)
  <2>1. L2[0] = h /\ L2[(m + 1) + 1] = h
    BY <1>1, <1>2, <1>7 DEF Chain
  <2>2. ASSUME NEW k \in 1 .. m + 1
        PROVE  L2[k] \in Page /\ (k # 1 => L2[k] \in S)
    BY <1>1, <1>2, <1>7, SMTT(20) DEF Chain
  <2>3. ASSUME NEW j \in 1 .. m + 1, NEW k \in 1 .. m + 1, L2[j] = L2[k]
        PROVE  j = k
    <3>1. CASE j = 1 \/ k = 1
      BY <1>7, <2>2, <2>3, <3>1
    <3>2. CASE j # 1 /\ k # 1
      <4>1. j - 1 \in 1 .. m /\ k - 1 \in 1 .. m /\ L2[j] = L[j - 1] /\ L2[k] = L[k - 1]
        BY <1>2, <1>7, <3>2
      <4>2. j - 1 = k - 1
        BY <1>1, <2>3, <4>1 DEF Chain
      <4>3. QED
        BY <1>2, <4>2
    <3>3. QED
      BY <3>1, <3>2
  <2>4. ASSUME NEW k \in 0 .. m + 1
        PROVE  l2.next[L2[k]] = L2[k + 1]
    <3>1. CASE k = 0
      BY <1>6, <1>7, <3>1
    <3>2. CASE k = 1
      <4>1. L2[1 + 1] = L[1] /\ L2[1] = q
        BY <1>2, <1>7
      <4>2. QED
        BY <1>6, <1>n, <3>2, <4>1
    <3>3. CASE k # 0 /\ k # 1
      <4>1. k - 1 \in 1 .. m /\ k - 1 \in 0 .. m /\ (k - 1) + 1 = k /\ k \in 1 .. m + 1
            /\ k \in 2 .. m + 2
        BY <1>2, <3>3
      <4>2. L2[k] = L[k - 1] /\ L2[k + 1] = L[k] /\ l.next[L[k - 1]] = L[k]
        BY <1>1, <1>7, <4>1 DEF Chain
      <4>3. L2[k] \in S
        BY <2>2, <3>3, <4>1
      <4>4. QED
        BY <1>3, <1>4, <1>6, <4>2, <4>3 DEF Node
    <3>4. QED
      BY <3>1, <3>2, <3>3
  <2>5. ASSUME NEW k \in 1 .. m + 1
        PROVE  l2.prev[L2[k]] = L2[k - 1]
    <3>1. CASE k = 1
      BY <1>6, <1>7, <3>1
    <3>2. CASE k = 2
      <4>1. L2[2] = L[1] /\ L[1] = l.next[h]
        BY <1>2, <1>7, <1>n, <3>2
      <4>2. QED
        BY <1>6, <1>7, <3>2, <4>1
    <3>3. CASE k # 1 /\ k # 2
      <4>1. /\ k - 1 \in 1 .. m /\ k - 2 \in 1 .. m /\ (k - 1) - 1 = k - 2
            /\ 1 \in 1 .. m /\ k - 1 # 1 /\ k - 1 \in 2 .. m + 2 /\ k \in 2 .. m + 2
        BY <1>2, <3>3
      <4>2. L2[k] = L[k - 1] /\ L2[k - 1] = L[k - 2] /\ l.prev[L[k - 1]] = L[k - 2]
        BY <1>1, <1>7, <4>1 DEF Chain
      <4>3. L[k - 1] # L[1] /\ l.next[h] = L[1]
        BY <1>1, <1>n, <4>1 DEF Chain
      <4>4. L2[k] \in S
        BY <2>2, <3>3
      <4>5. QED
        BY <1>4, <1>6, <4>2, <4>3, <4>4 DEF Node
    <3>4. QED
      BY <3>1, <3>2, <3>3
  <2>6. QED
    BY <2>1, <2>2, <2>3, <2>4, <2>5 DEF Chain
<1>10. m + 1 \in 0 .. Pages
  <2>1. m + 1 <= Pages
    BY <1>2, <1>9, Pigeonhole, SMTT(20) DEF Chain
  <2>2. QED
    BY <1>2, <2>1
<1>11. S \cup {q} = {L2[k] : k \in 1 .. m + 1}
  <2>1. ASSUME NEW k \in 1 .. m + 1 PROVE L2[k] \in S \cup {q}
    BY <1>1, <1>2, <1>7, SMTT(20)
  <2>2. ASSUME NEW r \in S PROVE \E k \in 1 .. m + 1 : r = L2[k]
    <3>1. PICK k \in 1 .. m : r = L[k]
      BY <1>1
    <3>2. k + 1 \in 1 .. m + 1 /\ L2[k + 1] = L[k]
      BY <1>2, <1>7
    <3>3. QED
      BY <3>1, <3>2
  <2>3. q = L2[1] /\ 1 \in 1 .. m + 1
    BY <1>2, <1>7
  <2>4. QED
    BY <2>1, <2>2, <2>3
<1>12. IsList(l2, h, S \cup {q})
  BY <1>8, <1>9, <1>10, <1>11 DEF IsList
<1>13. QED
  BY <1>6, <1>12 DEF l2

LEMMA ListUnlinked ==
  ASSUME NEW l \in LinkTable, NEW h \in Heads, NEW S, IsList(l, h, S), NEW p \in S
  PROVE  /\ Unlinked(l, p) \in LinkTable
         /\ IsList(Unlinked(l, p), h, S \ {p})
<1> DEFINE l2 == Unlinked(l, p)
<1>0. PICK m \in 0 .. Pages :
        \E L \in [0 .. m + 1 -> Page \cup {h}] :
          Chain(l, h, m, L) /\ S = {L[k] : k \in 1 .. m}
  BY DEF IsList
<1>1. PICK L \in [0 .. m + 1 -> Page \cup {h}] :
        Chain(l, h, m, L) /\ S = {L[k] : k \in 1 .. m}
  BY <1>0
<1>2. PICK i \in 1 .. m : p = L[i]
  BY <1>1
<1>3. m \in Nat /\ Pages \in Nat /\ i \in Nat /\ i >= 1 /\ i <= m
  BY PagesAssumption
<1>4. h \notin Page /\ h \in Node
  BY HeadIsNoPage
<1>5. \A k \in 0 .. m + 1 : L[k] \in Node /\ (L[k] = h <=> k = 0 \/ k = m + 1)
  <2>1. \A k \in 1 .. m : L[k] \in Page
    BY <1>1 DEF Chain
  <2>2. \A k \in 0 .. m + 1 : k \in 1 .. m \/ k = 0 \/ k = m + 1
    BY <1>3
  <2>3. L[0] = h /\ L[m + 1] = h
    BY <1>1 DEF Chain
  <2>4. \A k \in 1 .. m : k # 0 /\ k # m + 1
    BY <1>3
  <2>5. QED
    BY <1>4, <2>1, <2>2, <2>3, <2>4 DEF Node
<1>6. l.prev[p] = L[i - 1] /\ l.next[p] = L[i + 1]
  BY <1>1, <1>2, <1>3 DEF Chain
<1>7. i - 1 \in 0 .. m + 1 /\ i + 1 \in 0 .. m + 1
  BY <1>3
<1>8. /\ l2 \in LinkTable
      /\ l2.next[L[i - 1]] = L[i + 1] /\ l2.prev[L[i + 1]] = L[i - 1]
      /\ \A r \in Node \ {L[i - 1]} : l2.next[r] = l.next[r]
      /\ \A r \in Node \ {L[i + 1]} : l2.prev[r] = l.prev[r]
  <2>1. /\ l.next \in [Node -> Node \cup {Null}] /\ l.prev \in [Node -> Node \cup {Null}]
        /\ l2 = [next |-> [l.next EXCEPT ![L[i - 1]] = L[i + 1]],
                 prev |-> [l.prev EXCEPT ![L[i + 1]] = L[i - 1]]]
    BY <1>6 DEF LinkTable, Unlinked
  <2> HIDE DEF l2
  <2>2. l2.next = [l.next EXCEPT ![L[i - 1]] = L[i + 1]]
        /\ l2.prev = [l.prev EXCEPT ![L[i + 1]] = L[i - 1]]
    BY <2>1
  <2>3. L[i - 1] \in Node /\ L[i + 1] \in Node
    BY <1>5, <1>7
  <2>4. l2.next \in [Node -> Node \cup {Null}] /\ l2.prev \in [Node -> Node \cup {Null}]
    BY <2>1, <2>2, <2>3
  <2>5. l2 \in LinkTable
    BY <2>1, <2>2, <2>4 DEF LinkTable
  <2>6. QED
    BY <2>1, <2>2, <2>3, <2>5
<1> HIDE DEF l2
<1> DEFINE L2 == [k \in 0 .. m |-> IF k < i THEN L[k] ELSE L[k + 1]]
<1>9. \A k \in 0 .. m : L2[k] = IF k < i THEN L[k] ELSE L[k + 1]
  OBVIOUS
<1>10. L2 \in [0 .. (m - 1) + 1 -> Page \cup {h}]
  BY <1>1, <1>3
<1> HIDE DEF L2
<1>11. Chain(l2, h, m - 1, L2)
  <2>1. L2[0] = h /\ L2[(m - 1) + 1] = h
    BY <1>1, <1>3, <1>9 DEF Chain
  <2>2. ASSUME NEW k \in 1 .. m - 1
        PROVE  L2[k] \in Page
    <3>1. k \in 1 .. m /\ k + 1 \in 1 .. m /\ k \in 0 .. m
      BY <1>3
    <3>2. QED
      BY <1>1, <1>9, <3>1 DEF Chain
  <2>3. ASSUME NEW j \in 1 .. m - 1, NEW k \in 1 .. m - 1, L2[j] = L2[k]
        PROVE  j = k
    <3> DEFINE at(x) == IF x < i THEN x ELSE x + 1
    <3>1. /\ at(j) \in 1 .. m /\ at(k) \in 1 .. m /\ j \in 0 .. m /\ k \in 0 .. m
          /\ at(j) = at(k) => j = k
      BY <1>3
    <3>2. L2[j] = L[at(j)] /\ L2[k] = L[at(k)]
      BY <1>9, <3>1
    <3> HIDE DEF at
    <3>3. at(j) = at(k)
      BY <1>1, <2>3, <3>1, <3>2 DEF Chain
    <3>4. QED
      BY <3>1, <3>3
  <2>4. ASSUME NEW k \in 0 .. m - 1
        PROVE  l2.next[L2[k]] = L2[k + 1]
    <3>0. k \in 0 .. m /\ k + 1 \in 0 .. m /\ k \in 0 .. m + 1 /\ k + 1 \in 0 .. m + 1
      BY <1>3
    <3>1. CASE k < i - 1
      <4>1. L2[k] = L[k] /\ L2[k + 1] = L[k + 1]
        BY <1>3, <1>9, <3>0, <3>1
      <4>2. l.next[L[k]] = L[k + 1]
        BY <1>1, <3>0 DEF Chain
      <4>3. L[k] # L[i - 1]
        <5>1. CASE k = 0
          <6>1. i - 1 # 0 /\ i - 1 # m + 1
            BY <1>3, <3>1, <5>1
          <6>2. QED
            BY <1>5, <1>7, <3>0, <5>1, <6>1
        <5>2. CASE k # 0
          <6>1. k \in 1 .. m /\ i - 1 \in 1 .. m /\ k # i - 1
            BY <1>3, <3>0, <3>1, <5>2
          <6>2. QED
            BY <1>1, <6>1 DEF Chain
        <5>3. QED
          BY <5>1, <5>2
      <4>4. QED
        BY <1>5, <1>8, <3>0, <4>1, <4>2, <4>3
    <3>2. CASE k = i - 1
      <4>1. k < i /\ ~(k + 1 < i) /\ (k + 1) + 1 = i + 1
        BY <1>3, <3>2
      <4>2. L2[k] = L[i - 1] /\ L2[k + 1] = L[i + 1]
        BY <1>9, <3>0, <3>2, <4>1
      <4>3. QED
        BY <1>8, <4>2
    <3>3. CASE k > i - 1
      <4>1. /\ ~(k < i) /\ ~(k + 1 < i) /\ k + 1 \in 1 .. m /\ k + 1 \in 0 .. m
            /\ k + 1 # i - 1 /\ i - 1 \in 0 .. m
        BY <1>3, <3>0, <3>3
      <4>2. L2[k] = L[k + 1] /\ L2[k + 1] = L[(k + 1) + 1]
        BY <1>9, <3>0, <4>1
      <4>3. l.next[L[k + 1]] = L[(k + 1) + 1]
        BY <1>1, <4>1 DEF Chain
      <4>4. L[k + 1] # L[i - 1]
        <5>1. CASE i - 1 = 0
          <6>1. k + 1 # 0 /\ k + 1 # m + 1
            BY <1>3, <4>1
          <6>2. QED
            BY <1>5, <1>7, <3>0, <5>1, <6>1
        <5>2. CASE i - 1 # 0
          <6>1. i - 1 \in 1 .. m
            BY <1>3, <5>2
          <6>2. QED
            BY <1>1, <4>1, <6>1 DEF Chain
        <5>3. QED
          BY <5>1, <5>2
      <4>5. QED
        BY <1>5, <1>8, <3>0, <4>2, <4>3, <4>4
    <3>4. QED
      BY <1>3, <3>1, <3>2, <3>3
  <2>5. ASSUME NEW k \in 1 .. m - 1
        PROVE  l2.prev[L2[k]] = L2[k - 1]
    <3>0. /\ k \in 0 .. m /\ k - 1 \in 0 .. m /\ k \in 1 .. m /\ k + 1 \in 1 .. m
          /\ k \in 0 .. m + 1 /\ k + 1 \in 0 .. m + 1
      BY <1>3
    <3>1. CASE k < i
      <4>1. L2[k] = L[k] /\ L2[k - 1] = L[k - 1]
        BY <1>3, <1>9, <3>0, <3>1
      <4>2. l.prev[L[k]] = L[k - 1]
        BY <1>1, <3>0 DEF Chain
      <4>3. L[k] # L[i + 1]
        <5>1. CASE i + 1 = m + 1
          <6>1. k # 0 /\ k # m + 1
            BY <1>3, <3>0
          <6>2. QED
            BY <1>5, <1>7, <3>0, <5>1, <6>1
        <5>2. CASE i + 1 # m + 1
          <6>1. i + 1 \in 1 .. m /\ k # i + 1
            BY <1>3, <3>1, <5>2
          <6>2. QED
            BY <1>1, <3>0, <6>1 DEF Chain
        <5>3. QED
          BY <5>1, <5>2
      <4>4. QED
        BY <1>5, <1>8, <3>0, <4>1, <4>2, <4>3
    <3>2. CASE k = i
      <4>1. L2[k] = L[i + 1] /\ L2[k - 1] = L[i - 1]
        BY <1>3, <1>9, <3>0, <3>2
      <4>2. QED
        BY <1>8, <4>1
    <3>3. CASE k > i
      <4>1. ~(k < i) /\ ~(k - 1 < i) /\ (k - 1) + 1 = k /\ (k + 1) - 1 = k /\ k + 1 # i + 1
        BY <1>3, <3>0, <3>3
      <4>2. L2[k] = L[k + 1] /\ L2[k - 1] = L[k]
        BY <1>9, <3>0, <4>1
      <4>3. l.prev[L[k + 1]] = L[k]
        BY <1>1, <3>0, <4>1 DEF Chain
      <4>4. L[k + 1] # L[i + 1]
        <5>1. i + 1 \in 1 .. m
          BY <1>3, <3>0, <3>3
        <5>2. QED
          BY <1>1, <3>0, <4>1, <5>1 DEF Chain
      <4>5. QED
        BY <1>5, <1>8, <3>0, <4>2, <4>3, <4>4
    <3>4. QED
      BY <1>3, <3>1, <3>2, <3>3
  <2>6. QED
    BY <2>1, <2>2, <2>3, <2>4, <2>5 DEF Chain
<1>12. m - 1 \in 0 .. Pages
  BY <1>3
<1>13. S \ {p} = {L2[k] : k \in 1 .. m - 1}
  <2>1. ASSUME NEW k \in 1 .. m - 1 PROVE L2[k] \in S \ {p}
    <3> DEFINE at == IF k < i THEN k ELSE k + 1
    <3>1. at \in 1 .. m /\ at # i /\ k \in 0 .. m
      BY <1>3
    <3>2. L2[k] = L[at]
      BY <1>9, <3>1
    <3> HIDE DEF at
    <3>3. QED
      BY <1>1, <1>2, <3>1, <3>2 DEF Chain
  <2>2. ASSUME NEW r \in S \ {p} PROVE \E k \in 1 .. m - 1 : r = L2[k]
    <3>1. PICK k \in 1 .. m : r = L[k]
      BY <1>1
    <3> DEFINE at == IF k < i THEN k ELSE k - 1
    <3>2. k # i
      BY <1>2, <2>2, <3>1
    <3>3. at \in 1 .. m - 1 /\ at \in 0 .. m /\ (IF at < i THEN at ELSE at + 1) = k
      BY <1>3, <3>2
    <3> HIDE DEF at
    <3>4. L2[at] = L[k]
      BY <1>9, <3>3
    <3>5. QED
      BY <3>1, <3>3, <3>4
  <2>3. QED
    BY <2>1, <2>2
<1>14. IsList(l2, h, S \ {p})
  BY <1>10, <1>11, <1>12, <1>13 DEF IsList
<1>15. QED
  BY <1>8, <1>14 DEF l2

(* The links when page r takes the place of p on its list. *)
Replaced(l, p, r) ==
  [next |-> [l.next EXCEPT ![r] = l.next[p], ![l.prev[p]] = r],
   prev |-> [l.prev EXCEPT ![r] = l.prev[p], ![l.next[p]] = r]]

LEMMA ListReplaced ==
  ASSUME NEW l \in LinkTable, NEW h \in Heads, NEW S, IsList(l, h, S), NEW p \in S,
         NEW r \in Page \ S
  PROVE  /\ Replaced(l, p, r) \in LinkTable
         /\ IsList(Replaced(l, p, r), h, (S \ {p}) \cup {r})
         /\ \A q \in Node \ {l.prev[p], r} : Replaced(l, p, r).next[q] = l.next[q]
         /\ \A q \in Node \ {l.next[p], r} : Replaced(l, p, r).prev[q] = l.prev[q]
<1> DEFINE l2 == Replaced(l, p, r)
<1>0. PICK m \in 0 .. Pages :
        \E L \in [0 .. m + 1 -> Page \cup {h}] :
          Chain(l, h, m, L) /\ S = {L[k] : k \in 1 .. m}
  BY DEF IsList
<1>1. PICK L \in [0 .. m + 1 -> Page \cup {h}] :
        Chain(l, h, m, L) /\ S = {L[k] : k \in 1 .. m}
  BY <1>0
<1>2. PICK i \in 1 .. m : p = L[i]
  BY <1>1
<1>3. m \in Nat /\ Pages \in Nat /\ i \in Nat /\ i >= 1 /\ i <= m
  BY PagesAssumption
<1>4. h \notin Page /\ h \in Node /\ r \in Node /\ r # h
  BY HeadIsNoPage DEF Node
<1>5. \A k \in 0 .. m + 1 : L[k] \in Node /\ L[k] # r /\ (L[k] = h <=> k = 0 \/ k = m + 1)
  <2>1. \A k \in 1 .. m : L[k] \in Page /\ L[k] # r
    BY <1>1 DEF Chain
  <2>2. \A k \in 0 .. m + 1 : k \in 1 .. m \/ k = 0 \/ k = m + 1
    BY <1>3
  <2>3. L[0] = h /\ L[m + 1] = h
    BY <1>1 DEF Chain
  <2>4. \A k \in 1 .. m : k # 0 /\ k # m + 1
    BY <1>3
  <2>5. QED
    BY <1>4, <2>1, <2>2, <2>3, <2>4 DEF Node
<1>6. l.prev[p] = L[i - 1] /\ l.next[p] = L[i + 1]
  BY <1>1, <1>2, <1>3 DEF Chain
<1>7. i - 1 \in 0 .. m + 1 /\ i + 1 \in 0 .. m + 1
  BY <1>3
<1>8. /\ l2 \in LinkTable
      /\ l2.next[r] = L[i + 1] /\ l2.prev[r] = L[i - 1]
      /\ l2.next[L[i - 1]] = r /\ l2.prev[L[i + 1]] = r
      /\ \A q \in Node \ {L[i - 1], r} : l2.next[q] = l.next[q]
      /\ \A q \in Node \ {L[i + 1], r} : l2.prev[q] = l.prev[q]
  <2>1. /\ l.next \in [Node -> Node \cup {Null}] /\ l.prev \in [Node -> Node \cup {Null}]
        /\ l2 = [next |-> [l.next EXCEPT ![r] = L[i + 1], ![L[i - 1]] = r],
                 prev |-> [l.prev EXCEPT ![r] = L[i - 1], ![L[i + 1]] = r]]
    BY <1>6 DEF LinkTable, Replaced
  <2> HIDE DEF l2
  <2>2. l2.next = [l.next EXCEPT ![r] = L[i + 1], ![L[i - 1]] = r]
        /\ l2.prev = [l.prev EXCEPT ![r] = L[i - 1], ![L[i + 1]] = r]
    BY <2>1
  <2>3. L[i - 1] \in Node \ {r} /\ L[i + 1] \in Node \ {r}
    BY <1>5, <1>7
  <2>4. l2.next \in [Node -> Node \cup {Null}] /\ l2.prev \in [Node -> Node \cup {Null}]
    BY <1>4, <2>1, <2>2, <2>3
  <2>5. l2 \in LinkTable
    BY <2>1, <2>2, <2>4 DEF LinkTable
  <2>6. QED
    BY <1>4, <2>1, <2>2, <2>3, <2>5
<1> HIDE DEF l2
<1> DEFINE L2 == [L EXCEPT ![i] = r]
<1>9. i \in 0 .. m + 1 /\ \A k \in 0 .. m + 1 : L2[k] = IF k = i THEN r ELSE L[k]
  BY <1>1, <1>3
<1>10. L2 \in [0 .. m + 1 -> Page \cup {h}]
  BY <1>1, <1>9
<1> HIDE DEF L2
<1>11. Chain(l2, h, m, L2)
  <2>0. \A k \in 1 .. m : k \in 0 .. m + 1
    BY <1>3
  <2>1. L2[0] = h /\ L2[m + 1] = h
    BY <1>1, <1>3, <1>9 DEF Chain
  <2>2. ASSUME NEW k \in 1 .. m
        PROVE  L2[k] \in Page
    BY <1>1, <1>9, <2>0 DEF Chain
  <2>3. ASSUME NEW j \in 1 .. m, NEW k \in 1 .. m, L2[j] = L2[k]
        PROVE  j = k
    <3>1. L[j] = L[k] \/ j = k
      BY <1>5, <1>9, <2>0, <2>3
    <3>2. QED
      BY <1>1, <3>1 DEF Chain
  <2>4. ASSUME NEW k \in 0 .. m
        PROVE  l2.next[L2[k]] = L2[k + 1]
    <3>0. k \in 0 .. m + 1 /\ k + 1 \in 0 .. m + 1 /\ i - 1 \in 0 .. m /\ (i - 1) + 1 = i
      BY <1>3
    <3>1. CASE k = i
      BY <1>3, <1>8, <1>9, <3>0, <3>1
    <3>2. CASE k = i - 1
      <4>1. k # i /\ k + 1 = i
        BY <1>3, <3>2
      <4>2. L2[k] = L[i - 1] /\ L2[k + 1] = r
        BY <1>9, <3>0, <3>2, <4>1
      <4>3. QED
        BY <1>8, <4>2
    <3>3. CASE k # i /\ k # i - 1
      <4>1. k + 1 # i
        BY <1>3, <3>3
      <4>2. L2[k] = L[k] /\ L2[k + 1] = L[k + 1] /\ l.next[L[k]] = L[k + 1]
        BY <1>1, <1>9, <3>0, <3>3, <4>1 DEF Chain
      <4>3. L[k] # L[i - 1]
        <5>1. CASE k = 0
          <6>1. i - 1 # 0 /\ i - 1 # m + 1
            BY <1>3, <3>3, <5>1
          <6>2. QED
            BY <1>5, <1>7, <3>0, <5>1, <6>1
        <5>2. CASE i - 1 = 0
          <6>1. k # 0 /\ k # m + 1
            BY <1>3, <3>3, <5>2
          <6>2. QED
            BY <1>5, <1>7, <3>0, <5>2, <6>1
        <5>3. CASE k # 0 /\ i - 1 # 0
          <6>1. k \in 1 .. m /\ i - 1 \in 1 .. m
            BY <1>3, <5>3
          <6>2. QED
            BY <1>1, <3>3, <6>1 DEF Chain
        <5>4. QED
          BY <5>1, <5>2, <5>3
      <4>4. QED
        BY <1>5, <1>8, <3>0, <4>2, <4>3
    <3>4. QED
      BY <3>1, <3>2, <3>3
  <2>5. ASSUME NEW k \in 1 .. m
        PROVE  l2.prev[L2[k]] = L2[k - 1]
    <3>0. k \in 0 .. m + 1 /\ k - 1 \in 0 .. m + 1
      BY <1>3
    <3>1. CASE k = i
      <4>1. k - 1 # i
        BY <1>3, <3>1
      <4>2. QED
        BY <1>8, <1>9, <3>0, <3>1, <4>1
    <3>2. CASE k = i + 1
      <4>1. k # i /\ k - 1 = i
        BY <1>3, <3>2
      <4>2. L2[k] = L[i + 1] /\ L2[k - 1] = r
        BY <1>9, <3>0, <3>2, <4>1
      <4>3. QED
        BY <1>8, <4>2
    <3>3. CASE k # i /\ k # i + 1
      <4>1. k - 1 # i
        BY <1>3, <3>3
      <4>2. L2[k] = L[k] /\ L2[k - 1] = L[k - 1] /\ l.prev[L[k]] = L[k - 1]
        BY <1>1, <1>9, <3>0, <3>3, <4>1 DEF Chain
      <4>3. L[k] # L[i + 1]
        <5>1. CASE i + 1 = m + 1
          <6>1. k # 0 /\ k # m + 1
            BY <1>3
          <6>2. QED
            BY <1>5, <1>7, <3>0, <5>1, <6>1
        <5>2. CASE i + 1 # m + 1
          <6>1. i + 1 \in 1 .. m
            BY <1>3, <5>2
          <6>2. QED
            BY <1>1, <3>3, <6>1 DEF Chain
        <5>3. QED
          BY <5>1, <5>2
      <4>4. QED
        BY <1>5, <1>8, <3>0, <4>2, <4>3
    <3>4. QED
      BY <3>1, <3>2, <3>3
  <2>6. QED
    BY <2>1, <2>2, <2>3, <2>4, <2>5 DEF Chain
<1>12. (S \ {p}) \cup {r} = {L2[k] : k \in 1 .. m}
  <2>0. \A k \in 1 .. m : L2[k] = IF k = i THEN r ELSE L[k]
    BY <1>3, <1>9
  <2>1. ASSUME NEW k \in 1 .. m PROVE L2[k] \in (S \ {p}) \cup {r}
    BY <1>1, <1>2, <2>0 DEF Chain
  <2>2. ASSUME NEW q \in S \ {p} PROVE \E k \in 1 .. m : q = L2[k]
    BY <1>1, <1>2, <2>0
  <2>3. r = L2[i]
    BY <2>0
  <2>4. QED
    BY <2>1, <2>2, <2>3
<1>13. IsList(l2, h, (S \ {p}) \cup {r})
  BY <1>10, <1>11, <1>12 DEF IsList
<1>14. QED
  BY <1>6, <1>8, <1>13 DEF l2

-----------------------------------------------------------------------------
(* The loop of ms_slab_alloc_pages ends at a page of the list with enough  *)
(* pages, or at the head.                                                  *)
LEMMA FirstFitFound ==
  ASSUME NEW S, IsList(Links, Free, S), NEW n
  PROVE  /\ FirstFit(n) \in S \cup {Free}
         /\ FirstFit(n) # Free => page[FirstFit(n)].n >= n
<1> DEFINE h == Free
           l == Links
           stops(q) == q = Free \/ page[q].n >= n
           loop(g) == [k \in 0 .. Pages |->
                         IF k = 0 THEN next[Free]
                         ELSE IF stops(g[k - 1]) THEN g[k - 1] ELSE next[g[k - 1]]]
<1>0. PICK m \in 0 .. Pages :
        \E L \in [0 .. m + 1 -> Page \cup {h}] :
          Chain(l, h, m, L) /\ S = {L[k] : k \in 1 .. m}
  BY DEF IsList
<1>1. PICK L \in [0 .. m + 1 -> Page \cup {h}] :
        Chain(l, h, m, L) /\ S = {L[k] : k \in 1 .. m}
  BY <1>0
<1>2. m \in Nat /\ Pages \in Nat /\ m <= Pages
  BY PagesAssumption
<1>3. /\ next[Free] = L[1] /\ L[m + 1] = Free
      /\ \A k \in 1 .. m : next[L[k]] = L[k + 1]
  BY <1>1, <1>2 DEF Chain, Links
<1> DEFINE ends == {k \in 1 .. m + 1 : stops(L[k])}
<1>4. PICK j \in ends : \A k \in ends : j <= k
  <2>1. ends \in SUBSET Nat /\ m + 1 \in ends
    BY <1>2, <1>3
  <2> HIDE DEF ends
  <2>2. QED
    BY <2>1, LeastNat
<1>5. j \in 1 .. m + 1 /\ j \in Nat /\ stops(L[j])
  BY <1>2, <1>4
<1>6. \A k \in 1 .. m + 1 : k < j => ~stops(L[k])
  BY <1>2, <1>4, <1>5
<1> DEFINE w == [k \in 0 .. Pages |-> IF k + 1 < j THEN L[k + 1] ELSE L[j]]
<1> HIDE DEF stops, ends
<1>7. w = loop(w)
  <2> SUFFICES ASSUME NEW k \in 0 .. Pages
               PROVE  w[k] = IF k = 0 THEN next[Free]
                             ELSE IF stops(w[k - 1]) THEN w[k - 1] ELSE next[w[k - 1]]
    OBVIOUS
  <2>0. k \in Nat /\ w[k] = IF k + 1 < j THEN L[k + 1] ELSE L[j]
    OBVIOUS
  <2>1. CASE k = 0
    <3>1. k + 1 < j \/ j = 1
      BY <1>5, <2>1
    <3>2. w[k] = L[1]
      BY <2>0, <2>1, <3>1
    <3>3. QED
      BY <1>3, <2>1, <3>2
  <2>2. CASE k # 0 /\ k < j
    <3>1. k - 1 \in 0 .. Pages /\ (k - 1) + 1 = k /\ k \in 1 .. m /\ k \in 1 .. m + 1
      BY <1>2, <1>5, <2>2
    <3>2. w[k - 1] = L[k]
      BY <2>2, <3>1
    <3>3. ~stops(L[k])
      BY <1>6, <2>2, <3>1
    <3>4. next[L[k]] = L[k + 1]
      BY <1>3, <3>1
    <3>5. k + 1 < j \/ k + 1 = j
      BY <1>5, <2>2
    <3>6. w[k] = L[k + 1]
      BY <1>5, <2>0, <3>5
    <3> HIDE DEF w
    <3>7. QED
      BY <2>2, <3>2, <3>3, <3>4, <3>6
  <2>3. CASE k # 0 /\ ~(k < j)
    <3>1. k - 1 \in 0 .. Pages /\ ~((k - 1) + 1 < j) /\ ~(k + 1 < j)
      BY <1>2, <1>5, <2>3
    <3>2. w[k - 1] = L[j] /\ w[k] = L[j]
      BY <2>0, <3>1
    <3> HIDE DEF w
    <3>3. QED
      BY <1>5, <2>3, <3>2
  <2>4. QED
    BY <2>1, <2>2, <2>3
<1> DEFINE g == CHOOSE f : f = loop(f)
<1>8. FirstFit(n) = g[Pages]
  BY DEF FirstFit, stops
<1>9. g = loop(g)
  <2> HIDE DEF w
  <2>1. QED
    BY <1>7
<1> HIDE DEF g
<1>10. \A k \in 0 .. Pages : k \in {x \in Nat : g[x] = w[x]}
  <2> DEFINE same == {x \in Nat : g[x] = w[x]}
  <2>1. \A k \in 0 .. Pages :
          /\ g[k] = IF k = 0 THEN next[Free]
                    ELSE IF stops(g[k - 1]) THEN g[k - 1] ELSE next[g[k - 1]]
          /\ w[k] = IF k = 0 THEN next[Free]
                    ELSE IF stops(w[k - 1]) THEN w[k - 1] ELSE next[w[k - 1]]
    <3> HIDE DEF w
    <3>1. QED
      BY <1>7, <1>9
  <2> HIDE DEF w
  <2>2. 0 \in same
    BY <1>2, <2>1
  <2>3. ASSUME NEW k \in Nat, k < Pages, k \in same
        PROVE  k + 1 \in same
    <3>1. k + 1 \in 0 .. Pages /\ (k + 1) - 1 = k /\ k + 1 # 0 /\ k + 1 \in Nat
      BY <1>2, <2>3
    <3>2. g[k] = w[k]
      BY <2>3
    <3>3. g[k + 1] = w[k + 1]
      BY <2>1, <3>1, <3>2
    <3>4. QED
      BY <3>1, <3>3
  <2> HIDE DEF same
  <2>4. \A k \in 0 .. Pages : k \in same
    BY <1>2, <2>2, <2>3, UpTo
  <2>5. QED
    BY <2>4 DEF same
<1>11. FirstFit(n) = L[j]
  <2>1. Pages \in 0 .. Pages /\ ~(Pages + 1 < j)
    BY <1>2, <1>5
  <2>2. w[Pages] = L[j]
    BY <2>1
  <2> HIDE DEF w
  <2>3. QED
    BY <1>8, <1>10, <2>1, <2>2
<1>12. L[j] \in S \cup {Free}
  <2>1. j \in 1 .. m \/ j = m + 1
    BY <1>2, <1>5
  <2>2. QED
    BY <1>1, <1>3, <2>1
<1>13. QED
  BY <1>5, <1>11, <1>12 DEF stops

-----------------------------------------------------------------------------
(* All lists at once; pages outside of S keep their links. *)
KeepsLinks(l, l2, S) == \A r \in Page \ S : l2.next[r] = l.next[r]

LEMMA AllPushed ==
  ASSUME NEW l, NEW F, Lists(l, F), NEW h \in Heads, NEW q \in Page,
         \A g \in Heads : q \notin F[g]
  PROVE  /\ Lists(Pushed(l, h, q), [F EXCEPT ![h] = @ \cup {q}])
         /\ KeepsLinks(l, Pushed(l, h, q), F[h] \cup {q})
<1> DEFINE l2 == Pushed(l, h, q)
           F2 == [F EXCEPT ![h] = @ \cup {q}]
<1>1. /\ l \in LinkTable /\ F \in [Heads -> SUBSET Page] /\ IsList(l, h, F[h])
      /\ \A g, x \in Heads : g # x => F[g] \cap F[x] = {}
      /\ \A g \in Heads : IsList(l, g, F[g])
  BY DEF Lists
<1>2. /\ l2 \in LinkTable /\ IsList(l2, h, F[h] \cup {q})
      /\ \A r \in Node \ {q, h} : l2.next[r] = l.next[r]
      /\ \A r \in Node \ {q, l.next[h]} : l2.prev[r] = l.prev[r]
  BY <1>1, ListPushed
<1>3. l.next[h] \in F[h] \cup {h}
  BY <1>1, ListNodes
<1> HIDE DEF l2
<1>4. ASSUME NEW g \in Heads \ {h} PROVE IsList(l2, g, F[g])
  <2>1. /\ \A r \in F[g] : r \in Page /\ r \in Node /\ r # q /\ r # h /\ r \notin F[h]
        /\ g # q /\ g # h /\ g \in Node
    BY <1>1, HeadIsNoPage DEF Node
  <2>2. \A r \in F[g] : r # l.next[h]
    BY <1>3, <2>1
  <2>3. \A r \in F[g] \cup {g} : l2.next[r] = l.next[r]
    BY <1>2, <2>1
  <2>4. \A r \in F[g] : l2.prev[r] = l.prev[r]
    BY <1>2, <2>1, <2>2
  <2>5. QED
    BY <1>1, <2>3, <2>4, ListKept
<1>5. /\ F2 \in [Heads -> SUBSET Page] /\ F2[h] = F[h] \cup {q}
      /\ \A g \in Heads \ {h} : F2[g] = F[g]
  BY <1>1
<1> HIDE DEF F2
<1>6. Lists(l2, F2)
  <2>1. \A g, x \in Heads : g # x => F2[g] \cap F2[x] = {}
    BY <1>1, <1>5
  <2>2. \A g \in Heads : IsList(l2, g, F2[g])
    BY <1>2, <1>4, <1>5
  <2>3. QED
    BY <1>2, <1>5, <2>1, <2>2 DEF Lists
<1>7. KeepsLinks(l, l2, F[h] \cup {q})
  BY <1>2, HeadIsNoPage DEF Node, KeepsLinks
<1>8. QED
  BY <1>6, <1>7 DEF l2, F2

LEMMA AllUnlinked ==
  ASSUME NEW l, NEW F, Lists(l, F), NEW h \in Heads, NEW p \in F[h]
  PROVE  /\ Lists(Unlinked(l, p), [F EXCEPT ![h] = @ \ {p}])
         /\ KeepsLinks(l, Unlinked(l, p), F[h])
<1> DEFINE l2 == Unlinked(l, p)
           F2 == [F EXCEPT ![h] = @ \ {p}]
<1>1. /\ l \in LinkTable /\ F \in [Heads -> SUBSET Page] /\ IsList(l, h, F[h])
      /\ \A g, x \in Heads : g # x => F[g] \cap F[x] = {}
      /\ \A g \in Heads : IsList(l, g, F[g])
  BY DEF Lists
<1>2. /\ l2 \in LinkTable /\ IsList(l2, h, F[h] \ {p})
      /\ \A r \in Node : r # l.prev[p] => l2.next[r] = l.next[r]
      /\ \A r \in Node : r # l.next[p] => l2.prev[r] = l.prev[r]
  <2> DEFINE S == F[h]
  <2>1. IsList(l, h, S) /\ p \in S /\ l \in LinkTable
    BY <1>1
  <2> HIDE DEF S
  <2>2. Unlinked(l, p) \in LinkTable /\ IsList(Unlinked(l, p), h, S \ {p})
    BY <2>1, ListUnlinked
  <2>3. /\ \A r \in Node : r # l.prev[p] => Unlinked(l, p).next[r] = l.next[r]
        /\ \A r \in Node : r # l.next[p] => Unlinked(l, p).prev[r] = l.prev[r]
    <3>1. l.next \in [Node -> Node \cup {Null}] /\ l.prev \in [Node -> Node \cup {Null}]
      BY <1>1 DEF LinkTable
    <3>2. QED
      BY <3>1 DEF Unlinked
  <2>4. QED
    BY <2>2, <2>3 DEF S
<1>3. l.next[p] \in F[h] \cup {h} /\ l.prev[p] \in F[h] \cup {h}
  BY <1>1, ListNodes
<1> HIDE DEF l2
<1>4. ASSUME NEW g \in Heads \ {h} PROVE IsList(l2, g, F[g])
  <2>1. /\ \A r \in F[g] : r \in Page /\ r \in Node /\ r # h /\ r \notin F[h]
        /\ g # h /\ g \in Node /\ g \notin F[h]
    BY <1>1, HeadIsNoPage DEF Node
  <2>2. \A r \in F[g] \cup {g} : r # l.next[p] /\ r # l.prev[p] /\ r \in Node
    BY <1>3, <2>1
  <2>3. QED
    BY <1>1, <1>2, <2>2, ListKept
<1>5. /\ F2 \in [Heads -> SUBSET Page] /\ F2[h] = F[h] \ {p}
      /\ \A g \in Heads \ {h} : F2[g] = F[g]
  BY <1>1
<1> HIDE DEF F2
<1>6. Lists(l2, F2)
  <2>1. \A g, x \in Heads : g # x => F2[g] \cap F2[x] = {}
    BY <1>1, <1>5
  <2>2. \A g \in Heads : IsList(l2, g, F2[g])
    BY <1>2, <1>4, <1>5
  <2>3. QED
    BY <1>2, <1>5, <2>1, <2>2 DEF Lists
<1>7. KeepsLinks(l, l2, F[h])
  BY <1>2, <1>3, HeadIsNoPage DEF Node, KeepsLinks
<1>8. QED
  BY <1>6, <1>7 DEF l2, F2

LEMMA AllReplaced ==
  ASSUME NEW l, NEW F, Lists(l, F), NEW h \in Heads, NEW p \in F[h], NEW q \in Page,
         \A g \in Heads : q \notin F[g]
  PROVE  /\ Lists(Replaced(l, p, q), [F EXCEPT ![h] = (@ \ {p}) \cup {q}])
         /\ KeepsLinks(l, Replaced(l, p, q), F[h] \cup {q})
<1> DEFINE l2 == Replaced(l, p, q)
           F2 == [F EXCEPT ![h] = (@ \ {p}) \cup {q}]
<1>1. /\ l \in LinkTable /\ F \in [Heads -> SUBSET Page] /\ IsList(l, h, F[h])
      /\ \A g, x \in Heads : g # x => F[g] \cap F[x] = {}
      /\ \A g \in Heads : IsList(l, g, F[g])
  BY DEF Lists
<1>2. /\ l2 \in LinkTable /\ IsList(l2, h, (F[h] \ {p}) \cup {q})
      /\ \A r \in Node \ {l.prev[p], q} : l2.next[r] = l.next[r]
      /\ \A r \in Node \ {l.next[p], q} : l2.prev[r] = l.prev[r]
  BY <1>1, ListReplaced
<1>3. l.next[p] \in F[h] \cup {h} /\ l.prev[p] \in F[h] \cup {h}
  BY <1>1, ListNodes
<1> HIDE DEF l2
<1>4. ASSUME NEW g \in Heads \ {h} PROVE IsList(l2, g, F[g])
  <2>1. /\ \A r \in F[g] : r \in Page /\ r \in Node /\ r # h /\ r \notin F[h] /\ r # q
        /\ g # h /\ g \in Node /\ g \notin F[h] /\ g # q
    BY <1>1, HeadIsNoPage DEF Node
  <2>2. \A r \in F[g] \cup {g} :
          r # l.next[p] /\ r # l.prev[p] /\ r # q /\ r \in Node
    BY <1>3, <2>1
  <2>3. QED
    BY <1>1, <1>2, <2>2, ListKept
<1>5. /\ F2 \in [Heads -> SUBSET Page] /\ F2[h] = (F[h] \ {p}) \cup {q}
      /\ \A g \in Heads \ {h} : F2[g] = F[g]
  BY <1>1
<1> HIDE DEF F2
<1>6. Lists(l2, F2)
  <2>1. \A g, x \in Heads : g # x => F2[g] \cap F2[x] = {}
    BY <1>1, <1>5
  <2>2. \A g \in Heads : IsList(l2, g, F2[g])
    BY <1>2, <1>4, <1>5
  <2>3. QED
    BY <1>2, <1>5, <2>1, <2>2 DEF Lists
<1>7. KeepsLinks(l, l2, F[h] \cup {q})
  BY <1>2, <1>3, HeadIsNoPage DEF Node, KeepsLinks
<1>8. QED
  BY <1>6, <1>7 DEF l2, F2

LEMMA AllWithoutLinks ==
  ASSUME NEW l, NEW F, Lists(l, F), NEW ps \in SUBSET Page,
         \A h \in Heads : F[h] \cap ps = {}
  PROVE  /\ Lists(WithoutLinks(l, ps), F)
         /\ \A r \in Page : WithoutLinks(l, ps).next[r] = IF r \in ps THEN Null ELSE l.next[r]
<1> DEFINE l2 == WithoutLinks(l, ps)
<1>1. /\ l \in LinkTable /\ F \in [Heads -> SUBSET Page]
      /\ \A h \in Heads : IsList(l, h, F[h])
      /\ l.next \in [Node -> Node \cup {Null}] /\ l.prev \in [Node -> Node \cup {Null}]
  BY DEF Lists, LinkTable
<1>2. l2 = [next |-> [q \in Node |-> IF q \in ps THEN Null ELSE l.next[q]],
            prev |-> [q \in Node |-> IF q \in ps THEN Null ELSE l.prev[q]]]
  BY DEF WithoutLinks
<1> HIDE DEF l2
<1>3. /\ l2 \in LinkTable
      /\ \A r \in Node : l2.next[r] = IF r \in ps THEN Null ELSE l.next[r]
      /\ \A r \in Node : l2.prev[r] = IF r \in ps THEN Null ELSE l.prev[r]
  <2>1. /\ [q \in Node |-> IF q \in ps THEN Null ELSE l.next[q]] \in [Node -> Node \cup {Null}]
        /\ [q \in Node |-> IF q \in ps THEN Null ELSE l.prev[q]] \in [Node -> Node \cup {Null}]
    BY <1>1
  <2>2. l2 \in LinkTable
    BY <1>2, <2>1 DEF LinkTable
  <2>3. QED
    BY <1>2, <2>2
<1>4. ASSUME NEW h \in Heads PROVE IsList(l2, h, F[h])
  <2>1. \A r \in F[h] \cup {h} : r \in Node /\ r \notin ps
    BY <1>1, HeadIsNoPage DEF Node
  <2>2. QED
    BY <1>1, <1>3, <2>1, ListKept
<1>5. QED
  BY <1>3, <1>4 DEF Lists, Node, l2

(* What lies in a list head's link back does not matter. *)
LEMMA AllSame ==
  ASSUME NEW l, NEW F, Lists(l, F), NEW l2 \in LinkTable, l2.next = l.next,
         \A r \in Page : l2.prev[r] = l.prev[r]
  PROVE  Lists(l2, F)
<1>1. /\ F \in [Heads -> SUBSET Page] /\ \A h \in Heads : IsList(l, h, F[h])
      /\ \A g, h \in Heads : g # h => F[g] \cap F[h] = {}
  BY DEF Lists
<1>2. ASSUME NEW h \in Heads PROVE IsList(l2, h, F[h])
  <2>1. \A r \in F[h] : r \in Page
    BY <1>1
  <2>2. QED
    BY <1>1, <2>1, ListKept
<1>3. QED
  BY <1>1, <1>2 DEF Lists

LEMMA LinksSet ==
  ASSUME NEW l \in LinkTable, SetLinks(l)
  PROVE  Links' = l
<1>1. l = [next |-> l.next, prev |-> l.prev]
  BY DEF LinkTable
<1>2. QED
  BY <1>1 DEF SetLinks, Links

-----------------------------------------------------------------------------
(* Blocks.                                                                 *)
LEMMA Interior ==
  ASSUME PageInv, BlockInv, NEW p \in First, NEW q \in p + 1 .. p + page[p].n - 1
  PROVE  q \in Page /\ page[q].n = 0 /\ q \notin First
<1>1. p \in Nat /\ p \in Page /\ page[p].n \in Nat /\ page[p].n > 0 /\ Pages \in Nat
      /\ p + page[p].n <= Pages
  BY PagesAssumption DEF PageInv, BlockInv, First, Page
<1>2. q \in Nat /\ p < q /\ q < p + page[p].n
  BY <1>1
<1>3. q \in Page
  BY <1>1, <1>2 DEF Page
<1>4. page[q].n \in Nat
  BY <1>3, PagesAssumption DEF PageInv
<1>5. q \notin First
  BY <1>1, <1>2 DEF BlockInv
<1>6. QED
  BY <1>3, <1>4, <1>5 DEF First

LEMMA InFirst ==
  ASSUME PageInv, BlockInv, NEW q \in Page, q \notin First
  PROVE  /\ page[q].n = 0 /\ page[q].is \notin Slot /\ page[q].is # "start"
         /\ \A h \in Heads : q \notin Members[h]
<1>1. page[q].n \in Nat
  BY PagesAssumption DEF PageInv
<1>2. page[q].n = 0
  BY <1>1 DEF First
<1>3. page[q].is \notin Slot /\ page[q].is # "start"
  BY <1>2 DEF BlockInv
<1>4. QED
  BY <1>2, <1>3 DEF Members, Heads, FreeBlocks, Room, HasRoom

LEMMA MembersOf ==
  /\ Members[Free] = FreeBlocks
  /\ \A s \in Slot : Members[s] = Room(s)
  /\ Free \in Heads /\ Slot \subseteq Heads
BY SlotAssumption DEF Members, Heads

(* Cutting a block in two leaves blocks side by side. *)
LEMMA CutBlocks ==
  ASSUME PageInv, BlockInv, NEW p \in First, NEW n \in 1 .. page[p].n,
         \A q \in Page :
           page'[q].n = IF q = p THEN n
                        ELSE IF q \in p + 1 .. p + n - 1 THEN 0
                        ELSE IF q = p + n /\ page[p].n > n THEN page[p].n - n
                        ELSE page[q].n
  PROVE  /\ \A q \in Page : q + page'[q].n <= Pages
         /\ \A q \in Page : \E o \in First' : q \in o .. o + page'[o].n - 1
         /\ \A q, o \in First' : q < o => q + page'[q].n <= o
         /\ First' = First \cup (IF page[p].n > n THEN {p + n} ELSE {})
<1> DEFINE N == page[p].n
<1>1. p \in Nat /\ p \in Page /\ N \in Nat /\ n \in Nat /\ n >= 1 /\ n <= N /\ Pages \in Nat
      /\ p + N <= Pages
  BY PagesAssumption DEF PageInv, BlockInv, First, Page
<1>2. \A q \in Page : q \in Nat /\ page[q].n \in Nat /\ q + page[q].n <= Pages
  BY PagesAssumption DEF PageInv, BlockInv, Page
<1>3. \A q \in p + 1 .. p + N - 1 : q \in Page /\ page[q].n = 0 /\ q \notin First
  BY Interior
<1>4. N > n => p + n \in p + 1 .. p + N - 1
  BY <1>1
<1>5. N > n => p + n \in Page /\ p + n \notin First
  BY <1>3, <1>4
<1>6. \A q \in p + 1 .. p + n - 1 : q \in p + 1 .. p + N - 1
  BY <1>1
<1>7. \A q \in First : q \in Page /\ page[q].n > 0 /\ q \notin p + 1 .. p + N - 1
  BY <1>3 DEF First
<1> HIDE DEF N
<1>8. /\ page'[p].n = n
      /\ \A q \in First \ {p} : page'[q].n = page[q].n
      /\ N > n => page'[p + n].n = N - n
  <2>1. p \notin p + 1 .. p + n - 1 /\ p + n \notin p + 1 .. p + n - 1 /\ p + n # p
    BY <1>1
  <2>2. ASSUME NEW q \in First \ {p} PROVE page'[q].n = page[q].n
    <3>1. q \in Page /\ q \notin p + 1 .. p + n - 1 /\ (N > n => q # p + n)
      BY <1>4, <1>6, <1>7
    <3>2. QED
      BY <3>1 DEF N
  <2>3. QED
    BY <1>1, <1>5, <2>1, <2>2 DEF N
<1>9. First' = First \cup (IF N > n THEN {p + n} ELSE {})
  <2>1. ASSUME NEW q \in First PROVE q \in First'
    BY <1>1, <1>7, <1>8 DEF First
  <2>2. N > n => p + n \in First'
    BY <1>1, <1>5, <1>8 DEF First
  <2>3. ASSUME NEW q \in Page, page'[q].n > 0, q # p, ~(N > n /\ q = p + n)
        PROVE  q \in First
    <3>1. q \notin p + 1 .. p + n - 1
      BY <2>3
    <3>2. page'[q].n = page[q].n
      BY <2>3, <3>1 DEF N
    <3>3. QED
      BY <2>3, <3>2 DEF First
  <2>4. QED
    BY <2>1, <2>2, <2>3 DEF First
<1>10. \A q \in Page : q + page'[q].n <= Pages
  <2> SUFFICES ASSUME NEW q \in Page PROVE q + page'[q].n <= Pages
    OBVIOUS
  <2>1. CASE q = p
    BY <1>1, <1>8, <2>1
  <2>2. CASE q = p + n /\ N > n
    BY <1>1, <1>8, <2>2
  <2>3. CASE q # p /\ q \in p + 1 .. p + n - 1
    <3>1. page'[q].n = 0
      BY <2>3
    <3>2. q <= Pages /\ q \in Nat
      BY <1>1 DEF Page
    <3>3. QED
      BY <1>1, <3>1, <3>2
  <2>4. CASE q # p /\ q \notin p + 1 .. p + n - 1 /\ ~(q = p + n /\ N > n)
    <3>1. page'[q].n = page[q].n
      BY <2>4 DEF N
    <3>2. QED
      BY <1>2, <3>1
  <2>5. QED
    BY <2>1, <2>2, <2>3, <2>4
<1>11. \A q \in Page : \E o \in First' : q \in o .. o + page'[o].n - 1
  <2> SUFFICES ASSUME NEW q \in Page PROVE \E o \in First' : q \in o .. o + page'[o].n - 1
    OBVIOUS
  <2>1. PICK o \in First : q \in o .. o + page[o].n - 1
    BY DEF BlockInv
  <2>2. CASE o # p
    BY <1>8, <1>9, <2>1, <2>2
  <2>3. CASE o = p /\ q < p + n
    <3>1. q \in p .. p + n - 1
      BY <1>1, <1>2, <2>1, <2>3
    <3>2. QED
      BY <1>8, <1>9, <3>1
  <2>4. CASE o = p /\ ~(q < p + n)
    <3>1. N > n /\ q \in p + n .. p + n + (N - n) - 1
      BY <1>1, <1>2, <2>1, <2>4 DEF N
    <3>2. QED
      BY <1>8, <1>9, <3>1
  <2>5. QED
    BY <2>2, <2>3, <2>4
<1>12. \A q, o \in First' : q < o => q + page'[q].n <= o
  <2> SUFFICES ASSUME NEW q \in First', NEW o \in First', q < o PROVE q + page'[q].n <= o
    OBVIOUS
  <2>0. /\ \A x, y \in First : x < y => x + page[x].n <= y
        /\ \A x \in First : x \in Nat /\ page[x].n \in Nat
    BY <1>2, <1>7 DEF BlockInv
  <2>1. CASE q \in First /\ o \in First
    BY <1>1, <1>8, <2>0, <2>1 DEF N
  <2>2. CASE q \in First /\ N > n /\ o = p + n
    <3>1. CASE q = p
      BY <1>1, <1>8, <2>2, <3>1
    <3>2. CASE q < p
      BY <1>1, <1>8, <2>0, <2>2, <3>2
    <3>3. CASE q > p
      <4>1. p + N <= q
        BY <2>0, <2>2, <3>3 DEF N
      <4>2. QED
        BY <1>1, <2>0, <2>2, <4>1
    <3>4. QED
      BY <1>1, <2>0, <2>2, <3>1, <3>2, <3>3
  <2>3. CASE N > n /\ q = p + n /\ o \in First
    <3>1. p < o
      BY <1>1, <2>0, <2>3
    <3>2. p + N <= o
      BY <2>0, <2>3, <3>1 DEF N
    <3>3. QED
      BY <1>1, <1>8, <2>0, <2>3, <3>2
  <2>4. CASE N > n /\ q = p + n /\ o = p + n
    BY <1>1, <2>4
  <2>5. QED
    BY <1>9, <2>1, <2>2, <2>3, <2>4
<1>13. QED
  BY <1>9, <1>10, <1>11, <1>12 DEF N

(* Taking the first n pages of a free block takes it off the free list, on *)
(* which the rest takes its place.                                         *)
LEMMA TakenLists ==
  ASSUME PageInv, BlockInv, LinkInv, NEW p \in FreeBlocks, NEW n \in 1 .. page[p].n
  PROVE  LET rest == IF page[p].n > n THEN {p + n} ELSE {}
             l == BlockTaken(Links, p, n)
         IN /\ Lists(l, [Members EXCEPT ![Free] = (@ \ {p}) \cup rest])
            /\ \A r \in p .. p + n - 1 : l.next[r] = Null
            /\ \A r \in Page \ (FreeBlocks \cup rest) : next[r] = Null => l.next[r] = Null
<1> DEFINE rest == IF page[p].n > n THEN {p + n} ELSE {}
           ps == p .. p + n - 1
           l == IF page[p].n > n THEN Replaced(Links, p, p + n) ELSE Unlinked(Links, p)
           F == [Members EXCEPT ![Free] = (@ \ {p}) \cup rest]
<1>1. p \in Nat /\ p \in First /\ p \in Page /\ n \in Nat /\ n >= 1 /\ page[p].n \in Nat
      /\ n <= page[p].n /\ p + page[p].n <= Pages /\ Pages \in Nat
  BY PagesAssumption DEF PageInv, BlockInv, First, Page, FreeBlocks
<1>2. /\ Lists(Links, Members) /\ Members \in [Heads -> SUBSET Page]
      /\ Members[Free] = FreeBlocks /\ Free \in Heads /\ p \in Members[Free]
  BY MembersOf DEF LinkInv, Lists
<1>3. \A q \in p + 1 .. p + page[p].n - 1 : q \in Page /\ \A h \in Heads : q \notin Members[h]
  BY <1>1, Interior, InFirst
<1>4. page[p].n > n => p + n \in p + 1 .. p + page[p].n - 1
  BY <1>1
<1>5. BlockTaken(Links, p, n) = WithoutLinks(l, ps)
  BY DEF BlockTaken, Replaced
<1>6. /\ Lists(l, F)
      /\ \A r \in Page : r \notin FreeBlocks \cup rest => l.next[r] = next[r]
  <2>0. Links.next = next
    BY DEF Links
  <2>1. CASE page[p].n > n
    <3>1. p + n \in Page /\ \A h \in Heads : p + n \notin Members[h]
      BY <1>3, <1>4, <2>1
    <3>2. /\ Lists(Replaced(Links, p, p + n),
                   [Members EXCEPT ![Free] = (@ \ {p}) \cup {p + n}])
          /\ KeepsLinks(Links, Replaced(Links, p, p + n), Members[Free] \cup {p + n})
      BY ONLY <1>1, <1>2, <3>1, AllReplaced
    <3>3. QED
      BY <1>2, <2>0, <2>1, <3>2 DEF KeepsLinks
  <2>2. CASE ~(page[p].n > n)
    <3>1. /\ Lists(Unlinked(Links, p), [Members EXCEPT ![Free] = @ \ {p}])
          /\ KeepsLinks(Links, Unlinked(Links, p), Members[Free])
      BY ONLY <1>2, AllUnlinked
    <3>2. (Members[Free] \ {p}) \cup {} = Members[Free] \ {p}
      OBVIOUS
    <3>3. QED
      BY <1>2, <2>0, <2>2, <3>1, <3>2 DEF KeepsLinks
  <2>3. QED
    BY <2>1, <2>2
<1>7. ps \subseteq Page /\ \A q \in ps : q = p \/ q \in p + 1 .. p + page[p].n - 1
  BY <1>1 DEF Page
<1>8. \A h \in Heads : F[h] \cap ps = {}
  <2>1. \A h \in Heads \ {Free} : p \notin Members[h]
    BY <1>2 DEF Lists
  <2>2. \A h \in Heads : F[h] = IF h = Free THEN (Members[Free] \ {p}) \cup rest
                                            ELSE Members[h]
    BY <1>2
  <2>3. \A q \in rest : q \notin ps
    BY <1>1
  <2> HIDE DEF F, rest, ps
  <2>4. QED
    BY <1>3, <1>7, <2>1, <2>2, <2>3
<1> HIDE DEF l, F, ps, rest
<1>9. /\ Lists(WithoutLinks(l, ps), F)
      /\ \A r \in Page : WithoutLinks(l, ps).next[r] = IF r \in ps THEN Null ELSE l.next[r]
  BY <1>6, <1>7, <1>8, AllWithoutLinks
<1>10. /\ Lists(BlockTaken(Links, p, n), F)
       /\ \A r \in ps : BlockTaken(Links, p, n).next[r] = Null
       /\ \A r \in Page \ (FreeBlocks \cup rest) :
            next[r] = Null => BlockTaken(Links, p, n).next[r] = Null
  BY <1>5, <1>6, <1>7, <1>9
<1>11. QED
  BY <1>10 DEF F, ps, rest

-----------------------------------------------------------------------------
(* What an operation leaves of the page table, when no block begins or     *)
(* ends elsewhere than before.                                             *)
LEMMA SameBlocks ==
  ASSUME PageInv, BlockInv, \A q \in Page : page'[q].n = page[q].n
  PROVE  /\ \A q \in Page : q + page'[q].n <= Pages
         /\ \A q \in Page : \E o \in First' : q \in o .. o + page'[o].n - 1
         /\ \A q, o \in First' : q < o => q + page'[q].n <= o
         /\ First' = First
<1>1. First' = First
  BY DEF First
<1>2. \A o \in First : page'[o].n = page[o].n
  BY DEF First
<1>3. QED
  BY <1>1, <1>2 DEF BlockInv

LEMMA FirstFreeFound ==
  ASSUME HeldInv, NEW s \in Slot, NEW p \in Room(s)
  PROVE  /\ FirstFree(p) \in 0 .. Chunks[s] - 1
         /\ FirstFree(p) \notin page[p].used
<1> DEFINE T == {i \in 0 .. Chunks[s] - 1 : i \notin page[p].used}
<1>1. p \in Page /\ page[p].is = s /\ page[p].used # 0 .. Chunks[s] - 1
  BY DEF Room, HasRoom
<1>2. page[p].used \subseteq 0 .. Chunks[s] - 1
  BY <1>1 DEF HeldInv
<1>3. T \in SUBSET Nat /\ T # {}
  <2>1. Chunks[s] \in Nat
    BY SlotAssumption
  <2>2. T \in SUBSET Nat
    BY <2>1
  <2>3. \E i \in 0 .. Chunks[s] - 1 : i \notin page[p].used
    BY <1>1, <1>2
  <2>4. QED
    BY <2>2, <2>3
<1>4. PICK i \in T : \A k \in T : i <= k
  <2> HIDE DEF T
  <2>1. QED
    BY <1>3, LeastNat
<1>5. \A k \in 0 .. i - 1 : k \in page[p].used
  <2>1. Chunks[s] \in Nat /\ i \in Nat /\ i <= Chunks[s] - 1
    BY SlotAssumption
  <2>2. \A k \in 0 .. i - 1 : k \in 0 .. Chunks[s] - 1 /\ ~(i <= k)
    BY <2>1
  <2>3. QED
    BY <1>4, <2>2
<1>6. \E x \in 0 .. Chunks[page[p].is] - 1 :
        x \notin page[p].used /\ \A k \in 0 .. x - 1 : k \in page[p].used
  BY <1>1, <1>5
<1>7. QED
  BY <1>1, <1>6 DEF FirstFree

(* ms_slab_init.                                                           *)
LEMMA InitInv == Init => Inv
<1> SUFFICES ASSUME Init PROVE Inv
  OBVIOUS
<1> USE PagesAssumption
<1>1. /\ page = [p \in Page |-> FreePage(IF p = 0 THEN Pages ELSE 0)]
      /\ next = [q \in Node |-> IF q = Free THEN 0 ELSE IF q = 0 THEN Free
                                ELSE IF q \in Slot THEN q ELSE Null]
      /\ prev = [q \in Node |-> IF q = 0 THEN Free ELSE Null]
      /\ live = {}
  BY DEF Init
<1>2. 0 \in Page /\ Pages \in Nat /\ Pages > 0
  BY DEF Page
<1>3. \A p \in Page : /\ page[p].is = "free" /\ page[p].used = {}
                      /\ page[p].n = IF p = 0 THEN Pages ELSE 0
  BY <1>1 DEF FreePage
<1>4. First = {0} /\ FreeBlocks = {0} /\ \A s \in Slot : Room(s) = {}
  <2>1. First = {0}
    BY <1>2, <1>3 DEF First
  <2>2. FreeBlocks = {0}
    BY <1>2, <1>3, <2>1 DEF FreeBlocks
  <2>3. \A s \in Slot : Room(s) = {}
    BY <1>3, SlotAssumption DEF Room, HasRoom
  <2>4. QED
    BY <2>1, <2>2, <2>3
<1>5. PageInv
  <2>1. \A n \in 0 .. Pages : FreePage(n) \in [is : Kinds, n : 0 .. Pages, used : SUBSET Nat]
    BY DEF FreePage, Kinds
  <2>2. \A p \in Page : (IF p = 0 THEN Pages ELSE 0) \in 0 .. Pages
    BY <1>2
  <2>3. QED
    BY <1>1, <2>1, <2>2 DEF PageInv
<1>6. BlockInv
  <2>1. ASSUME NEW p \in Page
        PROVE  /\ p + page[p].n <= Pages
               /\ page[p].is = "free" /\ page[p].is \notin Slot
    BY <1>2, <1>3, SlotAssumption DEF Page
  <2>2. \A q \in Page : q \in 0 .. 0 + page[0].n - 1
    BY <1>2, <1>3 DEF Page
  <2>3. \A p, o \in First : ~(p < o)
    BY <1>4
  <2>4. QED
    BY <1>4, <2>1, <2>2, <2>3 DEF BlockInv
<1>7. LinkInv
  <2>1. Links \in LinkTable
    <3>1. \A h \in Heads : h \in Node
      BY HeadIsNoPage
    <3>2. 0 \in Node /\ Free \in Node
      BY <1>2, <3>1 DEF Node, Heads
    <3>3. next \in [Node -> Node \cup {Null}] /\ prev \in [Node -> Node \cup {Null}]
      BY <1>1, <3>2
    <3>4. QED
      BY <3>3 DEF Links, LinkTable
  <2>2. /\ Members \in [Heads -> SUBSET Page]
        /\ \A g, h \in Heads : g # h => Members[g] \cap Members[h] = {}
    BY <1>2, <1>4 DEF Members, Heads
  <2>3. IsList(Links, Free, {0})
    <3> DEFINE L == [k \in 0 .. 2 |-> IF k = 1 THEN 0 ELSE Free]
    <3>0. Free \in Node /\ 0 \in Node /\ Free # 0 /\ 1 \in 0 .. Pages
      BY <1>2, HeadIsNoPage DEF Heads, Node
    <3>1. L \in [0 .. 1 + 1 -> Page \cup {Free}]
      BY <1>2
    <3>2. L[0] = Free /\ L[1] = 0 /\ L[2] = Free
      OBVIOUS
    <3> HIDE DEF L
    <3>3. next[Free] = 0 /\ next[0] = Free /\ prev[0] = Free
      BY <1>1, <3>0
    <3>4. \A k \in 1 .. 1 : k = 1
      OBVIOUS
    <3>5. \A k \in 0 .. 1 : k = 0 \/ k = 1
      OBVIOUS
    <3>6. Chain(Links, Free, 1, L)
      BY <1>2, <3>2, <3>3, <3>4, <3>5 DEF Chain, Links
    <3>7. {0} = {L[k] : k \in 1 .. 1}
      BY <3>2, <3>4
    <3>8. QED
      BY <3>0, <3>1, <3>6, <3>7 DEF IsList
  <2>4. ASSUME NEW s \in Slot PROVE IsList(Links, s, {})
    <3> DEFINE L == [k \in 0 .. 1 |-> s]
    <3>1. L \in [0 .. 0 + 1 -> Page \cup {s}] /\ L[0] = s /\ L[1] = s
      OBVIOUS
    <3> HIDE DEF L
    <3>2. s \in Node /\ s # 0 /\ s # Free
      BY <1>2, HeadIsNoPage, SlotAssumption DEF Heads
    <3>3. next[s] = s
      BY <1>1, <3>2
    <3>4. (\A k \in 1 .. 0 : FALSE) /\ (\A k \in 0 .. 0 : k = 0)
      OBVIOUS
    <3>5. Chain(Links, s, 0, L)
      BY <3>1, <3>3, <3>4 DEF Chain, Links
    <3>6. {} = {L[k] : k \in 1 .. 0}
      BY <3>4
    <3>7. 0 \in 0 .. Pages
      BY <1>2
    <3>8. \E M \in [0 .. 0 + 1 -> Page \cup {s}] :
            Chain(Links, s, 0, M) /\ {} = {M[k] : k \in 1 .. 0}
      BY <3>1, <3>5, <3>6
    <3>9. QED
      BY ONLY <3>7, <3>8 DEF IsList
  <2>5. \A h \in Heads : IsList(Links, h, Members[h])
    BY <1>4, <2>3, <2>4, MembersOf DEF Heads
  <2>6. \A p \in Page : ~(page[p].is = "start" \/ Full(p))
    BY <1>3, SlotAssumption DEF Full
  <2>7. QED
    BY <2>1, <2>2, <2>5, <2>6 DEF LinkInv, Lists
<1>8. HeldInv
  BY <1>1, <1>3, SlotAssumption DEF HeldInv
<1>9. QED
  BY <1>5, <1>6, <1>7, <1>8 DEF Inv

-----------------------------------------------------------------------------
(* The operations.                                                         *)
LEMMA Constructors ==
  /\ \A n \in 0 .. Pages : /\ FreePage(n).is = "free" /\ FreePage(n).n = n
                           /\ FreePage(n).used = {}
                           /\ FreePage(n) \in [is : Kinds, n : 0 .. Pages, used : SUBSET Nat]
  /\ \A n \in 0 .. Pages : /\ StartPage(n).is = "start" /\ StartPage(n).n = n
                           /\ StartPage(n).used = {}
                           /\ StartPage(n) \in [is : Kinds, n : 0 .. Pages, used : SUBSET Nat]
  /\ BusyPage.is = "busy" /\ BusyPage.n = 0 /\ BusyPage.used = {}
  /\ BusyPage \in [is : Kinds, n : 0 .. Pages, used : SUBSET Nat]
  /\ \A s \in Slot, u \in SUBSET Nat :
       /\ CutPage(s, u).is = s /\ CutPage(s, u).n = 1 /\ CutPage(s, u).used = u
       /\ CutPage(s, u) \in [is : Kinds, n : 0 .. Pages, used : SUBSET Nat]
<1>1. 0 \in 0 .. Pages /\ 1 \in 0 .. Pages /\ {} \in SUBSET Nat
  BY PagesAssumption
<1>2. {"free", "start", "busy"} \subseteq Kinds /\ Slot \subseteq Kinds
  BY DEF Kinds
<1>3. QED
  BY <1>1, <1>2 DEF FreePage, StartPage, BusyPage, CutPage

LEMMA CallersMemory ==
  /\ \A p, n, q, k : WholePages(p, n) = WholePages(q, k) <=> p = q /\ n = k
  /\ \A p, s, i, q, t, k : Chunk(p, s, i) = Chunk(q, t, k) <=> p = q /\ s = t /\ i = k
  /\ \A p, n, q, k : \A s \in Slot : WholePages(p, n) # Chunk(q, s, k)
<1>1. \A p, n : WholePages(p, n).is = "pages" /\ WholePages(p, n).first = p
                /\ WholePages(p, n).n = n
  BY DEF WholePages
<1>2. \A p, s, i : Chunk(p, s, i).is = s /\ Chunk(p, s, i).first = p /\ Chunk(p, s, i).n = i
  BY DEF Chunk
<1>3. "pages" \notin Slot
  BY SlotAssumption
<1>4. QED
  BY <1>1, <1>2, <1>3

(* The page table when the first n pages of a free block are taken.        *)
LEMMA TakenPages ==
  ASSUME PageInv, BlockInv, NEW p \in FreeBlocks, NEW n \in 1 .. page[p].n
  PROVE  /\ p \in Page /\ p \in First /\ page[p].is = "free" /\ n \in 0 .. Pages
         /\ PagesTaken(p, n) \in [Page -> [is : Kinds, n : 0 .. Pages, used : SUBSET Nat]]
         /\ PagesTaken(p, n)[p] = StartPage(n)
         /\ \A q \in Page :
              PagesTaken(p, n)[q].n = IF q = p THEN n
                                      ELSE IF q \in p + 1 .. p + n - 1 THEN 0
                                      ELSE IF q = p + n /\ page[p].n > n THEN page[p].n - n
                                      ELSE page[q].n
         /\ \A q \in Page \ {p} :
              \/ PagesTaken(p, n)[q] = page[q]
              \/ q \notin First /\ PagesTaken(p, n)[q].is = "busy"
              \/ q \notin First /\ PagesTaken(p, n)[q].is = "free" /\ page[p].n > n /\ q = p + n
         /\ page[p].n > n => p + n \in Page /\ p + n \notin First
                             /\ PagesTaken(p, n)[p + n].is = "free"
<1> DEFINE t == PagesTaken(p, n)
<1>1. /\ p \in Nat /\ p \in First /\ p \in Page /\ page[p].is = "free" /\ n \in Nat /\ n >= 1
      /\ page[p].n \in Nat /\ n <= page[p].n /\ p + page[p].n <= Pages /\ Pages \in Nat
  <2>1. p \in First /\ p \in Page /\ page[p].is = "free" /\ Pages \in Nat
    BY PagesAssumption DEF First, FreeBlocks
  <2>2. page[p].n \in Nat /\ p + page[p].n <= Pages
    BY <2>1 DEF PageInv, BlockInv
  <2>3. p \in Nat /\ n \in Nat /\ n >= 1 /\ n <= page[p].n
    BY <2>1, <2>2 DEF Page
  <2>4. QED
    BY <2>1, <2>2, <2>3
<1>2. n \in 0 .. Pages /\ page[p].n - n \in 0 .. Pages
  BY <1>1
<1>3. t = [q \in Page |-> IF q = p THEN StartPage(n)
                          ELSE IF q \in p + 1 .. p + n - 1 THEN BusyPage
                          ELSE IF q = p + n /\ page[p].n > n THEN FreePage(page[p].n - n)
                          ELSE page[q]]
  BY DEF PagesTaken
<1> HIDE DEF t
<1>4. \A q \in Page : page[q] \in [is : Kinds, n : 0 .. Pages, used : SUBSET Nat]
  BY DEF PageInv
<1>5. t \in [Page -> [is : Kinds, n : 0 .. Pages, used : SUBSET Nat]]
  BY <1>2, <1>3, <1>4, Constructors
<1>6. t[p] = StartPage(n)
  BY <1>1, <1>3
<1>7. \A q \in Page : t[q].n = IF q = p THEN n
                               ELSE IF q \in p + 1 .. p + n - 1 THEN 0
                               ELSE IF q = p + n /\ page[p].n > n THEN page[p].n - n
                               ELSE page[q].n
  BY <1>2, <1>3, Constructors
<1>8. /\ \A q \in p + 1 .. p + n - 1 : q \notin First
      /\ page[p].n > n => p + n \notin First /\ p + n \in Page
                          /\ p + n \notin p + 1 .. p + n - 1 /\ p + n # p
  <2>1. \A q \in p + 1 .. p + page[p].n - 1 : q \in Page /\ q \notin First
    BY <1>1, Interior
  <2>2. \A q \in p + 1 .. p + n - 1 : q \in p + 1 .. p + page[p].n - 1
    BY <1>1
  <2>3. page[p].n > n => p + n \in p + 1 .. p + page[p].n - 1
                         /\ p + n \notin p + 1 .. p + n - 1 /\ p + n # p
    BY <1>1
  <2>4. QED
    BY <2>1, <2>2, <2>3
<1>9. page[p].n > n => t[p + n].is = "free"
  BY <1>2, <1>3, <1>8, Constructors
<1>10. ASSUME NEW q \in Page \ {p}
       PROVE  \/ t[q] = page[q]
              \/ q \notin First /\ t[q].is = "busy"
              \/ q \notin First /\ t[q].is = "free" /\ page[p].n > n /\ q = p + n
  BY <1>2, <1>3, <1>8, <1>9, Constructors
<1>11. QED
  BY <1>1, <1>2, <1>5, <1>6, <1>7, <1>8, <1>9, <1>10 DEF t

LEMMA AllocPagesInv ==
  ASSUME Inv, NEW n \in 1 .. Pages, AllocPages(n)
  PROVE  Inv'
<1> DEFINE p == FirstFit(n)
           l == BlockTaken(Links, p, n)
           rest == IF page[p].n > n THEN {p + n} ELSE {}
<1>0. PageInv /\ BlockInv /\ LinkInv /\ HeldInv
  BY DEF Inv
<1>1. /\ p # Free /\ page' = PagesTaken(p, n) /\ SetLinks(l)
      /\ live' = live \cup {WholePages(p, n)}
  BY DEF AllocPages
<1>2. p \in FreeBlocks /\ page[p].n >= n
  <2>1. IsList(Links, Free, FreeBlocks)
    BY <1>0, MembersOf DEF LinkInv, Lists
  <2>2. QED
    BY <1>1, <2>1, FirstFitFound
<1> HIDE DEF p
<1>3. p \in Page /\ p \in First /\ page[p].n \in Nat /\ Pages \in Nat /\ n \in Nat
      /\ page[p].is = "free" /\ n > 0
  BY <1>0, <1>2, PagesAssumption DEF PageInv, FreeBlocks, First
<1>4. n \in 1 .. page[p].n
  BY <1>2, <1>3
<1>5. /\ page' \in [Page -> [is : Kinds, n : 0 .. Pages, used : SUBSET Nat]]
      /\ page'[p] = StartPage(n) /\ n \in 0 .. Pages
      /\ \A q \in Page :
           page'[q].n = IF q = p THEN n
                        ELSE IF q \in p + 1 .. p + n - 1 THEN 0
                        ELSE IF q = p + n /\ page[p].n > n THEN page[p].n - n
                        ELSE page[q].n
      /\ \A q \in Page \ {p} :
           \/ page'[q] = page[q]
           \/ q \notin First /\ page'[q].is = "busy"
           \/ q \notin First /\ page'[q].is = "free" /\ page[p].n > n /\ q = p + n
      /\ page[p].n > n => p + n \in Page /\ p + n \notin First /\ page'[p + n].is = "free"
  BY <1>0, <1>1, <1>2, <1>4, TakenPages
<1>6. /\ Lists(l, [Members EXCEPT ![Free] = (@ \ {p}) \cup rest])
      /\ \A r \in p .. p + n - 1 : l.next[r] = Null
      /\ \A r \in Page \ (FreeBlocks \cup rest) : next[r] = Null => l.next[r] = Null
  BY <1>0, <1>2, <1>4, TakenLists
<1> HIDE DEF l
<1>7. Links' = l /\ next' = l.next
  BY <1>1, <1>6, LinksSet DEF Lists, SetLinks
<1>8. PageInv'
  BY <1>5 DEF PageInv
<1>9. /\ \A q \in Page : q + page'[q].n <= Pages
      /\ \A q \in Page : \E o \in First' : q \in o .. o + page'[o].n - 1
      /\ \A q, o \in First' : q < o => q + page'[q].n <= o
      /\ First' = First \cup rest
  BY <1>0, <1>3, <1>4, <1>5, CutBlocks
<1>10. page'[p].is = "start" /\ page'[p].n = n
  BY <1>5, Constructors
<1>11. \A q \in Page \ {p} : q \notin First =>
         page[q].n = 0 /\ page[q].is \notin Slot /\ page[q].is # "start"
  BY <1>0, InFirst
<1>12. BlockInv'
  <2>1. ASSUME NEW q \in Page
        PROVE  /\ page'[q].is = "start" => page'[q].n > 0
               /\ page'[q].is \in Slot => page'[q].n = 1
               /\ page'[q].is = "busy" => page'[q].n = 0
    <3>1. CASE q = p
      BY <1>3, <1>10, <3>1, SlotAssumption
    <3>2. CASE q # p /\ page'[q] = page[q]
      BY <1>0, <3>2 DEF BlockInv
    <3>3. CASE q # p /\ q \notin First /\ page'[q].is = "busy"
      <4>1. page[q].n = 0 /\ ~(q = p + n /\ page[p].n > n)
        BY <1>5, <1>11, <3>3
      <4>2. page'[q].n = 0
        BY <1>5, <3>3, <4>1
      <4>3. QED
        BY <3>3, <4>2, SlotAssumption
    <3>4. CASE q # p /\ page'[q].is = "free"
      BY <3>4, SlotAssumption
    <3>5. QED
      BY <1>5, <3>1, <3>2, <3>3, <3>4
  <2>2. QED
    BY <1>9, <2>1 DEF BlockInv
<1>13. Members' = [Members EXCEPT ![Free] = (@ \ {p}) \cup rest]
  <2>1. FreeBlocks' = (FreeBlocks \ {p}) \cup rest
    <3>1. ASSUME NEW q \in FreeBlocks', q \notin rest PROVE q \in FreeBlocks \ {p}
      BY <1>5, <1>9, <1>10, <3>1 DEF FreeBlocks, First
    <3>2. ASSUME NEW q \in FreeBlocks \ {p} PROVE q \in FreeBlocks'
      BY <1>5, <1>9 DEF FreeBlocks, First
    <3>3. ASSUME NEW q \in rest PROVE q \in FreeBlocks'
      BY <1>5, <1>9 DEF FreeBlocks
    <3>4. p \notin FreeBlocks'
      BY <1>10 DEF FreeBlocks
    <3>5. p \notin rest
      BY <1>3, <1>5
    <3>6. QED
      BY <3>1, <3>2, <3>3, <3>4, <3>5
  <2>2. ASSUME NEW s \in Slot PROVE Room(s)' = Room(s)
    <3>1. ASSUME NEW q \in Page
          PROVE  HasRoom(q, s)' <=> HasRoom(q, s)
      <4>1. CASE q = p
        BY <1>3, <1>10, <4>1, SlotAssumption DEF HasRoom
      <4>2. CASE q # p /\ page'[q] = page[q]
        BY <4>2 DEF HasRoom
      <4>3. CASE q # p /\ q \notin First /\ page'[q].is \in {"busy", "free"}
        BY <1>11, <4>3, SlotAssumption DEF HasRoom
      <4>4. QED
        BY <1>5, <4>1, <4>2, <4>3
    <3>2. QED
      BY <3>1 DEF Room
  <2>3. QED
    BY <2>1, <2>2, MembersOf DEF Members, Heads
<1>14. LinkInv'
  <2>1. Lists(Links, Members)'
    BY <1>6, <1>7, <1>13 DEF Lists
  <2>2. ASSUME NEW q \in Page, page'[q].is = "start" \/ Full(q)'
        PROVE  next'[q] = Null
    <3>1. CASE q = p
      <4>1. p \in p .. p + n - 1
        BY <1>3 DEF Page
      <4>2. QED
        BY <1>6, <1>7, <3>1, <4>1
    <3>2. CASE q # p /\ page'[q] = page[q]
      <4>1. page[q].is = "start" \/ Full(q)
        BY <2>2, <3>2 DEF Full, HasRoom
      <4>2. next[q] = Null /\ page[q].is # "free"
        BY <1>0, <4>1, SlotAssumption DEF LinkInv, Full
      <4>3. q \notin FreeBlocks /\ q \notin rest
        BY <1>5, <3>2, <4>2 DEF FreeBlocks
      <4>4. QED
        BY <1>6, <1>7, <4>2, <4>3
    <3>3. CASE q # p /\ page'[q].is \in {"busy", "free"}
      BY <2>2, <3>3, SlotAssumption DEF Full
    <3>4. QED
      BY <1>5, <3>1, <3>2, <3>3
  <2>3. QED
    BY <2>1, <2>2 DEF LinkInv
<1>15. HeldInv'
  <2>1. live' \subseteq [is : {"pages"} \cup Slot, first : Page, n : Nat]
    BY <1>0, <1>1, <1>3 DEF HeldInv, WholePages
  <2>2. ASSUME NEW q \in Page, NEW k \in Nat
        PROVE  WholePages(q, k) \in live' <=> page'[q].is = "start" /\ page'[q].n = k
    <3>1. WholePages(q, k) \in live' <=> WholePages(q, k) \in live \/ (q = p /\ n = k)
      BY <1>1, CallersMemory
    <3>2. WholePages(q, k) \in live <=> page[q].is = "start" /\ page[q].n = k
      BY <1>0 DEF HeldInv
    <3>3. CASE q = p
      BY <1>3, <1>10, <3>1, <3>2, <3>3
    <3>4. CASE q # p /\ page'[q] = page[q]
      BY <3>1, <3>2, <3>4
    <3>5. CASE q # p /\ q \notin First /\ page'[q].is \in {"busy", "free"}
      BY <1>11, <3>1, <3>2, <3>5
    <3>6. QED
      BY <1>5, <3>3, <3>4, <3>5
  <2>3. ASSUME NEW q \in Page, NEW s \in Slot
        PROVE  page'[q].is = s => page'[q] = page[q]
    BY <1>5, <1>10, SlotAssumption
  <2>7. ASSUME NEW q \in Page, NEW s \in Slot
         PROVE  page[q].is = s => page'[q] = page[q]
    BY <1>3, <1>5, <1>11, SlotAssumption
  <2>4. ASSUME NEW q \in Page, NEW s \in Slot, NEW i \in Nat
        PROVE  Chunk(q, s, i) \in live' <=>
                 page'[q].is = s /\ i \in page'[q].used /\ i >= Reserved[s]
    <3>1. Chunk(q, s, i) \in live' <=> Chunk(q, s, i) \in live
      BY <1>1, CallersMemory
    <3>2. Chunk(q, s, i) \in live <=>
            page[q].is = s /\ i \in page[q].used /\ i >= Reserved[s]
      BY <1>0 DEF HeldInv
    <3>3. QED
      BY <2>3, <2>7, <3>1, <3>2
  <2>5. ASSUME NEW q \in Page, page'[q].is \in Slot
        PROVE  /\ page'[q].used \subseteq 0 .. Chunks[page'[q].is] - 1
               /\ 0 .. Reserved[page'[q].is] - 1 \subseteq page'[q].used
               /\ page'[q].used # 0 .. Reserved[page'[q].is] - 1
    <3>1. page'[q] = page[q]
      BY <2>3, <2>5
    <3>2. QED
      BY <1>0, <2>5, <3>1 DEF HeldInv
  <2>6. QED
    BY <2>1, <2>2, <2>4, <2>5 DEF HeldInv
<1>16. QED
  BY <1>8, <1>12, <1>14, <1>15 DEF Inv

(* A page is cut for a slot whose list is empty, and becomes its first.    *)
LEMMA AllocFirstChunkInv ==
  ASSUME Inv, NEW s \in Slot, AllocFirstChunk(s)
  PROVE  Inv'
<1> DEFINE p == FirstFit(1)
           l == BlockTaken(Links, p, 1)
           rest == IF page[p].n > 1 THEN {p + 1} ELSE {}
           F == [Members EXCEPT ![Free] = (@ \ {p}) \cup rest]
           G == [F EXCEPT ![s] = @ \cup {p}]
           R == Reserved[s]
<1>0. PageInv /\ BlockInv /\ LinkInv /\ HeldInv
  BY DEF Inv
<1>r. R \in Nat /\ Chunks[s] \in Nat /\ R + 1 < Chunks[s] /\ s \in Heads /\ s # Free
      /\ 0 .. R \in SUBSET Nat
  BY SlotAssumption, MembersOf
<1>1. /\ p # Free /\ next[s] = s
      /\ page' = [PagesTaken(p, 1) EXCEPT ![p] = CutPage(s, 0 .. R)]
      /\ next' = [l.next EXCEPT ![p] = s, ![s] = p]
      /\ prev' = [l.prev EXCEPT ![p] = s]
      /\ live' = live \cup {Chunk(p, s, R)}
  BY DEF AllocFirstChunk
<1>2. p \in FreeBlocks /\ page[p].n >= 1
  <2>1. IsList(Links, Free, FreeBlocks)
    BY <1>0, MembersOf DEF LinkInv, Lists
  <2>2. QED
    BY <1>1, <2>1, FirstFitFound
<1> HIDE DEF p, R
<1>3. p \in Page /\ p \in First /\ page[p].n \in Nat /\ Pages \in Nat
      /\ page[p].is = "free" /\ p \in Nat
  BY <1>0, <1>2, PagesAssumption DEF PageInv, FreeBlocks, First, Page
<1>4. 1 \in 1 .. page[p].n
  BY <1>2, <1>3
<1> DEFINE t == PagesTaken(p, 1)
<1>t. /\ t \in [Page -> [is : Kinds, n : 0 .. Pages, used : SUBSET Nat]]
      /\ t[p] = StartPage(1) /\ 1 \in 0 .. Pages
      /\ \A q \in Page :
           t[q].n = IF q = p THEN 1
                    ELSE IF q \in p + 1 .. p + 1 - 1 THEN 0
                    ELSE IF q = p + 1 /\ page[p].n > 1 THEN page[p].n - 1
                    ELSE page[q].n
      /\ \A q \in Page \ {p} :
           \/ t[q] = page[q]
           \/ q \notin First /\ t[q].is = "busy"
           \/ q \notin First /\ t[q].is = "free" /\ page[p].n > 1 /\ q = p + 1
      /\ page[p].n > 1 => p + 1 \in Page /\ p + 1 \notin First /\ t[p + 1].is = "free"
  BY <1>0, <1>2, <1>4, TakenPages
<1> HIDE DEF t
<1>c. /\ CutPage(s, 0 .. R).is = s /\ CutPage(s, 0 .. R).n = 1
      /\ CutPage(s, 0 .. R).used = 0 .. R
      /\ CutPage(s, 0 .. R) \in [is : Kinds, n : 0 .. Pages, used : SUBSET Nat]
  BY <1>r, Constructors
<1>5. /\ page' \in [Page -> [is : Kinds, n : 0 .. Pages, used : SUBSET Nat]]
      /\ page'[p].is = s /\ page'[p].n = 1 /\ page'[p].used = 0 .. R
      /\ \A q \in Page \ {p} : page'[q] = t[q]
  <2>1. page' = [t EXCEPT ![p] = CutPage(s, 0 .. R)]
    BY <1>1 DEF t
  <2>2. page'[p] = CutPage(s, 0 .. R) /\ \A q \in Page \ {p} : page'[q] = t[q]
    BY <1>3, <1>t, <2>1
  <2>3. page' \in [Page -> [is : Kinds, n : 0 .. Pages, used : SUBSET Nat]]
    BY <1>t, <1>c, <2>1
  <2>4. QED
    BY <1>c, <2>2, <2>3
<1>6. /\ \A q \in Page :
           page'[q].n = IF q = p THEN 1
                        ELSE IF q \in p + 1 .. p + 1 - 1 THEN 0
                        ELSE IF q = p + 1 /\ page[p].n > 1 THEN page[p].n - 1
                        ELSE page[q].n
      /\ \A q \in Page \ {p} :
           \/ page'[q] = page[q]
           \/ q \notin First /\ page'[q].is = "busy"
           \/ q \notin First /\ page'[q].is = "free" /\ page[p].n > 1 /\ q = p + 1
      /\ page[p].n > 1 => p + 1 \in Page /\ p + 1 \notin First /\ page'[p + 1].is = "free"
  <2>1. page[p].n > 1 => p + 1 \in Page \ {p}
    BY <1>3, <1>t
  <2>2. \A q \in Page : page'[q].n = t[q].n
    <3>1. t[p].n = 1
      BY <1>3, <1>t
    <3>2. QED
      BY <1>5, <3>1
  <2>3. QED
    BY <1>t, <1>5, <2>1, <2>2
<1>7. /\ Lists(l, F)
      /\ \A r \in p .. p + 1 - 1 : l.next[r] = Null
      /\ \A r \in Page \ (FreeBlocks \cup rest) : next[r] = Null => l.next[r] = Null
  BY <1>0, <1>2, <1>4, TakenLists
<1> HIDE DEF l
<1>8. /\ Members \in [Heads -> SUBSET Page] /\ F \in [Heads -> SUBSET Page]
      /\ F[Free] = (FreeBlocks \ {p}) \cup rest
      /\ \A h \in Heads \ {Free} : F[h] = Members[h]
  BY <1>0, <1>7, MembersOf DEF LinkInv, Lists
<1>9. Room(s) = {}
  <2>1. IsList(Links, s, Room(s))
    BY <1>0, <1>r, MembersOf DEF LinkInv, Lists
  <2>2. QED
    BY <1>1, <1>r, <2>1, ListNodes DEF Links
<1>10. \A h \in Heads : p \notin F[h]
  <2>1. \A h \in Heads \ {Free} : p \notin Members[h]
    BY <1>3, SlotAssumption, MembersOf DEF Members, Heads, Room, HasRoom
  <2>2. p \notin rest
    BY <1>3
  <2>3. QED
    BY <1>8, <2>1, <2>2
<1>11. F[s] = {}
  BY <1>8, <1>9, <1>r, MembersOf
<1> HIDE DEF F, rest
<1>12. l.next[s] = s
  <2>1. IsList(l, s, {})
    BY <1>7, <1>11, <1>r DEF Lists
  <2>2. QED
    BY <1>r, <2>1, ListNodes
<1>13. Lists(Pushed(l, s, p), G) /\ KeepsLinks(l, Pushed(l, s, p), F[s] \cup {p})
  BY <1>3, <1>7, <1>10, <1>r, AllPushed
<1> HIDE DEF G
<1>14. /\ Links' \in LinkTable /\ next' = Pushed(l, s, p).next
       /\ \A r \in Page : prev'[r] = Pushed(l, s, p).prev[r]
  <2>1. l.next \in [Node -> Node \cup {Null}] /\ l.prev \in [Node -> Node \cup {Null}]
    BY <1>7 DEF Lists, LinkTable
  <2>2. p \in Node /\ s \in Node /\ s \notin Page
    BY <1>3, <1>r, HeadIsNoPage DEF Node
  <2>3. next' \in [Node -> Node \cup {Null}] /\ prev' \in [Node -> Node \cup {Null}]
    BY <1>1, <2>1, <2>2
  <2>4. /\ Pushed(l, s, p).next = [l.next EXCEPT ![p] = s, ![s] = p]
        /\ Pushed(l, s, p).prev = [l.prev EXCEPT ![p] = s, ![s] = p]
    BY <1>12 DEF Pushed
  <2>5. \A r \in Page : prev'[r] = Pushed(l, s, p).prev[r]
    BY <1>1, <2>1, <2>2, <2>4 DEF Node
  <2>6. QED
    BY <1>1, <2>3, <2>4, <2>5 DEF Links, LinkTable
<1>15. Lists(Links', G)
  <2>1. Links'.next = Pushed(l, s, p).next /\ Links'.prev = prev'
    BY <1>14 DEF Links
  <2>2. QED
    BY <1>13, <1>14, <2>1, AllSame
<1>16. PageInv'
  BY <1>5 DEF PageInv
<1>17. /\ \A q \in Page : q + page'[q].n <= Pages
       /\ \A q \in Page : \E o \in First' : q \in o .. o + page'[o].n - 1
       /\ \A q, o \in First' : q < o => q + page'[q].n <= o
       /\ First' = First \cup rest
  BY <1>0, <1>3, <1>4, <1>6, CutBlocks DEF rest
<1>18. \A q \in Page \ {p} : q \notin First =>
         page[q].n = 0 /\ page[q].is \notin Slot /\ page[q].is # "start"
  BY <1>0, InFirst
<1>19. BlockInv'
  <2>1. ASSUME NEW q \in Page
        PROVE  /\ page'[q].is = "start" => page'[q].n > 0
               /\ page'[q].is \in Slot => page'[q].n = 1
               /\ page'[q].is = "busy" => page'[q].n = 0
    <3>1. CASE q = p
      BY <1>5, <3>1, SlotAssumption
    <3>2. CASE q # p /\ page'[q] = page[q]
      BY <1>0, <3>2 DEF BlockInv
    <3>3. CASE q # p /\ q \notin First /\ page'[q].is = "busy"
      <4>1. page[q].n = 0 /\ ~(q = p + 1 /\ page[p].n > 1)
        BY <1>6, <1>18, <3>3
      <4>2. page'[q].n = 0
        BY <1>6, <3>3, <4>1
      <4>3. QED
        BY <3>3, <4>2, SlotAssumption
    <3>4. CASE q # p /\ page'[q].is = "free"
      BY <3>4, SlotAssumption
    <3>5. QED
      BY <1>6, <3>1, <3>2, <3>3, <3>4
  <2>2. QED
    BY <1>17, <2>1 DEF BlockInv
<1>20. \A q \in Page \ {p} : \A x \in Slot : HasRoom(q, x)' <=> HasRoom(q, x)
  <2> SUFFICES ASSUME NEW q \in Page \ {p}, NEW x \in Slot
               PROVE  HasRoom(q, x)' <=> HasRoom(q, x)
    OBVIOUS
  <2>1. CASE page'[q] = page[q]
    BY <2>1 DEF HasRoom
  <2>2. CASE q \notin First /\ page'[q].is \in {"busy", "free"}
    BY <1>18, <2>2, SlotAssumption DEF HasRoom
  <2>3. QED
    BY <1>6, <2>1, <2>2
<1>21. ASSUME NEW q \in Page, q = p
       PROVE  HasRoom(q, s)' /\ \A x \in Slot \ {s} : ~HasRoom(q, x)' /\ ~HasRoom(q, x)
  <2>1. R + 1 \in 0 .. Chunks[s] - 1 /\ R + 1 \notin 0 .. R
    BY <1>r
  <2>2. 0 .. R # 0 .. Chunks[s] - 1
    BY <2>1
  <2>3. HasRoom(q, s)'
    BY <1>5, <1>21, <2>2 DEF HasRoom
  <2>4. ASSUME NEW x \in Slot \ {s} PROVE ~HasRoom(q, x)' /\ ~HasRoom(q, x)
    BY <1>3, <1>5, <1>21, SlotAssumption DEF HasRoom
  <2>5. QED
    BY <2>3, <2>4
<1>22. Members' = G
  <2>1. FreeBlocks' = (FreeBlocks \ {p}) \cup rest
    <3>1. ASSUME NEW q \in FreeBlocks', q \notin rest PROVE q \in FreeBlocks \ {p}
      BY <1>5, <1>6, <1>17, <3>1, SlotAssumption DEF FreeBlocks, First, rest
    <3>2. ASSUME NEW q \in FreeBlocks \ {p} PROVE q \in FreeBlocks'
      BY <1>6, <1>17 DEF FreeBlocks, First
    <3>3. ASSUME NEW q \in rest PROVE q \in FreeBlocks'
      BY <1>6, <1>17 DEF FreeBlocks, rest
    <3>4. p \notin FreeBlocks'
      BY <1>5, SlotAssumption DEF FreeBlocks
    <3>5. p \notin rest
      BY <1>3 DEF rest
    <3>6. QED
      BY <3>1, <3>2, <3>3, <3>4, <3>5
  <2>2. Room(s)' = {p}
    <3>1. \A q \in Page : HasRoom(q, s)' <=> q = p
      BY <1>9, <1>20, <1>21 DEF Room
    <3>2. QED
      BY <1>3, <3>1 DEF Room
  <2>3. ASSUME NEW x \in Slot \ {s} PROVE Room(x)' = Room(x)
    <3>1. \A q \in Page : HasRoom(q, x)' <=> HasRoom(q, x)
      BY <1>20, <1>21
    <3>2. QED
      BY <3>1 DEF Room
  <2>4. G \in [Heads -> SUBSET Page] /\ G[s] = {p} /\ \A h \in Heads \ {s} : G[h] = F[h]
    BY <1>3, <1>8, <1>11, <1>r DEF G
  <2>5. \A h \in Heads : Members'[h] = G[h]
    BY <1>8, <1>r, <2>1, <2>2, <2>3, <2>4, MembersOf DEF Members, Heads
  <2>6. Members' = [h \in Heads |-> Members'[h]]
    BY DEF Members
  <2>7. G = [h \in Heads |-> G[h]]
    BY <2>4
  <2>8. QED
    BY <2>5, <2>6, <2>7
<1>23. LinkInv'
  <2>1. Lists(Links, Members)'
    BY <1>15, <1>22 DEF Lists
  <2>2. ASSUME NEW q \in Page, page'[q].is = "start" \/ Full(q)'
        PROVE  next'[q] = Null
    <3>1. q # p
      <4>1. SUFFICES ASSUME q = p PROVE FALSE
        OBVIOUS
      <4>2. page'[q].is = s /\ HasRoom(q, s)' /\ s # "start"
        BY <1>5, <1>21, <4>1, SlotAssumption
      <4>3. QED
        BY <2>2, <4>2 DEF Full
    <3>2. CASE page'[q] = page[q]
      <4>1. page[q].is = "start" \/ Full(q)
        BY <2>2, <3>2 DEF Full, HasRoom
      <4>2. next[q] = Null /\ page[q].is # "free"
        BY <1>0, <4>1, SlotAssumption DEF LinkInv, Full
      <4>3. q \notin FreeBlocks /\ q \notin rest
        BY <1>6, <3>2, <4>2 DEF FreeBlocks, rest
      <4>4. l.next[q] = Null
        BY <1>7, <4>2, <4>3
      <4>5. QED
        BY <1>11, <1>13, <1>14, <3>1, <4>4 DEF KeepsLinks
    <3>3. CASE page'[q].is \in {"busy", "free"}
      BY <2>2, <3>3, SlotAssumption DEF Full
    <3>4. QED
      BY <1>6, <3>1, <3>2, <3>3
  <2>3. QED
    BY <2>1, <2>2 DEF LinkInv
<1>24. HeldInv'
  <2>1. live' \subseteq [is : {"pages"} \cup Slot, first : Page, n : Nat]
    BY <1>0, <1>1, <1>3, <1>r DEF HeldInv, Chunk
  <2>2. ASSUME NEW q \in Page, NEW k \in Nat
        PROVE  WholePages(q, k) \in live' <=> page'[q].is = "start" /\ page'[q].n = k
    <3>1. WholePages(q, k) \in live' <=> WholePages(q, k) \in live
      BY <1>1, CallersMemory
    <3>2. WholePages(q, k) \in live <=> page[q].is = "start" /\ page[q].n = k
      BY <1>0 DEF HeldInv
    <3>3. CASE q = p
      BY <1>3, <1>5, <3>1, <3>2, <3>3, SlotAssumption
    <3>4. CASE q # p /\ page'[q] = page[q]
      BY <3>1, <3>2, <3>4
    <3>5. CASE q # p /\ q \notin First /\ page'[q].is \in {"busy", "free"}
      BY <1>18, <3>1, <3>2, <3>5
    <3>6. QED
      BY <1>6, <3>3, <3>4, <3>5
  <2>3. ASSUME NEW q \in Page \ {p}, NEW x \in Slot
        PROVE  page'[q].is = x \/ page[q].is = x => page'[q] = page[q]
    BY <1>6, <1>18, SlotAssumption
  <2>4. ASSUME NEW q \in Page, NEW x \in Slot, NEW i \in Nat
        PROVE  Chunk(q, x, i) \in live' <=>
                 page'[q].is = x /\ i \in page'[q].used /\ i >= Reserved[x]
    <3>1. Chunk(q, x, i) \in live' <=>
            Chunk(q, x, i) \in live \/ (q = p /\ x = s /\ i = R)
      BY <1>1, CallersMemory
    <3>2. Chunk(q, x, i) \in live <=>
            page[q].is = x /\ i \in page[q].used /\ i >= Reserved[x]
      BY <1>0 DEF HeldInv
    <3>3. CASE q # p
      BY <2>3, <3>1, <3>2, <3>3
    <3>4. CASE q = p
      <4>1. i \in 0 .. R /\ i >= R <=> i = R
        BY <1>r
      <4>2. ~(page[q].is = x)
        BY <1>3, <3>4, SlotAssumption
      <4>3. QED
        BY <1>5, <3>1, <3>2, <3>4, <4>1, <4>2 DEF R
    <3>5. QED
      BY <3>3, <3>4
  <2>5. ASSUME NEW q \in Page, page'[q].is \in Slot
        PROVE  /\ page'[q].used \subseteq 0 .. Chunks[page'[q].is] - 1
               /\ 0 .. Reserved[page'[q].is] - 1 \subseteq page'[q].used
               /\ page'[q].used # 0 .. Reserved[page'[q].is] - 1
    <3>1. CASE q # p
      <4>1. page'[q] = page[q]
        BY <2>3, <2>5, <3>1
      <4>2. QED
        BY <1>0, <2>5, <4>1 DEF HeldInv
    <3>2. CASE q = p
      <4>1. /\ 0 .. R \subseteq 0 .. Chunks[s] - 1 /\ 0 .. R - 1 \subseteq 0 .. R
            /\ R \in 0 .. R /\ R \notin 0 .. R - 1
        BY <1>r
      <4>2. QED
        BY <1>5, <3>2, <4>1 DEF R
    <3>3. QED
      BY <3>1, <3>2
  <2>6. QED
    BY <2>1, <2>2, <2>4, <2>5 DEF HeldInv
<1>25. QED
  BY <1>16, <1>19, <1>23, <1>24 DEF Inv

(* Only which chunks of page p are in use changes. *)
PageUse(p, u) ==
  /\ page' \in [Page -> [is : Kinds, n : 0 .. Pages, used : SUBSET Nat]]
  /\ page'[p].is = page[p].is /\ page'[p].n = page[p].n /\ page'[p].used = u
  /\ \A q \in Page \ {p} : page'[q] = page[q]

LEMMA PageUseSet ==
  ASSUME PageInv, NEW p \in Page, NEW u \in SUBSET Nat, page' = [page EXCEPT ![p].used = u]
  PROVE  PageUse(p, u)
BY DEF PageInv, PageUse

LEMMA UseChanged ==
  ASSUME PageInv, BlockInv, NEW s \in Slot, NEW p \in Page, page[p].is = s,
         NEW u \in SUBSET Nat, PageUse(p, u)
  PROVE  /\ PageInv' /\ BlockInv'
         /\ page'[p].is = s /\ page'[p].n = 1 /\ page'[p].used = u
         /\ \A q \in Page \ {p} : page'[q] = page[q]
         /\ Members' = [Members EXCEPT ![s] =
                          IF u = 0 .. Chunks[s] - 1 THEN @ \ {p} ELSE @ \cup {p}]
<1>2. page \in [Page -> [is : Kinds, n : 0 .. Pages, used : SUBSET Nat]] /\ page[p].n = 1
  BY DEF PageInv, BlockInv
<1>3. /\ page'[p].is = s /\ page'[p].n = 1 /\ page'[p].used = u
      /\ \A q \in Page \ {p} : page'[q] = page[q]
      /\ page' \in [Page -> [is : Kinds, n : 0 .. Pages, used : SUBSET Nat]]
  BY <1>2 DEF PageUse
<1>4. \A q \in Page : page'[q].n = page[q].n /\ page'[q].is = page[q].is
  BY <1>2, <1>3
<1>5. BlockInv'
  <2>1. \A q \in Page : /\ page'[q].is = "start" => page'[q].n > 0
                        /\ page'[q].is \in Slot => page'[q].n = 1
                        /\ page'[q].is = "busy" => page'[q].n = 0
    BY <1>4 DEF BlockInv
  <2>2. QED
    BY <1>4, <2>1, SameBlocks DEF BlockInv
<1>6. Members' = [Members EXCEPT ![s] =
                    IF u = 0 .. Chunks[s] - 1 THEN @ \ {p} ELSE @ \cup {p}]
  <2>1. FreeBlocks' = FreeBlocks
    BY <1>4 DEF FreeBlocks, First
  <2>2. ASSUME NEW x \in Slot \ {s} PROVE Room(x)' = Room(x)
    <3>1. \A q \in Page : HasRoom(q, x)' <=> HasRoom(q, x)
      BY <1>3 DEF HasRoom
    <3>2. QED
      BY <3>1 DEF Room
  <2>3. Room(s)' = IF u = 0 .. Chunks[s] - 1 THEN Room(s) \ {p} ELSE Room(s) \cup {p}
    <3>1. \A q \in Page \ {p} : HasRoom(q, s)' <=> HasRoom(q, s)
      BY <1>3 DEF HasRoom
    <3>2. HasRoom(p, s)' <=> u # 0 .. Chunks[s] - 1
      BY <1>3 DEF HasRoom
    <3>3. QED
      BY <3>1, <3>2 DEF Room
  <2>4. QED
    BY <2>1, <2>2, <2>3, MembersOf, SlotAssumption DEF Members, Heads
<1>7. QED
  BY <1>3, <1>5, <1>6 DEF PageInv

(* A chunk comes from the first page of the slot's list, which leaves the  *)
(* list if it is full now.                                                 *)
LEMMA AllocChunkInv ==
  ASSUME Inv, NEW s \in Slot, AllocChunk(s)
  PROVE  Inv'
<1>0. PageInv /\ BlockInv /\ LinkInv /\ HeldInv
  BY DEF Inv
<1>1. s \in Heads /\ Members[s] = Room(s) /\ Lists(Links, Members)
  BY <1>0, MembersOf DEF LinkInv
<1>2. PICK p \in Room(s) : p = next[s]
  <2>1. IsList(Links, s, Room(s)) /\ Links.next = next
    BY <1>1 DEF Lists, Links
  <2>2. QED
    BY <1>1, <2>1, ListNodes DEF AllocChunk
<1>3. p \in Page /\ page[p].is = s /\ page[p].used # 0 .. Chunks[s] - 1
  BY DEF Room, HasRoom
<1>4. PICK i \in 0 .. Chunks[s] - 1 : i = FirstFree(p) /\ i \notin page[p].used
  BY <1>0, FirstFreeFound
<1>5. PICK u : u = page[p].used \cup {i}
  OBVIOUS
<1>6. /\ page' = [page EXCEPT ![p].used = u]
      /\ SetLinks(IF u = 0 .. Chunks[s] - 1 THEN WithoutLinks(Unlinked(Links, p), {p})
                                            ELSE Links)
      /\ live' = live \cup {Chunk(p, s, i)}
  BY <1>2, <1>4, <1>5 DEF AllocChunk
<1>7. /\ Reserved[s] \in Nat /\ Chunks[s] \in Nat /\ i \in Nat /\ i >= Reserved[s]
      /\ page[p].used \subseteq 0 .. Chunks[s] - 1
      /\ 0 .. Reserved[s] - 1 \subseteq page[p].used
      /\ u \subseteq 0 .. Chunks[s] - 1
  <2>1. /\ page[p].used \subseteq 0 .. Chunks[s] - 1
        /\ 0 .. Reserved[s] - 1 \subseteq page[p].used
    BY <1>0, <1>3 DEF HeldInv
  <2>2. Reserved[s] \in Nat /\ Chunks[s] \in Nat
    BY SlotAssumption
  <2>3. i \in Nat /\ i \notin 0 .. Reserved[s] - 1
    BY <1>4, <2>1, <2>2
  <2>4. QED
    BY <1>5, <2>1, <2>2, <2>3
<1>8. /\ PageInv' /\ BlockInv'
      /\ page'[p].is = s /\ page'[p].n = 1 /\ page'[p].used = u
      /\ \A q \in Page \ {p} : page'[q] = page[q]
      /\ Members' = [Members EXCEPT ![s] =
                       IF u = 0 .. Chunks[s] - 1 THEN @ \ {p} ELSE @ \cup {p}]
  <2>1. u \in SUBSET Nat
    <3>1. \A k \in u : k \in Nat
      BY <1>7
    <3>2. QED
      BY <3>1
  <2>2. PageUse(p, u)
    BY <1>0, <1>3, <1>6, <2>1, PageUseSet
  <2>3. QED
    BY <1>0, <1>3, <2>1, <2>2, UseChanged
<1>f. /\ \A q \in Page \ {p} : Full(q)' <=> Full(q)
      /\ Full(p)' <=> u = 0 .. Chunks[s] - 1
  BY <1>3, <1>8 DEF Full, HasRoom
<1>9. LinkInv'
  <2>1. CASE u = 0 .. Chunks[s] - 1
    <3>1. PICK l : l = Unlinked(Links, p)
      OBVIOUS
    <3>2. PICK F : F = [Members EXCEPT ![s] = @ \ {p}]
      OBVIOUS
    <3>3. Lists(l, F) /\ KeepsLinks(Links, l, Room(s))
      BY <1>1, <3>1, <3>2, AllUnlinked
    <3>4. \A h \in Heads : F[h] \cap {p} = {}
      <4>1. \A h \in Heads \ {s} : p \notin Members[h]
        BY <1>1 DEF Lists
      <4>2. Members \in [Heads -> SUBSET Page]
        BY <1>1 DEF Lists
      <4>3. QED
        BY <1>1, <3>2, <4>1, <4>2
    <3>5. /\ Lists(WithoutLinks(l, {p}), F)
          /\ \A r \in Page : WithoutLinks(l, {p}).next[r] = IF r \in {p} THEN Null ELSE l.next[r]
      BY <1>3, <3>3, <3>4, AllWithoutLinks
    <3>6. Links' = WithoutLinks(l, {p}) /\ next' = WithoutLinks(l, {p}).next
      BY <1>6, <2>1, <3>1, <3>5, LinksSet DEF Lists, SetLinks
    <3>7. Lists(Links, Members)'
      BY <1>8, <2>1, <3>2, <3>5, <3>6 DEF Lists
    <3>8. ASSUME NEW q \in Page, page'[q].is = "start" \/ Full(q)' PROVE next'[q] = Null
      <4>1. CASE q = p
        BY <3>5, <3>6, <4>1
      <4>2. CASE q # p
        <5>1. page[q].is = "start" \/ Full(q)
          BY <1>8, <1>f, <3>8, <4>2
        <5>2. next[q] = Null /\ q \notin Room(s)
          BY <1>0, <5>1, SlotAssumption DEF LinkInv, Full, Room, HasRoom
        <5>3. l.next[q] = Null
          BY <3>3, <5>2 DEF KeepsLinks, Links
        <5>4. QED
          BY <3>5, <3>6, <5>3
      <4>3. QED
        BY <4>1, <4>2
    <3>9. QED
      BY <3>7, <3>8 DEF LinkInv
  <2>2. CASE u # 0 .. Chunks[s] - 1
    <3>1. Links' = Links /\ next' = next
      BY <1>6, <2>2 DEF SetLinks, Links
    <3>2. Members' = Members
      <4>1. Members \in [Heads -> SUBSET Page] /\ Members[s] \cup {p} = Members[s]
        BY <1>1 DEF Lists
      <4>2. QED
        BY <1>8, <2>2, <4>1
    <3>3. Lists(Links, Members)'
      BY <1>1, <3>1, <3>2 DEF Lists
    <3>4. ASSUME NEW q \in Page, page'[q].is = "start" \/ Full(q)' PROVE next'[q] = Null
      <4>1. q # p
        BY <1>8, <1>f, <2>2, <3>4, SlotAssumption
      <4>2. page[q].is = "start" \/ Full(q)
        BY <1>8, <1>f, <3>4, <4>1
      <4>3. QED
        BY <1>0, <3>1, <4>2 DEF LinkInv
    <3>5. QED
      BY <3>3, <3>4 DEF LinkInv
  <2>3. QED
    BY <2>1, <2>2
<1>10. HeldInv'
  <2>1. live' \subseteq [is : {"pages"} \cup Slot, first : Page, n : Nat]
    BY <1>0, <1>3, <1>6, <1>7 DEF HeldInv, Chunk
  <2>2. ASSUME NEW q \in Page, NEW k \in Nat
        PROVE  WholePages(q, k) \in live' <=> page'[q].is = "start" /\ page'[q].n = k
    <3>1. WholePages(q, k) \in live' <=> WholePages(q, k) \in live
      BY <1>6, CallersMemory
    <3>2. WholePages(q, k) \in live <=> page[q].is = "start" /\ page[q].n = k
      BY <1>0 DEF HeldInv
    <3>3. QED
      BY <1>3, <1>8, <3>1, <3>2, SlotAssumption
  <2>3. ASSUME NEW q \in Page, NEW x \in Slot, NEW k \in Nat
        PROVE  Chunk(q, x, k) \in live' <=>
                 page'[q].is = x /\ k \in page'[q].used /\ k >= Reserved[x]
    <3>1. Chunk(q, x, k) \in live' <=>
            Chunk(q, x, k) \in live \/ (q = p /\ x = s /\ k = i)
      BY <1>6, CallersMemory
    <3>2. Chunk(q, x, k) \in live <=>
            page[q].is = x /\ k \in page[q].used /\ k >= Reserved[x]
      BY <1>0 DEF HeldInv
    <3>3. CASE q = p
      BY <1>3, <1>5, <1>7, <1>8, <3>1, <3>2, <3>3
    <3>4. CASE q # p
      BY <1>8, <3>1, <3>2, <3>4
    <3>5. QED
      BY <3>3, <3>4
  <2>4. ASSUME NEW q \in Page, page'[q].is \in Slot
        PROVE  /\ page'[q].used \subseteq 0 .. Chunks[page'[q].is] - 1
               /\ 0 .. Reserved[page'[q].is] - 1 \subseteq page'[q].used
               /\ page'[q].used # 0 .. Reserved[page'[q].is] - 1
    <3>1. CASE q = p
      <4>1. i \in u /\ i \notin 0 .. Reserved[s] - 1
        BY <1>5, <1>7
      <4>2. QED
        BY <1>5, <1>7, <1>8, <3>1, <4>1
    <3>2. CASE q # p
      BY <1>0, <1>8, <2>4, <3>2 DEF HeldInv
    <3>3. QED
      BY <3>1, <3>2
  <2>5. QED
    BY <2>1, <2>2, <2>3, <2>4 DEF HeldInv
<1>11. QED
  BY <1>8, <1>9, <1>10 DEF Inv

(* The page table when the block of page p is freed: the block stays as it *)
(* is, and p is free.                                                      *)
LEMMA FreedPages ==
  ASSUME PageInv, BlockInv, NEW p \in First, NEW n, n = page[p].n,
         page' = PagesFreed(p, n)
  PROVE  /\ PageInv' /\ BlockInv' /\ page'[p].is = "free"
         /\ \A q \in Page : page'[q].n = page[q].n
         /\ \A q \in Page \ {p} : page'[q] = page[q] \/ (q \notin First /\ page'[q].is = "free")
         /\ Members' \in [Heads -> SUBSET Page]
         /\ Members'[Free] = Members[Free] \cup {p}
         /\ \A h \in Heads \ {Free} : Members'[h] = Members[h] \ {p}
<1>1. /\ p \in Page /\ p \in Nat /\ n \in 0 .. Pages /\ n > 0 /\ 0 \in 0 .. Pages
      /\ n \in Nat
  <2>1. p \in Page /\ page[p].n > 0
    BY DEF First
  <2>2. n \in 0 .. Pages
    BY <2>1 DEF PageInv
  <2>3. QED
    BY <2>1, <2>2, PagesAssumption DEF Page
<1>2. page' = [q \in Page |-> IF q = p THEN FreePage(n)
                              ELSE IF q \in p + 1 .. p + n - 1 THEN FreePage(0)
                              ELSE page[q]]
  BY DEF PagesFreed
<1>3. \A q \in p + 1 .. p + n - 1 : q \in Page /\ page[q].n = 0 /\ q \notin First /\ q # p
  BY <1>1, Interior
<1>4. /\ page' \in [Page -> [is : Kinds, n : 0 .. Pages, used : SUBSET Nat]]
      /\ page'[p] = FreePage(n)
  BY <1>1, <1>2, Constructors DEF PageInv
<1>5. \A q \in Page \ {p} : page'[q] = page[q] \/ (q \notin First /\ page'[q] = FreePage(0))
  BY <1>2, <1>3
<1>6. /\ page'[p].is = "free" /\ page'[p].n = n
      /\ FreePage(0).is = "free" /\ FreePage(0).n = 0
  BY <1>1, <1>4, Constructors
<1>7. /\ \A q \in Page : page'[q].n = page[q].n
      /\ \A q \in Page \ {p} : page'[q] = page[q] \/ (q \notin First /\ page'[q].is = "free")
  <2>1. \A q \in Page : q \notin First => page[q].n = 0
    BY InFirst
  <2>2. QED
    BY <1>5, <1>6, <2>1
<1>8. /\ \A q \in Page : q + page'[q].n <= Pages
      /\ \A q \in Page : \E o \in First' : q \in o .. o + page'[o].n - 1
      /\ \A q, o \in First' : q < o => q + page'[q].n <= o
      /\ First' = First
  BY <1>7, SameBlocks
<1>9. BlockInv'
  <2>1. ASSUME NEW q \in Page
        PROVE  /\ page'[q].is = "start" => page'[q].n > 0
               /\ page'[q].is \in Slot => page'[q].n = 1
               /\ page'[q].is = "busy" => page'[q].n = 0
    <3>1. CASE page'[q].is = "free"
      BY <3>1, SlotAssumption
    <3>2. CASE page'[q] = page[q]
      BY <3>2 DEF BlockInv
    <3>3. QED
      BY <1>6, <1>7, <3>1, <3>2
  <2>2. QED
    BY <1>8, <2>1 DEF BlockInv
<1>10. FreeBlocks' = FreeBlocks \cup {p}
  <2>1. \A q \in First \ {p} : page'[q] = page[q]
    BY <1>7 DEF First
  <2>2. QED
    BY <1>6, <1>8, <2>1 DEF FreeBlocks
<1>11. ASSUME NEW x \in Slot PROVE Room(x)' = Room(x) \ {p}
  <2>1. ASSUME NEW q \in Page \ {p} PROVE HasRoom(q, x)' <=> HasRoom(q, x)
    <3>1. CASE page'[q] = page[q]
      BY <3>1 DEF HasRoom
    <3>2. CASE q \notin First /\ page'[q].is = "free"
      <4>1. page[q].is \notin Slot
        BY <3>2, InFirst
      <4>2. QED
        BY <3>2, <4>1, SlotAssumption DEF HasRoom
    <3>3. QED
      BY <1>7, <3>1, <3>2
  <2>2. ~HasRoom(p, x)'
    BY <1>6, SlotAssumption DEF HasRoom
  <2>3. QED
    BY <2>1, <2>2 DEF Room
<1>12. /\ Members' \in [Heads -> SUBSET Page]
       /\ Members'[Free] = Members[Free] \cup {p}
       /\ \A h \in Heads \ {Free} : Members'[h] = Members[h] \ {p}
  <2>1. \A h \in Heads : Members'[h] = IF h = Free THEN FreeBlocks' ELSE Room(h)'
    BY DEF Members
  <2>2. FreeBlocks' \subseteq Page /\ \A h \in Heads : Room(h)' \subseteq Page
    BY DEF FreeBlocks, First, Room
  <2>3. Members' \in [Heads -> SUBSET Page]
    BY <2>2 DEF Members
  <2>4. QED
    BY <1>10, <1>11, <2>1, <2>3, MembersOf DEF Heads
<1>13. QED
  BY <1>4, <1>6, <1>7, <1>9, <1>12 DEF PageInv

(* A freed block becomes the first of the free list. *)
LEMMA FreedLists ==
  ASSUME PageInv, BlockInv, NEW l, NEW F, Lists(l, F), NEW p \in First, NEW n, n = page[p].n,
         \A h \in Heads : p \notin F[h],
         \A h \in Heads : \A q \in Page \ First : q \notin F[h]
  PROVE  LET l2 == Pushed(WithoutLinks(l, p + 1 .. p + n - 1), Free, p)
         IN /\ Lists(l2, [F EXCEPT ![Free] = @ \cup {p}])
            /\ \A r \in Page \ (F[Free] \cup {p}) : l.next[r] = Null => l2.next[r] = Null
<1>1. PICK ps : ps = p + 1 .. p + n - 1
  OBVIOUS
<1>2. p \in Page /\ Free \in Heads /\ \A q \in ps : q \in Page /\ q \notin First
  BY <1>1, Interior, MembersOf DEF First
<1>3. \A h \in Heads : F[h] \cap ps = {}
  BY <1>2
<1>4. ps \in SUBSET Page
  BY <1>2
<1>5. PICK w : w = WithoutLinks(l, ps)
  OBVIOUS
<1>6. /\ Lists(w, F)
      /\ \A r \in Page : w.next[r] = IF r \in ps THEN Null ELSE l.next[r]
  BY <1>3, <1>4, <1>5, AllWithoutLinks
<1>7. /\ Lists(Pushed(w, Free, p), [F EXCEPT ![Free] = @ \cup {p}])
      /\ KeepsLinks(w, Pushed(w, Free, p), F[Free] \cup {p})
  BY <1>2, <1>6, AllPushed
<1>8. \A r \in Page \ (F[Free] \cup {p}) : l.next[r] = Null => Pushed(w, Free, p).next[r] = Null
  BY <1>6, <1>7 DEF KeepsLinks
<1>9. QED
  BY <1>1, <1>5, <1>7, <1>8

LEMMA FreePagesInv ==
  ASSUME Inv, NEW a \in live, FreePages(a)
  PROVE  Inv'
<1>0. PageInv /\ BlockInv /\ LinkInv /\ HeldInv
  BY DEF Inv
<1>1. PICK p \in Page, n \in Nat : p = a.first /\ n = page[p].n /\ a = WholePages(p, n)
  <2>1. a \in [is : {"pages"} \cup Slot, first : Page, n : Nat] /\ a.is = "pages"
    BY <1>0 DEF HeldInv, FreePages
  <2>2. a = [is |-> "pages", first |-> a.first, n |-> a.n] /\ a.first \in Page /\ a.n \in Nat
    BY <2>1
  <2>3. a = WholePages(a.first, a.n)
    BY <2>2 DEF WholePages
  <2>4. page[a.first].n = a.n
    BY <1>0, <2>2, <2>3 DEF HeldInv
  <2>5. QED
    BY <2>2, <2>3, <2>4
<1>2. /\ page[p].is = "start" /\ page' = PagesFreed(p, n)
      /\ SetLinks(BlockFreed(Links, p, n)) /\ live' = live \ {WholePages(p, n)}
  BY <1>1 DEF FreePages
<1>3. p \in First /\ page[p].n > 0 /\ next[p] = Null
  BY <1>0, <1>2 DEF BlockInv, LinkInv, First
<1>4. /\ PageInv' /\ BlockInv' /\ page'[p].is = "free"
      /\ \A q \in Page : page'[q].n = page[q].n
      /\ \A q \in Page \ {p} : page'[q] = page[q] \/ (q \notin First /\ page'[q].is = "free")
      /\ Members' \in [Heads -> SUBSET Page]
      /\ Members'[Free] = Members[Free] \cup {p}
      /\ \A h \in Heads \ {Free} : Members'[h] = Members[h] \ {p}
  BY <1>0, <1>1, <1>2, <1>3, FreedPages
<1>5. /\ Lists(Links, Members) /\ Members \in [Heads -> SUBSET Page]
      /\ \A h \in Heads : p \notin Members[h]
      /\ \A h \in Heads : \A q \in Page \ First : q \notin Members[h]
  <2>1. \A h \in Heads : p \notin Members[h]
    BY <1>2, SlotAssumption DEF Members, Heads, FreeBlocks, Room, HasRoom
  <2>2. QED
    BY <1>0, <2>1, InFirst DEF LinkInv, Lists
<1>6. PICK l : l = Pushed(WithoutLinks(Links, p + 1 .. p + n - 1), Free, p)
  OBVIOUS
<1>7. /\ Lists(l, [Members EXCEPT ![Free] = @ \cup {p}])
      /\ \A r \in Page \ (Members[Free] \cup {p}) : Links.next[r] = Null => l.next[r] = Null
  <2>1. PICK l0, F0 : l0 = Links /\ F0 = Members
    OBVIOUS
  <2>2. /\ Lists(l, [F0 EXCEPT ![Free] = @ \cup {p}])
        /\ \A r \in Page \ (F0[Free] \cup {p}) : l0.next[r] = Null => l.next[r] = Null
    <3>1. /\ l = Pushed(WithoutLinks(l0, p + 1 .. p + n - 1), Free, p) /\ Lists(l0, F0)
          /\ \A h \in Heads : p \notin F0[h]
          /\ \A h \in Heads : \A q \in Page \ First : q \notin F0[h]
          /\ n = page[p].n
      BY <1>1, <1>5, <1>6, <2>1
    <3>2. QED
      BY ONLY <1>0, <1>3, <3>1, FreedLists
  <2>3. QED
    BY <2>1, <2>2
<1>8. Links' = l /\ next' = l.next
  <2>1. BlockFreed(Links, p, n) = l
    BY <1>3, <1>6 DEF BlockFreed, Links
  <2>2. QED
    BY <1>2, <1>7, <2>1, LinksSet DEF Lists, SetLinks
<1>9. Members' = [Members EXCEPT ![Free] = @ \cup {p}]
  <2>1. \A h \in Heads \ {Free} : Members[h] \ {p} = Members[h]
    BY <1>5
  <2>2. QED
    BY <1>4, <1>5, <2>1, MembersOf
<1>10. LinkInv'
  <2>1. Lists(Links, Members)'
    BY <1>7, <1>8, <1>9 DEF Lists
  <2>2. ASSUME NEW q \in Page, page'[q].is = "start" \/ Full(q)' PROVE next'[q] = Null
    <3>1. q # p /\ page'[q] = page[q]
      BY <1>4, <2>2, SlotAssumption DEF Full
    <3>2. page[q].is = "start" \/ Full(q)
      BY <2>2, <3>1 DEF Full, HasRoom
    <3>3. next[q] = Null /\ q \notin Members[Free]
      BY <1>0, <3>2, SlotAssumption, MembersOf DEF LinkInv, Full, FreeBlocks
    <3>4. QED
      BY <1>7, <1>8, <3>1, <3>3 DEF Links
  <2>3. QED
    BY <2>1, <2>2 DEF LinkInv
<1>11. HeldInv'
  <2>1. live' \subseteq [is : {"pages"} \cup Slot, first : Page, n : Nat]
    BY <1>0, <1>2 DEF HeldInv
  <2>2. \A q \in Page : q \notin First => page[q].is \notin Slot /\ page[q].is # "start"
    BY <1>0, InFirst
  <2>3. ASSUME NEW q \in Page, NEW k \in Nat
        PROVE  WholePages(q, k) \in live' <=> page'[q].is = "start" /\ page'[q].n = k
    <3>1. WholePages(q, k) \in live' <=> WholePages(q, k) \in live /\ ~(q = p /\ k = n)
      BY <1>2, CallersMemory
    <3>2. WholePages(q, k) \in live <=> page[q].is = "start" /\ page[q].n = k
      BY <1>0 DEF HeldInv
    <3>3. CASE q = p
      BY <1>1, <1>4, <3>1, <3>2, <3>3
    <3>4. CASE q # p
      BY <1>4, <2>2, <3>1, <3>2, <3>4
    <3>5. QED
      BY <3>3, <3>4
  <2>4. ASSUME NEW q \in Page, NEW x \in Slot
        PROVE  page'[q].is = x \/ page[q].is = x => page'[q] = page[q]
    BY <1>2, <1>4, <2>2, SlotAssumption
  <2>5. ASSUME NEW q \in Page, NEW x \in Slot, NEW k \in Nat
        PROVE  Chunk(q, x, k) \in live' <=>
                 page'[q].is = x /\ k \in page'[q].used /\ k >= Reserved[x]
    <3>1. Chunk(q, x, k) \in live' <=> Chunk(q, x, k) \in live
      BY <1>2, CallersMemory
    <3>2. Chunk(q, x, k) \in live <=>
            page[q].is = x /\ k \in page[q].used /\ k >= Reserved[x]
      BY <1>0 DEF HeldInv
    <3>3. QED
      BY <2>4, <3>1, <3>2
  <2>6. ASSUME NEW q \in Page, page'[q].is \in Slot
        PROVE  /\ page'[q].used \subseteq 0 .. Chunks[page'[q].is] - 1
               /\ 0 .. Reserved[page'[q].is] - 1 \subseteq page'[q].used
               /\ page'[q].used # 0 .. Reserved[page'[q].is] - 1
    <3>1. page'[q] = page[q]
      BY <2>4, <2>6
    <3>2. QED
      BY <1>0, <2>6, <3>1 DEF HeldInv
  <2>7. QED
    BY <2>1, <2>3, <2>5, <2>6 DEF HeldInv
<1>12. QED
  BY <1>4, <1>10, <1>11 DEF Inv

(* A chunk given back: a page that was full is put on the list of its slot *)
(* first, and a page that has nothing left but its bitmap goes to the free *)
(* list.                                                                   *)
LEMMA FreeChunkInv ==
  ASSUME Inv, NEW a \in live, FreeChunk(a)
  PROVE  Inv'
<1>0. PageInv /\ BlockInv /\ LinkInv /\ HeldInv
  BY DEF Inv
<1>1. PICK p \in Page, s \in Slot, i \in Nat :
        p = a.first /\ s = a.is /\ i = a.n /\ a = Chunk(p, s, i)
  <2>1. a \in [is : {"pages"} \cup Slot, first : Page, n : Nat] /\ a.is \in Slot
    BY <1>0 DEF HeldInv, FreeChunk
  <2>2. a = [is |-> a.is, first |-> a.first, n |-> a.n] /\ a.first \in Page /\ a.n \in Nat
    BY <2>1
  <2>3. a = Chunk(a.first, a.is, a.n)
    BY <2>2 DEF Chunk
  <2>4. QED
    BY <2>1, <2>2, <2>3
<1>2. PICK u : u = page[p].used \ {i}
  OBVIOUS
<1>3. PICK back : back = IF next[p] = Null THEN Pushed(Links, s, p) ELSE Links
  OBVIOUS
<1>4. /\ page[p].is = s /\ i \in page[p].used
      /\ IF u = 0 .. Reserved[s] - 1
         THEN page' = PagesFreed(p, 1) /\ SetLinks(BlockFreed(back, p, 1))
         ELSE page' = [page EXCEPT ![p].used = u] /\ SetLinks(back)
      /\ live' = live \ {Chunk(p, s, i)}
  BY <1>1, <1>2, <1>3 DEF FreeChunk
<1>5. /\ Reserved[s] \in Nat /\ Chunks[s] \in Nat /\ i >= Reserved[s]
      /\ page[p].used \subseteq 0 .. Chunks[s] - 1
      /\ 0 .. Reserved[s] - 1 \subseteq u
      /\ u \subseteq 0 .. Chunks[s] - 1 /\ u \in SUBSET Nat /\ u # 0 .. Chunks[s] - 1
  <2>1. /\ page[p].used \subseteq 0 .. Chunks[s] - 1
        /\ 0 .. Reserved[s] - 1 \subseteq page[p].used
        /\ i >= Reserved[s]
    <3>1. \A r \in Page, c \in Slot, k \in Nat :
            Chunk(r, c, k) \in live => k >= Reserved[c]
      BY <1>0 DEF HeldInv
    <3>2. \A r \in Page : page[r].is \in Slot =>
            /\ page[r].used \subseteq 0 .. Chunks[page[r].is] - 1
            /\ 0 .. Reserved[page[r].is] - 1 \subseteq page[r].used
      BY <1>0 DEF HeldInv
    <3>3. i >= Reserved[s]
      BY <1>1, <3>1
    <3>4. QED
      BY <1>1, <1>4, <3>2, <3>3
  <2>2. Reserved[s] \in Nat /\ Chunks[s] \in Nat
    BY SlotAssumption
  <2>3. i \notin 0 .. Reserved[s] - 1
    BY <2>1, <2>2
  <2>4. i \in 0 .. Chunks[s] - 1 /\ i \notin u
    BY <1>2, <1>4, <2>1
  <2>5. u \subseteq 0 .. Chunks[s] - 1 /\ 0 .. Reserved[s] - 1 \subseteq u
    BY <1>2, <2>1, <2>3
  <2>6. \A k \in u : k \in Nat
    BY <2>2, <2>5
  <2>7. QED
    BY <2>1, <2>2, <2>4, <2>5, <2>6
<1>6. /\ Lists(Links, Members) /\ Members \in [Heads -> SUBSET Page]
      /\ s \in Heads /\ s # Free /\ Members[s] = Room(s) /\ Links.next = next
      /\ \A h \in Heads \ {s} : p \notin Members[h]
  <2>1. \A h \in Heads \ {s} : p \notin Members[h]
    BY <1>4, SlotAssumption DEF Members, Heads, FreeBlocks, Room, HasRoom
  <2>2. QED
    BY <1>0, <2>1, MembersOf, SlotAssumption DEF LinkInv, Lists, Links
<1>7. PICK F : F = [Members EXCEPT ![s] = @ \cup {p}]
  OBVIOUS
<1>8. /\ F \in [Heads -> SUBSET Page] /\ F[s] = Room(s) \cup {p} /\ p \in F[s]
      /\ \A h \in Heads \ {s} : F[h] = Members[h]
  BY <1>6, <1>7
(* Whether p was full or not, it is on the list now. *)
<1>9. /\ Lists(back, F) /\ KeepsLinks(Links, back, F[s])
      /\ back.next[p] # Null
  <2>1. Lists(back, F) /\ KeepsLinks(Links, back, F[s])
    <3>1. CASE next[p] = Null
      <4>1. p \notin Room(s)
        <5>1. IsList(Links, s, Room(s))
          BY <1>6 DEF Lists
        <5>2. p \in Room(s) => next[p] \in Room(s) \cup {s}
          BY <1>6, <5>1, ListNodes
        <5>3. Null \notin Room(s) \cup {s}
          BY <1>6, HeadIsNoPage DEF Room, Node
        <5>4. QED
          BY <3>1, <5>2, <5>3
      <4>2. \A h \in Heads : p \notin Members[h]
        BY <1>6, <4>1
      <4>3. QED
        BY <1>3, <1>6, <1>7, <1>8, <3>1, <4>2, AllPushed
    <3>2. CASE next[p] # Null
      <4>1. p \in Room(s)
        BY <1>0, <1>4, <3>2 DEF LinkInv, Full, Room
      <4>2. Room(s) \cup {p} = Room(s)
        BY <4>1
      <4>3. F = Members
        BY <1>6, <1>7, <4>2
      <4>4. QED
        BY <1>3, <1>6, <3>2, <4>3 DEF KeepsLinks
    <3>3. QED
      BY <3>1, <3>2
  <2>2. IsList(back, s, F[s])
    BY <1>6, <2>1 DEF Lists
  <2>3. back.next[p] \in F[s] \cup {s}
    BY <1>6, <1>8, <2>2, ListNodes
  <2>4. Null \notin F[s] \cup {s}
    BY <1>6, <1>8, HeadIsNoPage DEF Node
  <2>5. QED
    BY <2>1, <2>3, <2>4
(* What is not p: its links if it is on no list, and what is held of it. *)
<1>10. ASSUME NEW q \in Page, q # p, page'[q] = page[q], page'[q].is = "start" \/ Full(q)'
       PROVE  back.next[q] = Null /\ q \notin F[s] /\ q \notin Members[Free]
  <2>1. page[q].is = "start" \/ Full(q)
    BY <1>10 DEF Full, HasRoom
  <2>2. next[q] = Null /\ q \notin Members[Free] /\ q \notin Room(s)
    BY <1>0, <2>1, SlotAssumption, MembersOf DEF LinkInv, Full, FreeBlocks, Room, HasRoom
  <2>3. QED
    BY <1>6, <1>8, <1>9, <1>10, <2>2 DEF KeepsLinks
<1>11. /\ live' \subseteq [is : {"pages"} \cup Slot, first : Page, n : Nat]
       /\ \A q \in Page, k \in Nat :
            WholePages(q, k) \in live' <=> page[q].is = "start" /\ page[q].n = k
       /\ \A q \in Page, x \in Slot, k \in Nat :
            Chunk(q, x, k) \in live' <=>
              /\ page[q].is = x /\ k \in page[q].used /\ k >= Reserved[x]
              /\ ~(q = p /\ k = i)
  <2>1. ASSUME NEW q \in Page, NEW k \in Nat
        PROVE  WholePages(q, k) \in live' <=> page[q].is = "start" /\ page[q].n = k
    <3>1. WholePages(q, k) \in live' <=> WholePages(q, k) \in live
      BY <1>4, CallersMemory
    <3>2. QED
      BY <1>0, <3>1 DEF HeldInv
  <2>2. ASSUME NEW q \in Page, NEW x \in Slot, NEW k \in Nat
        PROVE  Chunk(q, x, k) \in live' <=>
                 /\ page[q].is = x /\ k \in page[q].used /\ k >= Reserved[x]
                 /\ ~(q = p /\ k = i)
    <3>1. Chunk(q, x, k) \in live' <=>
            Chunk(q, x, k) \in live /\ ~(q = p /\ x = s /\ k = i)
      BY <1>4, CallersMemory
    <3>2. Chunk(q, x, k) \in live <=>
            page[q].is = x /\ k \in page[q].used /\ k >= Reserved[x]
      BY <1>0 DEF HeldInv
    <3>3. QED
      BY <1>4, <3>1, <3>2
  <2>3. live' \subseteq [is : {"pages"} \cup Slot, first : Page, n : Nat]
    BY <1>0, <1>4 DEF HeldInv
  <2>4. QED
    BY <2>1, <2>2, <2>3
<1>12. CASE u # 0 .. Reserved[s] - 1
  <2>1. PageUse(p, u) /\ Links' = back /\ next' = back.next
    BY <1>0, <1>4, <1>5, <1>9, <1>12, PageUseSet, LinksSet DEF Lists, SetLinks
  <2>2. /\ PageInv' /\ BlockInv'
        /\ page'[p].is = s /\ page'[p].n = 1 /\ page'[p].used = u
        /\ \A q \in Page \ {p} : page'[q] = page[q]
        /\ Members' = [Members EXCEPT ![s] =
                         IF u = 0 .. Chunks[s] - 1 THEN @ \ {p} ELSE @ \cup {p}]
    BY <1>0, <1>4, <1>5, <2>1, UseChanged
  <2>3. Members' = F
    BY <1>5, <1>7, <2>2
  <2>4. LinkInv'
    <3>1. Lists(Links, Members)'
      BY <1>9, <2>1, <2>3 DEF Lists
    <3>2. ASSUME NEW q \in Page, page'[q].is = "start" \/ Full(q)' PROVE next'[q] = Null
      <4>1. ~Full(p)' /\ page'[p].is # "start"
        BY <1>5, <2>2, SlotAssumption DEF Full, HasRoom
      <4>2. q # p
        BY <3>2, <4>1
      <4>3. QED
        BY <1>10, <2>1, <2>2, <3>2, <4>2
    <3>3. QED
      BY <3>1, <3>2 DEF LinkInv
  <2>5. HeldInv'
    <3>1. ASSUME NEW q \in Page, NEW k \in Nat
          PROVE  WholePages(q, k) \in live' <=> page'[q].is = "start" /\ page'[q].n = k
      <4>1. WholePages(q, k) \in live' <=> page[q].is = "start" /\ page[q].n = k
        BY <1>11
      <4>2. QED
        BY <1>4, <2>2, <4>1, SlotAssumption
    <3>2. \A q \in Page, x \in Slot, k \in Nat :
            Chunk(q, x, k) \in live' <=>
              page'[q].is = x /\ k \in page'[q].used /\ k >= Reserved[x]
      BY <1>2, <1>4, <1>11, <2>2
    <3>3. ASSUME NEW q \in Page, page'[q].is \in Slot
          PROVE  /\ page'[q].used \subseteq 0 .. Chunks[page'[q].is] - 1
                 /\ 0 .. Reserved[page'[q].is] - 1 \subseteq page'[q].used
                 /\ page'[q].used # 0 .. Reserved[page'[q].is] - 1
      <4>1. CASE q = p
        BY <1>5, <1>12, <2>2, <4>1
      <4>2. CASE q # p
        BY <1>0, <2>2, <3>3, <4>2 DEF HeldInv
      <4>3. QED
        BY <4>1, <4>2
    <3>4. QED
      BY <1>11, <3>1, <3>2, <3>3 DEF HeldInv
  <2>6. QED
    BY <2>2, <2>4, <2>5 DEF Inv
<1>13. CASE u = 0 .. Reserved[s] - 1
  <2>1. page' = PagesFreed(p, 1) /\ SetLinks(BlockFreed(back, p, 1))
    BY <1>4, <1>13
  <2>2. p \in First /\ page[p].n = 1
    BY <1>0, <1>4 DEF BlockInv, First
  <2>3. /\ PageInv' /\ BlockInv' /\ page'[p].is = "free"
        /\ \A q \in Page : page'[q].n = page[q].n
        /\ \A q \in Page \ {p} : page'[q] = page[q] \/ (q \notin First /\ page'[q].is = "free")
        /\ Members' \in [Heads -> SUBSET Page]
        /\ Members'[Free] = Members[Free] \cup {p}
        /\ \A h \in Heads \ {Free} : Members'[h] = Members[h] \ {p}
    BY <1>0, <2>1, <2>2, FreedPages
  <2>4. PICK l : l = Unlinked(back, p)
    OBVIOUS
  <2>5. PICK E : E = [F EXCEPT ![s] = @ \ {p}]
    OBVIOUS
  <2>6. Lists(l, E) /\ KeepsLinks(back, l, F[s])
    BY <1>6, <1>8, <1>9, <2>4, <2>5, AllUnlinked
  <2>7. E \in [Heads -> SUBSET Page] /\ \A h \in Heads : E[h] = Members[h] \ {p}
    <3>1. E[s] = F[s] \ {p} /\ \A h \in Heads \ {s} : E[h] = F[h]
      BY <1>6, <1>8, <2>5
    <3>2. (Room(s) \cup {p}) \ {p} = Room(s) \ {p}
      OBVIOUS
    <3>3. \A h \in Heads \ {s} : Members[h] \ {p} = Members[h]
      BY <1>6
    <3>4. QED
      BY <1>6, <1>8, <2>6, <3>1, <3>2, <3>3 DEF Lists
  <2>8. /\ \A h \in Heads : p \notin E[h]
        /\ \A h \in Heads : \A q \in Page \ First : q \notin E[h]
    BY <1>0, <2>7, InFirst
  <2>9. PICK l2 : l2 = Pushed(WithoutLinks(l, p + 1 .. p + 1 - 1), Free, p)
    OBVIOUS
  <2>10. /\ Lists(l2, [E EXCEPT ![Free] = @ \cup {p}])
         /\ \A r \in Page \ (E[Free] \cup {p}) : l.next[r] = Null => l2.next[r] = Null
    BY <1>0, <2>2, <2>6, <2>8, <2>9, FreedLists
  <2>11. Links' = l2 /\ next' = l2.next
    <3>1. BlockFreed(back, p, 1) = l2
      BY <1>9, <2>4, <2>9 DEF BlockFreed
    <3>2. QED
      BY <2>1, <2>10, <3>1, LinksSet DEF Lists, SetLinks
  <2>12. Members' = [E EXCEPT ![Free] = @ \cup {p}]
    <3>1. (Members[Free] \ {p}) \cup {p} = Members[Free] \cup {p}
      OBVIOUS
    <3>2. QED
      BY <2>3, <2>7, <3>1, MembersOf
  <2>13. LinkInv'
    <3>1. Lists(Links, Members)'
      BY <2>10, <2>11, <2>12 DEF Lists
    <3>2. ASSUME NEW q \in Page, page'[q].is = "start" \/ Full(q)' PROVE next'[q] = Null
      <4>1. q # p /\ page'[q] = page[q]
        BY <2>3, <3>2, SlotAssumption DEF Full
      <4>2. back.next[q] = Null /\ q \notin F[s] /\ q \notin Members[Free]
        BY <1>10, <3>2, <4>1
      <4>3. l.next[q] = Null /\ q \notin E[Free] \cup {p}
        BY <2>6, <2>7, <4>1, <4>2, MembersOf DEF KeepsLinks
      <4>4. QED
        BY <2>10, <2>11, <4>3
    <3>3. QED
      BY <3>1, <3>2 DEF LinkInv
  <2>14. HeldInv'
    <3>1. \A q \in Page : q \notin First => page[q].is \notin Slot /\ page[q].is # "start"
      BY <1>0, InFirst
    <3>2. ASSUME NEW q \in Page, NEW k \in Nat
          PROVE  WholePages(q, k) \in live' <=> page'[q].is = "start" /\ page'[q].n = k
      <4>1. WholePages(q, k) \in live' <=> page[q].is = "start" /\ page[q].n = k
        BY <1>11
      <4>2. QED
        BY <1>4, <2>3, <3>1, <4>1, SlotAssumption
    <3>3. ASSUME NEW q \in Page \ {p}, NEW x \in Slot
          PROVE  page'[q].is = x \/ page[q].is = x => page'[q] = page[q]
      BY <2>3, <3>1, SlotAssumption
    <3>4. ASSUME NEW q \in Page, NEW x \in Slot, NEW k \in Nat
          PROVE  Chunk(q, x, k) \in live' <=>
                   page'[q].is = x /\ k \in page'[q].used /\ k >= Reserved[x]
      <4>1. Chunk(q, x, k) \in live' <=>
              /\ page[q].is = x /\ k \in page[q].used /\ k >= Reserved[x]
              /\ ~(q = p /\ k = i)
        BY <1>11
      <4>2. CASE q = p
        <5>1. page'[q].is # x
          BY <2>3, <4>2, SlotAssumption
        <5>2. x = s /\ k \in page[p].used /\ k # i => k \in 0 .. Reserved[s] - 1
          BY <1>2, <1>13
        <5>3. Chunk(q, x, k) \notin live'
          BY <1>4, <1>5, <4>1, <4>2, <5>2
        <5>4. QED
          BY <5>1, <5>3
      <4>3. CASE q # p
        BY <3>3, <4>1, <4>3
      <4>4. QED
        BY <4>2, <4>3
    <3>5. ASSUME NEW q \in Page, page'[q].is \in Slot
          PROVE  /\ page'[q].used \subseteq 0 .. Chunks[page'[q].is] - 1
                 /\ 0 .. Reserved[page'[q].is] - 1 \subseteq page'[q].used
                 /\ page'[q].used # 0 .. Reserved[page'[q].is] - 1
      <4>1. page'[q] = page[q]
        BY <2>3, <3>3, <3>5, SlotAssumption
      <4>2. QED
        BY <1>0, <3>5, <4>1 DEF HeldInv
    <3>6. QED
      BY <1>11, <3>2, <3>4, <3>5 DEF HeldInv
  <2>15. QED
    BY <2>3, <2>13, <2>14 DEF Inv
<1>14. QED
  BY <1>12, <1>13

LEMMA NextInv ==
  ASSUME Inv, [Next]_vars
  PROVE  Inv'
<1>1. CASE \E n \in 1 .. Pages : AllocPages(n)
  BY <1>1, AllocPagesInv
<1>2. CASE \E s \in Slot : AllocChunk(s) \/ AllocFirstChunk(s)
  BY <1>2, AllocChunkInv, AllocFirstChunkInv
<1>3. CASE \E a \in live : FreePages(a) \/ FreeChunk(a)
  BY <1>3, FreePagesInv, FreeChunkInv
<1>4. CASE UNCHANGED vars
  <2>1. PageInv' /\ BlockInv' /\ HeldInv'
    BY <1>4 DEF vars, Inv, PageInv, BlockInv, HeldInv, First
  <2>2. Links' = Links /\ Members' = Members /\ \A p \in Page : Full(p)' <=> Full(p)
    BY <1>4 DEF vars, Links, Members, FreeBlocks, First, Room, HasRoom, Full
  <2>3. LinkInv'
    BY <1>4, <2>2 DEF vars, Inv, LinkInv, Lists
  <2>4. QED
    BY <2>1, <2>3 DEF Inv
<1>5. QED
  BY <1>1, <1>2, <1>3, <1>4 DEF Next

(* Whatever order memory is taken and given back in, blocks lie side by    *)
(* side, the free list and the lists of the slots are the lists they should*)
(* be, and what the page table says is handed out is what callers hold.    *)
THEOREM PoolStaysSound == Spec => []Inv
<1>1. Init => Inv
  BY InitInv
<1>2. Inv /\ [Next]_vars => Inv'
  BY NextInv
<1>3. QED
  BY <1>1, <1>2, PTL DEF Spec

-----------------------------------------------------------------------------
(* What the invariant says in the words of the model. *)
(* The nodes reached from a head are those of its list. *)
LEMMA ListedAll ==
  ASSUME NEW h \in Heads, NEW S, IsList(Links, h, S)
  PROVE  Listed(h) = S
<1> DEFINE loop(g) == [n \in 0 .. Pages |->
                         IF n = 0 THEN {next[h]} \ {h}
                         ELSE g[n - 1] \cup ({next[q] : q \in g[n - 1]} \ {h})]
<1>0. PICK m \in 0 .. Pages :
        \E L \in [0 .. m + 1 -> Page \cup {h}] :
          Chain(Links, h, m, L) /\ S = {L[k] : k \in 1 .. m}
  BY DEF IsList
<1>1. PICK L \in [0 .. m + 1 -> Page \cup {h}] :
        Chain(Links, h, m, L) /\ S = {L[k] : k \in 1 .. m}
  BY <1>0
<1>2. m \in Nat /\ Pages \in Nat /\ m <= Pages
  BY PagesAssumption
<1>3. /\ next[h] = L[1] /\ L[m + 1] = h
      /\ \A k \in 1 .. m : next[L[k]] = L[k + 1] /\ L[k] # h
  <2>1. next[h] = L[1]
    BY <1>1, <1>2 DEF Chain, Links
  <2>2. \A k \in 1 .. m : L[k] # h
    BY <1>1, HeadIsNoPage DEF Chain
  <2>3. QED
    BY <1>1, <1>2, <2>1, <2>2 DEF Chain, Links
<1> DEFINE w == [n \in 0 .. Pages |-> {L[k] : k \in {x \in 1 .. m : x <= n + 1}}]
<1>4. \A n \in 0 .. Pages : \A q :
        q \in w[n] <=> \E k \in 1 .. m : k <= n + 1 /\ q = L[k]
  OBVIOUS
<1>5. w = loop(w)
  <2> SUFFICES ASSUME NEW n \in 0 .. Pages
               PROVE  w[n] = IF n = 0 THEN {next[h]} \ {h}
                             ELSE w[n - 1] \cup ({next[q] : q \in w[n - 1]} \ {h})
    OBVIOUS
  <2> HIDE DEF w
  <2>1. CASE n = 0
    <3>1. \A k \in 1 .. m : k <= n + 1 <=> k = 1
      BY <2>1
    <3>2. m = 0 \/ 1 \in 1 .. m
      BY <1>2
    <3>3. m = 0 => next[h] = h /\ (\A k \in 1 .. m : FALSE)
      BY <1>3
    <3>4. ASSUME NEW q PROVE q \in w[n] <=> q \in {next[h]} \ {h}
      <4>1. q \in w[n] <=> 1 \in 1 .. m /\ q = L[1]
        BY <1>4, <3>1
      <4>2. QED
        BY <1>3, <3>2, <3>3, <4>1
    <3>5. QED
      BY <2>1, <3>4
  <2>2. CASE n # 0
    <3>1. n - 1 \in 0 .. Pages /\ (n - 1) + 1 = n /\ n \in Nat
      BY <1>2, <2>2
    <3>2. \A q : q \in w[n - 1] <=> \E k \in 1 .. m : k <= n /\ q = L[k]
      BY <1>4, <3>1
    <3>3. ASSUME NEW q \in w[n]
          PROVE  q \in w[n - 1] \cup ({next[r] : r \in w[n - 1]} \ {h})
      <4>1. PICK k \in 1 .. m : k <= n + 1 /\ q = L[k]
        BY <1>4
      <4>2. CASE k <= n
        BY <3>2, <4>1, <4>2
      <4>3. CASE k = n + 1
        <5>1. n \in 1 .. m /\ n <= n
          BY <1>2, <2>2, <3>1, <4>3
        <5>2. L[n] \in w[n - 1] /\ next[L[n]] = L[k]
          BY <1>3, <3>2, <4>3, <5>1
        <5>3. q # h
          BY <1>3, <4>1
        <5>4. QED
          BY <4>1, <5>2, <5>3
      <4>4. QED
        BY <3>1, <4>1, <4>2, <4>3
    <3>4. ASSUME NEW q \in w[n - 1] PROVE q \in w[n]
      <4>1. PICK k \in 1 .. m : k <= n /\ q = L[k]
        BY <3>2
      <4>2. k <= n + 1
        BY <3>1, <4>1
      <4>3. QED
        BY <1>4, <4>1, <4>2
    <3>5. ASSUME NEW r \in w[n - 1], next[r] # h PROVE next[r] \in w[n]
      <4>1. PICK k \in 1 .. m : k <= n /\ r = L[k]
        BY <3>2
      <4>2. next[r] = L[k + 1]
        BY <1>3, <4>1
      <4>3. k # m
        BY <1>3, <3>5, <4>2
      <4>4. k + 1 \in 1 .. m /\ k + 1 <= n + 1
        BY <1>2, <3>1, <4>1, <4>3
      <4>5. QED
        BY <1>4, <4>2, <4>4
    <3>6. w[n] = w[n - 1] \cup ({next[r] : r \in w[n - 1]} \ {h})
      BY <3>3, <3>4, <3>5
    <3>7. QED
      BY <2>2, <3>6
  <2>3. QED
    BY <2>1, <2>2
<1> DEFINE g == CHOOSE f : f = loop(f)
<1>6. Listed(h) = g[Pages]
  BY DEF Listed
<1>7. g = loop(g)
  <2> HIDE DEF w
  <2>1. QED
    BY <1>5
<1> HIDE DEF g, w
<1>8. \A n \in 0 .. Pages : n \in {x \in Nat : g[x] = w[x]}
  <2> DEFINE same == {x \in Nat : g[x] = w[x]}
  <2> DEFINE more(A) == A \cup ({next[q] : q \in A} \ {h})
  <2>1. /\ g[0] = {next[h]} \ {h} /\ w[0] = {next[h]} \ {h}
        /\ \A n \in 1 .. Pages : g[n] = more(g[n - 1]) /\ w[n] = more(w[n - 1])
    <3>1. 0 \in 0 .. Pages /\ \A n \in 1 .. Pages : n \in 0 .. Pages /\ n # 0
      BY <1>2
    <3>2. QED
      BY <1>5, <1>7, <3>1
  <2> HIDE DEF more
  <2>2. 0 \in same
    BY <2>1
  <2>3. ASSUME NEW n \in Nat, n < Pages, n \in same
        PROVE  n + 1 \in same
    <3>1. n + 1 \in 1 .. Pages /\ (n + 1) - 1 = n /\ n + 1 \in Nat
      BY <1>2, <2>3
    <3>2. g[n] = w[n]
      BY <2>3
    <3>3. g[n + 1] = w[n + 1]
      BY <2>1, <3>1, <3>2
    <3>4. QED
      BY <3>1, <3>3
  <2> HIDE DEF same
  <2>4. \A n \in 0 .. Pages : n \in same
    BY <1>2, <2>2, <2>3, UpTo
  <2>5. QED
    BY <2>4 DEF same
<1>9. w[Pages] = S
  <2>1. Pages \in 0 .. Pages /\ \A k \in 1 .. m : k <= Pages + 1
    BY <1>2
  <2>2. \A q : q \in w[Pages] <=> \E k \in 1 .. m : q = L[k]
    BY <1>4, <2>1
  <2>3. QED
    BY <1>1, <2>2
<1>10. QED
  BY <1>2, <1>6, <1>8, <1>9

(* The page table has its type. *)
THEOREM TypeCorrect == Spec => []TypeOK
<1>1. ASSUME Inv PROVE TypeOK
  <2>1. \A p \in Page : page[p].is \in {"free", "start", "busy"} \cup Slot
    BY <1>1 DEF Inv, PageInv, Kinds
  <2>2. \A p \in Page : page[p].n \in 0 .. Pages - p
    <3>1. \A p \in Page : page[p].n \in 0 .. Pages /\ p + page[p].n <= Pages /\ p \in Nat
      BY <1>1 DEF Inv, PageInv, BlockInv, Page
    <3>2. QED
      BY <3>1, PagesAssumption
  <2>3. QED
    BY <1>1, <2>1, <2>2 DEF Inv, HeldInv, LinkInv, Lists, LinkTable, Links, TypeOK
<1>2. QED
  BY <1>1, PoolStaysSound, PTL

(* The pool is sound after every operation, for a pool of any size and any *)
(* sizes of chunks.                                                        *)
THEOREM PoolIsSound == Spec => []PoolSound
<1>1. ASSUME Inv PROVE PoolSound
  <2>0. PageInv /\ BlockInv /\ LinkInv /\ HeldInv
    BY <1>1 DEF Inv
  <2>1. BlocksTile
    <3> SUFFICES ASSUME NEW q \in Page
                 PROVE  \E p \in First :
                          /\ q \in p .. p + page[p].n - 1
                          /\ \A o \in First \ {p} : q \notin o .. o + page[o].n - 1
      BY DEF BlocksTile
    <3>1. PICK p \in First : q \in p .. p + page[p].n - 1
      BY <2>0 DEF BlockInv
    <3>2. \A o \in First : o \in Nat /\ page[o].n \in Nat
      BY <2>0, PagesAssumption DEF First, Page, PageInv
    <3>3. ASSUME NEW o \in First \ {p} PROVE q \notin o .. o + page[o].n - 1
      <4>1. o < p \/ p < o
        BY <3>2
      <4>2. o + page[o].n <= p \/ p + page[p].n <= o
        BY <2>0, <4>1 DEF BlockInv
      <4>3. QED
        BY <3>1, <3>2, <4>2
    <3>4. QED
      BY <3>1, <3>3
  <2>2. ASSUME NEW h \in Heads
        PROVE  Listed(h) = Members[h] /\ \A q \in Listed(h) : next[prev[q]] = q
    <3>1. IsList(Links, h, Members[h])
      BY <2>0 DEF LinkInv, Lists
    <3>2. QED
      BY <3>1, ListedAll, ListNodes DEF Links
  <2>3. Listed(Free) = {p \in First : page[p].is = "free"}
    BY <2>2, MembersOf DEF FreeBlocks
  <2>4. \A s \in Slot : Listed(s) = {p \in Page : HasRoom(p, s)}
    BY <2>2, MembersOf DEF Room
  <2>5. {a \in live : a.is = "pages"} =
          {WholePages(p, page[p].n) : p \in {q \in Page : page[q].is = "start"}}
    <3>1. ASSUME NEW a \in live, a.is = "pages"
          PROVE  \E p \in Page : page[p].is = "start" /\ a = WholePages(p, page[p].n)
      <4>1. a \in [is : {"pages"} \cup Slot, first : Page, n : Nat]
        BY <2>0 DEF HeldInv
      <4>2. a.first \in Page /\ a.n \in Nat /\ a = WholePages(a.first, a.n)
        BY <3>1, <4>1 DEF WholePages
      <4>3. page[a.first].is = "start" /\ page[a.first].n = a.n
        BY <2>0, <4>2 DEF HeldInv
      <4>4. QED
        BY <4>2, <4>3
    <3>2. ASSUME NEW p \in Page, page[p].is = "start"
          PROVE  WholePages(p, page[p].n) \in live /\ WholePages(p, page[p].n).is = "pages"
      <4>1. page[p].n \in Nat
        BY <2>0, PagesAssumption DEF PageInv
      <4>2. WholePages(p, page[p].n) \in live
        BY <2>0, <3>2, <4>1 DEF HeldInv
      <4>3. QED
        BY <4>2 DEF WholePages
    <3>3. QED
      BY <3>1, <3>2
  <2>6. ASSUME NEW p \in Page, page[p].is \in Slot, NEW held,
               held = {a.n : a \in {b \in live : b.first = p /\ b.is = page[p].is}}
        PROVE  /\ held # {}
               /\ held \cap 0 .. Reserved[page[p].is] - 1 = {}
               /\ page[p].used = held \cup 0 .. Reserved[page[p].is] - 1
    <3>1. PICK s \in Slot : s = page[p].is
      BY <2>6
    <3>2. /\ Reserved[s] \in Nat /\ page[p].used \in SUBSET Nat
          /\ 0 .. Reserved[s] - 1 \subseteq page[p].used
          /\ page[p].used # 0 .. Reserved[s] - 1
      BY <2>0, <3>1, SlotAssumption DEF HeldInv, PageInv
    <3>3. \A i : i \in held <=> i \in page[p].used /\ i \in Nat /\ i >= Reserved[s]
      <4>1. ASSUME NEW i \in held PROVE i \in page[p].used /\ i \in Nat /\ i >= Reserved[s]
        <5>1. PICK a \in live : a.first = p /\ a.is = s /\ a.n = i
          BY <2>6, <3>1
        <5>2. a \in [is : {"pages"} \cup Slot, first : Page, n : Nat]
          BY <2>0 DEF HeldInv
        <5>3. i \in Nat /\ a = Chunk(p, s, i)
          BY <5>1, <5>2 DEF Chunk
        <5>4. QED
          BY <2>0, <5>3 DEF HeldInv
      <4>2. ASSUME NEW i \in Nat, i \in page[p].used, i >= Reserved[s] PROVE i \in held
        <5>1. Chunk(p, s, i) \in live
          BY <2>0, <3>1, <4>2 DEF HeldInv
        <5>2. Chunk(p, s, i).first = p /\ Chunk(p, s, i).is = s /\ Chunk(p, s, i).n = i
          BY DEF Chunk
        <5>3. QED
          BY <2>6, <3>1, <5>1, <5>2
      <4>3. QED
        BY <4>1, <4>2
    <3>4. \A i \in page[p].used : i \in Nat /\ (i >= Reserved[s] \/ i \in 0 .. Reserved[s] - 1)
      BY <3>2
    <3>5. page[p].used = held \cup 0 .. Reserved[s] - 1
      BY <3>2, <3>3, <3>4
    <3>6. held \cap 0 .. Reserved[s] - 1 = {}
      BY <3>2, <3>3
    <3>7. QED
      BY <3>1, <3>2, <3>5, <3>6
  <2>7. QED
    BY <2>1, <2>2, <2>3, <2>4, <2>5, <2>6 DEF PoolSound, Heads
<1>2. QED
  BY <1>1, PoolStaysSound, PTL

-----------------------------------------------------------------------------
(* Memory in use never overlaps.                                           *)
LEMMA Product ==
  ASSUME NEW a \in Nat, NEW b \in Nat, NEW c \in Nat, a <= b
  PROVE  a * c <= b * c /\ a * c \in Nat /\ b * c \in Nat
<1>1. PICK d \in Nat : b = a + d
  <2>1. b - a \in Nat /\ b = a + (b - a)
    OBVIOUS
  <2>2. QED
    BY <2>1
<1>2. d * c \in Nat /\ a * c \in Nat /\ b * c = a * c + d * c
  BY <1>1
<1>3. QED
  BY <1>2

LEMMA OneMore ==
  ASSUME NEW a \in Nat, NEW c \in Nat
  PROVE  (a + 1) * c = a * c + c /\ a * c \in Nat
OBVIOUS

LEMMA Whole ==
  ASSUME NEW a \in Nat, NEW b \in Nat \ {0}, a % b = 0
  PROVE  a \div b \in Nat /\ b * (a \div b) = a
OBVIOUS

LEMMA Sizes ==
  ASSUME NEW s \in Slot
  PROVE  Size(s) \in Nat /\ Size(s) > 0 /\ Chunks[s] * Size(s) = CellsPerPage
<1>1. CellsPerPage \in Nat \ {0} /\ Chunks[s] \in Nat \ {0} /\ CellsPerPage % Chunks[s] = 0
  BY PagesAssumption, SlotAssumption
<1>2. Size(s) \in Nat /\ Chunks[s] * Size(s) = CellsPerPage
  BY <1>1, Whole DEF Size
<1>3. Size(s) # 0
  BY <1>1, <1>2
<1>4. QED
  BY <1>2, <1>3

(* Where a region begins and ends. *)
Begin(a) == a.first * CellsPerPage + (IF a.is = "pages" THEN 0 ELSE a.n * Size(a.is))
End(a) == IF a.is = "pages" THEN (a.first + a.n) * CellsPerPage ELSE Begin(a) + Size(a.is)

LEMMA Within ==
  ASSUME Inv, NEW a \in live
  PROVE  /\ a.first \in First /\ a.first \in Nat /\ page[a.first].n \in Nat
         /\ Begin(a) \in Nat /\ End(a) \in Nat /\ Begin(a) < End(a)
         /\ a.first * CellsPerPage <= Begin(a)
         /\ End(a) <= (a.first + page[a.first].n) * CellsPerPage
         /\ End(a) <= Pages * CellsPerPage
         /\ CellsOf(a) = Begin(a) .. End(a) - 1
         /\ a.is \in Slot => /\ page[a.first].is = a.is /\ a.n \in Nat
                             /\ a = Chunk(a.first, a.is, a.n)
         /\ a.is \notin Slot => a = WholePages(a.first, page[a.first].n)
<1>0. PageInv /\ BlockInv /\ HeldInv
  BY DEF Inv
<1>1. PICK p : p = a.first
  OBVIOUS
<1>2. /\ p \in Page /\ p \in Nat /\ a.n \in Nat /\ a.is \in {"pages"} \cup Slot
      /\ page[p].n \in Nat /\ Pages \in Nat /\ p + page[p].n <= Pages
      /\ CellsPerPage \in Nat /\ CellsPerPage > 0
  BY <1>0, <1>1, PagesAssumption DEF HeldInv, Page, PageInv, BlockInv
<1>3. p * CellsPerPage \in Nat /\ (p + page[p].n) * CellsPerPage <= Pages * CellsPerPage
      /\ Pages * CellsPerPage \in Nat
  <2>1. p + page[p].n \in Nat
    BY <1>2
  <2>2. QED
    BY <1>2, <2>1, Product
<1>4. CASE a.is = "pages"
  <2>0. "pages" \notin Slot
    BY SlotAssumption
  <2>1. a = WholePages(p, a.n)
    BY <1>0, <1>1, <1>4 DEF HeldInv, WholePages
  <2>2. page[p].is = "start" /\ page[p].n = a.n /\ a.n > 0
    BY <1>0, <1>2, <2>1 DEF HeldInv, BlockInv
  <2>3. (p + 1) * CellsPerPage <= (p + a.n) * CellsPerPage
        /\ (p + 1) * CellsPerPage = p * CellsPerPage + CellsPerPage
        /\ (p + a.n) * CellsPerPage \in Nat
    <3>1. p + 1 \in Nat /\ p + a.n \in Nat /\ p + 1 <= p + a.n
      BY <1>2, <2>2
    <3>2. (p + 1) * CellsPerPage <= (p + a.n) * CellsPerPage
          /\ (p + a.n) * CellsPerPage \in Nat
      BY ONLY <1>2, <3>1, Product
    <3>3. (p + 1) * CellsPerPage = p * CellsPerPage + CellsPerPage
      BY <1>2, OneMore
    <3>4. QED
      BY <3>2, <3>3
  <2>4. Begin(a) = p * CellsPerPage /\ End(a) = (p + a.n) * CellsPerPage
    BY <1>1, <1>3, <1>4 DEF Begin, End
  <2>5. CellsOf(a) = Begin(a) .. End(a) - 1
    BY <1>1, <1>4, <2>4 DEF CellsOf
  <2>6. p \in First
    BY <1>2, <2>2 DEF First
  <2>7. Begin(a) < End(a) /\ p * CellsPerPage <= Begin(a)
        /\ End(a) <= (p + page[p].n) * CellsPerPage /\ End(a) <= Pages * CellsPerPage
        /\ Begin(a) \in Nat /\ End(a) \in Nat
    BY <1>2, <1>3, <2>2, <2>3, <2>4
  <2>8. QED
    BY <1>1, <1>2, <1>4, <2>0, <2>1, <2>2, <2>5, <2>6, <2>7
<1>5. CASE a.is \in Slot
  <2>1. PICK s \in Slot : s = a.is /\ s # "pages"
    BY <1>5, SlotAssumption
  <2>2. a = Chunk(p, s, a.n)
    BY <1>0, <1>1, <2>1 DEF HeldInv, Chunk
  <2>3. page[p].is = s /\ a.n \in page[p].used
    BY <1>0, <1>2, <2>2 DEF HeldInv
  <2>4. /\ page[p].n = 1 /\ a.n + 1 <= Chunks[s] /\ Chunks[s] \in Nat
        /\ Size(s) \in Nat /\ Size(s) > 0 /\ Chunks[s] * Size(s) = CellsPerPage
    <3>1. page[p].n = 1 /\ a.n \in 0 .. Chunks[s] - 1
      BY <1>0, <1>2, <2>3 DEF BlockInv, HeldInv
    <3>2. Chunks[s] \in Nat
      BY SlotAssumption
    <3>3. QED
      BY <3>1, <3>2, Sizes
  <2>5. /\ (a.n + 1) * Size(s) <= CellsPerPage
        /\ (a.n + 1) * Size(s) = a.n * Size(s) + Size(s)
        /\ a.n * Size(s) \in Nat
    <3>1. a.n + 1 \in Nat
      BY <1>2
    <3>2. (a.n + 1) * Size(s) <= Chunks[s] * Size(s)
      BY ONLY <2>4, <3>1, Product
    <3>3. (a.n + 1) * Size(s) = a.n * Size(s) + Size(s) /\ a.n * Size(s) \in Nat
      BY <1>2, <2>4, OneMore
    <3>4. QED
      BY <2>4, <3>2, <3>3
  <2>6. (p + 1) * CellsPerPage = p * CellsPerPage + CellsPerPage
    BY <1>2, OneMore
  <2>7. /\ Begin(a) = p * CellsPerPage + a.n * Size(s)
        /\ End(a) = p * CellsPerPage + a.n * Size(s) + Size(s)
    BY <1>1, <2>1 DEF Begin, End
  <2>8. CellsOf(a) = Begin(a) .. End(a) - 1
    <3>1. a.is # "pages"
      BY <2>1
    <3>2. Begin(a) = a.first * CellsPerPage + a.n * Size(a.is)
      BY <3>1 DEF Begin
    <3>3. End(a) = Begin(a) + Size(a.is)
      BY <3>1 DEF End
    <3>4. CellsOf(a) = Begin(a) .. Begin(a) + Size(a.is) - 1
      BY <3>1, <3>2, Zenon DEF CellsOf
    <3>5. Begin(a) \in Nat /\ Size(a.is) \in Nat
      BY <1>3, <2>1, <2>4, <2>5, <2>7
    <3>6. QED
      BY <3>3, <3>4, <3>5
  <2>9. p \in First
    BY <1>2, <2>4 DEF First
  <2>10. Begin(a) < End(a) /\ p * CellsPerPage <= Begin(a)
         /\ End(a) <= (p + 1) * CellsPerPage
         /\ Begin(a) \in Nat /\ End(a) \in Nat
    BY ONLY <1>2, <1>3, <2>4, <2>5, <2>6, <2>7
  <2>11. End(a) <= Pages * CellsPerPage
    <3>1. (p + 1) * CellsPerPage <= Pages * CellsPerPage
      BY <1>3, <2>4
    <3>2. (p + 1) * CellsPerPage \in Nat
      BY <1>2, <1>3, <2>6
    <3>3. QED
      BY ONLY <1>3, <2>10, <3>1, <3>2
  <2>12. QED
    BY <1>1, <1>2, <2>1, <2>2, <2>3, <2>4, <2>8, <2>9, <2>10, <2>11
<1>6. QED
  BY <1>2, <1>4, <1>5

LEMMA Apart ==
  ASSUME Inv, NEW a \in live, NEW b \in live, a # b
  PROVE  CellsOf(a) \cap CellsOf(b) = {} /\ CellsOf(a) # {}
<1>1. /\ a.first \in First /\ a.first \in Nat /\ page[a.first].n \in Nat
      /\ Begin(a) \in Nat /\ End(a) \in Nat /\ Begin(a) < End(a)
      /\ a.first * CellsPerPage <= Begin(a)
      /\ End(a) <= (a.first + page[a.first].n) * CellsPerPage
      /\ CellsOf(a) = Begin(a) .. End(a) - 1
  BY Within
<1>2. /\ b.first \in First /\ b.first \in Nat /\ page[b.first].n \in Nat
      /\ Begin(b) \in Nat /\ End(b) \in Nat /\ Begin(b) < End(b)
      /\ b.first * CellsPerPage <= Begin(b)
      /\ End(b) <= (b.first + page[b.first].n) * CellsPerPage
      /\ CellsOf(b) = Begin(b) .. End(b) - 1
  BY Within
<1>3. CellsPerPage \in Nat
  BY PagesAssumption
<1>4. ASSUME NEW p \in First, NEW o \in First, p < o
      PROVE  /\ (p + page[p].n) * CellsPerPage <= o * CellsPerPage
             /\ (p + page[p].n) * CellsPerPage \in Nat /\ o * CellsPerPage \in Nat
  <2>1. p + page[p].n <= o /\ p + page[p].n \in Nat /\ o \in Nat
    <3>1. p \in Page /\ o \in Nat /\ p \in Nat
      BY PagesAssumption DEF First, Page
    <3>2. page[p].n \in Nat
      BY <3>1, PagesAssumption DEF Inv, PageInv
    <3>3. p + page[p].n <= o
      BY <1>4 DEF Inv, BlockInv
    <3>4. QED
      BY <3>1, <3>2, <3>3
  <2>2. QED
    BY ONLY <1>3, <2>1, Product
<1>5. End(a) <= Begin(b) \/ End(b) <= Begin(a)
  <2>1. CASE a.first < b.first
    <3>1. /\ (a.first + page[a.first].n) * CellsPerPage <= b.first * CellsPerPage
          /\ (a.first + page[a.first].n) * CellsPerPage \in Nat
          /\ b.first * CellsPerPage \in Nat
      BY <1>1, <1>2, <1>4, <2>1
    <3>2. QED
      BY ONLY <1>1, <1>2, <3>1
  <2>2. CASE b.first < a.first
    <3>1. /\ (b.first + page[b.first].n) * CellsPerPage <= a.first * CellsPerPage
          /\ (b.first + page[b.first].n) * CellsPerPage \in Nat
          /\ a.first * CellsPerPage \in Nat
      BY <1>1, <1>2, <1>4, <2>2
    <3>2. QED
      BY ONLY <1>1, <1>2, <3>1
  <2>3. CASE a.first = b.first
    <3>1. /\ a.is \in Slot => /\ page[a.first].is = a.is /\ a.n \in Nat
                              /\ a = Chunk(a.first, a.is, a.n)
          /\ a.is \notin Slot => a = WholePages(a.first, page[a.first].n)
          /\ b.is \in Slot => /\ page[b.first].is = b.is /\ b.n \in Nat
                              /\ b = Chunk(b.first, b.is, b.n)
          /\ b.is \notin Slot => b = WholePages(b.first, page[b.first].n)
      BY Within
    <3>2. a.is \notin Slot => page[a.first].is = "start"
      BY <1>1, <3>1 DEF Inv, HeldInv, First
    <3>3. b.is \notin Slot => page[b.first].is = "start"
      BY <1>2, <3>1 DEF Inv, HeldInv, First
    <3>4. a.is \in Slot /\ a.is = b.is /\ a.n # b.n
      BY <2>3, <3>1, <3>2, <3>3, SlotAssumption
    <3>5. PICK s \in Slot : s = a.is /\ s = b.is /\ s # "pages"
      BY <3>4, SlotAssumption
    <3>6. Size(s) \in Nat /\ a.n \in Nat /\ b.n \in Nat
      BY <3>1, <3>4, Sizes
    <3>7. /\ Begin(a) = a.first * CellsPerPage + a.n * Size(s) /\ End(a) = Begin(a) + Size(s)
          /\ Begin(b) = a.first * CellsPerPage + b.n * Size(s) /\ End(b) = Begin(b) + Size(s)
      BY <2>3, <3>5 DEF Begin, End
    <3>8. a.first * CellsPerPage \in Nat
      BY <1>1, <1>3
    <3>9. ASSUME NEW i \in Nat, NEW k \in Nat, i < k
          PROVE  i * Size(s) + Size(s) <= k * Size(s)
                 /\ i * Size(s) \in Nat /\ k * Size(s) \in Nat
      <4>1. i + 1 \in Nat /\ i + 1 <= k
        BY <3>9
      <4>2. (i + 1) * Size(s) <= k * Size(s) /\ k * Size(s) \in Nat
        BY ONLY <3>6, <4>1, Product
      <4>3. (i + 1) * Size(s) = i * Size(s) + Size(s) /\ i * Size(s) \in Nat
        BY <3>6, OneMore
      <4>4. QED
        BY <4>2, <4>3
    <3>10. CASE a.n < b.n
      <4>1. a.n * Size(s) + Size(s) <= b.n * Size(s)
            /\ a.n * Size(s) \in Nat /\ b.n * Size(s) \in Nat
        BY <3>6, <3>9, <3>10
      <4>2. QED
        BY ONLY <3>6, <3>7, <3>8, <4>1
    <3>11. CASE b.n < a.n
      <4>1. b.n * Size(s) + Size(s) <= a.n * Size(s)
            /\ a.n * Size(s) \in Nat /\ b.n * Size(s) \in Nat
        BY <3>6, <3>9, <3>11
      <4>2. QED
        BY ONLY <3>6, <3>7, <3>8, <4>1
    <3>12. QED
      BY <3>4, <3>6, <3>10, <3>11
  <2>4. QED
    BY <1>1, <1>2, <2>1, <2>2, <2>3
<1>6. QED
  BY ONLY <1>1, <1>2, <1>5

RegionsInv ==
  /\ \A a, b \in live : a # b => CellsOf(a) \cap CellsOf(b) = {}
  /\ \A a \in live : CellsOf(a) # {} /\ CellsOf(a) \subseteq 0 .. Pages * CellsPerPage - 1

LEMMA InvRegions == Inv => RegionsInv
<1> SUFFICES ASSUME Inv PROVE RegionsInv
  OBVIOUS
<1>1. \A a, b \in live : a # b => CellsOf(a) \cap CellsOf(b) = {}
  BY Apart
<1>2. ASSUME NEW a \in live
      PROVE  CellsOf(a) # {} /\ CellsOf(a) \subseteq 0 .. Pages * CellsPerPage - 1
  <2>1. /\ Begin(a) \in Nat /\ End(a) \in Nat /\ Begin(a) < End(a)
        /\ End(a) <= Pages * CellsPerPage /\ CellsOf(a) = Begin(a) .. End(a) - 1
    BY Within
  <2>2. Pages * CellsPerPage \in Nat
    BY PagesAssumption
  <2>3. QED
    BY ONLY <2>1, <2>2
<1>3. QED
  BY <1>1, <1>2 DEF RegionsInv

LEMMA HeapSteps ==
  RegionsInv /\ RegionsInv' /\ [Next]_vars
    => [Regions!Alloc \/ Regions!Release]_{CellsOf(a) : a \in live}
<1> SUFFICES ASSUME RegionsInv, RegionsInv', [Next]_vars
             PROVE  \/ Regions!Alloc \/ Regions!Release
                    \/ {CellsOf(a) : a \in live}' = {CellsOf(a) : a \in live}
  OBVIOUS
<1>0. /\ {CellsOf(a) : a \in live}' = {CellsOf(a) : a \in live'}
  BY DEF CellsOf, Size
<1>1. ASSUME NEW a, live' = live \cup {a}
      PROVE  Regions!Alloc \/ {CellsOf(x) : x \in live'} = {CellsOf(x) : x \in live}
  <2>1. CASE a \in live
    <3>1. live' = live
      BY <1>1, <2>1
    <3>2. QED
      BY <3>1
  <2>2. CASE a \notin live
    <3>1. PICK r : r = CellsOf(a)
      OBVIOUS
    <3>2. r # {} /\ r \subseteq 0 .. Pages * CellsPerPage - 1
      BY <1>1, <3>1 DEF RegionsInv, CellsOf, Size
    <3>3. ASSUME NEW b \in live PROVE r \cap CellsOf(b) = {}
      BY <1>1, <2>2, <3>1 DEF RegionsInv, CellsOf, Size
    <3>4. r \cap UNION {CellsOf(x) : x \in live} = {}
      BY <3>3
    <3>5. {CellsOf(x) : x \in live'} = {CellsOf(x) : x \in live} \cup {r}
      BY <1>1, <3>1
    <3>6. QED
      BY <1>0, <3>2, <3>4, <3>5 DEF Regions!Alloc
  <2>3. QED
    BY <2>1, <2>2
<1>2. ASSUME NEW a \in live, live' = live \ {a}
      PROVE  Regions!Release
  <2>1. ASSUME NEW b \in live, b # a PROVE CellsOf(b) # CellsOf(a)
    BY <2>1 DEF RegionsInv
  <2>2. {CellsOf(x) : x \in live'} = {CellsOf(x) : x \in live} \ {CellsOf(a)}
    BY <1>2, <2>1
  <2>3. QED
    BY <1>0, <2>2 DEF Regions!Release
<1>3. \/ \E a : live' = live \cup {a}
      \/ \E a \in live : live' = live \ {a}
      \/ live' = live
  <2>1. CASE \E n \in 1 .. Pages : AllocPages(n)
    BY <2>1 DEF AllocPages
  <2>2. CASE \E s \in Slot : AllocChunk(s) \/ AllocFirstChunk(s)
    BY <2>2 DEF AllocChunk, AllocFirstChunk
  <2>3. CASE \E a \in live : FreePages(a) \/ FreeChunk(a)
    BY <2>3 DEF FreePages, FreeChunk
  <2>4. CASE UNCHANGED vars
    BY <2>4 DEF vars
  <2>5. QED
    BY <2>1, <2>2, <2>3, <2>4 DEF Next
<1>4. QED
  BY <1>0, <1>1, <1>2, <1>3

(* Memory that is handed out lies in the pool and overlaps nothing in use: *)
(* ms_slab_alloc and ms_slab_free are the steps of a heap.                 *)
THEOREM PoolIsAHeap == Spec => ImplementsHeap
<1>1. Init => Regions!Init
  BY DEF Init, Regions!Init
<1>2. QED
  BY <1>1, InvRegions, HeapSteps, PoolStaysSound, PTL DEF Spec, ImplementsHeap, Regions!Spec

-----------------------------------------------------------------------------
(* The figures of ms_slab_stat: what page p counts for, as used and as     *)
(* free, and the free chunks of a page that is cut.                        *)
UsedCells(p) ==
  IF page[p].is = "start" THEN p * CellsPerPage .. (p + page[p].n) * CellsPerPage - 1
  ELSE IF page[p].is \in Slot THEN ChunkCells(p, page[p].used)
  ELSE {}
FreeCells(p) ==
  IF page[p].is = "free" THEN p * CellsPerPage .. (p + page[p].n) * CellsPerPage - 1 ELSE {}
SpareCells(p) ==
  IF page[p].is \in Slot
  THEN ChunkCells(p, (0 .. Chunks[page[p].is] - 1) \ page[p].used) ELSE {}
Extent(p) == p * CellsPerPage .. (p + page[p].n) * CellsPerPage - 1

LEMMA ChunkOf ==
  ASSUME NEW p \in Nat, NEW s \in Slot, NEW i \in Nat
  PROVE  /\ CellsOf(Chunk(p, s, i)) =
              p * CellsPerPage + i * Size(s) .. p * CellsPerPage + (i + 1) * Size(s) - 1
         /\ p * CellsPerPage \in Nat /\ i * Size(s) \in Nat
         /\ (i + 1) * Size(s) = i * Size(s) + Size(s)
<1>1. Size(s) \in Nat /\ CellsPerPage \in Nat
  BY Sizes, PagesAssumption
<1>2. (i + 1) * Size(s) = i * Size(s) + Size(s) /\ i * Size(s) \in Nat
  BY <1>1, OneMore
<1>3. p * CellsPerPage \in Nat
  BY <1>1
<1>4. /\ Chunk(p, s, i).is = s /\ Chunk(p, s, i).first = p /\ Chunk(p, s, i).n = i
      /\ s # "pages"
  BY SlotAssumption DEF Chunk
<1>5. CellsOf(Chunk(p, s, i)) =
        p * CellsPerPage + i * Size(s) .. p * CellsPerPage + i * Size(s) + Size(s) - 1
  BY <1>4, Zenon DEF CellsOf
<1>6. QED
  BY <1>1, <1>2, <1>3, <1>5

(* Chunks of one page lie side by side in it.                              *)
LEMMA ChunkCount ==
  ASSUME NEW p \in Nat, NEW s \in Slot, page[p].is = s,
         NEW S \in SUBSET (0 .. Chunks[s] - 1)
  PROVE  /\ ChunkCells(p, S) \subseteq p * CellsPerPage .. (p + 1) * CellsPerPage - 1
         /\ IsFiniteSet(ChunkCells(p, S)) /\ IsFiniteSet(S)
         /\ Cardinality(ChunkCells(p, S)) = Cardinality(S) * Size(s)
<1>1. /\ Size(s) \in Nat /\ Chunks[s] * Size(s) = CellsPerPage /\ Chunks[s] \in Nat
      /\ CellsPerPage \in Nat /\ p * CellsPerPage \in Nat
  <2>1. CellsPerPage \in Nat /\ Chunks[s] \in Nat
    BY PagesAssumption, SlotAssumption
  <2>2. p * CellsPerPage \in Nat
    BY <2>1
  <2>3. QED
    BY <2>1, <2>2, Sizes
<1>0. \A i \in S : i \in Nat /\ i < Chunks[s]
  BY <1>1
<1> DEFINE upto(k) == {i \in S : i < k}
           Good(k) == /\ ChunkCells(p, upto(k))
                           \subseteq p * CellsPerPage .. p * CellsPerPage + k * Size(s) - 1
                      /\ IsFiniteSet(ChunkCells(p, upto(k))) /\ IsFiniteSet(upto(k))
                      /\ Cardinality(ChunkCells(p, upto(k))) = Cardinality(upto(k)) * Size(s)
           T == {k \in Nat : Good(k)}
<1>2. 0 \in T
  <2>1. upto(0) = {}
    <3>1. \A i \in S : ~(i < 0)
      BY <1>0
    <3>2. QED
      BY ONLY <3>1
  <2>2. ChunkCells(p, {}) = {}
    BY DEF ChunkCells
  <2>3. Cardinality({}) = 0 /\ IsFiniteSet({}) /\ 0 * Size(s) = 0
    BY <1>1, FS_EmptySet
  <2>4. Good(0)
    <3> HIDE DEF upto
    <3>1. QED
      BY <2>1, <2>2, <2>3
  <2> HIDE DEF Good
  <2>5. QED
    BY <2>4
<1>3. ASSUME NEW k \in Nat, k < Chunks[s], k \in T PROVE k + 1 \in T
  <2>1. Good(k)
    BY <1>3
  <2>2. PICK here : here = CellsOf(Chunk(p, s, k))
    OBVIOUS
  <2>3. /\ here = p * CellsPerPage + k * Size(s) .. p * CellsPerPage + (k + 1) * Size(s) - 1
        /\ k * Size(s) \in Nat /\ (k + 1) * Size(s) = k * Size(s) + Size(s)
    BY <2>2, ChunkOf
  <2>4. CASE k \notin S
    <3>1. upto(k + 1) = upto(k)
      <4>1. ASSUME NEW i \in S PROVE i < k + 1 <=> i < k
        <5>1. i \in Nat /\ i # k /\ k \in Nat
          BY <1>0, <1>3, <2>4
        <5>2. QED
          BY ONLY <5>1
      <4>2. QED
        BY ONLY <4>1
    <3> HIDE DEF upto
    <3>2. p * CellsPerPage .. p * CellsPerPage + k * Size(s) - 1
            \subseteq p * CellsPerPage .. p * CellsPerPage + (k + 1) * Size(s) - 1
      <4>1. \A x, y, z \in Nat : x .. x + y - 1 \subseteq x .. x + (y + z) - 1
        OBVIOUS
      <4>2. p * CellsPerPage \in Nat /\ Size(s) \in Nat /\ k * Size(s) \in Nat
        BY <1>1, <2>3
      <4>3. QED
        BY ONLY <2>3, <4>1, <4>2
    <3>3. Good(k + 1)
      BY <2>1, <3>1, <3>2
    <3> HIDE DEF Good
    <3>4. QED
      BY <3>3
  <2>5. CASE k \in S
    <3>1. upto(k + 1) = upto(k) \cup {k} /\ k \notin upto(k)
      <4>1. ASSUME NEW i \in S PROVE i < k + 1 <=> i < k \/ i = k
        BY <1>0, <1>3
      <4>2. ~(k < k)
        BY <1>3
      <4>3. QED
        BY <2>5, <4>1, <4>2
    <3>2. ChunkCells(p, upto(k) \cup {k}) = ChunkCells(p, upto(k)) \cup here
      BY <2>2 DEF ChunkCells
    <3> HIDE DEF upto
    <3>3. IsFiniteSet(here) /\ Cardinality(here) = Size(s)
      <4>1. PICK a, b : a = p * CellsPerPage + k * Size(s) /\ b = Size(s)
        OBVIOUS
      <4>0. a \in Nat /\ b \in Nat
        <5>1. \A x, y \in Nat : x + y \in Nat
          OBVIOUS
        <5>2. p * CellsPerPage \in Nat /\ k * Size(s) \in Nat /\ Size(s) \in Nat
          BY <1>1, <2>3
        <5>3. QED
          BY ONLY <4>1, <5>1, <5>2, Zenon
      <4>2. here = a .. a + b - 1
        BY <1>1, <2>3, <4>1
      <4>3. IsFiniteSet(a .. a + b - 1)
            /\ Cardinality(a .. a + b - 1) = IF a > a + b - 1 THEN 0 ELSE (a + b - 1) - a + 1
        <5>1. a + b - 1 \in Int /\ a \in Int
          BY <4>0
        <5>2. QED
          BY ONLY <5>1, FS_Interval
      <4>4. QED
        BY <4>0, <4>1, <4>2, <4>3
    <3>4. ChunkCells(p, upto(k)) \cap here = {}
      <4>1. \A x, y, z \in Nat : (x .. x + y - 1) \cap (x + y .. x + z - 1) = {}
        OBVIOUS
      <4>2. p * CellsPerPage \in Nat /\ k * Size(s) \in Nat /\ (k + 1) * Size(s) \in Nat
        BY <1>1, <2>3, SMTT(30)
      <4>3. (p * CellsPerPage .. p * CellsPerPage + k * Size(s) - 1) \cap here = {}
        BY ONLY <2>3, <4>1, <4>2
      <4>4. QED
        BY <2>1, <4>3, Zenon
    <3>5. /\ IsFiniteSet(ChunkCells(p, upto(k)) \cup here)
          /\ Cardinality(ChunkCells(p, upto(k)) \cup here) =
               Cardinality(ChunkCells(p, upto(k))) + Size(s)
      <4>1. /\ IsFiniteSet(ChunkCells(p, upto(k)) \cup here)
            /\ Cardinality(ChunkCells(p, upto(k)) \cup here) =
                 Cardinality(ChunkCells(p, upto(k))) + Cardinality(here)
                   - Cardinality(ChunkCells(p, upto(k)) \cap here)
        BY <2>1, <3>3, FS_Union
      <4>2. Cardinality({}) = 0 /\ Cardinality(ChunkCells(p, upto(k))) \in Nat
        BY <2>1, FS_EmptySet, FS_CardinalityType
      <4>3. /\ Cardinality(ChunkCells(p, upto(k)) \cap here) = 0
            /\ Cardinality(here) = Size(s) /\ Size(s) \in Nat
        BY <1>1, <3>3, <3>4, <4>2
      <4>4. QED
        BY <4>1, <4>2, <4>3
    <3>6. IsFiniteSet(upto(k) \cup {k})
          /\ Cardinality(upto(k) \cup {k}) = Cardinality(upto(k)) + 1
          /\ Cardinality(upto(k)) \in Nat
      BY <2>1, <3>1, FS_AddElement, FS_CardinalityType
    <3>7. (Cardinality(upto(k)) + 1) * Size(s) = Cardinality(upto(k)) * Size(s) + Size(s)
      BY <1>1, <3>6, OneMore
    <3>8. ChunkCells(p, upto(k)) \cup here
            \subseteq p * CellsPerPage .. p * CellsPerPage + (k + 1) * Size(s) - 1
      <4>1. PICK B, y, z : B = p * CellsPerPage /\ y = k * Size(s) /\ z = Size(s)
        OBVIOUS
      <4>2. B \in Nat /\ y \in Nat /\ z \in Nat /\ (k + 1) * Size(s) = y + z
        BY <1>1, <2>3, <4>1
      <4>3. ChunkCells(p, upto(k)) \subseteq B .. B + y - 1 /\ here = B + y .. B + (y + z) - 1
        BY <2>1, <2>3, <4>1, <4>2
      <4>4. ChunkCells(p, upto(k)) \cup here \subseteq B .. B + (y + z) - 1
        BY <4>2, <4>3
      <4>5. QED
        BY <4>1, <4>2, <4>4
    <3>9. Good(k + 1)
      BY <2>1, <3>1, <3>2, <3>5, <3>6, <3>7, <3>8
    <3> HIDE DEF Good
    <3>10. QED
      BY <3>9
  <2>6. QED
    BY <2>4, <2>5
<1>4. Chunks[s] \in T
  <2> HIDE DEF T
  <2>1. \A k \in 0 .. Chunks[s] : k \in T
    BY <1>1, <1>2, <1>3, UpTo
  <2>2. QED
    BY <1>1, <2>1
<1>5. upto(Chunks[s]) = S
  BY <1>0
<1>6. (p + 1) * CellsPerPage = p * CellsPerPage + CellsPerPage
  BY <1>1, OneMore
<1> HIDE DEF upto
<1>7. Good(Chunks[s])
  BY <1>4
<1>8. QED
  BY <1>1, <1>5, <1>6, <1>7

(* Which of the parts of length z a number is in.                          *)
LEMMA PartOf ==
  ASSUME NEW d \in Nat, NEW z \in Nat, z > 0
  PROVE  \E i \in Nat : i * z <= d /\ d < (i + 1) * z /\ i * z \in Nat /\ (i + 1) * z = i * z + z
<1>1. PICK i : i = d \div z
  OBVIOUS
<1>2. i \in Nat /\ z * i <= d /\ d < z * i + z
  BY <1>1
<1>3. (i + 1) * z = i * z + z /\ i * z \in Nat /\ i * z = z * i
  BY <1>2, OneMore
<1>4. QED
  BY <1>2, <1>3

(* Each cell of a page is in one of its chunks.                            *)
LEMMA InChunk ==
  ASSUME NEW p \in Nat, NEW s \in Slot,
         NEW c \in p * CellsPerPage .. (p + 1) * CellsPerPage - 1
  PROVE  \E i \in 0 .. Chunks[s] - 1 : c \in CellsOf(Chunk(p, s, i))
<1>1. /\ Size(s) \in Nat /\ Size(s) > 0 /\ Chunks[s] * Size(s) = CellsPerPage
      /\ Chunks[s] \in Nat /\ CellsPerPage \in Nat
  BY Sizes, PagesAssumption, SlotAssumption
<1>2. p * CellsPerPage \in Nat /\ (p + 1) * CellsPerPage = p * CellsPerPage + CellsPerPage
  BY <1>1, OneMore
<1>3. PICK d \in Nat : c = p * CellsPerPage + d /\ d < CellsPerPage
  <2>1. c - p * CellsPerPage \in Nat /\ c - p * CellsPerPage < CellsPerPage
        /\ c = p * CellsPerPage + (c - p * CellsPerPage)
    BY <1>1, <1>2
  <2>2. QED
    BY <2>1
<1>4. PICK i \in Nat : /\ i * Size(s) <= d /\ d < (i + 1) * Size(s) /\ i * Size(s) \in Nat
                       /\ (i + 1) * Size(s) = i * Size(s) + Size(s)
  BY <1>1, PartOf
<1>5. i < Chunks[s]
  <2> SUFFICES ASSUME Chunks[s] <= i PROVE FALSE
    BY <1>1
  <2>1. Chunks[s] * Size(s) <= i * Size(s)
    BY ONLY <1>1, i \in Nat, Chunks[s] <= i, Product
  <2>2. QED
    BY <1>1, <1>3, <1>4, <2>1
<1>6. c \in CellsOf(Chunk(p, s, i))
  <2>1. CellsOf(Chunk(p, s, i)) =
          p * CellsPerPage + i * Size(s) .. p * CellsPerPage + (i + 1) * Size(s) - 1
    BY ChunkOf
  <2>2. p * CellsPerPage + d \in
          p * CellsPerPage + i * Size(s) .. p * CellsPerPage + (i + 1) * Size(s) - 1
    BY <1>1, <1>2, <1>4
  <2>3. QED
    BY <1>3, <2>1, <2>2
<1>7. QED
  BY <1>1, <1>5, <1>6

(* The extents of the blocks lie side by side and fill the pool.           *)
LEMMA Extents ==
  ASSUME PageInv, BlockInv
  PROVE  /\ \A p \in Page :
              /\ p \in Nat /\ page[p].n \in Nat /\ p + page[p].n <= Pages
              /\ p * CellsPerPage \in Nat /\ (p + page[p].n) * CellsPerPage \in Nat
              /\ (p + page[p].n) * CellsPerPage <= Pages * CellsPerPage
              /\ Extent(p) # {} => p \in First
         /\ \A p, o \in First : p # o => Extent(p) \cap Extent(o) = {}
         /\ \A c \in 0 .. Pages * CellsPerPage - 1 : \E p \in First : c \in Extent(p)
<1>1. Pages \in Nat /\ CellsPerPage \in Nat /\ CellsPerPage > 0 /\ Pages * CellsPerPage \in Nat
  BY PagesAssumption
<1>2. ASSUME NEW p \in Page
      PROVE  /\ p \in Nat /\ page[p].n \in Nat /\ p + page[p].n <= Pages
             /\ p * CellsPerPage \in Nat /\ (p + page[p].n) * CellsPerPage \in Nat
             /\ (p + page[p].n) * CellsPerPage <= Pages * CellsPerPage
             /\ Extent(p) # {} => p \in First
  <2>1. p \in Nat /\ page[p].n \in Nat /\ p + page[p].n <= Pages
    BY <1>1 DEF PageInv, BlockInv, Page
  <2>2. p + page[p].n \in Nat
    BY <2>1
  <2>3. p * CellsPerPage \in Nat /\ (p + page[p].n) * CellsPerPage \in Nat
        /\ (p + page[p].n) * CellsPerPage <= Pages * CellsPerPage
    <3>1. p * CellsPerPage \in Nat
      BY <1>1, <2>1
    <3>2. QED
      BY ONLY <1>1, <2>1, <2>2, <3>1, Product
  <2>4. ASSUME page[p].n = 0 PROVE Extent(p) = {}
    <3>1. p + page[p].n = p
      BY <2>1, <2>4
    <3>2. Extent(p) = p * CellsPerPage .. p * CellsPerPage - 1
      BY <3>1 DEF Extent
    <3>3. \A x \in Nat : x .. x - 1 = {}
      OBVIOUS
    <3>4. QED
      BY <2>3, <3>2, <3>3
  <2>5. QED
    BY <2>1, <2>3, <2>4 DEF First
<1>3. ASSUME NEW p \in First, NEW o \in First, p < o
      PROVE  Extent(p) \cap Extent(o) = {}
  <2>1. p \in Page /\ o \in Page
    BY DEF First
  <2>2. p + page[p].n <= o /\ p + page[p].n \in Nat /\ o \in Nat
    BY <1>2, <1>3, <2>1 DEF BlockInv
  <2>3. (p + page[p].n) * CellsPerPage <= o * CellsPerPage
    BY ONLY <1>1, <2>2, Product
  <2>4. \A a, b, c, d \in Nat : b <= c => (a .. b - 1) \cap (c .. d - 1) = {}
    OBVIOUS
  <2>5. QED
    BY <1>2, <2>1, <2>3, <2>4 DEF Extent
<1>4. \A p, o \in First : p # o => Extent(p) \cap Extent(o) = {}
  <2>1. \A p \in First : p \in Nat
    BY <1>2 DEF First
  <2>2. \A p, o \in First : p # o => p < o \/ o < p
    BY <2>1
  <2>3. QED
    BY <1>3, <2>2
<1>5. ASSUME NEW c \in 0 .. Pages * CellsPerPage - 1
      PROVE  \E p \in First : c \in Extent(p)
  <2>1. c \in Nat /\ c < Pages * CellsPerPage
    BY <1>1
  <2>2. PICK q \in Nat : /\ q * CellsPerPage <= c /\ c < (q + 1) * CellsPerPage
                         /\ q * CellsPerPage \in Nat
    BY <1>1, <2>1, PartOf
  <2>3. q < Pages
    <3> SUFFICES ASSUME Pages <= q PROVE FALSE
      BY <1>1
    <3>1. Pages * CellsPerPage <= q * CellsPerPage
      BY ONLY <1>1, q \in Nat, Pages <= q, Product
    <3>2. QED
      BY <1>1, <2>1, <2>2, <3>1
  <2>4. q \in Page
    BY <1>1, <2>3 DEF Page
  <2>5. PICK p \in First : q \in p .. p + page[p].n - 1
    BY <2>4 DEF BlockInv
  <2>6. p \in Page
    BY DEF First
  <2>7. p <= q /\ q + 1 <= p + page[p].n /\ p \in Nat /\ p + page[p].n \in Nat /\ q + 1 \in Nat
    BY <1>2, <2>5, <2>6
  <2>8. p * CellsPerPage <= q * CellsPerPage
    BY ONLY <1>1, q \in Nat, <2>7, Product
  <2>9. (q + 1) * CellsPerPage <= (p + page[p].n) * CellsPerPage /\ (q + 1) * CellsPerPage \in Nat
    BY ONLY <1>1, <2>7, Product
  <2>10. p * CellsPerPage \in Nat /\ (p + page[p].n) * CellsPerPage \in Nat
    BY <1>2, <2>6
  <2>11. p * CellsPerPage <= c /\ c < (p + page[p].n) * CellsPerPage
    BY ONLY <2>1, <2>2, <2>8, <2>9, <2>10
  <2>12. \A a, b \in Nat : \A x \in Nat : a <= x /\ x < b => x \in a .. b - 1
    OBVIOUS
  <2>13. QED
    BY <2>1, <2>10, <2>11, <2>12 DEF Extent
<1>6. QED
  BY <1>2, <1>4, <1>5

(* A page that is not inside a block is used, free, or cut into chunks     *)
(* that are.                                                               *)
LEMMA PartsOf ==
  ASSUME Inv, NEW p \in Page
  PROVE  /\ UsedCells(p) \subseteq Extent(p) /\ FreeCells(p) \subseteq Extent(p)
         /\ SpareCells(p) \subseteq Extent(p)
         /\ FreeCells(p) \cap UsedCells(p) = {} /\ FreeCells(p) \cap SpareCells(p) = {}
         /\ p \in First => Extent(p) \subseteq UsedCells(p) \cup FreeCells(p) \cup SpareCells(p)
         /\ IsFiniteSet(UsedCells(p)) /\ IsFiniteSet(FreeCells(p))
         /\ Cardinality(FreeCells(p)) = (IF page[p].is = "free" THEN page[p].n ELSE 0) * CellsPerPage
         /\ Cardinality(UsedCells(p)) =
              IF page[p].is = "start" THEN page[p].n * CellsPerPage
              ELSE IF page[p].is \in Slot
              THEN Cardinality(page[p].used) * Size(page[p].is) ELSE 0
<1>0. PageInv /\ BlockInv /\ HeldInv
  BY DEF Inv
<1>1. /\ p \in Nat /\ page[p].n \in Nat
      /\ p * CellsPerPage \in Nat /\ (p + page[p].n) * CellsPerPage \in Nat
  BY <1>0, Extents
<1>2. CellsPerPage \in Nat /\ 0 * CellsPerPage = 0
  BY PagesAssumption
<1>3. /\ "free" # "start" /\ "free" # "busy" /\ "start" # "busy"
      /\ "free" \notin Slot /\ "start" \notin Slot /\ "busy" \notin Slot
  BY SlotAssumption
<1>4. IsFiniteSet({}) /\ Cardinality({}) = 0
  BY FS_EmptySet
<1>5. IsFiniteSet(Extent(p)) /\ Cardinality(Extent(p)) = page[p].n * CellsPerPage
  <2>1. PICK a, m : a = p * CellsPerPage /\ m = page[p].n * CellsPerPage
    OBVIOUS
  <2>2. a \in Nat /\ m \in Nat
    BY <1>1, <1>2, <2>1
  <2>3. (p + page[p].n) * CellsPerPage = a + m
    <3>1. \A x, y, z \in Nat : (x + y) * z = x * z + y * z
      OBVIOUS
    <3>2. QED
      BY ONLY <1>1, <1>2, <2>1, <3>1
  <2>4. Extent(p) = a .. a + m - 1
    BY <2>1, <2>3 DEF Extent
  <2>5. a + m - 1 \in Int /\ a \in Int
    BY <2>2
  <2>6. IsFiniteSet(a .. a + m - 1)
        /\ Cardinality(a .. a + m - 1) = IF a > a + m - 1 THEN 0 ELSE (a + m - 1) - a + 1
    BY ONLY <2>5, FS_Interval
  <2>7. QED
    BY <2>1, <2>2, <2>4, <2>6
<1>6. page[p].is \in Kinds
  BY <1>0 DEF PageInv
<1>7. CASE page[p].is = "free"
  <2>1. UsedCells(p) = {} /\ SpareCells(p) = {} /\ FreeCells(p) = Extent(p)
    BY <1>3, <1>7 DEF UsedCells, SpareCells, FreeCells, Extent
  <2>2. QED
    BY <1>3, <1>4, <1>5, <1>7, <2>1
<1>8. CASE page[p].is = "start"
  <2>1. UsedCells(p) = Extent(p) /\ SpareCells(p) = {} /\ FreeCells(p) = {}
    BY <1>3, <1>8 DEF UsedCells, SpareCells, FreeCells, Extent
  <2>2. QED
    BY <1>2, <1>3, <1>4, <1>5, <1>8, <2>1
<1>9. CASE page[p].is = "busy"
  <2>1. UsedCells(p) = {} /\ SpareCells(p) = {} /\ FreeCells(p) = {}
    BY <1>3, <1>9 DEF UsedCells, SpareCells, FreeCells
  <2>2. p \notin First
    BY <1>0, <1>9 DEF BlockInv, First
  <2>3. QED
    BY <1>2, <1>3, <1>4, <1>9, <2>1, <2>2
<1>10. CASE page[p].is \in Slot
  <2>1. PICK s \in Slot : s = page[p].is
    BY <1>10
  <2>2. page[p].used \in SUBSET (0 .. Chunks[s] - 1) /\ page[p].n = 1
    BY <1>0, <2>1 DEF BlockInv, HeldInv
  <2>3. PICK rest : rest = (0 .. Chunks[s] - 1) \ page[p].used
    OBVIOUS
  <2>4. UsedCells(p) = ChunkCells(p, page[p].used) /\ SpareCells(p) = ChunkCells(p, rest)
        /\ FreeCells(p) = {}
    BY <1>3, <2>1, <2>3 DEF UsedCells, SpareCells, FreeCells
  <2>5. Extent(p) = p * CellsPerPage .. (p + 1) * CellsPerPage - 1
    BY <2>2 DEF Extent
  <2>6. /\ ChunkCells(p, page[p].used) \subseteq Extent(p)
        /\ IsFiniteSet(ChunkCells(p, page[p].used))
        /\ Cardinality(ChunkCells(p, page[p].used)) = Cardinality(page[p].used) * Size(s)
    BY <1>1, <2>1, <2>2, <2>5, ChunkCount
  <2>7. ChunkCells(p, rest) \subseteq Extent(p)
    <3>1. rest \in SUBSET (0 .. Chunks[s] - 1)
      BY <2>3
    <3>2. QED
      BY <1>1, <2>1, <2>5, <3>1, ChunkCount
  <2>8. Extent(p) \subseteq ChunkCells(p, page[p].used) \cup ChunkCells(p, rest)
    <3>1. ASSUME NEW c \in Extent(p)
          PROVE  c \in ChunkCells(p, page[p].used) \/ c \in ChunkCells(p, rest)
      <4>1. c \in p * CellsPerPage .. (p + 1) * CellsPerPage - 1
        BY <2>5
      <4>2. PICK i \in 0 .. Chunks[s] - 1 : c \in CellsOf(Chunk(p, s, i))
        BY <1>1, <4>1, InChunk
      <4>3. i \in page[p].used \/ i \in rest
        BY <2>3
      <4>4. QED
        BY <2>1, <4>2, <4>3 DEF ChunkCells
    <3>2. QED
      BY <3>1
  <2>9. QED
    BY <1>2, <1>3, <1>4, <2>1, <2>4, <2>6, <2>7, <2>8
<1>11. QED
  BY <1>6, <1>7, <1>8, <1>9, <1>10 DEF Kinds

Held == UNION {CellsOf(a) : a \in live}
CutPages == {p \in Page : page[p].is \in Slot}
Bitmaps == UNION {ChunkCells(p, 0 .. Reserved[page[p].is] - 1) : p \in CutPages}
Spare == UNION {ChunkCells(p, (0 .. Chunks[page[p].is] - 1) \ page[p].used) : p \in CutPages}

(* What is in use is what the pages count for, page by page.               *)
LEMMA InUse ==
  ASSUME Inv
  PROVE  Held \cup Bitmaps = UNION {UsedCells(p) : p \in Page}
<1>0. PageInv /\ BlockInv /\ HeldInv
  BY DEF Inv
<1>1. /\ "start" \notin Slot /\ "pages" \notin Slot
      /\ \A s \in Slot : Reserved[s] \in Nat
  BY SlotAssumption
<1>2. ASSUME NEW c \in Held PROVE \E p \in Page : c \in UsedCells(p)
  <2>1. PICK a \in live : c \in CellsOf(a)
    BY DEF Held
  <2>2. a \in [is : {"pages"} \cup Slot, first : Page, n : Nat]
    BY <1>0 DEF HeldInv
  <2>3. PICK p \in Page : p = a.first
    BY <2>2
  <2>4. CASE a.is = "pages"
    <3>1. a = WholePages(p, a.n)
      BY <2>2, <2>3, <2>4 DEF WholePages
    <3>2. page[p].is = "start" /\ page[p].n = a.n
      BY <1>0, <2>2, <3>1 DEF HeldInv
    <3>3. CellsOf(a) = UsedCells(p)
      BY <2>3, <2>4, <3>2 DEF CellsOf, UsedCells
    <3>4. QED
      BY <2>1, <3>3
  <2>5. CASE a.is \in Slot
    <3>1. a = Chunk(p, a.is, a.n)
      BY <2>2, <2>3 DEF Chunk
    <3>2. page[p].is = a.is /\ a.n \in page[p].used
      BY <1>0, <2>2, <2>5, <3>1 DEF HeldInv
    <3>3. UsedCells(p) = ChunkCells(p, page[p].used)
      BY <1>1, <2>5, <3>2 DEF UsedCells
    <3>4. c \in ChunkCells(p, page[p].used)
      BY <2>1, <3>1, <3>2 DEF ChunkCells
    <3>5. QED
      BY <3>3, <3>4
  <2>6. QED
    BY <2>2, <2>4, <2>5
<1>3. ASSUME NEW c \in Bitmaps PROVE \E p \in Page : c \in UsedCells(p)
  <2>1. PICK p \in CutPages : c \in ChunkCells(p, 0 .. Reserved[page[p].is] - 1)
    BY DEF Bitmaps
  <2>2. p \in Page /\ page[p].is \in Slot /\ 0 .. Reserved[page[p].is] - 1 \subseteq page[p].used
    BY <1>0 DEF CutPages, HeldInv
  <2>3. UsedCells(p) = ChunkCells(p, page[p].used)
    BY <1>1, <2>2 DEF UsedCells
  <2>4. c \in ChunkCells(p, page[p].used)
    BY <2>1, <2>2 DEF ChunkCells
  <2>5. QED
    BY <2>2, <2>3, <2>4
<1>4. ASSUME NEW p \in Page, NEW c \in UsedCells(p) PROVE c \in Held \cup Bitmaps
  <2>1. CASE page[p].is = "start"
    <3>1. page[p].n \in Nat
      BY <1>0, PagesAssumption DEF PageInv
    <3>2. WholePages(p, page[p].n) \in live
      BY <1>0, <2>1, <3>1 DEF HeldInv
    <3>3. CellsOf(WholePages(p, page[p].n)) = UsedCells(p)
      BY <2>1 DEF CellsOf, UsedCells, WholePages
    <3>4. QED
      BY <1>4, <3>2, <3>3 DEF Held
  <2>2. CASE page[p].is \in Slot
    <3>1. PICK s \in Slot : s = page[p].is
      BY <2>2
    <3>2. PICK i \in page[p].used : c \in CellsOf(Chunk(p, s, i))
      BY <1>1, <1>4, <3>1 DEF UsedCells, ChunkCells
    <3>3. i \in Nat
      BY <1>0 DEF PageInv
    <3>4. CASE i >= Reserved[s]
      <4>1. Chunk(p, s, i) \in live
        BY <1>0, <3>1, <3>3, <3>4 DEF HeldInv
      <4>2. QED
        BY <3>2, <4>1 DEF Held
    <3>5. CASE i < Reserved[s]
      <4>1. i \in 0 .. Reserved[s] - 1
        BY <1>1, <3>3, <3>5
      <4>2. p \in CutPages
        BY <3>1 DEF CutPages
      <4>3. c \in ChunkCells(p, 0 .. Reserved[page[p].is] - 1)
        BY <3>1, <3>2, <4>1 DEF ChunkCells
      <4>4. QED
        BY <4>2, <4>3 DEF Bitmaps
    <3>6. QED
      BY <1>1, <3>3, <3>4, <3>5
  <2>3. QED
    BY <1>4, <2>1, <2>2 DEF UsedCells
<1>5. QED
  BY <1>2, <1>3, <1>4

(* The rest of the pool is what is counted as free and the free chunks.    *)
LEMMA NotInUse ==
  ASSUME Inv
  PROVE  (0 .. Pages * CellsPerPage - 1) \ (Held \cup Bitmaps \cup Spare)
           = UNION {FreeCells(p) : p \in Page}
<1>0. PageInv /\ BlockInv
  BY DEF Inv
<1>1. Spare = UNION {SpareCells(p) : p \in Page}
  BY DEF Spare, SpareCells, CutPages
<1>2. ASSUME NEW c \in 0 .. Pages * CellsPerPage - 1, c \notin Held \cup Bitmaps \cup Spare
      PROVE  \E p \in Page : c \in FreeCells(p)
  <2>1. PICK p \in First : c \in Extent(p)
    BY <1>0, Extents
  <2>2. p \in Page
    BY DEF First
  <2>3. c \notin UsedCells(p) /\ c \notin SpareCells(p)
    BY <1>1, <1>2, <2>2, InUse
  <2>4. QED
    BY <2>1, <2>2, <2>3, PartsOf
<1>3. ASSUME NEW p \in Page, NEW c \in FreeCells(p)
      PROVE  c \in 0 .. Pages * CellsPerPage - 1 /\ c \notin Held \cup Bitmaps \cup Spare
  <2>1. c \in Extent(p)
    BY PartsOf
  <2>2. /\ p * CellsPerPage \in Nat /\ (p + page[p].n) * CellsPerPage \in Nat
        /\ (p + page[p].n) * CellsPerPage <= Pages * CellsPerPage
        /\ p \in First
    BY <1>0, <2>1, Extents
  <2>3. c \in 0 .. Pages * CellsPerPage - 1
    <3>1. Pages * CellsPerPage \in Nat
      BY PagesAssumption
    <3>2. \A a, b, x, y \in Nat : b <= x /\ y \in a .. b - 1 => y \in 0 .. x - 1
      OBVIOUS
    <3>3. c \in Nat /\ c \in p * CellsPerPage .. (p + page[p].n) * CellsPerPage - 1
      BY <2>1, <2>2 DEF Extent
    <3>4. QED
      BY ONLY <2>2, <3>1, <3>2, <3>3
  <2>4. ASSUME NEW q \in Page, c \in UsedCells(q) \/ c \in SpareCells(q) PROVE FALSE
    <3>1. c \in Extent(q) /\ q \in First
      BY <1>0, <2>4, PartsOf, Extents
    <3>2. q = p
      BY <1>0, <2>1, <2>2, <3>1, Extents
    <3>3. QED
      BY <1>3, <2>4, <3>2, PartsOf
  <2>5. QED
    BY <1>1, <2>3, <2>4, InUse
<1>4. QED
  BY <1>2, <1>3

(* The walk of ms_slab_stat: it goes from first page to first page, and    *)
(* has counted what lies behind it.                                        *)
UsedTo(i) == UNION {UsedCells(q) : q \in 0 .. i - 1}
FreeTo(i) == UNION {FreeCells(q) : q \in 0 .. i - 1}
WalkState == [i : Nat, free : Nat, used : Nat]
CountedTo(s) ==
  /\ s \in WalkState /\ s.i \in First \cup {Pages}
  /\ UsedTo(s.i) \cup FreeTo(s.i) \subseteq 0 .. s.i * CellsPerPage - 1
  /\ IsFiniteSet(UsedTo(s.i)) /\ s.used = Cardinality(UsedTo(s.i))
  /\ IsFiniteSet(FreeTo(s.i)) /\ s.free * CellsPerPage = Cardinality(FreeTo(s.i))

(* Sets that lie side by side are counted one by one.                      *)
LEMMA SideBySide ==
  ASSUME NEW A, NEW B, IsFiniteSet(A), IsFiniteSet(B), A \cap B = {}
  PROVE  /\ IsFiniteSet(A \cup B)
         /\ Cardinality(A \cup B) = Cardinality(A) + Cardinality(B)
         /\ Cardinality(A) \in Nat /\ Cardinality(B) \in Nat
<1>1. /\ IsFiniteSet(A \cup B)
      /\ Cardinality(A \cup B) = Cardinality(A) + Cardinality(B) - Cardinality(A \cap B)
  BY FS_Union
<1>2. Cardinality(A) \in Nat /\ Cardinality(B) \in Nat
  BY FS_CardinalityType
<1>3. Cardinality(A \cap B) = 0
  BY FS_EmptySet
<1>4. QED
  BY <1>1, <1>2, <1>3

LEMMA CountedType ==
  ASSUME Inv, NEW s \in WalkState
  PROVE  Counted(s) \in WalkState
<1>1. CASE s.i >= Pages
  BY <1>1 DEF Counted
<1>2. CASE ~(s.i >= Pages)
  <2>1. s.i \in Page /\ s.i \in Nat /\ s.free \in Nat /\ s.used \in Nat
    BY <1>2, PagesAssumption DEF WalkState, Page
  <2>2. PICK p \in Page : p = s.i
    BY <2>1
  <2>3. page[p].n \in Nat
    BY PagesAssumption DEF Inv, PageInv
  <2> DEFINE fresh == IF page[p].is = "free" THEN page[p].n ELSE 0
             used == IF page[p].is = "start" THEN page[p].n * CellsPerPage
                     ELSE IF page[p].is \in Slot
                     THEN Cardinality(page[p].used) * Size(page[p].is) ELSE 0
  <2>4. fresh \in Nat
    BY <2>3
  <2>5. used \in Nat
    <3>1. IsFiniteSet(UsedCells(p)) /\ Cardinality(UsedCells(p)) = used
      BY PartsOf
    <3>2. QED
      BY <3>1, FS_CardinalityType
  <2>6. Counted(s) = [i |-> s.i + page[p].n, free |-> s.free + fresh, used |-> s.used + used]
    BY <1>2, <2>2 DEF Counted
  <2> HIDE DEF fresh, used
  <2>7. QED
    BY <2>1, <2>3, <2>4, <2>5, <2>6 DEF WalkState
<1>3. QED
  BY <1>1, <1>2

LEMMA CountedOn ==
  ASSUME Inv, NEW s, CountedTo(s)
  PROVE  /\ CountedTo(Counted(s))
         /\ s.i # Pages => Counted(s).i > s.i
         /\ s.i = Pages => Counted(s) = s
<1>0. PageInv /\ BlockInv
  BY DEF Inv
<1>1. CASE s.i = Pages
  BY <1>1, PagesAssumption DEF Counted
<1>2. CASE s.i # Pages
  <2>1. PICK p \in First : p = s.i
    BY <1>2 DEF CountedTo
  <2>2. /\ p \in Page /\ p \in Nat /\ page[p].n \in Nat /\ page[p].n > 0
        /\ p + page[p].n <= Pages /\ p < Pages /\ Pages \in Nat
    <3>1. p \in Page /\ page[p].n > 0
      BY DEF First
    <3>2. p \in Nat /\ page[p].n \in Nat /\ p + page[p].n <= Pages
      BY <1>0, <3>1, Extents
    <3>3. QED
      BY <3>1, <3>2, PagesAssumption
  <2> DEFINE m == p + page[p].n
             fresh == IF page[p].is = "free" THEN page[p].n ELSE 0
             used == IF page[p].is = "start" THEN page[p].n * CellsPerPage
                     ELSE IF page[p].is \in Slot
                     THEN Cardinality(page[p].used) * Size(page[p].is) ELSE 0
  <2>3. Counted(s) = [i |-> m, free |-> s.free + fresh, used |-> s.used + used]
    <3>1. ~(s.i >= Pages)
      BY <2>1, <2>2
    <3>2. QED
      BY <2>1, <3>1 DEF Counted
  <2>4. /\ UsedCells(p) \subseteq Extent(p) /\ FreeCells(p) \subseteq Extent(p)
        /\ IsFiniteSet(UsedCells(p)) /\ IsFiniteSet(FreeCells(p))
        /\ Cardinality(FreeCells(p)) = fresh * CellsPerPage /\ Cardinality(UsedCells(p)) = used
    BY <2>2, PartsOf
  <2>5. ASSUME NEW q \in p + 1 .. m - 1
        PROVE  UsedCells(q) = {} /\ FreeCells(q) = {}
    <3>0. PICK b \in p + 1 .. p + page[p].n - 1 : b = q
      BY <2>2
    <3>4. b \in Page /\ b \notin First
      BY ONLY <1>0, Interior, p \in First, b \in p + 1 .. p + page[p].n - 1
    <3>1. q \in Page /\ q \notin First
      BY <3>0, <3>4
    <3>2. Extent(q) = {}
      BY <1>0, <3>1, Extents
    <3>3. QED
      BY <3>1, <3>2, PartsOf
  <2>6. m \in Nat /\ 0 .. m - 1 = (0 .. p - 1) \cup {p} \cup (p + 1 .. m - 1)
    BY <2>2
  <2>7. UsedTo(m) = UsedTo(p) \cup UsedCells(p)
    BY <2>5, <2>6 DEF UsedTo
  <2>8. FreeTo(m) = FreeTo(p) \cup FreeCells(p)
    BY <2>5, <2>6 DEF FreeTo
  <2>9. fresh \in Nat
    BY <2>2
  <2>10. m \in First \cup {Pages}
    <3>1. CASE m = Pages
      BY <3>1
    <3>2. CASE m # Pages
      <4>1. m \in Page
        BY <2>2, <3>2 DEF Page
      <4>2. PICK o \in First : m \in o .. o + page[o].n - 1
        BY <1>0, <4>1 DEF BlockInv
      <4>3. o \in Nat /\ page[o].n \in Nat
        BY <1>0, Extents DEF First
      <4>4. ASSUME o < m PROVE FALSE
        <5>1. CASE o = p
          BY <2>2, <4>2, <5>1
        <5>2. CASE o < p
          <6>1. o + page[o].n <= p
            BY <1>0, <5>2 DEF BlockInv
          <6>2. QED
            BY <2>2, <4>2, <4>3, <6>1
        <5>3. CASE p < o
          <6>1. p + page[p].n <= o
            BY <1>0, <5>3 DEF BlockInv
          <6>2. QED
            BY <2>2, <4>3, <4>4, <6>1
        <5>4. QED
          BY <2>2, <4>3, <5>1, <5>2, <5>3
      <4>5. o = m
        BY <2>2, <4>2, <4>3, <4>4
      <4>6. QED
        BY <4>5
    <3>3. QED
      BY <3>1, <3>2
  <2>11. m > p
    BY <2>2
  <2>12. Extent(p) = p * CellsPerPage .. m * CellsPerPage - 1
    BY DEF Extent
  <2> HIDE DEF m, fresh, used
  <2>13. /\ p * CellsPerPage \in Nat /\ m * CellsPerPage \in Nat
         /\ p * CellsPerPage <= m * CellsPerPage /\ CellsPerPage \in Nat
    <3>1. CellsPerPage \in Nat /\ p <= m
      BY <2>2, <2>6, <2>11, PagesAssumption
    <3>2. QED
      BY <2>2, <2>6, <3>1, Product
  <2>14. /\ UsedTo(p) \subseteq 0 .. p * CellsPerPage - 1
         /\ FreeTo(p) \subseteq 0 .. p * CellsPerPage - 1
         /\ IsFiniteSet(UsedTo(p)) /\ s.used = Cardinality(UsedTo(p))
         /\ IsFiniteSet(FreeTo(p)) /\ s.free * CellsPerPage = Cardinality(FreeTo(p))
         /\ s.free \in Nat
    BY <2>1 DEF CountedTo, WalkState
  <2>15. ASSUME NEW A \in SUBSET (0 .. p * CellsPerPage - 1), NEW B \in SUBSET Extent(p)
         PROVE  A \cap B = {} /\ A \cup B \subseteq 0 .. m * CellsPerPage - 1
    <3>1. \A x, y \in Nat : x <= y => /\ (0 .. x - 1) \cap (x .. y - 1) = {}
                                      /\ (0 .. x - 1) \cup (x .. y - 1) \subseteq 0 .. y - 1
      OBVIOUS
    <3>2. /\ (0 .. p * CellsPerPage - 1) \cap Extent(p) = {}
          /\ (0 .. p * CellsPerPage - 1) \cup Extent(p) \subseteq 0 .. m * CellsPerPage - 1
      BY ONLY <2>12, <2>13, <3>1
    <3>3. QED
      BY <3>2
  <2>16. /\ UsedTo(p) \cap UsedCells(p) = {} /\ FreeTo(p) \cap FreeCells(p) = {}
         /\ UsedTo(m) \cup FreeTo(m) \subseteq 0 .. m * CellsPerPage - 1
    BY <2>4, <2>7, <2>8, <2>14, <2>15
  <2>17. IsFiniteSet(UsedTo(m)) /\ s.used + used = Cardinality(UsedTo(m))
    <3>1. /\ IsFiniteSet(UsedTo(p) \cup UsedCells(p))
          /\ Cardinality(UsedTo(p) \cup UsedCells(p)) =
               Cardinality(UsedTo(p)) + Cardinality(UsedCells(p))
      BY <2>4, <2>14, <2>16, SideBySide
    <3>2. QED
      BY <2>4, <2>7, <2>14, <3>1
  <2>18. IsFiniteSet(FreeTo(m)) /\ (s.free + fresh) * CellsPerPage = Cardinality(FreeTo(m))
    <3>1. \A x, y, z \in Nat : (x + y) * z = x * z + y * z
      OBVIOUS
    <3>2. (s.free + fresh) * CellsPerPage = s.free * CellsPerPage + fresh * CellsPerPage
      BY <2>9, <2>13, <2>14, <3>1
    <3>3. /\ IsFiniteSet(FreeTo(p) \cup FreeCells(p))
          /\ Cardinality(FreeTo(p) \cup FreeCells(p)) =
               Cardinality(FreeTo(p)) + Cardinality(FreeCells(p))
      BY <2>4, <2>14, <2>16, SideBySide
    <3>4. QED
      BY <2>4, <2>8, <2>14, <3>2, <3>3
  <2>19. Counted(s) \in WalkState
    BY CountedType DEF CountedTo
  <2>20. CountedTo(Counted(s))
    BY <2>3, <2>10, <2>16, <2>17, <2>18, <2>19 DEF CountedTo
  <2>21. QED
    BY <1>2, <2>1, <2>3, <2>11, <2>20
<1>3. QED
  BY <1>1, <1>2

(* What the walk ends with.                                                *)
LEMMA StatCounted ==
  ASSUME Inv
  PROVE  CountedTo(Stat) /\ Stat.i = Pages
<1> DEFINE none == [i |-> 0, free |-> 0, used |-> 0]
           F(f) == [k \in 0 .. Pages |-> IF k = 0 THEN none ELSE Counted(f[k - 1])]
           after == CHOOSE f : f = F(f)
<1>0. Pages \in Nat /\ 0 \in Nat /\ 0 <= Pages
  BY PagesAssumption
<1>1. none \in WalkState
  BY DEF WalkState
<1>2. \E f : f = F(f)
  <2>1. PICK step : step = [k \in 0 + 1 .. Pages |-> [x \in WalkState |-> Counted(x)]]
    OBVIOUS
  <2>2. step \in [0 + 1 .. Pages -> [WalkState -> WalkState]]
    BY <2>1, CountedType
  <2>3. PICK f : IsLoop(f, 0, Pages, none, WalkState, step)
    <3> HIDE DEF none
    <3>1. QED
      BY <1>0, <1>1, <2>2, Iterated
  <2> HIDE DEF none
  <2>4. f \in [0 .. Pages -> WalkState]
        /\ f = [k \in 0 .. Pages |-> IF k = 0 THEN none ELSE step[k][f[k - 1]]]
    BY <2>3 DEF IsLoop
  <2>5. ASSUME NEW k \in 0 .. Pages
        PROVE  f[k] = IF k = 0 THEN none ELSE Counted(f[k - 1])
    <3>1. f[k] = IF k = 0 THEN none ELSE step[k][f[k - 1]]
      BY <2>4
    <3>2. k # 0 => k \in 0 + 1 .. Pages /\ k - 1 \in 0 .. Pages /\ f[k - 1] \in WalkState
      BY <1>0, <2>4
    <3>3. k # 0 => step[k][f[k - 1]] = Counted(f[k - 1])
      BY <2>1, <3>2
    <3>4. QED
      BY <3>1, <3>3
  <2>6. f = [k \in 0 .. Pages |-> f[k]]
    BY <2>4
  <2>7. f = F(f)
    BY <2>5, <2>6
  <2>8. QED
    BY <2>7
<1>3. after = F(after)
  <2> HIDE DEF F
  <2>1. QED
    BY <1>2
<1>4. Stat = after[Pages]
  BY DEF Stat
<1> HIDE DEF after
<1>5. \A k \in 0 .. Pages : after[k] = IF k = 0 THEN none ELSE Counted(after[k - 1])
  BY <1>3
<1> HIDE DEF F
<1> DEFINE T == {k \in Nat : CountedTo(after[k]) /\ (after[k].i >= k \/ after[k].i = Pages)}
<1>6. 0 \in T
  <2>1. after[0] = none
    BY <1>0, <1>5
  <2>2. UsedTo(0) = {} /\ FreeTo(0) = {}
    BY DEF UsedTo, FreeTo
  <2>3. 0 \in First
    <3>1. 0 \in Page
      BY PagesAssumption DEF Page
    <3>2. PICK p \in First : 0 \in p .. p + page[p].n - 1
      BY <3>1 DEF Inv, BlockInv
    <3>3. p \in Nat
      BY PagesAssumption DEF First, Page
    <3>4. QED
      BY <3>2, <3>3
  <2>4. IsFiniteSet({}) /\ Cardinality({}) = 0 /\ 0 * CellsPerPage = 0
    BY FS_EmptySet, PagesAssumption
  <2>5. CountedTo(none)
    <3>1. none.i = 0 /\ none.free = 0 /\ none.used = 0
      OBVIOUS
    <3> HIDE DEF none
    <3>2. QED
      BY <1>1, <2>2, <2>3, <2>4, <3>1 DEF CountedTo
  <2>6. QED
    BY <2>1, <2>5
<1>7. ASSUME NEW k \in Nat, k < Pages, k \in T PROVE k + 1 \in T
  <2>1. CountedTo(after[k]) /\ (after[k].i >= k \/ after[k].i = Pages)
    BY <1>7
  <2>2. after[k + 1] = Counted(after[k])
    <3>1. k + 1 \in 0 .. Pages /\ k + 1 # 0 /\ (k + 1) - 1 = k
      BY <1>0, <1>7
    <3>2. QED
      BY <1>5, <3>1
  <2>3. CountedTo(after[k + 1])
    BY <2>1, <2>2, CountedOn
  <2>4. after[k + 1].i >= k + 1 \/ after[k + 1].i = Pages
    <3>1. CASE after[k].i = Pages
      BY <2>1, <2>2, <3>1, CountedOn
    <3>2. CASE after[k].i # Pages
      <4>1. after[k + 1].i > after[k].i
        BY <2>1, <2>2, <3>2, CountedOn
      <4>2. after[k].i \in Nat /\ after[k + 1].i \in Nat /\ after[k].i >= k
        BY <2>1, <2>3, <3>2 DEF CountedTo, WalkState
      <4>3. QED
        BY <4>1, <4>2
    <3>3. QED
      BY <3>1, <3>2
  <2>5. QED
    BY <2>3, <2>4
<1>8. Pages \in T
  <2> HIDE DEF T
  <2>1. \A k \in 0 .. Pages : k \in T
    BY <1>0, <1>6, <1>7, UpTo
  <2>2. QED
    BY <1>0, <2>1
<1>9. CountedTo(Stat) /\ (Stat.i >= Pages \/ Stat.i = Pages)
  BY <1>4, <1>8
<1>10. Stat.i \in Page \cup {Pages}
  BY <1>9 DEF CountedTo, First
<1>11. QED
  BY <1>0, <1>9, <1>10 DEF Page

(* The figures of ms_slab_stat are right however the pool is cut up.       *)
THEOREM StatIsAlwaysRight == Spec => []StatIsRight
<1>1. ASSUME Inv PROVE StatIsRight
  <2>1. CountedTo(Stat) /\ Stat.i = Pages
    BY <1>1, StatCounted
  <2>2. UsedTo(Pages) = UNION {UsedCells(p) : p \in Page}
        /\ FreeTo(Pages) = UNION {FreeCells(p) : p \in Page}
    BY DEF UsedTo, FreeTo, Page
  <2>3. UsedTo(Pages) = Held \cup Bitmaps
    BY <1>1, <2>2, InUse
  <2>4. FreeTo(Pages) = (0 .. Pages * CellsPerPage - 1) \ (Held \cup Bitmaps \cup Spare)
    BY <1>1, <2>2, NotInUse
  <2>5. Stat.used = Cardinality(Held \cup Bitmaps)
    BY <2>1, <2>3 DEF CountedTo
  <2>6. Stat.free * CellsPerPage =
          Cardinality((0 .. Pages * CellsPerPage - 1) \ (Held \cup Bitmaps \cup Spare))
    BY <2>1, <2>4 DEF CountedTo
  <2>7. QED
    BY <2>5, <2>6, Zenon DEF StatIsRight, Held, Bitmaps, Spare, CutPages
<1>2. QED
  BY <1>1, PoolStaysSound, PTL
=============================================================================
