--------------------------- MODULE RowDecodeProofs ---------------------------
(***************************************************************************)
(* Rows events are taken apart where the master put them together, proved  *)
(* about RowDecode for any rows events.                                    *)
(***************************************************************************)
EXTENDS RowDecode, FiniteSetTheorems, SequenceTheorems, WellFoundedInduction, TLAPS

-----------------------------------------------------------------------------
(* A set of natural numbers has a least one.                               *)
LEMMA LeastNat ==
  ASSUME NEW T \in SUBSET Nat, T # {}
  PROVE  \E m \in T : \A k \in T : m <= k
<1> DEFINE below == {pair \in Nat \X Nat : pair[1] < pair[2]}
<1>1. OpToRel(<, Nat) = below
  BY DEF OpToRel
<1>2. IsWellFoundedOn(below, Nat)
  BY <1>1, NatLessThanWellFounded
<1>3. PICK m \in T : \A k \in T : <<k, m>> \notin below
  BY <1>2, WFMin
<1>4. ASSUME NEW k \in T, k < m PROVE FALSE
  <2>1. <<k, m>> \in below
    BY <1>4
  <2>2. QED
    BY <1>3, <2>1
<1>5. QED
  BY <1>4

(* A set that has 0, and the successor of each number up to n that it has, *)
(* has all numbers up to n: no least one is missing.  It is stated of a    *)
(* set and not of a predicate, so that it can be cited.                    *)
LEMMA UpTo ==
  ASSUME NEW n \in Nat, NEW S, 0 \in S,
         \A k \in Nat : k < n /\ k \in S => k + 1 \in S
  PROVE  \A k \in 0 .. n : k \in S
<1> DEFINE missing == {k \in Nat : k <= n /\ k \notin S}
<1> SUFFICES ASSUME missing # {} PROVE FALSE
  OBVIOUS
<1>1. PICK m \in missing : \A k \in missing : m <= k
  BY LeastNat
<1>2. m # 0 /\ m - 1 \in Nat /\ m - 1 < n /\ m - 1 \notin missing
  BY <1>1
<1>3. (m - 1) + 1 \in S
  BY <1>2
<1>4. QED
  BY <1>1, <1>3

(* What a loop from m to n makes of a, step by step: a function that is    *)
(* defined by its value before.                                            *)
IsLoop(f, m, n, a, A, step) ==
  f \in [m .. n -> A] /\ f = [k \in m .. n |-> IF k = m THEN a ELSE step[k][f[k - 1]]]

LEMMA Iterated ==
  ASSUME NEW m \in Nat, NEW n \in Nat, m <= n, NEW A, NEW a \in A,
         NEW step \in [m + 1 .. n -> [A -> A]]
  PROVE  \E f : IsLoop(f, m, n, a, A, step)
<1> DEFINE Good(f, r) == f[m] = a /\ \A k \in m + 1 .. m + r : f[k] = step[k][f[k - 1]]
           S == {r \in 0 .. n - m : \E f \in [m .. m + r -> A] : Good(f, r)}
<1>1. 0 \in S
  <2>1. PICK f : f = [k \in m .. m + 0 |-> a]
    OBVIOUS
  <2>2. f \in [m .. m + 0 -> A] /\ Good(f, 0)
    BY <2>1
  <2>3. QED
    BY <2>2
<1>2. ASSUME NEW r \in Nat, r < n - m, r \in S PROVE r + 1 \in S
  <2>1. PICK f \in [m .. m + r -> A] : Good(f, r)
    BY <1>2
  <2>2. PICK last : last = m + r + 1
    OBVIOUS
  <2>3. /\ last \in m + 1 .. n /\ last - 1 \in m .. m + r /\ last \notin m .. m + r
        /\ m .. m + (r + 1) = (m .. m + r) \cup {last}
        /\ m + 1 .. m + (r + 1) = (m + 1 .. m + r) \cup {last}
    BY <1>2, <2>2
  <2>4. PICK v \in A : v = step[last][f[last - 1]]
    BY <2>3
  <2>5. PICK g : g = [k \in m .. m + (r + 1) |-> IF k = last THEN v ELSE f[k]]
    OBVIOUS
  <2>6. \A k \in m .. m + r : k # last /\ g[k] = f[k] /\ f[k] \in A
    BY <2>3, <2>5
  <2>7. g[last] = v
    BY <2>3, <2>5
  <2>8. g \in [m .. m + (r + 1) -> A]
    BY <2>3, <2>5, <2>6
  <2>9. ASSUME NEW k \in m + 1 .. m + (r + 1) PROVE g[k] = step[k][g[k - 1]]
    <3>1. CASE k = last
      <4>1. g[k - 1] = f[last - 1]
        BY <2>3, <2>6, <3>1
      <4>2. QED
        BY <2>4, <2>7, <3>1, <4>1
    <3>2. CASE k # last
      <4>1. k \in m + 1 .. m + r /\ k \in m .. m + r /\ k - 1 \in m .. m + r
        BY <2>3, <3>2
      <4>2. QED
        BY <2>1, <2>6, <4>1
    <3>3. QED
      BY <3>1, <3>2
  <2>10. g[m] = a
    <3>1. m \in m .. m + r
      OBVIOUS
    <3>2. QED
      BY <2>1, <2>6, <3>1
  <2>11. Good(g, r + 1) /\ r + 1 \in 0 .. n - m
    BY <1>2, <2>9, <2>10
  <2> HIDE DEF Good
  <2>12. QED
    BY <2>8, <2>11
<1>3. n - m \in S
  <2> HIDE DEF S
  <2>1. n - m \in Nat
    OBVIOUS
  <2>2. \A k \in 0 .. n - m : k \in S
    BY <1>1, <1>2, <2>1, UpTo
  <2>3. QED
    BY <2>1, <2>2
<1>4. PICK f \in [m .. m + (n - m) -> A] : Good(f, n - m)
  BY <1>3
<1>5. m + (n - m) = n
  OBVIOUS
<1>6. f = [k \in m .. n |-> f[k]]
  BY <1>5
<1>7. ASSUME NEW k \in m .. n PROVE f[k] = IF k = m THEN a ELSE step[k][f[k - 1]]
  BY <1>4, <1>5
<1>8. f = [k \in m .. n |-> IF k = m THEN a ELSE step[k][f[k - 1]]]
  BY <1>6, <1>7
<1>9. IsLoop(f, m, n, a, A, step)
  BY <1>5, <1>8 DEF IsLoop
<1>10. QED
  BY <1>9

(* The loop keeps what each step keeps, given for each place as a set.     *)
LEMMA Kept ==
  ASSUME NEW m \in Nat, NEW n \in Nat, m <= n, NEW f, NEW A,
         f[m] \in A[m],
         \A k \in m + 1 .. n : f[k - 1] \in A[k - 1] => f[k] \in A[k]
  PROVE  \A k \in m .. n : f[k] \in A[k]
<1> DEFINE S == {r \in 0 .. n - m : f[m + r] \in A[m + r]}
<1>1. 0 \in S
  OBVIOUS
<1>2. ASSUME NEW r \in Nat, r < n - m, r \in S PROVE r + 1 \in S
  <2>1. PICK k : k = m + r + 1
    OBVIOUS
  <2>2. k \in m + 1 .. n /\ k - 1 = m + r /\ m + (r + 1) = k /\ r + 1 \in 0 .. n - m
    BY <1>2, <2>1
  <2>3. f[k - 1] \in A[k - 1]
    BY <1>2, <2>2
  <2>4. QED
    BY <2>2, <2>3
<1>3. \A r \in 0 .. n - m : r \in S
  <2> HIDE DEF S
  <2>1. QED
    BY <1>1, <1>2, UpTo
<1>4. ASSUME NEW k \in m .. n PROVE f[k] \in A[k]
  <2>1. k - m \in 0 .. n - m /\ m + (k - m) = k
    OBVIOUS
  <2>2. QED
    BY <1>3, <2>1
<1>5. QED
  BY <1>4

-----------------------------------------------------------------------------
(* Sums and joined sequences.                                              *)
AddsUp(t, m, n, a, g) == t[m] = a /\ \A k \in m + 1 .. n : t[k] = t[k - 1] + g[k]

IsSum(t, m, n, a, g) ==
  t \in [m .. n -> Nat] /\ t = [k \in m .. n |-> IF k = m THEN a ELSE t[k - 1] + g[k]]

LEMMA SumExists ==
  ASSUME NEW m \in Nat, NEW n \in Nat, m <= n, NEW a \in Nat, NEW g,
         \A k \in m + 1 .. n : g[k] \in Nat
  PROVE  \E t : IsSum(t, m, n, a, g)
<1>1. PICK step : step = [k \in m + 1 .. n |-> [x \in Nat |-> x + g[k]]]
  OBVIOUS
<1>2. step \in [m + 1 .. n -> [Nat -> Nat]]
  <2>1. \A k \in m + 1 .. n : [x \in Nat |-> x + g[k]] \in [Nat -> Nat]
    OBVIOUS
  <2>2. QED
    BY <1>1, <2>1
<1>3. PICK t : IsLoop(t, m, n, a, Nat, step)
  BY <1>2, Iterated
<1>4. t \in [m .. n -> Nat] /\ t = [k \in m .. n |-> IF k = m THEN a ELSE step[k][t[k - 1]]]
  BY <1>3 DEF IsLoop
<1>5. ASSUME NEW k \in m .. n
      PROVE  t[k] = IF k = m THEN a ELSE t[k - 1] + g[k]
  <2>1. t[k] = IF k = m THEN a ELSE step[k][t[k - 1]]
    BY <1>4
  <2>2. k # m => k \in m + 1 .. n /\ k - 1 \in m .. n /\ t[k - 1] \in Nat
    BY <1>4
  <2>3. k # m => step[k][t[k - 1]] = t[k - 1] + g[k]
    BY <1>1, <2>2
  <2>4. QED
    BY <2>1, <2>3
<1>6. t = [k \in m .. n |-> t[k]]
  BY <1>4
<1>7. t = [k \in m .. n |-> IF k = m THEN a ELSE t[k - 1] + g[k]]
  BY <1>5, <1>6
<1>8. IsSum(t, m, n, a, g)
  BY <1>4, <1>7 DEF IsSum
<1>9. QED
  BY <1>8

LEMMA SumIs ==
  ASSUME NEW m \in Nat, NEW n \in Nat, m <= n, NEW a \in Nat, NEW g,
         \A k \in m + 1 .. n : g[k] \in Nat,
         NEW t, t = [k \in m .. n |-> IF k = m THEN a ELSE t[k - 1] + g[k]]
  PROVE  t \in [m .. n -> Nat] /\ AddsUp(t, m, n, a, g)
<1>1. ASSUME NEW k \in m .. n PROVE t[k] = IF k = m THEN a ELSE t[k - 1] + g[k]
  OBVIOUS
<1>2. AddsUp(t, m, n, a, g)
  BY <1>1 DEF AddsUp
<1>3. \A k \in m .. n : t[k] \in Nat
  <2>1. PICK A : A = [k \in m .. n |-> Nat]
    OBVIOUS
  <2>2. t[m] \in A[m]
    BY <1>1, <2>1
  <2>3. ASSUME NEW k \in m + 1 .. n, t[k - 1] \in A[k - 1] PROVE t[k] \in A[k]
    <3>1. k \in m .. n /\ k - 1 \in m .. n /\ k # m
      OBVIOUS
    <3>2. QED
      BY <1>1, <2>1, <2>3, <3>1
  <2>4. \A k \in m .. n : t[k] \in A[k]
    BY <2>2, <2>3, Kept
  <2>5. QED
    BY <2>1, <2>4
<1>4. t = [k \in m .. n |-> t[k]]
  OBVIOUS
<1>5. QED
  BY <1>2, <1>3, <1>4

(* Totals of natural numbers grow. *)
LEMMA Grows ==
  ASSUME NEW m \in Nat, NEW n \in Nat, NEW a \in Nat, NEW g,
         \A k \in m + 1 .. n : g[k] \in Nat,
         NEW t \in [m .. n -> Nat], AddsUp(t, m, n, a, g),
         NEW k \in m .. n
  PROVE  \A l \in k .. n : t[k] <= t[l]
<1>1. PICK A : A = [l \in k .. n |-> {x \in Nat : t[k] <= x}]
  OBVIOUS
<1>2. t[k] \in A[k]
  BY <1>1
<1>3. ASSUME NEW l \in k + 1 .. n, t[l - 1] \in A[l - 1] PROVE t[l] \in A[l]
  <2>1. l \in m + 1 .. n /\ l \in k .. n /\ l - 1 \in k .. n
    OBVIOUS
  <2>2. t[l] = t[l - 1] + g[l] /\ g[l] \in Nat
    BY <2>1 DEF AddsUp
  <2>3. QED
    BY <1>1, <1>3, <2>1, <2>2
<1>4. \A l \in k .. n : t[l] \in A[l]
  <2>1. k \in Nat /\ n \in Nat /\ k <= n
    OBVIOUS
  <2>2. QED
    BY <1>2, <1>3, <2>1, Kept
<1>5. QED
  BY <1>1, <1>4

(* Sequences g[1] .. g[n] begin behind t[0] .. t[n - 1] in what they are   *)
(* joined to.                                                              *)
Places(t, g, n) ==
  t \in [0 .. n -> Nat] /\ t[0] = 0 /\ \A k \in 1 .. n : t[k] = t[k - 1] + Len(g[k])

Joined(s, g, t, n, S) ==
  /\ s \in Seq(S) /\ Len(s) = t[n]
  /\ \A k \in 1 .. n : \A x \in 1 .. Len(g[k]) :
       t[k - 1] + x \in 1 .. t[n] /\ s[t[k - 1] + x] = g[k][x]

LEMMA PlacesExist ==
  ASSUME NEW S, NEW n \in Nat, NEW g \in [1 .. n -> Seq(S)]
  PROVE  \E t : Places(t, g, n)
<1>1. PICK l : l = [k \in 1 .. n |-> Len(g[k])]
  OBVIOUS
<1>2. \A k \in 0 + 1 .. n : l[k] \in Nat
  BY <1>1
<1>3. PICK t : IsSum(t, 0, n, 0, l)
  <2>1. 0 \in Nat /\ 0 <= n
    OBVIOUS
  <2>2. QED
    BY <1>2, <2>1, SumExists
<1>4. t \in [0 .. n -> Nat] /\ t[0] = 0
  BY <1>3 DEF IsSum
<1>5. ASSUME NEW k \in 1 .. n PROVE t[k] = t[k - 1] + Len(g[k])
  <2>1. k \in 0 .. n /\ k # 0
    OBVIOUS
  <2>2. t[k] = IF k = 0 THEN 0 ELSE t[k - 1] + l[k]
    BY <1>3, <2>1 DEF IsSum
  <2>3. QED
    BY <1>1, <2>1, <2>2
<1>6. Places(t, g, n)
  BY <1>4, <1>5 DEF Places
<1>7. QED
  BY <1>6

LEMMA PlacesGrow ==
  ASSUME NEW S, NEW n \in Nat, NEW g \in [1 .. n -> Seq(S)], NEW t, Places(t, g, n),
         NEW k \in 0 .. n, NEW l \in k .. n
  PROVE  t[k] <= t[l]
<1>1. PICK h : h = [x \in 1 .. n |-> Len(g[x])]
  OBVIOUS
<1>2. \A x \in 0 + 1 .. n : h[x] \in Nat
  BY <1>1
<1>3. t \in [0 .. n -> Nat] /\ AddsUp(t, 0, n, 0, h)
  BY <1>1 DEF Places, AddsUp
<1>4. QED
  BY <1>2, <1>3, Grows

(* FlattenSeq of the community modules. *)
(* A sequence behind another. *)
LEMMA Behind ==
  ASSUME NEW S, NEW s \in Seq(S), NEW q \in Seq(S), NEW x \in 1 .. Len(q)
  PROVE  (s \o q)[Len(s) + x] = q[x]
OBVIOUS

LEMMA Flattened ==
  ASSUME NEW S, NEW n \in Nat, NEW g \in [1 .. n -> Seq(S)], NEW t, Places(t, g, n)
  PROVE  Joined(FlattenSeq(g), g, t, n, S)
<1>1. g \in Seq(Seq(S)) /\ Len(g) = n
  OBVIOUS
<1>2. t \in [0 .. n -> Nat] /\ t[0] = 0 /\ \A k \in 1 .. n : t[k] = t[k - 1] + Len(g[k])
  BY DEF Places
<1>3. CASE n = 0
  <2>1. FlattenSeq(g) = g
    BY <1>1, <1>3 DEF FlattenSeq
  <2>2. g = <<>>
    BY <1>1, <1>3
  <2>3. QED
    BY <1>1, <1>2, <1>3, <2>1, <2>2 DEF Joined
<1>4. CASE n # 0
  <2>1. 1 \in 1 .. n /\ 1 \in Nat /\ 1 <= n
    BY <1>4
  <2> DEFINE G(f) == [k \in 1 .. n |-> IF k = 1 THEN g[k] ELSE f[k - 1] \o g[k]]
             fl == CHOOSE f : f = G(f)
  <2>2. \E f : f = G(f)
    <3>1. PICK step : step = [k \in 1 + 1 .. n |-> [x \in Seq(S) |-> x \o g[k]]]
      OBVIOUS
    <3>2. step \in [1 + 1 .. n -> [Seq(S) -> Seq(S)]]
      <4>1. ASSUME NEW k \in 1 + 1 .. n, NEW x \in Seq(S) PROVE x \o g[k] \in Seq(S)
        <5>1. g[k] \in Seq(S)
          OBVIOUS
        <5>2. QED
          BY <5>1
      <4>2. QED
        BY <3>1, <4>1
    <3>3. g[1] \in Seq(S)
      BY <2>1
    <3>4. PICK f : IsLoop(f, 1, n, g[1], Seq(S), step)
      <4>1. PICK A : A = Seq(S)
        OBVIOUS
      <4>2. g[1] \in A /\ step \in [1 + 1 .. n -> [A -> A]]
        BY <3>2, <3>3, <4>1
      <4>3. \E f : IsLoop(f, 1, n, g[1], A, step)
        BY <2>1, <4>2, Iterated
      <4>4. QED
        BY <4>1, <4>3
    <3>5. f \in [1 .. n -> Seq(S)] /\ f = [k \in 1 .. n |-> IF k = 1 THEN g[1] ELSE step[k][f[k - 1]]]
      BY <3>4 DEF IsLoop
    <3>6. ASSUME NEW k \in 1 .. n PROVE f[k] = IF k = 1 THEN g[k] ELSE f[k - 1] \o g[k]
      <4>1. f[k] = IF k = 1 THEN g[1] ELSE step[k][f[k - 1]]
        BY <3>5
      <4>2. k # 1 => k \in 1 + 1 .. n /\ k - 1 \in 1 .. n /\ f[k - 1] \in Seq(S)
        BY <3>5
      <4>3. k # 1 => step[k][f[k - 1]] = f[k - 1] \o g[k]
        BY <3>1, <4>2
      <4>4. QED
        BY <4>1, <4>3
    <3>7. f = [k \in 1 .. n |-> f[k]]
      BY <3>5
    <3>8. f = G(f)
      BY <3>6, <3>7
    <3>9. QED
      BY <3>8
  <2>3. fl = G(fl)
    <3> HIDE DEF G
    <3>1. QED
      BY <2>2
  <2>4. FlattenSeq(g) = fl[n]
    BY <1>1, <1>4 DEF FlattenSeq
  <2> HIDE DEF fl
  <2>5. ASSUME NEW k \in 1 .. n PROVE fl[k] = IF k = 1 THEN g[k] ELSE fl[k - 1] \o g[k]
    BY <2>3
  <2> HIDE DEF G
  <2>6. PICK A : A = [k \in 1 .. n |-> {s \in Seq(S) : Len(s) = t[k] /\
                        \A l \in 1 .. k : \A x \in 1 .. Len(g[l]) : s[t[l - 1] + x] = g[l][x]}]
    OBVIOUS
  <2>7. fl[1] \in A[1]
    <3>1. fl[1] = g[1] /\ g[1] \in Seq(S)
      BY <2>1, <2>5
    <3>2. Len(g[1]) \in Nat /\ t[1] = Len(g[1]) /\ t[1 - 1] = 0
      BY <1>2, <2>1, <3>1
    <3>3. \A l \in 1 .. 1 : \A x \in 1 .. Len(g[l]) : g[1][t[l - 1] + x] = g[l][x]
      BY <3>2
    <3>4. QED
      BY <2>1, <2>6, <3>1, <3>2, <3>3
  <2>8. ASSUME NEW k \in 1 + 1 .. n, fl[k - 1] \in A[k - 1] PROVE fl[k] \in A[k]
    <3>1. k \in 1 .. n /\ k - 1 \in 1 .. n /\ k # 1 /\ k - 1 \in 0 .. n
      OBVIOUS
    <3>2. PICK s : s = fl[k - 1]
      OBVIOUS
    <3>3. /\ s \in Seq(S) /\ Len(s) = t[k - 1]
          /\ \A l \in 1 .. k - 1 : \A x \in 1 .. Len(g[l]) : s[t[l - 1] + x] = g[l][x]
      BY <2>6, <2>8, <3>1, <3>2
    <3>4. PICK q \in Seq(S) : q = g[k]
      BY <3>1
    <3>5. fl[k] = s \o q
      BY <2>5, <3>1, <3>2, <3>4
    <3>6. s \o q \in Seq(S) /\ Len(s \o q) = t[k]
      <4>1. t[k] = t[k - 1] + Len(q)
        BY <1>2, <3>1, <3>4
      <4>2. s \o q \in Seq(S) /\ Len(s \o q) = Len(s) + Len(q)
        BY <3>3, <3>4
      <4>3. QED
        BY <3>3, <4>1, <4>2
    <3>7. ASSUME NEW l \in 1 .. k, NEW x \in 1 .. Len(g[l])
          PROVE  (s \o q)[t[l - 1] + x] = g[l][x]
      <4>1. l \in 1 .. n /\ l - 1 \in 0 .. n /\ l \in 0 .. n /\ t[l] \in Nat /\ t[l - 1] \in Nat
        BY <1>2, <3>1, SMTT(30)
      <4>2. t[l] = t[l - 1] + Len(g[l]) /\ Len(g[l]) \in Nat
        BY <1>2, <4>1
      <4>3. CASE l = k
        <5>1. t[l - 1] = Len(s) /\ Len(g[l]) = Len(q)
          BY <3>3, <3>4, <4>3
        <5>2. x \in 1 .. Len(q) /\ g[l] = q
          BY <3>4, <4>3
        <5>3. s \in Seq(S) /\ q \in Seq(S)
          BY <3>3, <3>4
        <5>4. (s \o q)[Len(s) + x] = q[x]
          BY <5>2, <5>3, Behind, ZenonT(30)
        <5>5. QED
          BY <5>1, <5>2, <5>4
      <4>4. CASE l # k
        <5>1. l \in 1 .. k - 1 /\ k - 1 \in l .. n
          BY <4>4
        <5>2. t[l] <= t[k - 1]
          BY <4>1, <5>1, PlacesGrow
        <5>3. t[l - 1] + x \in 1 .. Len(s)
          <6>1. Len(s) = t[k - 1] /\ t[k - 1] \in Nat
            BY <1>2, <3>1, <3>3
          <6>2. \A u, w, z \in Nat : u + w <= z /\ x <= w => u + x \in 1 .. z
            OBVIOUS
          <6>3. t[l - 1] + Len(g[l]) <= t[k - 1] /\ x <= Len(g[l])
            BY <4>2, <5>2
          <6>4. QED
            BY <4>1, <4>2, <6>1, <6>2, <6>3
        <5>4. (s \o q)[t[l - 1] + x] = s[t[l - 1] + x]
          BY <3>3, <3>4, <5>3
        <5>5. QED
          BY <3>3, <5>1, <5>4
      <4>5. QED
        BY <4>3, <4>4
    <3>8. QED
      BY <2>6, <3>1, <3>5, <3>6, <3>7
  <2>9. n \in 1 .. n /\ \A k \in 1 .. n : fl[k] \in A[k]
    <3>1. \A k \in 1 .. n : fl[k] \in A[k]
      BY <2>1, <2>7, <2>8, Kept
    <3>2. QED
      BY <1>4, <3>1
  <2>10. /\ fl[n] \in Seq(S) /\ Len(fl[n]) = t[n]
         /\ \A k \in 1 .. n : \A x \in 1 .. Len(g[k]) : fl[n][t[k - 1] + x] = g[k][x]
    BY <2>6, <2>9
  <2>11. ASSUME NEW k \in 1 .. n, NEW x \in 1 .. Len(g[k]) PROVE t[k - 1] + x \in 1 .. t[n]
    <3>1. k \in 0 .. n /\ n \in k .. n /\ k - 1 \in 0 .. n
      OBVIOUS
    <3>2. t[k] <= t[n]
      BY <3>1, PlacesGrow
    <3>3. t[k] = t[k - 1] + Len(g[k]) /\ Len(g[k]) \in Nat /\ t[k - 1] \in Nat /\ t[n] \in Nat
      BY <1>2, <3>1
    <3>4. QED
      BY <3>2, <3>3
  <2>12. QED
    BY <2>4, <2>10, <2>11 DEF Joined
<1>5. QED
  BY <1>3, <1>4

-----------------------------------------------------------------------------
(* The texts of conv_2_json: a string takes what was measured for it.      *)
LEMMA One ==
  ASSUME NEW S, NEW b \in S
  PROVE  <<b>> \in Seq(S) /\ Len(<<b>>) = 1
OBVIOUS

Wide(b) == IF b \in DOMAIN J!Letter \cup {0} THEN 2 ELSE IF b < 32 THEN 6 ELSE 1

LEMMA EscapeSize ==
  ASSUME NEW b \in Byte
  PROVE  J!Escape(b) \in Seq(Byte) /\ (b # 0 => Len(J!Escape(b)) = Wide(b))
<1>1. DOMAIN J!Letter = {34, 92, 8, 12, 10, 13, 9}
  BY DEF J!Letter
<1>2. CASE b \in DOMAIN J!Letter
  <2>1. J!Letter[b] \in Byte
    BY <1>1, <1>2 DEF J!Letter, Byte
  <2>2. J!Escape(b) = <<J!Backslash, J!Letter[b]>>
    BY <1>2 DEF J!Escape
  <2>3. QED
    BY <1>2, <2>1, <2>2 DEF Wide, J!Backslash, Byte
<1>3. CASE b \notin DOMAIN J!Letter /\ b < 32
  <2>1. J!HexDigit(b \div 16) \in Byte
    BY <1>3 DEF J!HexDigit, Byte
  <2>2. J!Escape(b) = <<J!Backslash, 117, 48, 48, J!HexDigit(b \div 16), 0>>
    BY <1>3 DEF J!Escape
  <2>3. QED
    BY <1>3, <2>1, <2>2 DEF Wide, J!Backslash, Byte
<1>4. CASE b \notin DOMAIN J!Letter /\ ~ (b < 32)
  <2>1. J!Escape(b) = <<b>>
    BY <1>4 DEF J!Escape
  <2>2. QED
    BY <1>4, <2>1 DEF Wide
<1>5. QED
  BY <1>2, <1>3, <1>4

LEMMA WideNat ==
  ASSUME NEW b \in Byte
  PROVE  Wide(b) \in Nat
BY DEF Wide

(* What a string is measured as: its bytes' widths and the two quotes.     *)
LEMMA Measured ==
  ASSUME NEW src \in Seq(Byte), NEW t, IsSum(t, 0, Len(src), 0, [k \in 1 .. Len(src) |-> Wide(src[k])])
  PROVE  J!ms_json_enstring_len(src) = 2 + t[Len(src)]
<1> DEFINE n == Len(src)
           extra(b) == IF b \in DOMAIN J!Letter \cup {0} THEN 1 ELSE IF b < 32 THEN 5 ELSE 0
           F(f) == [k \in 0 .. Len(src) |-> IF k = 0 THEN 0 ELSE f[k - 1] + 1 + extra(src[k])]
           sum == CHOOSE f : f = F(f)
<1>1. n \in Nat /\ 0 \in Nat /\ 0 <= n /\ n \in 0 .. n
  OBVIOUS
<1>2. /\ t \in [0 .. n -> Nat]
      /\ t = [k \in 0 .. n |-> IF k = 0 THEN 0
                               ELSE t[k - 1] + [l \in 1 .. n |-> Wide(src[l])][k]]
  BY DEF IsSum
<1>3. ASSUME NEW k \in 1 .. n PROVE t[k] = t[k - 1] + 1 + extra(src[k]) /\ t[k - 1] \in Nat
  <2>1. k \in 0 .. n /\ k - 1 \in 0 .. n /\ k # 0
    OBVIOUS
  <2>2. t[k] = t[k - 1] + Wide(src[k]) /\ t[k - 1] \in Nat
    BY <1>2, <2>1
  <2>3. PICK e \in Nat : e = extra(src[k]) /\ Wide(src[k]) = 1 + e
    BY DEF Wide
  <2>4. t[k] = t[k - 1] + 1 + e
    BY <2>2, <2>3
  <2> HIDE DEF extra
  <2>5. QED
    BY <2>2, <2>3, <2>4
<1>4. t[0] = 0
  BY <1>2
<1> HIDE DEF n, extra
<1>5. t = F(t)
  <2>1. t = [k \in 0 .. n |-> t[k]]
    BY <1>2
  <2>2. ASSUME NEW k \in 0 .. n PROVE t[k] = IF k = 0 THEN 0 ELSE t[k - 1] + 1 + extra(src[k])
    <3>1. k # 0 => k \in 1 .. n
      BY <1>1
    <3>2. QED
      BY <1>3, <1>4, <3>1
  <2>3. QED
    BY <2>1, <2>2 DEF n
<1>6. sum = F(sum)
  <2> HIDE DEF F
  <2>1. QED
    BY <1>5
<1>7. J!ms_json_enstring_len(src) = 2 + sum[n]
  BY DEF J!ms_json_enstring_len, extra, n
<1> HIDE DEF sum
<1>8. ASSUME NEW k \in 0 .. n PROVE sum[k] = IF k = 0 THEN 0 ELSE sum[k - 1] + 1 + extra(src[k])
  BY <1>6 DEF n
<1> HIDE DEF F
<1>9. \A k \in 0 .. n : sum[k] = t[k]
  <2>1. PICK A : A = [k \in 0 .. n |-> {t[k]}]
    OBVIOUS
  <2>2. sum[0] \in A[0]
    BY <1>1, <1>4, <1>8, <2>1
  <2>3. ASSUME NEW k \in 0 + 1 .. n, sum[k - 1] \in A[k - 1] PROVE sum[k] \in A[k]
    <3>1. k \in 0 .. n /\ k - 1 \in 0 .. n /\ k \in 1 .. n /\ k # 0
      BY <1>1
    <3>2. sum[k - 1] = t[k - 1]
      BY <2>1, <2>3, <3>1
    <3>3. sum[k] = t[k]
      BY <1>3, <1>8, <3>1, <3>2
    <3>4. QED
      BY <2>1, <3>1, <3>3
  <2>4. \A k \in 0 .. n : sum[k] \in A[k]
    BY <1>1, <2>2, <2>3, Kept
  <2>5. QED
    BY <2>1, <2>4
<1>10. QED
  BY <1>1, <1>7, <1>9 DEF n

(* A string that has no zero byte takes what it was measured as.           *)
LEMMA StringFits ==
  ASSUME NEW src \in Seq(Byte)
  PROVE  /\ J!ms_json_enstring(src) \in Seq(Byte)
         /\ J!ms_json_enstring_len(src) \in Nat
         /\ (\A k \in DOMAIN src : src[k] # 0) =>
              Len(J!ms_json_enstring(src)) = J!ms_json_enstring_len(src)
<1> DEFINE n == Len(src)
           F(f) == [k \in 0 .. Len(src) |-> IF k = 0 THEN <<>> ELSE f[k - 1] \o J!Escape(src[k])]
           text == CHOOSE f : f = F(f)
           bare == \A k \in DOMAIN src : src[k] # 0
<1>1. n \in Nat /\ 0 \in Nat /\ 0 <= n /\ n \in 0 .. n /\ \A k \in 1 .. n : src[k] \in Byte
  OBVIOUS
<1>2. PICK t : IsSum(t, 0, n, 0, [k \in 1 .. n |-> Wide(src[k])])
  <2>1. PICK g : g = [k \in 1 .. n |-> Wide(src[k])]
    OBVIOUS
  <2>2. \A k \in 0 + 1 .. n : g[k] \in Nat
    BY <1>1, <2>1, WideNat
  <2> HIDE DEF n
  <2>3. \E t : IsSum(t, 0, n, 0, g)
    BY <1>1, <2>2, SumExists
  <2>4. QED
    BY <2>1, <2>3
<1>3. J!ms_json_enstring_len(src) = 2 + t[n]
  BY <1>2, Measured
<1>4. t \in [0 .. n -> Nat] /\ t[0] = 0 /\ \A k \in 1 .. n : t[k] = t[k - 1] + Wide(src[k])
  <2>1. /\ t \in [0 .. n -> Nat]
        /\ t = [k \in 0 .. n |-> IF k = 0 THEN 0
                                 ELSE t[k - 1] + [l \in 1 .. n |-> Wide(src[l])][k]]
    BY <1>2 DEF IsSum
  <2>2. ASSUME NEW k \in 1 .. n PROVE t[k] = t[k - 1] + Wide(src[k])
    <3>1. k \in 0 .. n /\ k # 0
      OBVIOUS
    <3>2. QED
      BY <2>1, <3>1
  <2>3. t[0] = 0
    BY <1>1, <2>1
  <2>4. QED
    BY <2>1, <2>2, <2>3
<1> HIDE DEF n
<1>5. \E f : f = F(f)
  <2>1. PICK A : A = Seq(Byte)
    OBVIOUS
  <2>2. PICK step : step = [k \in 0 + 1 .. n |-> [x \in A |-> x \o J!Escape(src[k])]]
    OBVIOUS
  <2>3. ASSUME NEW k \in 0 + 1 .. n, NEW x \in A PROVE x \o J!Escape(src[k]) \in A
    <3>1. src[k] \in Byte
      BY <1>1
    <3>2. J!Escape(src[k]) \in Seq(Byte)
      BY <3>1, EscapeSize
    <3>3. QED
      BY <2>1, <3>2
  <2>4. step \in [0 + 1 .. n -> [A -> A]] /\ <<>> \in A
    BY <2>1, <2>2, <2>3
  <2>5. PICK f : IsLoop(f, 0, n, <<>>, A, step)
    BY <1>1, <2>4, Iterated
  <2>6. f \in [0 .. n -> A] /\ f = [k \in 0 .. n |-> IF k = 0 THEN <<>> ELSE step[k][f[k - 1]]]
    BY <2>5 DEF IsLoop
  <2>7. ASSUME NEW k \in 0 .. n PROVE f[k] = IF k = 0 THEN <<>> ELSE f[k - 1] \o J!Escape(src[k])
    <3>1. f[k] = IF k = 0 THEN <<>> ELSE step[k][f[k - 1]]
      BY <2>6
    <3>2. k # 0 => k \in 0 + 1 .. n /\ k - 1 \in 0 .. n /\ f[k - 1] \in A
      BY <1>1, <2>6
    <3>3. k # 0 => step[k][f[k - 1]] = f[k - 1] \o J!Escape(src[k])
      BY <2>2, <3>2
    <3>4. QED
      BY <3>1, <3>3
  <2>8. f = [k \in 0 .. n |-> f[k]]
    BY <2>6
  <2>9. f = F(f)
    BY <2>7, <2>8 DEF n
  <2>10. QED
    BY <2>9
<1>6. text = F(text)
  <2> HIDE DEF F
  <2>1. QED
    BY <1>5
<1>7. J!ms_json_enstring(src) = <<J!Quote>> \o text[n] \o <<J!Quote>>
  BY DEF J!ms_json_enstring, n
<1> HIDE DEF text
<1>8. ASSUME NEW k \in 0 .. n PROVE text[k] = IF k = 0 THEN <<>> ELSE text[k - 1] \o J!Escape(src[k])
  BY <1>6 DEF n
<1> HIDE DEF F
<1>9. \A k \in 0 .. n : text[k] \in Seq(Byte) /\ (bare => Len(text[k]) = t[k])
  <2> HIDE DEF bare
  <2>1. PICK A : A = [k \in 0 .. n |-> {s \in Seq(Byte) : bare => Len(s) = t[k]}]
    OBVIOUS
  <2>2. text[0] \in A[0]
    <3>1. <<>> \in Seq(Byte) /\ Len(<<>>) = 0
      OBVIOUS
    <3>2. 0 \in 0 .. n /\ text[0] = <<>>
      BY <1>1, <1>8
    <3>3. QED
      BY <1>4, <2>1, <3>1, <3>2
  <2>3. ASSUME NEW k \in 0 + 1 .. n, text[k - 1] \in A[k - 1] PROVE text[k] \in A[k]
    <3>1. k \in 0 .. n /\ k - 1 \in 0 .. n /\ k \in 1 .. n /\ k # 0
      BY <1>1
    <3>2. PICK s \in Seq(Byte) : s = text[k - 1] /\ (bare => Len(s) = t[k - 1])
      BY <2>1, <2>3, <3>1
    <3>3. PICK e \in Seq(Byte) : e = J!Escape(src[k]) /\ (src[k] # 0 => Len(e) = Wide(src[k]))
      BY <1>1, <3>1, EscapeSize
    <3>4. text[k] = s \o e
      BY <1>8, <3>1, <3>2, <3>3
    <3>5. s \o e \in Seq(Byte) /\ Len(s \o e) = Len(s) + Len(e)
      OBVIOUS
    <3>6. bare => src[k] # 0
      BY <3>1 DEF bare, n
    <3>7. bare => Len(s \o e) = t[k]
      BY <1>4, <3>1, <3>2, <3>3, <3>5, <3>6
    <3>8. QED
      BY <2>1, <3>1, <3>4, <3>5, <3>7
  <2>4. \A k \in 0 .. n : text[k] \in A[k]
    BY <1>1, <2>2, <2>3, Kept
  <2>5. QED
    BY <2>1, <2>4
<1>10. PICK s \in Seq(Byte) : s = text[n] /\ (bare => Len(s) = t[n])
  BY <1>1, <1>9
<1>11. J!Quote \in Byte
  BY DEF J!Quote, Byte
<1>12. J!ms_json_enstring(src) \in Seq(Byte) /\ Len(J!ms_json_enstring(src)) = Len(s) + 2
  BY <1>7, <1>10, <1>11
<1>13. t[n] \in Nat
  BY <1>1, <1>4
<1>14. QED
  BY <1>3, <1>10, <1>12, <1>13

-----------------------------------------------------------------------------
(* The row of conv_2_json: its columns, and the memory for those so far.   *)
JsonColumn == [name : Seq(Byte), null : BOOLEAN, value : Seq(Byte)]

Cost(column) ==
  IF J!Skipped(column) THEN 0
  ELSE J!ms_json_enstring_len(column.name) + J!ms_json_enstring_len(column.value) + 2

Costs(columns) == [k \in 1 .. Len(columns) |-> Cost(columns[k])]
Frame == 19 + J!ms_json_enstring_len(J!meta)

(* The memory conv_2_json asks for holds what it has written so far, and   *)
(* the comma of the last column, the braces and the zero byte after that.  *)
RowInv ==
  /\ jpc \in {"idle", "measure", "write", "done"}
  /\ jrow \in Seq(JsonColumn) /\ ji \in 1 .. Len(jrow) + 1
  /\ jout \in Seq(Byte) /\ jsize \in Nat
  /\ jpc \in {"idle", "measure"} => jout = <<>>
  /\ \E M :
       /\ IsSum(M, 0, Len(jrow), Frame, Costs(jrow))
       /\ jpc = "measure" => jsize = M[ji - 1]
       /\ jpc = "write" => /\ jsize = M[Len(jrow)] /\ jout # <<>>
                           /\ ~ J!HasByte(jrow, {0}) => Len(jout) + 2 <= M[ji - 1]
       /\ jpc = "done" => (~ J!HasByte(jrow, {0}) => Len(jout) + 1 <= jsize)

LEMMA ColumnCost ==
  ASSUME NEW c \in JsonColumn
  PROVE  Cost(c) \in Nat
<1>1. J!ms_json_enstring_len(c.name) \in Nat /\ J!ms_json_enstring_len(c.value) \in Nat
  BY StringFits DEF JsonColumn
<1>2. QED
  BY <1>1 DEF Cost

LEMMA FrameSize ==
  /\ J!meta \in Seq(Byte) /\ Frame \in Nat
  /\ J!ms_json_enstring(J!meta) \in Seq(Byte)
  /\ Len(J!ms_json_enstring(J!meta)) + 19 = Frame
<1>1. J!meta \in Seq(Byte) /\ \A k \in DOMAIN J!meta : J!meta[k] # 0
  BY DEF J!meta, Byte
<1>2. QED
  BY <1>1, StringFits DEF Frame

LEMMA RowTotals ==
  ASSUME NEW columns \in Seq(JsonColumn)
  PROVE  \E M : IsSum(M, 0, Len(columns), Frame, Costs(columns))
<1>1. \A k \in 0 + 1 .. Len(columns) : Costs(columns)[k] \in Nat
  BY ColumnCost DEF Costs
<1>2. Len(columns) \in Nat /\ 0 \in Nat /\ 0 <= Len(columns)
  OBVIOUS
<1>3. QED
  BY <1>1, <1>2, FrameSize, SumExists

LEMMA RowTotal ==
  ASSUME NEW columns \in Seq(JsonColumn), NEW M,
         IsSum(M, 0, Len(columns), Frame, Costs(columns))
  PROVE  /\ M \in [0 .. Len(columns) -> Nat] /\ M[0] = Frame
         /\ \A k \in 1 .. Len(columns) : M[k] = M[k - 1] + Cost(columns[k])
         /\ \A k \in 0 .. Len(columns) : M[k] <= M[Len(columns)]
<1>1. /\ M \in [0 .. Len(columns) -> Nat]
      /\ M = [k \in 0 .. Len(columns) |-> IF k = 0 THEN Frame ELSE M[k - 1] + Costs(columns)[k]]
  BY DEF IsSum
<1>2. Len(columns) \in Nat /\ 0 \in Nat /\ 0 <= Len(columns)
  OBVIOUS
<1>3. \A k \in 0 + 1 .. Len(columns) : Costs(columns)[k] \in Nat /\ Costs(columns)[k] = Cost(columns[k])
  BY ColumnCost DEF Costs
<1>4. M[0] = Frame
  BY <1>1, <1>2
<1>5. ASSUME NEW k \in 1 .. Len(columns) PROVE M[k] = M[k - 1] + Costs(columns)[k]
  <2>1. k \in 0 .. Len(columns) /\ k # 0
    OBVIOUS
  <2>2. QED
    BY <1>1, <2>1
<1>6. AddsUp(M, 0, Len(columns), Frame, Costs(columns))
  BY <1>4, <1>5 DEF AddsUp
<1>7. ASSUME NEW k \in 0 .. Len(columns) PROVE M[k] <= M[Len(columns)]
  <2>1. Len(columns) \in k .. Len(columns)
    BY <1>2
  <2>2. QED
    BY <1>1, <1>2, <1>3, <1>6, <2>1, FrameSize, Grows
<1>8. \A k \in 1 .. Len(columns) : M[k] = M[k - 1] + Cost(columns[k])
  BY <1>2, <1>3, <1>5
<1>9. QED
  BY <1>1, <1>4, <1>7, <1>8

(* A column that is written takes what it was measured as.                 *)
LEMMA ColumnFits ==
  ASSUME NEW columns \in Seq(JsonColumn), NEW k \in 1 .. Len(columns),
         ~ J!Skipped(columns[k])
  PROVE  LET name == J!ms_json_enstring(columns[k].name)
             value == J!ms_json_enstring(columns[k].value)
         IN /\ name \in Seq(Byte) /\ value \in Seq(Byte)
            /\ ~ J!HasByte(columns, {0}) => Len(name) + Len(value) + 2 = Cost(columns[k])
<1> DEFINE c == columns[k]
<1>1. c.name \in Seq(Byte) /\ c.value \in Seq(Byte)
  <2>1. columns[k] \in JsonColumn
    OBVIOUS
  <2>2. QED
    BY <2>1 DEF JsonColumn
<1>2. ASSUME ~ J!HasByte(columns, {0}) PROVE \A s \in {c.name, c.value} : \A x \in DOMAIN s : s[x] # 0
  <2>1. {c.name, c.value} \in {{columns[d].name, columns[d].value} :
                                  d \in {e \in DOMAIN columns : ~ J!Skipped(columns[e])}}
    OBVIOUS
  <2>2. {c.name, c.value} \subseteq J!Strings(columns)
    BY <2>1 DEF J!Strings
  <2>3. QED
    BY <1>2, <2>2 DEF J!HasByte
<1>3. QED
  BY <1>1, <1>2, StringFits DEF Cost

LEMMA MarkSizes ==
  /\ J!MetaKey \in Seq(Byte) /\ Len(J!MetaKey) = 7
  /\ J!DataKey \in Seq(Byte) /\ Len(J!DataKey) = 7
  /\ \A b \in {J!Open, J!Comma, J!Colon, 0} : <<b>> \in Seq(Byte) /\ Len(<<b>>) = 1
<1>1. J!MetaKey \in Seq(Byte) /\ Len(J!MetaKey) = 7
  BY DEF J!MetaKey, J!Quote, J!Colon, Byte
<1>2. J!DataKey \in Seq(Byte) /\ Len(J!DataKey) = 7
  BY DEF J!DataKey, J!Quote, J!Colon, Byte
<1>3. \A b \in {J!Open, J!Comma, J!Colon, 0} : b \in Byte
  BY DEF J!Open, J!Comma, J!Colon, Byte
<1>4. QED
  BY <1>1, <1>2, <1>3, One

LEMMA CallInv ==
  ASSUME RowInv, NEW columns \in Seq(JsonColumn), J!Call(columns)
  PROVE  RowInv'
<1>1. /\ jrow' = columns /\ jpc' = "measure" /\ ji' = 1 /\ jout' = <<>> /\ jsize' = Frame
  BY DEF J!Call, Frame
<1>2. PICK M : IsSum(M, 0, Len(columns), Frame, Costs(columns))
  BY RowTotals
<1>3. M[0] = Frame
  BY <1>2, RowTotal
<1>4. IsSum(M, 0, Len(jrow'), Frame, Costs(jrow')) /\ M[ji' - 1] = jsize'
  BY <1>1, <1>2, <1>3
<1>5. (jrow \in Seq(JsonColumn) /\ ji \in 1 .. Len(jrow) + 1 /\ jout \in Seq(Byte) /\ jsize \in Nat)'
  BY <1>1, FrameSize
<1>6. QED
  BY <1>1, <1>4, <1>5 DEF RowInv

LEMMA FreeInv ==
  ASSUME RowInv, J!Free
  PROVE  RowInv'
<1>1. jrow' = <<>> /\ jpc' = "idle" /\ ji' = 1 /\ jout' = <<>> /\ jsize' = 0
  BY DEF J!Free
<1>2. <<>> \in Seq(JsonColumn)
  OBVIOUS
<1>3. PICK M : IsSum(M, 0, Len(jrow'), Frame, Costs(jrow'))
  BY <1>1, <1>2, RowTotals
<1>4. QED
  BY <1>1, <1>3 DEF RowInv

LEMMA ConvertInv ==
  ASSUME RowInv, J!Convert
  PROVE  RowInv'
<1>1. /\ jrow \in Seq(JsonColumn) /\ ji \in 1 .. Len(jrow) + 1
      /\ jout \in Seq(Byte) /\ jsize \in Nat
  BY DEF RowInv
<1>2. PICK M :
       /\ IsSum(M, 0, Len(jrow), Frame, Costs(jrow))
       /\ jpc = "measure" => jsize = M[ji - 1]
       /\ jpc = "write" => /\ jsize = M[Len(jrow)] /\ jout # <<>>
                           /\ ~ J!HasByte(jrow, {0}) => Len(jout) + 2 <= M[ji - 1]
  BY DEF RowInv
<1>3. /\ M \in [0 .. Len(jrow) -> Nat] /\ M[0] = Frame
      /\ \A k \in 1 .. Len(jrow) : M[k] = M[k - 1] + Cost(jrow[k])
      /\ \A k \in 0 .. Len(jrow) : M[k] <= M[Len(jrow)]
  BY <1>1, <1>2, RowTotal
<1>4. Len(jrow) \in Nat /\ \A k \in 1 .. Len(jrow) : jrow[k] \in JsonColumn
  BY <1>1
<1>5. CASE J!MeasureColumn
  <2>1. /\ jpc = "measure" /\ ji <= Len(jrow) /\ ji' = ji + 1
        /\ jsize' = IF J!Skipped(jrow[ji]) THEN jsize
                    ELSE jsize + J!ms_json_enstring_len(jrow[ji].name)
                               + J!ms_json_enstring_len(jrow[ji].value) + 2
        /\ jrow' = jrow /\ jpc' = jpc /\ jout' = jout
    BY <1>5 DEF J!MeasureColumn
  <2>2. ji \in 1 .. Len(jrow) /\ ji - 1 \in 0 .. Len(jrow) /\ ji' - 1 = ji /\ jrow[ji] \in JsonColumn
    BY <1>1, <1>4, <2>1
  <2>3. J!ms_json_enstring_len(jrow[ji].name) \in Nat /\ J!ms_json_enstring_len(jrow[ji].value) \in Nat
    BY <2>2, StringFits DEF JsonColumn
  <2>4. jsize' = jsize + Cost(jrow[ji])
    BY <1>1, <2>1, <2>3 DEF Cost
  <2>5. jsize' = M[ji' - 1]
    BY <1>2, <1>3, <2>1, <2>2, <2>4
  <2>6. jsize' \in Nat /\ ji' \in 1 .. Len(jrow') + 1
    BY <1>1, <1>3, <1>4, <2>1, <2>2, <2>5
  <2>7. jout' = <<>>
    BY <2>1 DEF RowInv
  <2>8. /\ IsSum(M, 0, Len(jrow'), Frame, Costs(jrow')) /\ jrow' \in Seq(JsonColumn)
        /\ jpc' = "measure" /\ jout' \in Seq(Byte)
    BY <1>1, <1>2, <2>1
  <2>9. (jrow \in Seq(JsonColumn) /\ ji \in 1 .. Len(jrow) + 1 /\ jout \in Seq(Byte) /\ jsize \in Nat)'
    BY <2>6, <2>8
  <2>10. QED
    BY <2>5, <2>7, <2>8, <2>9 DEF RowInv
<1>6. CASE J!Allocate
  <2>1. /\ jpc = "measure" /\ ji > Len(jrow) /\ jpc' = "write" /\ ji' = 1
        /\ jout' = <<J!Open>> \o J!MetaKey \o J!ms_json_enstring(J!meta) \o <<J!Comma>>
                     \o J!DataKey \o <<J!Open>>
        /\ jrow' = jrow /\ jsize' = jsize
    BY <1>6 DEF J!Allocate
  <2>2. ji - 1 = Len(jrow)
    BY <1>1, <1>4, <2>1
  <2>3. PICK s \in Seq(Byte) : s = J!ms_json_enstring(J!meta) /\ Len(s) + 19 = Frame
    BY FrameSize
  <2>4. PICK k \in Seq(Byte) : k = J!MetaKey /\ Len(k) = 7
    BY MarkSizes
  <2>5. PICK d \in Seq(Byte) : d = J!DataKey /\ Len(d) = 7
    BY MarkSizes
  <2>6. PICK o \in Seq(Byte) : o = <<J!Open>> /\ Len(o) = 1
    BY MarkSizes
  <2>7. PICK c \in Seq(Byte) : c = <<J!Comma>> /\ Len(c) = 1
    BY MarkSizes
  <2>8. jout' \in Seq(Byte) /\ Len(jout') + 2 = Frame
    <3>1. jout' = o \o k \o s \o c \o d \o o
      BY <2>1, <2>3, <2>4, <2>5, <2>6, <2>7
    <3>2. /\ o \o k \o s \o c \o d \o o \in Seq(Byte)
          /\ Len(o \o k \o s \o c \o d \o o) = Len(o) + Len(k) + Len(s) + Len(c) + Len(d) + Len(o)
      OBVIOUS
    <3>3. Len(s) \in Nat
      OBVIOUS
    <3>4. QED
      BY <2>3, <2>4, <2>5, <2>6, <2>7, <3>1, <3>2, <3>3
  <2>9. jsize' = M[Len(jrow)] /\ jout' # <<>> /\ ji' - 1 = 0 /\ ji' \in 1 .. Len(jrow') + 1
    <3>1. Len(s) \in Nat /\ Len(<<>>) = 0
      OBVIOUS
    <3>2. QED
      BY <1>2, <1>4, <2>1, <2>2, <2>3, <2>8, <3>1
  <2>10. Len(jout') + 2 <= M[ji' - 1] /\ jsize' = M[Len(jrow')]
    BY <1>3, <2>1, <2>8, <2>9, FrameSize
  <2>11. /\ IsSum(M, 0, Len(jrow'), Frame, Costs(jrow')) /\ jrow' \in Seq(JsonColumn)
         /\ jpc' = "write" /\ jsize' \in Nat
    BY <1>1, <1>2, <2>1
  <2>12. QED
    BY <2>8, <2>9, <2>10, <2>11 DEF RowInv
<1>7. CASE J!WriteColumn
  <2>1. /\ jpc = "write" /\ ji <= Len(jrow) /\ ji' = ji + 1
        /\ jout' = IF J!Skipped(jrow[ji]) THEN jout
                   ELSE jout \o J!ms_json_enstring(jrow[ji].name) \o <<J!Colon>>
                             \o J!ms_json_enstring(jrow[ji].value) \o <<J!Comma>>
        /\ jrow' = jrow /\ jpc' = jpc /\ jsize' = jsize
    BY <1>7 DEF J!WriteColumn
  <2>2. ji \in 1 .. Len(jrow) /\ ji - 1 \in 0 .. Len(jrow) /\ ji \in 0 .. Len(jrow) /\ ji' - 1 = ji
    BY <1>1, <1>4, <2>1
  <2>3. M[ji] = M[ji - 1] + Cost(jrow[ji]) /\ M[ji - 1] \in Nat
    BY <1>3, <2>2
  <2>4. /\ jout' \in Seq(Byte) /\ jout' # <<>>
        /\ ~ J!HasByte(jrow, {0}) => Len(jout') + 2 <= M[ji]
    <3>1. CASE J!Skipped(jrow[ji])
      <4>1. Cost(jrow[ji]) = 0 /\ jout' = jout
        BY <2>1, <3>1 DEF Cost
      <4>2. QED
        BY <1>1, <1>2, <2>1, <2>3, <4>1
    <3>2. CASE ~ J!Skipped(jrow[ji])
      <4>1. PICK x \in Seq(Byte), y \in Seq(Byte) :
              /\ x = J!ms_json_enstring(jrow[ji].name) /\ y = J!ms_json_enstring(jrow[ji].value)
              /\ ~ J!HasByte(jrow, {0}) => Len(x) + Len(y) + 2 = Cost(jrow[ji])
        BY <1>1, <2>2, <3>2, ColumnFits
      <4>2. PICK u \in Seq(Byte), v \in Seq(Byte) :
              u = <<J!Colon>> /\ v = <<J!Comma>> /\ Len(u) = 1 /\ Len(v) = 1
        BY MarkSizes
      <4>3. jout' = jout \o x \o u \o y \o v
        BY <2>1, <3>2, <4>1, <4>2
      <4>4. jout' \in Seq(Byte) /\ Len(jout') = Len(jout) + Len(x) + Len(y) + 2
        BY <1>1, <4>2, <4>3
      <4>5. jout' # <<>>
        BY <1>1, <4>4
      <4>6. Len(jout) \in Nat /\ Len(x) \in Nat /\ Len(y) \in Nat
        BY <1>1
      <4>7. QED
        BY <1>2, <2>1, <2>3, <4>1, <4>4, <4>5, <4>6
    <3>3. QED
      BY <3>1, <3>2
  <2>5. ji' \in 1 .. Len(jrow') + 1 /\ jsize' = M[Len(jrow)]
    BY <1>2, <1>4, <2>1, <2>2
  <2>6. QED
    BY <1>1, <1>2, <2>1, <2>2, <2>4, <2>5 DEF RowInv
<1>8. CASE J!Finish
  <2>1. /\ jpc = "write" /\ ji > Len(jrow) /\ jpc' = "done"
        /\ jout' = [jout EXCEPT ![Len(jout)] = J!Close] \o <<0>>
        /\ jrow' = jrow /\ ji' = ji /\ jsize' = jsize
    BY <1>8 DEF J!Finish
  <2>2. ji - 1 = Len(jrow)
    BY <1>1, <1>4, <2>1
  <2>3. PICK s \in Seq(Byte) : s = [jout EXCEPT ![Len(jout)] = J!Close] /\ Len(s) = Len(jout)
    <3>1. J!Close \in Byte
      BY DEF J!Close, Byte
    <3>2. Len(jout) \in 1 .. Len(jout)
      BY <1>1, <1>2, <2>1
    <3>3. /\ [jout EXCEPT ![Len(jout)] = J!Close] \in Seq(Byte)
          /\ Len([jout EXCEPT ![Len(jout)] = J!Close]) = Len(jout)
      <4>1. PICK p, b : p = Len(jout) /\ b = J!Close
        OBVIOUS
      <4>2. [jout EXCEPT ![p] = b] \in Seq(Byte) /\ Len([jout EXCEPT ![p] = b]) = Len(jout)
        BY <1>1, <3>1, <3>2, <4>1, ExceptSeq
      <4>3. QED
        BY <4>1, <4>2
    <3>4. QED
      BY <3>3
  <2>4. PICK z \in Seq(Byte) : z = <<0>> /\ Len(z) = 1
    BY MarkSizes
  <2>5. jout' \in Seq(Byte) /\ Len(jout') = Len(jout) + 1
    <3>1. s \o z \in Seq(Byte) /\ Len(s \o z) = Len(s) + Len(z)
      OBVIOUS
    <3>2. jout' = s \o z
      BY <2>1, <2>3, <2>4
    <3>3. QED
      BY <2>3, <2>4, <3>1, <3>2
  <2>6. ~ J!HasByte(jrow, {0}) => Len(jout') + 1 <= jsize
    <3>1. jsize = M[Len(jrow)] /\ (~ J!HasByte(jrow, {0}) => Len(jout) + 2 <= M[Len(jrow)])
      BY <1>2, <2>1, <2>2
    <3>2. Len(jout) \in Nat
      BY <1>1
    <3>3. QED
      BY <1>1, <2>5, <3>1, <3>2
  <2>7. QED
    BY <1>1, <1>2, <2>1, <2>5, <2>6 DEF RowInv
<1>9. QED
  BY <1>5, <1>6, <1>7, <1>8 DEF J!Convert

LEMMA RowInvFits ==
  ASSUME RowInv
  PROVE  J!RowFits /\ J!TypeOK
<1>1. PICK M :
       /\ IsSum(M, 0, Len(jrow), Frame, Costs(jrow))
       /\ jpc = "write" => /\ jsize = M[Len(jrow)]
                           /\ ~ J!HasByte(jrow, {0}) => Len(jout) + 2 <= M[ji - 1]
       /\ jpc = "done" => (~ J!HasByte(jrow, {0}) => Len(jout) + 1 <= jsize)
  BY DEF RowInv
<1>2. jrow \in Seq(JsonColumn) /\ ji \in 1 .. Len(jrow) + 1 /\ jout \in Seq(Byte) /\ jsize \in Nat
  BY DEF RowInv
<1>3. ji - 1 \in 0 .. Len(jrow) /\ Len(jrow) \in 0 .. Len(jrow) /\ Len(jout) \in Nat
  BY <1>2
<1>4. M[ji - 1] <= M[Len(jrow)] /\ M[ji - 1] \in Nat /\ M[Len(jrow)] \in Nat
  BY <1>1, <1>2, <1>3, RowTotal
<1>5. J!RowFits
  <2>1. jpc \in {"idle", "measure"} => Len(jout) = 0
    BY DEF RowInv
  <2>2. jpc \in {"idle", "measure", "write", "done"}
    BY DEF RowInv
  <2>3. QED
    BY <1>1, <1>2, <1>3, <1>4, <2>1, <2>2 DEF J!RowFits
<1>6. J!TypeOK
  <2>1. ASSUME NEW k \in DOMAIN jout PROVE jout[k] \in 0 .. 255
    <3>1. jout[k] \in Byte
      BY <1>2
    <3>2. QED
      BY <3>1 DEF Byte
  <2>2. jpc \in {"idle", "measure", "write", "done"}
    BY DEF RowInv
  <2>3. QED
    BY <1>2, <2>1, <2>2 DEF J!TypeOK
<1>7. QED
  BY <1>5, <1>6

-----------------------------------------------------------------------------
(* Where the parts of a rows event begin.                                  *)
LEMMA EventParts ==
  ASSUME NEW e, IsRowsEvent(e)
  PROVE  /\ Len(e.table) \in Nat \ {0} /\ DOMAIN e.table = 1 .. Len(e.table)
         /\ Len(e.rows) \in Nat /\ DOMAIN e.rows = 1 .. Len(e.rows)
         /\ e.kind \in {"write", "update", "delete"}
         /\ \A k \in 1 .. Len(e.table) : IsColumn(e.table[k])
         /\ \A r \in 1 .. Len(e.rows) : IsImage(e.table, e.rows[r])
<1>1. e.table \in Seq(ToSet(e.table)) /\ e.rows \in Seq(ToSet(e.rows)) /\ Len(e.table) > 0
  BY DEF IsRowsEvent
<1>2. Len(e.table) \in Nat /\ DOMAIN e.table = 1 .. Len(e.table)
  <2>1. PICK T : T = ToSet(e.table)
    OBVIOUS
  <2>2. e.table \in Seq(T)
    BY <1>1, <2>1
  <2>3. QED
    BY <2>2
<1>3. Len(e.rows) \in Nat /\ DOMAIN e.rows = 1 .. Len(e.rows)
  <2>1. PICK T : T = ToSet(e.rows)
    OBVIOUS
  <2>2. e.rows \in Seq(T)
    BY <1>1, <2>1
  <2>3. QED
    BY <2>2
<1>4. QED
  BY <1>1, <1>2, <1>3 DEF IsRowsEvent

(* The cells of an image: Null takes no bytes.                             *)
LEMMA Cells ==
  ASSUME NEW e, IsRowsEvent(e), NEW r \in 1 .. Len(e.rows)
  PROVE  LET row == e.rows[r]
         IN /\ Len(row) = Len(e.table) /\ DOMAIN row = 1 .. Len(e.table)
            /\ \A k \in 1 .. Len(e.table) :
                 /\ row[k].bytes \in Seq(Byte)
                 /\ row[k] = Null => row[k].bytes = <<>>
                 /\ row[k] # Null => HasSize(e.table[k], row[k].bytes)
<1> DEFINE row == e.rows[r]
<1>1. IsImage(e.table, row)
  BY EventParts
<1>2. Len(row) = Len(e.table) /\ DOMAIN row = 1 .. Len(e.table)
  <2>1. PICK T : T = ToSet(row)
    OBVIOUS
  <2>2. row \in Seq(T) /\ Len(row) = Len(e.table)
    BY <1>1, <2>1 DEF IsImage
  <2>3. QED
    BY <2>2
<1>3. ASSUME NEW k \in 1 .. Len(e.table)
      PROVE  /\ row[k].bytes \in Seq(Byte)
             /\ row[k] = Null => row[k].bytes = <<>>
             /\ row[k] # Null => HasSize(e.table[k], row[k].bytes)
  <2>1. Null.bytes = <<>> /\ <<>> \in Seq(Byte)
    BY DEF Null
  <2>2. row[k] = Null \/ (row[k].bytes \in Seq(Byte) /\ HasSize(e.table[k], row[k].bytes))
    BY <1>1, <1>2 DEF IsImage
  <2>3. QED
    BY <2>1, <2>2
<1>4. QED
  BY <1>2, <1>3

(* What RowsEvent says of its parts. *)
PassedStep(table, f) ==
  [k \in 1 .. Len(table) + 1 |-> IF k = 1 THEN 0 ELSE f[k - 1] + Len(table[k - 1].meta)]

AtStep(table, row, f) ==
  [k \in 1 .. Len(table) + 1 |->
     IF k = 1 THEN Len(Bitmap(1 .. Len(table), Bytes(Len(table)))) ELSE f[k - 1] + Len(row[k - 1].bytes)]

Header(kind, n) ==
  IF kind = "update" THEN Bitmap(1 .. n, Bytes(n)) \o Bitmap(1 .. n, Bytes(n)) ELSE Bitmap(1 .. n, Bytes(n))

StartStep(kind, table, rows, f) ==
  [r \in 1 .. Len(rows) |-> IF r = 1 THEN Len(Header(kind, Len(table)))
                            ELSE f[r - 1] + Len([s \in DOMAIN rows |-> Image(rows[s])][r - 1])]

LEMMA EventForm ==
  ASSUME NEW e, IsRowsEvent(e)
  PROVE  /\ e.bytes = Header(e.kind, Len(e.table)) \o FlattenSeq([r \in DOMAIN e.rows |-> Image(e.rows[r])])
         /\ e.metadata = FlattenSeq([k \in 1 .. Len(e.table) |-> e.table[k].meta])
         /\ e.passed = CHOOSE f : f = PassedStep(e.table, f)
         /\ e.start = CHOOSE f : f = StartStep(e.kind, e.table, e.rows, f)
         /\ e.at = [r \in DOMAIN e.rows |-> CHOOSE f : f = AtStep(e.table, e.rows[r], f)]
<1>1. PICK kind, table, rows : kind = e.kind /\ table = e.table /\ rows = e.rows
  OBVIOUS
<1>2. e = RowsEvent(kind, table, rows)
  BY <1>1 DEF IsRowsEvent
<1>3. /\ RowsEvent(kind, table, rows).bytes =
           Header(kind, Len(table)) \o FlattenSeq([r \in DOMAIN rows |-> Image(rows[r])])
      /\ RowsEvent(kind, table, rows).metadata = FlattenSeq([k \in 1 .. Len(table) |-> table[k].meta])
  BY DEF RowsEvent, Header
<1>4. RowsEvent(kind, table, rows).passed = CHOOSE f : f = PassedStep(table, f)
  BY DEF RowsEvent, PassedStep
<1>5. RowsEvent(kind, table, rows).start = CHOOSE f : f = StartStep(kind, table, rows, f)
  BY DEF RowsEvent, StartStep, Header
<1>6. RowsEvent(kind, table, rows).at = [r \in DOMAIN rows |-> CHOOSE f : f = AtStep(table, rows[r], f)]
  BY DEF RowsEvent, AtStep
<1>7. /\ e.bytes = Header(kind, Len(table)) \o FlattenSeq([r \in DOMAIN rows |-> Image(rows[r])])
      /\ e.metadata = FlattenSeq([k \in 1 .. Len(table) |-> table[k].meta])
  BY <1>2, <1>3
<1>8. e.passed = CHOOSE f : f = PassedStep(table, f)
  BY <1>2, <1>4
<1>9. e.start = CHOOSE f : f = StartStep(kind, table, rows, f)
  BY <1>2, <1>5
<1>10. e.at = [r \in DOMAIN rows |-> CHOOSE f : f = AtStep(table, rows[r], f)]
  BY <1>2, <1>6
<1>11. QED
  BY ONLY <1>1, <1>7, <1>8, <1>9, <1>10, Zenon

(* The metadata of the columns, one behind the other.                      *)
MetadataPlaces(e) ==
  LET n == Len(e.table)
  IN /\ e.metadata \in Seq(Byte)
     /\ e.passed \in [1 .. n + 1 -> Nat]
     /\ e.passed[1] = 0 /\ e.passed[n + 1] = Len(e.metadata)
     /\ \A k \in 1 .. n :
          /\ e.passed[k + 1] = e.passed[k] + Len(e.table[k].meta)
          /\ e.passed[k + 1] <= Len(e.metadata)
          /\ \A x \in 1 .. Len(e.table[k].meta) :
               e.metadata[e.passed[k] + x] = e.table[k].meta[x]

LEMMA MetadataLayout ==
  ASSUME NEW e, IsRowsEvent(e)
  PROVE  MetadataPlaces(e)
<1> DEFINE n == Len(e.table)
<1>1. PICK g : g = [k \in 1 .. n |-> e.table[k].meta]
  OBVIOUS
<1>2. n \in Nat /\ \A k \in 1 .. n : e.table[k].meta \in Seq(Byte)
  BY EventParts DEF IsColumn
<1>3. g \in [1 .. n -> Seq(Byte)] /\ \A k \in 1 .. n : Len(g[k]) \in Nat
  BY <1>1, <1>2
<1>4. e.metadata = FlattenSeq(g)
  BY <1>1, EventForm
<1> DEFINE F(f) == PassedStep(e.table, f)
           passed == CHOOSE f : f = F(f)
<1>5. e.passed = passed
  BY EventForm
<1>6. PICK h : h = [k \in 2 .. n + 1 |-> Len(g[k - 1])]
  OBVIOUS
<1>7. \A k \in 1 + 1 .. n + 1 : h[k] \in Nat /\ h[k] = Len(e.table[k - 1].meta)
  <2>1. \A k \in 1 + 1 .. n + 1 : k \in 2 .. n + 1 /\ k - 1 \in 1 .. n
    BY <1>2
  <2>2. QED
    BY <1>1, <1>3, <1>6, <2>1
<1>8. 1 \in Nat /\ n + 1 \in Nat /\ 1 <= n + 1 /\ 0 \in Nat
  BY <1>2
<1>9. \A f : F(f) = [k \in 1 .. n + 1 |-> IF k = 1 THEN 0 ELSE f[k - 1] + h[k]]
  <2>1. \A k \in 1 .. n + 1 : k # 1 => k \in 1 + 1 .. n + 1
    BY <1>2
  <2>2. QED
    BY <1>7, <2>1 DEF PassedStep
<1> HIDE DEF n
<1>10. PICK t : IsSum(t, 1, n + 1, 0, h)
  BY <1>7, <1>8, SumExists
<1>11. t = F(t)
  BY <1>9, <1>10 DEF IsSum
<1>12. passed = F(passed)
  <2> HIDE DEF F
  <2>1. QED
    BY <1>11
<1> HIDE DEF passed
<1>13. passed = [k \in 1 .. n + 1 |-> IF k = 1 THEN 0 ELSE passed[k - 1] + h[k]]
  BY <1>9, <1>12
<1> HIDE DEF F
<1>14. passed \in [1 .. n + 1 -> Nat] /\ AddsUp(passed, 1, n + 1, 0, h)
  BY <1>7, <1>8, <1>13, SumIs
<1>15. PICK q : q = [k \in 0 .. n |-> passed[k + 1]]
  OBVIOUS
<1>16. \A k \in 1 .. n : q[k] = passed[k + 1] /\ q[k - 1] = passed[k] /\ passed[k + 1] = passed[k] + Len(g[k])
  <2>1. \A k \in 1 .. n : k + 1 \in 1 + 1 .. n + 1 /\ k \in 0 .. n /\ k - 1 \in 0 .. n /\ (k + 1) - 1 = k
                          /\ (k - 1) + 1 = k
    BY <1>2
  <2>2. \A k \in 1 .. n : h[k + 1] = Len(g[k])
    BY <1>6, <2>1
  <2>3. QED
    BY <1>14, <1>15, <2>1, <2>2 DEF AddsUp
<1>17. q \in [0 .. n -> Nat] /\ q[0] = 0 /\ passed[1] = 0 /\ q[n] = passed[n + 1]
  BY <1>2, <1>14, <1>15 DEF AddsUp
<1>18. Places(q, g, n)
  BY <1>16, <1>17 DEF Places
<1>19. Joined(e.metadata, g, q, n, Byte)
  BY <1>2, <1>3, <1>4, <1>18, Flattened
<1>20. ASSUME NEW k \in 1 .. n PROVE q[k] <= q[n]
  <2>1. k \in 0 .. n /\ n \in k .. n
    BY <1>2
  <2>2. QED
    BY <1>2, <1>3, <1>18, <2>1, PlacesGrow
<1>21. e.metadata \in Seq(Byte) /\ Len(e.metadata) = passed[n + 1]
  BY <1>17, <1>19 DEF Joined
<1>22. ASSUME NEW k \in 1 .. n
       PROVE  /\ passed[k + 1] = passed[k] + Len(e.table[k].meta)
              /\ passed[k + 1] <= Len(e.metadata)
              /\ \A x \in 1 .. Len(e.table[k].meta) :
                   e.metadata[passed[k] + x] = e.table[k].meta[x]
  BY <1>1, <1>16, <1>17, <1>19, <1>20 DEF Joined
<1>23. QED
  BY <1>5, <1>14, <1>17, <1>21, <1>22 DEF MetadataPlaces, n

LEMMA BitmapBytes ==
  ASSUME NEW S, NEW n \in Nat
  PROVE  Bitmap(S, n) \in Seq(Byte) /\ Len(Bitmap(S, n)) = n
<1> DEFINE bit(b, k) == IF 8 * (b - 1) + k \in S THEN 1 ELSE 0
           value(b) == bit(b, 1) + 2 * bit(b, 2) + 4 * bit(b, 3) + 8 * bit(b, 4)
                       + 16 * bit(b, 5) + 32 * bit(b, 6) + 64 * bit(b, 7) + 128 * bit(b, 8)
<1>1. Bitmap(S, n) = [b \in 1 .. n |-> value(b)]
  BY DEF Bitmap
<1>2. ASSUME NEW b \in 1 .. n PROVE value(b) \in Byte
  <2>1. \A k \in 1 .. 8 : bit(b, k) \in {0, 1}
    OBVIOUS
  <2>2. PICK c \in [1 .. 8 -> {0, 1}] : \A k \in 1 .. 8 : c[k] = bit(b, k)
    <3>1. [k \in 1 .. 8 |-> bit(b, k)] \in [1 .. 8 -> {0, 1}]
      BY <2>1
    <3>2. QED
      BY <3>1
  <2>3. value(b) = c[1] + 2 * c[2] + 4 * c[3] + 8 * c[4] + 16 * c[5] + 32 * c[6] + 64 * c[7] + 128 * c[8]
    <3> HIDE DEF bit
    <3>1. QED
      BY <2>2
  <2>4. PICK v : v = value(b)
    OBVIOUS
  <2>5. /\ c[1] \in 0 .. 1 /\ c[2] \in 0 .. 1 /\ c[3] \in 0 .. 1 /\ c[4] \in 0 .. 1
        /\ c[5] \in 0 .. 1 /\ c[6] \in 0 .. 1 /\ c[7] \in 0 .. 1 /\ c[8] \in 0 .. 1
    OBVIOUS
  <2>6. v = c[1] + 2 * c[2] + 4 * c[3] + 8 * c[4] + 16 * c[5] + 32 * c[6] + 64 * c[7] + 128 * c[8]
    BY <2>3, <2>4
  <2>7. v \in 0 .. 255
    BY ONLY <2>5, <2>6
  <2>8. QED
    BY <2>4, <2>7 DEF Byte
<1>3. QED
  <2> HIDE DEF value
  <2>1. [b \in 1 .. n |-> value(b)] \in [1 .. n -> Byte]
    BY <1>2
  <2>2. QED
    BY <1>1, <2>1

LEMMA BytesNat ==
  ASSUME NEW n \in Nat \ {0}
  PROVE  Bytes(n) \in Nat \ {0}
BY DEF Bytes

(* An image: the bitmap and the cells, one behind the other.               *)
ImagePlaces(e, r) ==
  LET n == Len(e.table)
      row == e.rows[r]
      at == e.at[r]
      image == Image(row)
  IN /\ image \in Seq(Byte)
     /\ at \in [1 .. n + 1 -> Nat]
     /\ at[1] = Bytes(n) /\ at[n + 1] = Len(image)
     /\ \A k \in 1 .. n :
          /\ at[k + 1] = at[k] + Len(row[k].bytes)
          /\ at[k + 1] <= Len(image)
          /\ \A x \in 1 .. Len(row[k].bytes) :
               at[k] + x \in 1 .. Len(image) /\ image[at[k] + x] = row[k].bytes[x]
     /\ \A x \in 1 .. Bytes(n) :
          x \in 1 .. Len(image) /\ image[x] = Bitmap(Nulls(row), Bytes(n))[x]

LEMMA ImageLayout ==
  ASSUME NEW e, IsRowsEvent(e), NEW r \in 1 .. Len(e.rows)
  PROVE  ImagePlaces(e, r)
<1> DEFINE n == Len(e.table)
           row == e.rows[r]
           map == Bitmap(Nulls(row), Bytes(n))
           at == e.at[r]
<1>1. PICK g : g = [k \in 1 .. n |-> row[k].bytes]
  OBVIOUS
<1>2. /\ n \in Nat \ {0} /\ Len(row) = n /\ DOMAIN row = 1 .. n /\ r \in DOMAIN e.rows
      /\ \A k \in 1 .. n : row[k].bytes \in Seq(Byte)
  BY EventParts, Cells
<1>3. g \in [1 .. n -> Seq(Byte)] /\ \A k \in 1 .. n : Len(g[k]) \in Nat
  <2> HIDE DEF n, row
  <2>1. g \in [1 .. n -> Seq(Byte)]
    BY <1>1, <1>2
  <2>2. QED
    BY <2>1
<1>4. Bytes(n) \in Nat \ {0} /\ map \in Seq(Byte) /\ Len(map) = Bytes(n)
  BY <1>2, BytesNat, BitmapBytes
<1>5. Image(row) = map \o FlattenSeq(g)
  BY <1>1, <1>2 DEF Image
<1> DEFINE F(f) == AtStep(e.table, row, f)
           found == CHOOSE f : f = F(f)
<1>6. at = found
  BY <1>2, EventForm
<1>7. PICK h : h = [k \in 2 .. n + 1 |-> Len(g[k - 1])]
  OBVIOUS
<1>8. \A k \in 1 + 1 .. n + 1 : h[k] \in Nat /\ h[k] = Len(row[k - 1].bytes)
  <2>1. \A k \in 1 + 1 .. n + 1 : k \in 2 .. n + 1 /\ k - 1 \in 1 .. n
    BY <1>2
  <2>2. QED
    BY <1>1, <1>3, <1>7, <2>1
<1>9. 1 \in Nat /\ n + 1 \in Nat /\ 1 <= n + 1 /\ Bytes(n) \in Nat
  BY <1>2, <1>4
<1>10. \A f : F(f) = [k \in 1 .. n + 1 |-> IF k = 1 THEN Bytes(n) ELSE f[k - 1] + h[k]]
  <2>1. \A k \in 1 .. n + 1 : k # 1 => k \in 1 + 1 .. n + 1
    BY <1>2
  <2>2. Len(Bitmap(1 .. n, Bytes(n))) = Bytes(n)
    BY <1>9, BitmapBytes
  <2>3. QED
    BY <1>8, <2>1, <2>2 DEF AtStep
<1> HIDE DEF n, map, row
<1>11. PICK t : IsSum(t, 1, n + 1, Bytes(n), h)
  BY <1>8, <1>9, SumExists
<1>12. t = F(t)
  BY <1>10, <1>11 DEF IsSum
<1>13. found = F(found)
  <2> HIDE DEF F
  <2>1. QED
    BY <1>12
<1> HIDE DEF found
<1>14. found = [k \in 1 .. n + 1 |-> IF k = 1 THEN Bytes(n) ELSE found[k - 1] + h[k]]
  BY <1>10, <1>13
<1> HIDE DEF F
<1>15. at \in [1 .. n + 1 -> Nat] /\ AddsUp(at, 1, n + 1, Bytes(n), h)
  <2>1. found \in [1 .. n + 1 -> Nat] /\ AddsUp(found, 1, n + 1, Bytes(n), h)
    BY <1>8, <1>9, <1>14, SumIs
  <2>2. QED
    BY <1>6, <2>1
<1> HIDE DEF at
<1>16. at[1] = Bytes(n) /\ \A k \in 1 .. n : at[k + 1] = at[k] + Len(g[k])
  <2>1. \A k \in 1 .. n : k + 1 \in 1 + 1 .. n + 1 /\ k + 1 \in 2 .. n + 1 /\ (k + 1) - 1 = k
    BY <1>2
  <2>2. QED
    BY <1>7, <1>15, <2>1 DEF AddsUp
<1>17. PICK q : Places(q, g, n)
  BY <1>2, <1>3, PlacesExist
<1>18. q \in [0 .. n -> Nat] /\ q[0] = 0 /\ \A k \in 1 .. n : q[k] = q[k - 1] + Len(g[k])
  BY <1>17 DEF Places
<1>19. \A k \in 0 .. n : q[k] \in {at[k + 1] - Bytes(n)}
  <2>1. PICK A : A = [k \in 0 .. n |-> {at[k + 1] - Bytes(n)}]
    OBVIOUS
  <2>2. q[0] \in A[0]
    BY <1>2, <1>4, <1>16, <1>18, <2>1
  <2>3. ASSUME NEW k \in 0 + 1 .. n, q[k - 1] \in A[k - 1] PROVE q[k] \in A[k]
    <3>1. k \in 1 .. n /\ k - 1 \in 0 .. n /\ k \in 0 .. n /\ (k - 1) + 1 = k
          /\ k \in 1 .. n + 1 /\ k + 1 \in 1 .. n + 1
      BY <1>2
    <3>2. q[k - 1] = at[k] - Bytes(n)
      BY <2>1, <2>3, <3>1
    <3>3. at[k] \in Nat /\ Len(g[k]) \in Nat
      BY <1>3, <1>15, <3>1
    <3>4. q[k] = at[k + 1] - Bytes(n)
      BY <1>4, <1>16, <1>18, <3>1, <3>2, <3>3
    <3>5. QED
      BY <2>1, <3>1, <3>4
  <2>4. 0 \in Nat /\ n \in Nat /\ 0 <= n
    BY <1>2
  <2>5. \A k \in 0 .. n : q[k] \in A[k]
    BY <2>2, <2>3, <2>4, Kept
  <2>6. QED
    BY <2>1, <2>5
<1>20. \A k \in 0 .. n : at[k + 1] = Bytes(n) + q[k]
  <2>1. \A k \in 0 .. n : k + 1 \in 1 .. n + 1
    BY <1>2
  <2>2. QED
    BY <1>4, <1>15, <1>18, <1>19, <2>1
<1>21. PICK s \in Seq(Byte) : s = FlattenSeq(g) /\ Joined(s, g, q, n, Byte)
  <2>1. Joined(FlattenSeq(g), g, q, n, Byte)
    BY <1>2, <1>3, <1>17, Flattened
  <2>2. QED
    BY <2>1 DEF Joined
<1>22. /\ Len(s) = q[n]
       /\ \A k \in 1 .. n : \A x \in 1 .. Len(g[k]) :
            q[k - 1] + x \in 1 .. q[n] /\ s[q[k - 1] + x] = g[k][x]
  BY <1>21 DEF Joined
<1>23. PICK image \in Seq(Byte) : image = Image(row) /\ image = map \o s
  <2>1. map \o s \in Seq(Byte)
    BY <1>4
  <2>2. QED
    BY <1>5, <1>21, <2>1
<1>24. /\ Len(image) = Bytes(n) + Len(s)
       /\ \A x \in 1 .. Bytes(n) : image[x] = map[x]
       /\ \A x \in 1 .. Len(s) : image[Bytes(n) + x] = s[x]
  BY <1>4, <1>23
<1>25. at[n + 1] = Len(image)
  BY <1>2, <1>20, <1>22, <1>24
<1>26. ASSUME NEW k \in 1 .. n
       PROVE  /\ at[k + 1] = at[k] + Len(row[k].bytes)
              /\ at[k + 1] <= Len(image)
              /\ \A x \in 1 .. Len(row[k].bytes) :
                   at[k] + x \in 1 .. Len(image) /\ image[at[k] + x] = row[k].bytes[x]
  <2>1. k \in 0 .. n /\ n \in k .. n /\ k - 1 \in 0 .. n /\ (k - 1) + 1 = k
    BY <1>2
  <2>2. q[k] <= q[n] /\ q[k] \in Nat /\ q[n] \in Nat /\ q[k - 1] \in Nat
    <3>1. q[k] <= q[n]
      BY <1>2, <1>3, <1>17, <2>1, PlacesGrow
    <3>2. n \in 0 .. n
      BY <1>2
    <3>3. QED
      BY <1>18, <2>1, <3>1, <3>2
  <2>3. g[k] = row[k].bytes /\ at[k + 1] = Bytes(n) + q[k] /\ at[k] = Bytes(n) + q[k - 1]
    BY <1>1, <1>20, <2>1
  <2>4. at[k + 1] <= Len(image)
    BY <1>4, <1>22, <1>24, <2>2, <2>3
  <2>5. ASSUME NEW x \in 1 .. Len(row[k].bytes)
        PROVE  at[k] + x \in 1 .. Len(image) /\ image[at[k] + x] = row[k].bytes[x]
    <3>1. x \in 1 .. Len(g[k]) /\ x \in Nat
      BY <1>3, <2>3
    <3>2. q[k - 1] + x \in 1 .. Len(s) /\ s[q[k - 1] + x] = g[k][x]
      BY <1>22, <3>1
    <3>3. at[k] + x = Bytes(n) + (q[k - 1] + x)
      BY <1>4, <2>2, <2>3, <3>1
    <3>4. at[k] + x \in 1 .. Len(image)
      BY <1>4, <1>24, <3>2, <3>3
    <3>5. image[at[k] + x] = s[q[k - 1] + x]
      BY <1>24, <3>2, <3>3
    <3>6. QED
      BY <2>3, <3>2, <3>4, <3>5
  <2>6. QED
    BY <1>16, <2>3, <2>4, <2>5
<1>27. \A x \in 1 .. Bytes(n) : x \in 1 .. Len(image) /\ image[x] = map[x]
  BY <1>4, <1>24
<1>28. QED
  BY <1>15, <1>16, <1>23, <1>25, <1>26, <1>27 DEF ImagePlaces, n, row, map, at

(* The images, one behind the other, behind the header.                    *)
Begin(e, r) == IF r \in 1 .. Len(e.rows) THEN e.start[r] ELSE Len(e.bytes)
HeaderSize(e) == IF e.kind = "update" THEN 2 * Bytes(Len(e.table)) ELSE Bytes(Len(e.table))

EventPlaces(e) ==
  LET R == Len(e.rows)
  IN /\ e.bytes \in Seq(Byte)
     /\ Begin(e, 1) = HeaderSize(e)
     /\ \A r \in 1 .. R + 1 : Begin(e, r) \in 0 .. Len(e.bytes)
     /\ \A r \in 1 .. R :
          /\ Begin(e, r + 1) = Begin(e, r) + Len(Image(e.rows[r]))
          /\ \A x \in 1 .. Len(Image(e.rows[r])) :
               e.bytes[Begin(e, r) + x] = Image(e.rows[r])[x]

LEMMA EventLayout ==
  ASSUME NEW e, IsRowsEvent(e)
  PROVE  EventPlaces(e)
<1> DEFINE R == Len(e.rows)
           header == Header(e.kind, Len(e.table))
           H == HeaderSize(e)
<1>1. PICK g : g = [r \in 1 .. R |-> Image(e.rows[r])]
  OBVIOUS
<1>2. R \in Nat /\ DOMAIN e.rows = 1 .. R /\ Len(e.table) \in Nat \ {0}
  BY EventParts
<1>3. g \in [1 .. R -> Seq(Byte)] /\ \A r \in 1 .. R : Len(g[r]) \in Nat
  <2>1. \A r \in 1 .. R : Image(e.rows[r]) \in Seq(Byte)
    BY ImageLayout DEF ImagePlaces
  <2>2. QED
    BY <1>1, <2>1
<1>4. header \in Seq(Byte) /\ Len(header) = H /\ H \in Nat
  <2>1. PICK b \in Nat : b = Bytes(Len(e.table))
    BY <1>2, BytesNat
  <2>2. PICK p \in Seq(Byte) : p = Bitmap(1 .. Len(e.table), b) /\ Len(p) = b
    BY <2>1, BitmapBytes
  <2>3. p \o p \in Seq(Byte) /\ Len(p \o p) = 2 * b
    BY <2>2
  <2>4. QED
    BY <2>1, <2>2, <2>3 DEF Header, HeaderSize
<1>5. e.bytes = header \o FlattenSeq(g)
  BY <1>1, <1>2, EventForm
<1> HIDE DEF header, H
<1>6. PICK q : Places(q, g, R)
  BY <1>2, <1>3, PlacesExist
<1>7. q \in [0 .. R -> Nat] /\ q[0] = 0 /\ \A r \in 1 .. R : q[r] = q[r - 1] + Len(g[r])
  BY <1>6 DEF Places
<1>8. PICK s \in Seq(Byte) : s = FlattenSeq(g) /\ Joined(s, g, q, R, Byte)
  <2>1. Joined(FlattenSeq(g), g, q, R, Byte)
    BY <1>2, <1>3, <1>6, Flattened
  <2>2. QED
    BY <2>1 DEF Joined
<1>9. /\ Len(s) = q[R]
      /\ \A r \in 1 .. R : \A x \in 1 .. Len(g[r]) :
           q[r - 1] + x \in 1 .. q[R] /\ s[q[r - 1] + x] = g[r][x]
  BY <1>8 DEF Joined
<1>10. PICK bytes \in Seq(Byte) : bytes = e.bytes /\ bytes = header \o s
  <2>1. header \o s \in Seq(Byte)
    BY <1>4
  <2>2. QED
    BY <1>5, <1>8, <2>1
<1>11. Len(bytes) = H + Len(s) /\ \A x \in 1 .. Len(s) : bytes[H + x] = s[x]
  <2>1. Len(header) \in Nat /\ Len(s) \in Nat /\ Len(header \o s) = Len(header) + Len(s)
    BY <1>4
  <2>2. ASSUME NEW x \in 1 .. Len(s) PROVE (header \o s)[Len(header) + x] = s[x]
    BY <1>4, <2>1
  <2>3. QED
    BY <1>4, <1>10, <2>1, <2>2
(* start[r] is q[r - 1] behind the header. *)
<1>12. \A r \in 1 .. R : e.start[r] = H + q[r - 1]
  <2>1. CASE R = 0
    BY <2>1
  <2>2. CASE R # 0
    <3> DEFINE F(f) == StartStep(e.kind, e.table, e.rows, f)
               found == CHOOSE f : f = F(f)
    <3>1. e.start = found
      BY EventForm
    <3>2. PICK h : h = [r \in 2 .. R |-> Len(g[r - 1])]
      OBVIOUS
    <3>3. \A r \in 1 + 1 .. R : h[r] \in Nat /\ h[r] = Len([x \in DOMAIN e.rows |-> Image(e.rows[x])][r - 1])
      <4>1. \A r \in 1 + 1 .. R : r \in 2 .. R /\ r - 1 \in 1 .. R
        BY <1>2
      <4>2. QED
        BY <1>1, <1>2, <1>3, <3>2, <4>1
    <3>4. 1 \in Nat /\ R \in Nat /\ 1 <= R /\ H \in Nat
      BY <1>2, <1>4, <2>2
    <3>5. \A f : F(f) = [r \in 1 .. R |-> IF r = 1 THEN H ELSE f[r - 1] + h[r]]
      <4>1. \A r \in 1 .. R : r # 1 => r \in 1 + 1 .. R
        BY <1>2
      <4>2. Len(Header(e.kind, Len(e.table))) = H
        BY <1>4 DEF header
      <4>3. ASSUME NEW f, NEW r \in 1 .. R
            PROVE  F(f)[r] = IF r = 1 THEN H ELSE f[r - 1] + h[r]
        BY <3>3, <4>1, <4>2 DEF StartStep
      <4>4. \A f : F(f) = [r \in 1 .. R |-> F(f)[r]]
        BY DEF StartStep
      <4> HIDE DEF F
      <4>5. QED
        BY <4>3, <4>4
    <3> HIDE DEF R
    <3>6. PICK t : IsSum(t, 1, R, H, h)
      BY <3>3, <3>4, SumExists
    <3>7. t = F(t)
      BY <3>5, <3>6 DEF IsSum
    <3>8. found = F(found)
      <4> HIDE DEF F
      <4>1. QED
        BY <3>7
    <3> HIDE DEF found
    <3>9. found = [r \in 1 .. R |-> IF r = 1 THEN H ELSE found[r - 1] + h[r]]
      BY <3>5, <3>8
    <3> HIDE DEF F
    <3>10. \A r \in 1 .. R : found[r] = IF r = 1 THEN H ELSE found[r - 1] + h[r]
      BY <3>9
    <3>11. PICK A : A = [r \in 1 .. R |-> {H + q[r - 1]}]
      OBVIOUS
    <3>12. found[1] \in A[1]
      BY <1>4, <1>7, <3>4, <3>10, <3>11
    <3>13. ASSUME NEW r \in 1 + 1 .. R, found[r - 1] \in A[r - 1] PROVE found[r] \in A[r]
      <4>1. /\ r \in 1 .. R /\ r - 1 \in 1 .. R /\ r # 1 /\ r \in 2 .. R
            /\ r - 1 \in 0 .. R /\ (r - 1) - 1 \in 0 .. R
        BY <3>4
      <4>2. found[r - 1] = H + q[(r - 1) - 1]
        BY <3>11, <3>13, <4>1
      <4>3. q[r - 1] = q[(r - 1) - 1] + Len(g[r - 1])
        BY <1>7, <4>1
      <4>4. found[r] = found[r - 1] + Len(g[r - 1])
        BY <3>2, <3>10, <4>1
      <4>5. q[(r - 1) - 1] \in Nat /\ Len(g[r - 1]) \in Nat
        BY <1>3, <1>7, <4>1
      <4>6. found[r] = H + q[r - 1]
        BY <1>4, <4>2, <4>3, <4>4, <4>5
      <4>7. QED
        BY <3>11, <4>1, <4>6
    <3>14. \A r \in 1 .. R : found[r] \in A[r]
      BY <3>4, <3>12, <3>13, Kept
    <3>15. QED
      BY <3>1, <3>11, <3>14
  <2>3. QED
    BY <2>1, <2>2
<1>13. \A r \in 1 .. R + 1 : Begin(e, r) = H + q[r - 1]
  <2>1. ASSUME NEW r \in 1 .. R + 1 PROVE Begin(e, r) = H + q[r - 1]
    <3>1. CASE r \in 1 .. R
      BY <1>12, <3>1 DEF Begin
    <3>2. CASE r \notin 1 .. R
      <4>1. r = R + 1 /\ r - 1 = R
        BY <1>2, <3>2
      <4>2. QED
        BY <1>9, <1>10, <1>11, <3>2, <4>1 DEF Begin
    <3>3. QED
      BY <3>1, <3>2
  <2>2. QED
    BY <2>1
<1>14. ASSUME NEW r \in 1 .. R + 1 PROVE Begin(e, r) \in 0 .. Len(bytes)
  <2>1. r - 1 \in 0 .. R /\ R \in r - 1 .. R /\ R \in 0 .. R
    BY <1>2
  <2>2. q[r - 1] <= q[R]
    BY <1>2, <1>3, <1>6, <2>1, PlacesGrow
  <2>3. q[r - 1] \in Nat /\ q[R] \in Nat
    BY <1>7, <2>1
  <2>4. Begin(e, r) = H + q[r - 1] /\ Len(bytes) = H + q[R]
    BY <1>9, <1>11, <1>13
  <2>5. \A u, w, z \in Nat : w <= z => u + w \in 0 .. u + z
    OBVIOUS
  <2>6. QED
    BY <1>4, <2>2, <2>3, <2>4, <2>5
<1>15. ASSUME NEW r \in 1 .. R
       PROVE  /\ Begin(e, r + 1) = Begin(e, r) + Len(Image(e.rows[r]))
              /\ \A x \in 1 .. Len(Image(e.rows[r])) :
                   bytes[Begin(e, r) + x] = Image(e.rows[r])[x]
  <2>1. /\ r \in 1 .. R + 1 /\ r + 1 \in 1 .. R + 1 /\ (r + 1) - 1 = r
        /\ r - 1 \in 0 .. R /\ r \in 0 .. R
    BY <1>2
  <2>2. g[r] = Image(e.rows[r]) /\ Len(g[r]) \in Nat /\ q[r - 1] \in Nat
    BY <1>1, <1>3, <1>7, <2>1
  <2>3. Begin(e, r) = H + q[r - 1] /\ Begin(e, r + 1) = H + q[r] /\ q[r] = q[r - 1] + Len(g[r])
    BY <1>7, <1>13, <2>1
  <2>4. ASSUME NEW x \in 1 .. Len(g[r]) PROVE bytes[Begin(e, r) + x] = g[r][x]
    <3>1. q[r - 1] + x \in 1 .. Len(s) /\ s[q[r - 1] + x] = g[r][x]
      BY <1>9
    <3>2. Begin(e, r) + x = H + (q[r - 1] + x)
      BY <1>4, <2>2, <2>3
    <3>3. QED
      BY <1>11, <3>1, <3>2
  <2>5. QED
    BY <1>4, <2>2, <2>3, <2>4
<1>16. Begin(e, 1) = HeaderSize(e)
  BY <1>2, <1>4, <1>7, <1>13 DEF H
<1>17. QED
  BY <1>10, <1>14, <1>15, <1>16 DEF EventPlaces

-----------------------------------------------------------------------------
(* What stands at a place, and the numbers there.                          *)
LEMMA Skipped ==
  ASSUME NEW p \in Seq(Byte), NEW m \in Nat
  PROVE  /\ Skip(p, m) \in Seq(Byte)
         /\ m <= Len(p) => /\ Len(Skip(p, m)) = Len(p) - m
                           /\ \A x \in 1 .. Len(p) - m : Skip(p, m)[x] = p[m + x]
<1>1. \A x \in m + 1 .. Len(p) : p[x] \in Byte
  OBVIOUS
<1>2. m + 1 \in Int /\ Len(p) \in Int
  OBVIOUS
<1>3. /\ SubSeq(p, m + 1, Len(p)) \in Seq(Byte)
      /\ Len(SubSeq(p, m + 1, Len(p))) = IF m + 1 <= Len(p) THEN Len(p) - (m + 1) + 1 ELSE 0
      /\ \A x \in 1 .. Len(p) - (m + 1) + 1 : SubSeq(p, m + 1, Len(p))[x] = p[(m + 1) + x - 1]
  BY <1>1, <1>2, SubSeqProperties
<1>4. \A x \in 1 .. Len(p) - m : x \in 1 .. Len(p) - (m + 1) + 1 /\ (m + 1) + x - 1 = m + x
  BY <1>2
<1>5. QED
  BY <1>2, <1>3, <1>4 DEF Skip

LEMMA AtByte ==
  ASSUME NEW p \in Seq(Byte), NEW k \in Nat \ {0}
  PROVE  At(p, k) \in Byte
<1>1. k <= Len(p) => p[k] \in Byte
  OBVIOUS
<1>2. QED
  BY <1>1 DEF At, Byte

LEMMA KorrSmall ==
  ASSUME NEW p \in Seq(Byte)
  PROVE  /\ Korr(p, 0) = 0
         /\ Korr(p, 1) = At(p, 1)
         /\ Korr(p, 2) = At(p, 1) + 256 * At(p, 2)
         /\ Korr(p, 3) = At(p, 1) + 256 * At(p, 2) + 65536 * At(p, 3)
         /\ Korr(p, 4) = At(p, 1) + 256 * At(p, 2) + 65536 * At(p, 3) + 16777216 * At(p, 4)
<1>1. PICK a \in Nat : a = At(p, 1)
  BY AtByte DEF Byte
<1>2. PICK b \in Nat : b = At(p, 2)
  BY AtByte DEF Byte
<1>3. PICK c \in Nat : c = At(p, 3)
  BY AtByte DEF Byte
<1>4. PICK d \in Nat : d = At(p, 4)
  BY AtByte DEF Byte
<1>5. Korr(p, 0) = 0
  BY DEF Korr
<1>6. Korr(p, 1) = At(p, 1)
  <2>1. Korr(p, 1) = a
    BY <1>1 DEF Korr
  <2>2. QED
    BY <1>1, <2>1
<1>7. Korr(p, 2) = At(p, 1) + 256 * At(p, 2)
  <2>1. Korr(p, 2) = a + 256 * b
    BY <1>1, <1>2 DEF Korr
  <2>2. QED
    BY <1>1, <1>2, <2>1, SMT
<1>8. Korr(p, 3) = At(p, 1) + 256 * At(p, 2) + 65536 * At(p, 3)
  <2>1. Korr(p, 3) = a + 256 * b + 65536 * c
    BY <1>1, <1>2, <1>3 DEF Korr
  <2>2. QED
    BY <1>1, <1>2, <1>3, <2>1, SMT
<1>9. Korr(p, 4) = At(p, 1) + 256 * At(p, 2) + 65536 * At(p, 3) + 16777216 * At(p, 4)
  <2>1. Korr(p, 4) = a + 256 * b + 65536 * c + 16777216 * d
    BY <1>1, <1>2, <1>3, <1>4, SMT DEF Korr
  <2>2. QED
    BY <1>1, <1>2, <1>3, <1>4, <2>1, SMT
<1>10. QED
  BY <1>5, <1>6, <1>7, <1>8, <1>9, SMT

LEMMA KorrNat ==
  ASSUME NEW p \in Seq(Byte), NEW n \in 0 .. 4
  PROVE  Korr(p, n) \in Nat
<1>1. PICK a \in Nat : a = At(p, 1)
  BY AtByte DEF Byte
<1>2. PICK b \in Nat : b = At(p, 2)
  BY AtByte DEF Byte
<1>3. PICK c \in Nat : c = At(p, 3)
  BY AtByte DEF Byte
<1>4. PICK d \in Nat : d = At(p, 4)
  BY AtByte DEF Byte
<1>5. n \in {0, 1, 2, 3, 4}
  OBVIOUS
<1>6. Korr(p, 0) \in Nat /\ Korr(p, 1) \in Nat
  BY <1>1, KorrSmall, SMT
<1>7. Korr(p, 2) \in Nat
  <2>1. Korr(p, 2) = a + 256 * b
    BY <1>1, <1>2, KorrSmall, SMT
  <2>2. QED
    BY <2>1, SMT
<1>8. Korr(p, 3) \in Nat
  <2>1. Korr(p, 3) = a + 256 * b + 65536 * c
    BY <1>1, <1>2, <1>3, KorrSmall, SMT
  <2>2. QED
    BY <2>1, SMT
<1>9. Korr(p, 4) \in Nat
  <2>1. Korr(p, 4) = a + 256 * b + 65536 * c + 16777216 * d
    BY <1>1, <1>2, <1>3, <1>4, KorrSmall, SMT
  <2>2. QED
    BY <2>1, SMT
<1>10. QED
  BY <1>5, <1>6, <1>7, <1>8, <1>9

(* uint2korr and the like give back the length a field begins with.        *)
Agree(p, b) == p \in Seq(Byte) /\ Len(p) >= Len(b) /\ \A x \in 1 .. Len(b) : p[x] = b[x]

LEMMA NextPlace ==
  ASSUME NEW v \in Nat, NEW m \in {1, 256, 65536}
  PROVE  v \div m = 256 * (v \div (256 * m)) + ((v \div m) % 256)
<1>1. ASSUME NEW a \in Nat, NEW b \in Nat, NEW c \in 0 .. 255, NEW d \in Nat, a = 256 * d + c,
             m * a <= v, v < m * a + m, 256 * m * b <= v, v < 256 * m * b + 256 * m
      PROVE  d = b
  <2>1. CASE m = 1
    BY <1>1, <2>1
  <2>2. CASE m = 256
    BY <1>1, <2>2
  <2>3. CASE m = 65536
    BY <1>1, <2>3
  <2>4. QED
    BY <2>1, <2>2, <2>3
<1>2. PICK a \in Nat : a = v \div m /\ m * a <= v /\ v < m * a + m
  <2>1. \A n \in {1, 256, 65536} : v \div n \in Nat /\ n * (v \div n) <= v /\ v < n * (v \div n) + n
    OBVIOUS
  <2>2. QED
    BY <2>1
<1>3. PICK b \in Nat : b = v \div (256 * m) /\ 256 * m * b <= v /\ v < 256 * m * b + 256 * m
  <2>1. \A n \in {256, 65536, 16777216} :
           v \div n \in Nat /\ n * (v \div n) <= v /\ v < n * (v \div n) + n
    OBVIOUS
  <2>2. 256 * m \in {256, 65536, 16777216}
    OBVIOUS
  <2>3. QED
    BY <2>1, <2>2
<1>4. PICK c \in 0 .. 255, d \in Nat : a = 256 * d + c /\ c = a % 256
  <2>1. a = 256 * (a \div 256) + (a % 256) /\ a % 256 \in 0 .. 255 /\ a \div 256 \in Nat
    BY <1>2
  <2>2. QED
    BY <2>1
<1>5. d = b
  BY <1>1, <1>2, <1>3, <1>4
<1>6. QED
  BY <1>2, <1>3, <1>4, <1>5

(* A number of n bytes, the lowest first, is read as it was written.       *)
LEMMA KorrLE ==
  ASSUME NEW p \in Seq(Byte), NEW n \in 1 .. 4, NEW v \in Nat, v \div PlaceValue[n] < 256,
         \A k \in 1 .. n : At(p, k) = LEBytes(v, n)[k]
  PROVE  Korr(p, n) = v
<1>2. v \in Nat /\ v \div PlaceValue[n] < 256 /\ p \in Seq(Byte)
  OBVIOUS
<1>3. \A k \in 1 .. n : At(p, k) = (v \div PlaceValue[k]) % 256
  BY DEF LEBytes
<1>5. PlaceValue[1] = 1 /\ PlaceValue[2] = 256 /\ PlaceValue[3] = 65536 /\ PlaceValue[4] = 16777216
  BY DEF PlaceValue
<1>6. /\ v \div 1 = 256 * (v \div 256) + ((v \div 1) % 256)
      /\ v \div 256 = 256 * (v \div 65536) + ((v \div 256) % 256)
      /\ v \div 65536 = 256 * (v \div 16777216) + ((v \div 65536) % 256)
  <2>1. 256 * 1 = 256 /\ 256 * 256 = 65536 /\ 256 * 65536 = 16777216
    OBVIOUS
  <2>2. QED
    BY <1>2, <2>1, NextPlace
<1>7. PICK a, b1, c, d \in Nat : a = v \div 1 /\ b1 = v \div 256 /\ c = v \div 65536 /\ d = v \div 16777216
  BY <1>2
<1>8. PICK r, s, t \in Nat : r = a % 256 /\ s = b1 % 256 /\ t = c % 256
  BY <1>7
<1>9. v = a /\ a = 256 * b1 + r /\ b1 = 256 * c + s /\ c = 256 * d + t
  <2>1. v \div 1 = v
    BY <1>2
  <2>2. QED
    BY <1>6, <1>7, <1>8, <2>1
<1>10. /\ n >= 1 => At(p, 1) = r
       /\ n >= 2 => At(p, 2) = s
       /\ n >= 3 => At(p, 3) = t
       /\ n >= 4 => At(p, 4) = d % 256
  <2>1. \A k \in 1 .. n : At(p, k) = (v \div PlaceValue[k]) % 256
    BY <1>3
  <2>2. /\ n >= 1 => At(p, 1) = (v \div PlaceValue[1]) % 256
        /\ n >= 2 => At(p, 2) = (v \div PlaceValue[2]) % 256
        /\ n >= 3 => At(p, 3) = (v \div PlaceValue[3]) % 256
        /\ n >= 4 => At(p, 4) = (v \div PlaceValue[4]) % 256
    BY <2>1, SMT
  <2>3. /\ (v \div PlaceValue[1]) % 256 = r /\ (v \div PlaceValue[2]) % 256 = s
        /\ (v \div PlaceValue[3]) % 256 = t /\ (v \div PlaceValue[4]) % 256 = d % 256
    BY <1>5, <1>7, <1>8, SMT
  <2>4. QED
    BY <2>2, <2>3, Zenon
<1>11. CASE n = 1
  <2>1. a < 256 /\ Korr(p, 1) = At(p, 1)
    BY <1>2, <1>5, <1>7, <1>11, KorrSmall
  <2>2. QED
    BY <1>8, <1>9, <1>10, <1>11, <2>1
<1>12. CASE n = 2
  <2>1. b1 < 256 /\ Korr(p, 2) = At(p, 1) + 256 * At(p, 2)
    BY <1>2, <1>5, <1>7, <1>12, KorrSmall
  <2>2. s = b1
    BY <1>8, <2>1
  <2>3. QED
    BY <1>9, <1>10, <1>12, <2>1, <2>2
<1>13. CASE n = 3
  <2>1. c < 256 /\ Korr(p, 3) = At(p, 1) + 256 * At(p, 2) + 65536 * At(p, 3)
    BY <1>2, <1>5, <1>7, <1>13, KorrSmall
  <2>2. t = c
    BY <1>8, <2>1
  <2>3. QED
    BY <1>9, <1>10, <1>13, <2>1, <2>2
<1>14. CASE n = 4
  <2>1. d < 256 /\ Korr(p, 4) = At(p, 1) + 256 * At(p, 2) + 65536 * At(p, 3) + 16777216 * At(p, 4)
    BY <1>2, <1>5, <1>7, <1>14, KorrSmall, SMTT(30)
  <2>2. At(p, 1) = r /\ At(p, 2) = s /\ At(p, 3) = t /\ At(p, 4) = d
    <3>1. n >= 1 /\ n >= 2 /\ n >= 3 /\ n >= 4
      BY <1>14, SMT
    <3>2. d < 256
      BY <2>1, SMTT(30)
    <3>3. d % 256 = d
      BY <3>2, SMT
    <3>4. QED
      BY <1>10, <3>1, <3>3, Zenon
  <2>3. Korr(p, 4) = r + 256 * s + 65536 * t + 16777216 * d
    BY <2>1, <2>2, SMTT(30)
  <2>4. v = r + 256 * s + 65536 * t + 16777216 * d
    BY <1>9, SMTT(30)
  <2>5. QED
    BY <1>14, <2>3, <2>4, SMTT(30)
<1>15. QED
  BY <1>11, <1>12, <1>13, <1>14

LEMMA KorrCounted ==
  ASSUME NEW b \in Seq(Byte), NEW n \in 1 .. 4, IsCounted(b, n), NEW p, Agree(p, b)
  PROVE  Korr(p, n) = Len(b) - n
<1>1. PICK v : v = Len(b) - n
  OBVIOUS
<1>2. v \in Nat /\ v \div PlaceValue[n] < 256
  BY <1>1 DEF IsCounted
<1>3. \A k \in 1 .. n : b[k] = LEBytes(v, n)[k]
  BY <1>1 DEF IsCounted
<1>4. \A k \in 1 .. n : At(p, k) = b[k]
  <2>1. \A k \in 1 .. n : k \in 1 .. Len(b) /\ k <= Len(p)
    BY <1>1, <1>2 DEF Agree
  <2>2. QED
    BY <2>1 DEF Agree, At
<1>5. p \in Seq(Byte)
  BY DEF Agree
<1>6. Korr(p, n) = v
  BY <1>2, <1>3, <1>4, <1>5, KorrLE
<1>7. QED
  BY <1>1, <1>6

-----------------------------------------------------------------------------
(* The types by their numbers. *)
LEMMA Types ==
  /\ MY_TYPE.DECIMAL = 0 /\ MY_TYPE.TINY = 1 /\ MY_TYPE.SHORT = 2 /\ MY_TYPE.LONG = 3
  /\ MY_TYPE.FLOAT = 4 /\ MY_TYPE.DOUBLE = 5 /\ MY_TYPE.NULL = 6 /\ MY_TYPE.TIMESTAMP = 7
  /\ MY_TYPE.LONGLONG = 8 /\ MY_TYPE.INT24 = 9 /\ MY_TYPE.DATE = 10 /\ MY_TYPE.TIME = 11
  /\ MY_TYPE.DATETIME = 12 /\ MY_TYPE.YEAR = 13 /\ MY_TYPE.NEWDATE = 14 /\ MY_TYPE.VARCHAR = 15
  /\ MY_TYPE.BIT = 16 /\ MY_TYPE.NEWDECIMAL = 246 /\ MY_TYPE.ENUM = 247 /\ MY_TYPE.SET = 248
  /\ MY_TYPE.TINY_BLOB = 249 /\ MY_TYPE.MEDIUM_BLOB = 250 /\ MY_TYPE.LONG_BLOB = 251
  /\ MY_TYPE.BLOB = 252 /\ MY_TYPE.VAR_STRING = 253 /\ MY_TYPE.STRING = 254 /\ MY_TYPE.GEOMETRY = 255
BY DEF MY_TYPE

LEMMA FixedSizes ==
  /\ DOMAIN FixedSize = {1, 2, 3, 7, 8, 9, 10, 11, 12, 13}
  /\ FixedSize[1] = 1 /\ FixedSize[13] = 1 /\ FixedSize[2] = 2
  /\ FixedSize[9] = 3 /\ FixedSize[10] = 3 /\ FixedSize[11] = 3
  /\ FixedSize[3] = 4 /\ FixedSize[7] = 4 /\ FixedSize[8] = 8 /\ FixedSize[12] = 8
BY Types DEF FixedSize

(* The types and metadata of columns, the types by their numbers.          *)
Kind(t, m) ==
  \/ t \in {1, 2, 3, 7, 8, 9, 10, 11, 12, 13} /\ Len(m) = 0
  \/ t = 4 /\ Len(m) = 1 /\ m[1] = 4
  \/ t = 5 /\ Len(m) = 1 /\ m[1] = 8
  \/ t \in {252, 255} /\ Len(m) = 1 /\ m[1] \in 1 .. 4
  \/ t = 15 /\ Len(m) = 2
  \/ t = 246 /\ Len(m) = 2 /\ m[1] \in 1 .. 65 /\ m[2] \in 0 .. m[1]
  \/ t = 16 /\ Len(m) = 2 /\ m[1] \in 0 .. 7 /\ m[2] \in 0 .. 8
  \/ t = 254 /\ Len(m) = 2

LEMMA ColumnKind ==
  ASSUME NEW c, IsColumn(c)
  PROVE  c.meta \in Seq(Byte) /\ Kind(c.type, c.meta)
<1>1. c.meta \in Seq(Byte)
  BY Zenon DEF IsColumn
<1>2. \/ c.type \in DOMAIN FixedSize /\ c.meta = <<>>
      \/ c.type = MY_TYPE.FLOAT /\ c.meta = <<4>>
      \/ c.type = MY_TYPE.DOUBLE /\ c.meta = <<8>>
      \/ c.type \in {MY_TYPE.BLOB, MY_TYPE.GEOMETRY} /\ \E n \in 1 .. 4 : c.meta = <<n>>
      \/ c.type = MY_TYPE.VARCHAR /\ Len(c.meta) = 2
      \/ /\ c.type = MY_TYPE.NEWDECIMAL
         /\ \E precision \in 1 .. 65 : \E scale \in 0 .. precision : c.meta = <<precision, scale>>
      \/ c.type = MY_TYPE.BIT /\ \E bits \in 1 .. 64 : c.meta = <<bits % 8, bits \div 8>>
      \/ c.type = MY_TYPE.STRING /\ \E length \in 0 .. 1023 : c.meta = CharColumn(length).meta
      \/ /\ c.type = MY_TYPE.STRING
         /\ \E width \in 1 .. 8 : c.meta \in {<<MY_TYPE.ENUM, width>>, <<MY_TYPE.SET, width>>}
  BY Zenon DEF IsColumn
<1>3. ASSUME c.type \in DOMAIN FixedSize, c.meta = <<>> PROVE Kind(c.type, c.meta)
  <2>1. c.type \in {1, 2, 3, 7, 8, 9, 10, 11, 12, 13} /\ Len(c.meta) = 0
    BY <1>3, FixedSizes
  <2>2. QED
    BY <2>1 DEF Kind
<1>4. ASSUME c.type = MY_TYPE.FLOAT, c.meta = << 4 >> PROVE Kind(c.type, c.meta)
  <2>1. c.type = 4 /\ Len(c.meta) = 1 /\ c.meta[1] = 4
    BY <1>4, Types
  <2>2. QED
    BY <2>1 DEF Kind
<1>5. ASSUME c.type = MY_TYPE.DOUBLE, c.meta = << 8 >> PROVE Kind(c.type, c.meta)
  <2>1. c.type = 5 /\ Len(c.meta) = 1 /\ c.meta[1] = 8
    BY <1>5, Types
  <2>2. QED
    BY <2>1 DEF Kind
<1>6. ASSUME c.type \in {MY_TYPE.BLOB, MY_TYPE.GEOMETRY}, NEW n \in 1 .. 4, c.meta = <<n>>
      PROVE  Kind(c.type, c.meta)
  <2>1. c.type \in {252, 255} /\ Len(c.meta) = 1 /\ c.meta[1] \in 1 .. 4
    BY <1>6, Types
  <2>2. QED
    BY <2>1 DEF Kind
<1>7. ASSUME c.type = MY_TYPE.VARCHAR, Len(c.meta) = 2 PROVE Kind(c.type, c.meta)
  <2>1. c.type = 15
    BY <1>7, Types
  <2>2. QED
    BY <1>7, <2>1 DEF Kind
<1>8. ASSUME c.type = MY_TYPE.NEWDECIMAL, NEW precision \in 1 .. 65, NEW scale \in 0 .. precision,
             c.meta = <<precision, scale>>
      PROVE  Kind(c.type, c.meta)
  <2>1. c.type = 246 /\ Len(c.meta) = 2 /\ c.meta[1] = precision /\ c.meta[2] = scale
    BY <1>8, Types
  <2>2. QED
    BY <1>8, <2>1 DEF Kind
<1>9. ASSUME c.type = MY_TYPE.BIT, NEW bits \in 1 .. 64, c.meta = <<bits % 8, bits \div 8>>
      PROVE  Kind(c.type, c.meta)
  <2>1. c.type = 16 /\ Len(c.meta) = 2 /\ c.meta[1] = bits % 8 /\ c.meta[2] = bits \div 8
    BY <1>9, Types
  <2>2. bits % 8 \in 0 .. 7 /\ bits \div 8 \in 0 .. 8
    BY <1>9
  <2>3. QED
    BY <2>1, <2>2 DEF Kind
<1>10. ASSUME c.type = MY_TYPE.STRING, Len(c.meta) = 2 PROVE Kind(c.type, c.meta)
  <2>1. c.type = 254
    BY <1>10, Types
  <2>2. QED
    BY <1>10, <2>1 DEF Kind
<1>11. \A length \in 0 .. 1023 : Len(CharColumn(length).meta) = 2
  BY DEF CharColumn, Column
<1>12. \A width \in 1 .. 8 : Len(<<MY_TYPE.ENUM, width>>) = 2 /\ Len(<<MY_TYPE.SET, width>>) = 2
  OBVIOUS
<1>13. ASSUME NEW length \in 0 .. 1023, c.meta = CharColumn(length).meta PROVE Len(c.meta) = 2
  <2>1. Len(CharColumn(length).meta) = 2
    BY <1>11, ZenonT(30)
  <2>2. QED
    BY <1>13, <2>1
<1>14. ASSUME NEW width \in 1 .. 8, c.meta \in {<<MY_TYPE.ENUM, width>>, <<MY_TYPE.SET, width>>}
       PROVE  Len(c.meta) = 2
  BY <1>12, <1>14, Zenon
<1>15. Kind(c.type, c.meta)
  <2>1. CASE c.type \in DOMAIN FixedSize /\ c.meta = <<>>
    BY <2>1, <1>3
  <2>2. CASE c.type = MY_TYPE.FLOAT /\ c.meta = <<4>>
    BY <2>2, <1>4
  <2>3. CASE c.type = MY_TYPE.DOUBLE /\ c.meta = <<8>>
    BY <2>3, <1>5
  <2>4. CASE c.type \in {MY_TYPE.BLOB, MY_TYPE.GEOMETRY} /\ \E n \in 1 .. 4 : c.meta = <<n>>
    BY <2>4, <1>6, Zenon
  <2>5. CASE c.type = MY_TYPE.VARCHAR /\ Len(c.meta) = 2
    BY <2>5, <1>7
  <2>6. CASE /\ c.type = MY_TYPE.NEWDECIMAL
             /\ \E precision \in 1 .. 65 : \E scale \in 0 .. precision : c.meta = <<precision, scale>>
    BY <2>6, <1>8, Zenon
  <2>7. CASE c.type = MY_TYPE.BIT /\ \E bits \in 1 .. 64 : c.meta = <<bits % 8, bits \div 8>>
    BY <2>7, <1>9, Zenon
  <2>8. CASE c.type = MY_TYPE.STRING /\ \E length \in 0 .. 1023 : c.meta = CharColumn(length).meta
    <3>1. PICK length \in 0 .. 1023 : c.meta = CharColumn(length).meta
      BY <2>8, Zenon
    <3>2. Len(c.meta) = 2
      BY <1>13, <3>1, ZenonT(30)
    <3>3. QED
      BY <2>8, <1>10, <3>2
  <2>9. CASE /\ c.type = MY_TYPE.STRING
             /\ \E width \in 1 .. 8 : c.meta \in {<<MY_TYPE.ENUM, width>>, <<MY_TYPE.SET, width>>}
    BY <2>9, <1>10, <1>14, Zenon
  <2>10. QED
    BY <1>2, <2>1, <2>2, <2>3, <2>4, <2>5, <2>6, <2>7, <2>8, <2>9, ZenonT(60)
<1>16. QED
  BY <1>1, <1>15

(* The number cols_pre_tune and calc_field_size are given.                 *)
Number(m) == IF Len(m) = 0 THEN 0 ELSE IF Len(m) = 1 THEN m[1] ELSE m[1] + 256 * m[2]

LEMMA MetaSize ==
  ASSUME NEW t, NEW m, Kind(t, m)
  PROVE  calc_metadata_size(t) = Len(m) /\ Len(m) \in {0, 1, 2}
<1>1. t \in {1, 2, 3, 7, 8, 9, 10, 11, 12, 13} => calc_metadata_size(t) = 0
  BY Types DEF calc_metadata_size
<1>2. t \in {4, 5, 252, 255} => calc_metadata_size(t) = 1
  BY Types DEF calc_metadata_size
<1>3. t \in {15, 246, 16, 254} => calc_metadata_size(t) = 2
  BY Types DEF calc_metadata_size
<1>4. \/ t \in {1, 2, 3, 7, 8, 9, 10, 11, 12, 13} /\ Len(m) = 0
      \/ t \in {4, 5, 252, 255} /\ Len(m) = 1
      \/ t \in {15, 246, 16, 254} /\ Len(m) = 2
  BY DEF Kind
<1>5. QED
  BY <1>1, <1>2, <1>3, <1>4

LEMMA NumberAt ==
  ASSUME NEW m \in Seq(Byte), Len(m) \in {0, 1, 2}, NEW p, Agree(p, m)
  PROVE  Korr(p, Len(m)) = Number(m)
<1>1. p \in Seq(Byte)
  BY DEF Agree
<1>2. \A x \in 1 .. Len(m) : At(p, x) = m[x]
  BY DEF Agree, At
<1>3. CASE Len(m) = 0
  BY <1>1, <1>3, KorrSmall DEF Number
<1>4. CASE Len(m) = 1
  <2>1. At(p, 1) = m[1]
    BY <1>2, <1>4
  <2>2. QED
    BY <1>1, <1>4, <2>1, KorrSmall DEF Number
<1>5. CASE Len(m) = 2
  <2>1. At(p, 1) = m[1] /\ At(p, 2) = m[2]
    BY <1>2, <1>5
  <2>2. QED
    BY <1>1, <1>5, <2>1, KorrSmall DEF Number
<1>6. QED
  BY <1>3, <1>4, <1>5

(* What begins behind m bytes, when b stands there. *)
LEMMA AgreeAt ==
  ASSUME NEW p \in Seq(Byte), NEW m \in Nat, NEW b \in Seq(Byte), m + Len(b) <= Len(p),
         \A x \in 1 .. Len(b) : p[m + x] = b[x]
  PROVE  Agree(Skip(p, m), b)
<1>1. m <= Len(p) /\ Len(b) \in Nat /\ Len(p) \in Nat
  OBVIOUS
<1>2. /\ Skip(p, m) \in Seq(Byte) /\ Len(Skip(p, m)) = Len(p) - m
      /\ \A x \in 1 .. Len(p) - m : Skip(p, m)[x] = p[m + x]
  BY <1>1, Skipped
<1>3. \A x \in 1 .. Len(b) : x \in 1 .. Len(p) - m
  BY <1>1
<1>4. QED
  BY <1>1, <1>2, <1>3 DEF Agree

LEMMA MetaOf ==
  ASSUME NEW e, IsRowsEvent(e), NEW k \in 1 .. Len(e.table)
  PROVE  Korr(Skip(e.metadata, e.passed[k]), calc_metadata_size(e.table[k].type))
           = Number(e.table[k].meta)
<1>1. IsColumn(e.table[k])
  BY EventParts, Zenon
<1>2. e.table[k].meta \in Seq(Byte) /\ Kind(e.table[k].type, e.table[k].meta)
  BY <1>1, ColumnKind
<1>3. /\ calc_metadata_size(e.table[k].type) = Len(e.table[k].meta)
      /\ Len(e.table[k].meta) \in {0, 1, 2}
  BY <1>2, MetaSize
<1>4. MetadataPlaces(e)
  BY MetadataLayout
<1>5. /\ e.metadata \in Seq(Byte) /\ e.passed[k] \in Nat
      /\ e.passed[k] + Len(e.table[k].meta) <= Len(e.metadata)
      /\ \A x \in 1 .. Len(e.table[k].meta) : e.metadata[e.passed[k] + x] = e.table[k].meta[x]
  <2>1. Len(e.table) \in Nat
    BY EventParts
  <2>2. k \in 1 .. Len(e.table) + 1
    BY <2>1
  <2>3. QED
    BY <1>4, <2>2 DEF MetadataPlaces
<1>6. Agree(Skip(e.metadata, e.passed[k]), e.table[k].meta)
  BY <1>2, <1>5, AgreeAt
<1>7. QED
  BY <1>2, <1>3, <1>6, NumberAt

-----------------------------------------------------------------------------
(* The size of a field. *)
LEMMA SizeOf ==
  ASSUME NEW t, NEW p, NEW mt
  PROVE  /\ t \in {1, 13} => calc_field_size(t, p, mt) = 1
         /\ t = 2 => calc_field_size(t, p, mt) = 2
         /\ t \in {9, 10, 11} => calc_field_size(t, p, mt) = 3
         /\ t \in {3, 7} => calc_field_size(t, p, mt) = 4
         /\ t \in {8, 12} => calc_field_size(t, p, mt) = 8
         /\ t \in {4, 5} => calc_field_size(t, p, mt) = mt
         /\ t = 246 => calc_field_size(t, p, mt) = DigitBytes(Low(mt) - High(mt)) + DigitBytes(High(mt))
         /\ t = 16 => calc_field_size(t, p, mt) = High(mt) + (IF Low(mt) > 0 THEN 1 ELSE 0)
         /\ t = 15 => calc_field_size(t, p, mt) = IF mt > 255 THEN 2 + Korr(p, 2) ELSE 1 + Korr(p, 1)
         /\ t \in {252, 255} => calc_field_size(t, p, mt) = IF mt \in 1 .. 4 THEN mt + Korr(p, mt) ELSE 0
         /\ t = 254 => calc_field_size(t, p, mt) =
              IF Low(mt) \in {247, 248} THEN High(mt)
              ELSE IF High(mt) < 256 THEN At(p, 1) + 1 ELSE Korr(p, 2)
<1>1. t \in {1, 13} => calc_field_size(t, p, mt) = 1
  BY Types DEF calc_field_size
<1>2. t = 2 => calc_field_size(t, p, mt) = 2
  BY Types DEF calc_field_size
<1>3. t \in {9, 10, 11} => calc_field_size(t, p, mt) = 3
  BY Types DEF calc_field_size
<1>4. t \in {3, 7} => calc_field_size(t, p, mt) = 4
  BY Types DEF calc_field_size
<1>5. t \in {8, 12} => calc_field_size(t, p, mt) = 8
  BY Types DEF calc_field_size
<1>6. t \in {4, 5} => calc_field_size(t, p, mt) = mt
  BY Types DEF calc_field_size
<1>7. t = 246 => calc_field_size(t, p, mt) = DigitBytes(Low(mt) - High(mt)) + DigitBytes(High(mt))
  BY Types DEF calc_field_size
<1>8. t = 16 => calc_field_size(t, p, mt) = High(mt) + (IF Low(mt) > 0 THEN 1 ELSE 0)
  BY Types DEF calc_field_size
<1>9. t = 15 => calc_field_size(t, p, mt) = IF mt > 255 THEN 2 + Korr(p, 2) ELSE 1 + Korr(p, 1)
  BY Types DEF calc_field_size
<1>10. t \in {252, 255} => calc_field_size(t, p, mt) = IF mt \in 1 .. 4 THEN mt + Korr(p, mt) ELSE 0
  BY Types DEF calc_field_size
<1>11. t = 254 => calc_field_size(t, p, mt) =
              IF Low(mt) \in {247, 248} THEN High(mt)
              ELSE IF High(mt) < 256 THEN At(p, 1) + 1 ELSE Korr(p, 2)
  BY Types DEF calc_field_size
<1>12. QED
  BY <1>1, <1>2, <1>3, <1>4, <1>5, <1>6, <1>7, <1>8, <1>9, <1>10, <1>11

LEMMA LowHigh ==
  ASSUME NEW m \in Seq(Byte), Len(m) = 2
  PROVE  /\ m[1] \in 0 .. 255 /\ m[2] \in 0 .. 255 /\ Number(m) = m[1] + 256 * m[2]
         /\ Low(Number(m)) = m[1] /\ High(Number(m)) = m[2]
<1>1. m[1] \in Byte /\ m[2] \in Byte
  OBVIOUS
<1>2. PICK a \in 0 .. 255, b \in 0 .. 255 : a = m[1] /\ b = m[2]
  BY <1>1 DEF Byte
<1>3. Number(m) = a + 256 * b
  BY <1>2 DEF Number
<1>4. (a + 256 * b) % 256 = a /\ (a + 256 * b) \div 256 = b
  OBVIOUS
<1>5. QED
  BY <1>2, <1>3, <1>4 DEF Low, High

LEMMA DigitBytesNat ==
  ASSUME NEW n \in Nat
  PROVE  DigitBytes(n) \in Nat /\ DigitBytes(n) = DecimalSize(n)
<1>1. PICK q \in Nat, r \in 0 .. 8 : q = n \div 9 /\ r = n % 9
  OBVIOUS
<1>2. <<0, 1, 1, 2, 2, 3, 3, 4, 4>>[r + 1] = (r + 1) \div 2
  <2>1. r \in {0, 1, 2, 3, 4, 5, 6, 7, 8}
    OBVIOUS
  <2>2. QED
    BY <2>1
<1>3. (r + 1) \div 2 \in Nat
  OBVIOUS
<1>4. QED
  BY <1>1, <1>2, <1>3 DEF DigitBytes, DecimalSize

(* The size z of a field at p, by the bytes of its metadata.               *)
FieldSize(t, m, p, z) ==
  /\ t = 1 \/ t = 13 => z = 1
  /\ t = 2 => z = 2
  /\ t = 9 \/ t = 10 \/ t = 11 => z = 3
  /\ t = 3 \/ t = 7 => z = 4
  /\ t = 8 \/ t = 12 => z = 8
  /\ t = 4 \/ t = 5 => z = m[1]
  /\ t = 246 => z = DecimalSize(m[1] - m[2]) + DecimalSize(m[2])
  /\ t = 16 => z = Bytes(m[1] + 8 * m[2])
  /\ t = 15 => z = IF m[2] = 0 THEN 1 + Korr(p, 1) ELSE 2 + Korr(p, 2)
  /\ t = 252 \/ t = 255 => z = m[1] + Korr(p, m[1])
  /\ t = 254 => z = IF m[1] = 247 \/ m[1] = 248 THEN m[2] ELSE At(p, 1) + 1

(* Kind, without its sets. *)
LEMMA Kinds ==
  ASSUME NEW t, NEW m \in Seq(Byte), Kind(t, m)
  PROVE  /\ t = 4 \/ t = 5 => Len(m) = 1 /\ m[1] \in Nat
         /\ t = 252 \/ t = 255 => Len(m) = 1 /\ m[1] \in 1 .. 4
         /\ t = 15 \/ t = 246 \/ t = 16 \/ t = 254 =>
              Len(m) = 2 /\ m[1] \in 0 .. 255 /\ m[2] \in 0 .. 255
         /\ t = 246 => m[1] \in 1 .. 65 /\ m[2] \in 0 .. m[1]
         /\ t = 16 => m[1] \in 0 .. 7 /\ m[2] \in 0 .. 8
         /\ \/ t = 1 \/ t = 2 \/ t = 3 \/ t = 7 \/ t = 8 \/ t = 9 \/ t = 10 \/ t = 11 \/ t = 12 \/ t = 13
            \/ t = 4 \/ t = 5 \/ t = 252 \/ t = 255 \/ t = 15 \/ t = 246 \/ t = 16 \/ t = 254
<1>1. t = 4 \/ t = 5 => Len(m) = 1 /\ m[1] \in Nat
  BY SMTT(30) DEF Kind
<1>2. t = 252 \/ t = 255 => Len(m) = 1 /\ m[1] \in 1 .. 4
  BY DEF Kind
<1>3. t = 15 \/ t = 246 \/ t = 16 \/ t = 254 => Len(m) = 2
  BY DEF Kind
<1>4. Len(m) = 2 => m[1] \in 0 .. 255 /\ m[2] \in 0 .. 255
  BY LowHigh
<1>5. t = 246 => m[1] \in 1 .. 65 /\ m[2] \in 0 .. m[1]
  BY DEF Kind
<1>6. t = 16 => m[1] \in 0 .. 7 /\ m[2] \in 0 .. 8
  BY DEF Kind
<1>7. \/ t = 1 \/ t = 2 \/ t = 3 \/ t = 7 \/ t = 8 \/ t = 9 \/ t = 10 \/ t = 11 \/ t = 12 \/ t = 13
      \/ t = 4 \/ t = 5 \/ t = 252 \/ t = 255 \/ t = 15 \/ t = 246 \/ t = 16 \/ t = 254
  BY DEF Kind
<1>8. QED
  BY <1>1, <1>2, <1>3, <1>4, <1>5, <1>6, <1>7

LEMMA SizeOfKind ==
  ASSUME NEW t, NEW m \in Seq(Byte), Kind(t, m), NEW p, NEW z, z = calc_field_size(t, p, Number(m))
  PROVE  FieldSize(t, m, p, z)
<1>1. m \in Seq(Byte)
  OBVIOUS
<1>2. ASSUME t = 4 \/ t = 5 PROVE z = m[1]
  BY <1>2, Kinds, SizeOf DEF Number
<1>3. ASSUME t = 252 \/ t = 255 PROVE z = m[1] + Korr(p, m[1])
  <2>1. Number(m) = m[1] /\ m[1] \in 1 .. 4
    BY <1>3, Kinds DEF Number
  <2>2. QED
    BY <1>3, <2>1, SizeOf
<1>4. ASSUME Len(m) = 2
      PROVE  /\ m[1] \in 0 .. 255 /\ m[2] \in 0 .. 255 /\ Number(m) = m[1] + 256 * m[2]
             /\ Low(Number(m)) = m[1] /\ High(Number(m)) = m[2]
  BY ONLY <1>1, <1>4, LowHigh
<1>5. ASSUME t = 246 PROVE z = DecimalSize(m[1] - m[2]) + DecimalSize(m[2])
  <2>1. Len(m) = 2 /\ m[1] \in 1 .. 65 /\ m[2] \in 0 .. m[1]
    BY <1>5, Kinds
  <2>2. m[2] \in Nat /\ m[1] - m[2] \in Nat
    <3>1. \A x \in 1 .. 65 : \A y \in 0 .. x : y \in Nat /\ x - y \in Nat
      OBVIOUS
    <3>2. QED
      BY ONLY <2>1, <3>1, Zenon
  <2>3. DigitBytes(m[1] - m[2]) = DecimalSize(m[1] - m[2]) /\ DigitBytes(m[2]) = DecimalSize(m[2])
    BY ONLY <2>2, DigitBytesNat
  <2>4. z = DigitBytes(Low(Number(m)) - High(Number(m))) + DigitBytes(High(Number(m)))
    BY <1>5, SizeOf
  <2>5. Low(Number(m)) = m[1] /\ High(Number(m)) = m[2]
    BY <1>4, <2>1
  <2>6. QED
    BY ONLY <2>3, <2>4, <2>5
<1>6. ASSUME t = 16 PROVE z = Bytes(m[1] + 8 * m[2])
  <2>1. \A x \in 0 .. 7, y \in 0 .. 8 : y + (IF x > 0 THEN 1 ELSE 0) = (x + 8 * y + 7) \div 8
    OBVIOUS
  <2>2. Len(m) = 2 /\ m[1] \in 0 .. 7 /\ m[2] \in 0 .. 8
    BY <1>6, Kinds
  <2>3. m[2] + (IF m[1] > 0 THEN 1 ELSE 0) = Bytes(m[1] + 8 * m[2])
    BY ONLY <2>1, <2>2 DEF Bytes
  <2>4. z = High(Number(m)) + (IF Low(Number(m)) > 0 THEN 1 ELSE 0)
    BY <1>6, SizeOf
  <2>5. Low(Number(m)) = m[1] /\ High(Number(m)) = m[2]
    BY <1>4, <2>2
  <2>6. QED
    BY ONLY <2>3, <2>4, <2>5
<1>7. ASSUME t = 15 PROVE z = IF m[2] = 0 THEN 1 + Korr(p, 1) ELSE 2 + Korr(p, 2)
  <2>1. Len(m) = 2
    BY <1>7, Kinds
  <2>2. m[1] \in 0 .. 255 /\ m[2] \in 0 .. 255 /\ Number(m) = m[1] + 256 * m[2]
    BY <1>4, <2>1
  <2>3. Number(m) > 255 <=> m[2] # 0
    <3>1. \A x \in 0 .. 255, y \in 0 .. 255 : x + 256 * y > 255 <=> y # 0
      OBVIOUS
    <3>2. PICK x \in 0 .. 255, y \in 0 .. 255 : x = m[1] /\ y = m[2]
      BY ONLY <2>2, Zenon
    <3>3. Number(m) = x + 256 * y /\ (m[2] # 0 <=> y # 0)
      BY ONLY <2>2, <3>2, Zenon
    <3>4. QED
      BY ONLY <3>1, <3>3
  <2>4. z = IF Number(m) > 255 THEN 2 + Korr(p, 2) ELSE 1 + Korr(p, 1)
    BY <1>7, SizeOf
  <2>5. QED
    BY ONLY <2>3, <2>4
<1>8. ASSUME t = 254 PROVE z = IF m[1] = 247 \/ m[1] = 248 THEN m[2] ELSE At(p, 1) + 1
  <2>1. Len(m) = 2
    BY <1>8, Kinds
  <2>5. High(Number(m)) = m[2] /\ Low(Number(m)) = m[1] /\ m[2] \in 0 .. 255
    BY <1>4, <2>1, Zenon
  <2>6. \A y \in 0 .. 255 : y < 256
    OBVIOUS
  <2>2. High(Number(m)) < 256 /\ High(Number(m)) = m[2] /\ Low(Number(m)) = m[1]
    BY ONLY <2>5, <2>6, Zenon
  <2>3. z = IF Low(Number(m)) \in {247, 248} THEN High(Number(m))
            ELSE IF High(Number(m)) < 256 THEN At(p, 1) + 1 ELSE Korr(p, 2)
    BY <1>8, SizeOf
  <2>4. QED
    BY ONLY <2>2, <2>3
<1>9. /\ t = 1 \/ t = 13 => z = 1
      /\ t = 2 => z = 2
      /\ t = 9 \/ t = 10 \/ t = 11 => z = 3
      /\ t = 3 \/ t = 7 => z = 4
      /\ t = 8 \/ t = 12 => z = 8
  BY SizeOf
<1>10. QED
  BY <1>2, <1>3, <1>5, <1>6, <1>7, <1>8, <1>9 DEF FieldSize

(* The size is a number, whatever stands in the field.                     *)
LEMMA SizeNat ==
  ASSUME NEW t, NEW m \in Seq(Byte), Kind(t, m), NEW p \in Seq(Byte)
  PROVE  calc_field_size(t, p, Number(m)) \in Nat
<1>p. p \in Seq(Byte)
  OBVIOUS
<1>1. /\ Korr(p, 1) \in Nat /\ Korr(p, 2) \in Nat /\ Korr(p, 3) \in Nat /\ Korr(p, 4) \in Nat
      /\ At(p, 1) \in Nat
  <2>1. 1 \in 0 .. 4 /\ 2 \in 0 .. 4 /\ 3 \in 0 .. 4 /\ 4 \in 0 .. 4 /\ 1 \in Nat \ {0}
    OBVIOUS
  <2>2. At(p, 1) \in Byte
    BY <2>1, AtByte
  <2>3. \A x \in Byte : x \in Nat
    BY DEF Byte
  <2>4. At(p, 1) \in Nat
    BY ONLY <2>2, <2>3, Zenon
  <2>5. QED
    BY ONLY <2>1, <2>4, KorrNat, <1>p
<1>2. PICK z : z = calc_field_size(t, p, Number(m))
  OBVIOUS
<1>3. SUFFICES z \in Nat
  BY <1>2
<1>4. FieldSize(t, m, p, z)
  BY <1>2, SizeOfKind
<1>5. CASE t = 1 \/ t = 2 \/ t = 3 \/ t = 7 \/ t = 8 \/ t = 9 \/ t = 10 \/ t = 11 \/ t = 12 \/ t = 13
  BY ONLY <1>4, <1>5 DEF FieldSize
<1>6. CASE t = 4 \/ t = 5
  <2>1. m[1] \in Nat
    BY <1>6, Kinds
  <2>2. QED
    BY ONLY <1>4, <1>6, <2>1 DEF FieldSize
<1>7. CASE t = 252 \/ t = 255
  <2>1. m[1] \in 1 .. 4
    BY <1>7, Kinds
  <2>2. z = m[1] + Korr(p, m[1])
    BY ONLY <1>4, <1>7 DEF FieldSize
  <2>3. QED
    BY ONLY <1>1, <2>1, <2>2
<1>8. CASE t = 15
  BY ONLY <1>1, <1>4, <1>8 DEF FieldSize
<1>9. CASE t = 246
  <2>1. m[1] \in 1 .. 65 /\ m[2] \in 0 .. m[1]
    BY <1>9, Kinds
  <2>2. m[1] - m[2] \in Nat /\ m[2] \in Nat
    <3>1. \A x \in 1 .. 65 : \A y \in 0 .. x : x - y \in Nat /\ y \in Nat
      OBVIOUS
    <3>2. QED
      BY ONLY <2>1, <3>1, Zenon
  <2>3. DecimalSize(m[1] - m[2]) \in Nat /\ DecimalSize(m[2]) \in Nat
    BY ONLY <2>2, DigitBytesNat
  <2>4. QED
    BY ONLY <1>4, <1>9, <2>3 DEF FieldSize
<1>10. CASE t = 16
  <2>1. m[1] \in 0 .. 7 /\ m[2] \in 0 .. 8
    BY <1>10, Kinds
  <2>2. \A x \in 0 .. 7, y \in 0 .. 8 : Bytes(x + 8 * y) \in Nat
    BY DEF Bytes
  <2>3. Bytes(m[1] + 8 * m[2]) \in Nat
    BY ONLY <2>1, <2>2, Zenon
  <2>4. z = Bytes(m[1] + 8 * m[2])
    BY ONLY <1>4, <1>10 DEF FieldSize
  <2>5. QED
    BY ONLY <2>3, <2>4, Zenon
<1>11. CASE t = 254
  <2>1. m[2] \in 0 .. 255
    BY <1>11, Kinds
  <2>2. z = IF m[1] = 247 \/ m[1] = 248 THEN m[2] ELSE At(p, 1) + 1
    BY ONLY <1>4, <1>11 DEF FieldSize
  <2>3. \A x \in 0 .. 255 : x \in Nat
    OBVIOUS
  <2>4. m[2] \in Nat
    BY ONLY <2>1, <2>3, Zenon
  <2>5. QED
    BY ONLY <1>1, <2>2, <2>4
<1>12. QED
  BY <1>5, <1>6, <1>7, <1>8, <1>9, <1>10, <1>11, Kinds

(* The size is that of the bytes the master wrote, except for a CHAR that  *)
(* is longer than 255 bytes.                                               *)
WrittenSize(t, m, b) ==
  /\ t = 1 \/ t = 13 => Len(b) = 1
  /\ t = 2 => Len(b) = 2
  /\ t = 9 \/ t = 10 \/ t = 11 => Len(b) = 3
  /\ t = 3 \/ t = 7 => Len(b) = 4
  /\ t = 8 \/ t = 12 => Len(b) = 8
  /\ t = 4 \/ t = 5 => Len(b) = m[1]
  /\ t = 246 => Len(b) = DecimalSize(m[1] - m[2]) + DecimalSize(m[2])
  /\ t = 16 => Len(b) = Bytes(m[1] + 8 * m[2])
  /\ t = 15 => IsCounted(b, IF m[2] = 0 THEN 1 ELSE 2)
  /\ t = 252 \/ t = 255 => IsCounted(b, m[1])
  /\ t = 254 /\ (m[1] = 247 \/ m[1] = 248) => Len(b) = m[2]
  /\ t = 254 /\ m[1] = 254 => IsCounted(b, 1)

LEMMA HasSizeOf ==
  ASSUME NEW c, NEW b, HasSize(c, b)
  PROVE  WrittenSize(c.type, c.meta, b)
<1>1. DOMAIN FixedSize = {1, 2, 3, 7, 8, 9, 10, 11, 12, 13}
  BY FixedSizes
<1>2. c.type = 4 => Len(b) = c.meta[1]
  BY <1>1, Types DEF HasSize
<1>3. c.type = 5 => Len(b) = c.meta[1]
  BY <1>1, Types DEF HasSize
<1>4. c.type = 252 => IsCounted(b, c.meta[1])
  BY <1>1, Types DEF HasSize
<1>5. c.type = 255 => IsCounted(b, c.meta[1])
  BY <1>1, Types DEF HasSize
<1>6. c.type = 15 => IsCounted(b, IF c.meta[2] = 0 THEN 1 ELSE 2)
  BY <1>1, Types DEF HasSize
<1>7. c.type = 246 => Len(b) = DecimalSize(c.meta[1] - c.meta[2]) + DecimalSize(c.meta[2])
  BY <1>1, Types DEF HasSize
<1>8. c.type = 16 => Len(b) = Bytes(c.meta[1] + 8 * c.meta[2])
  BY <1>1, Types DEF HasSize
<1>9. c.type = 254 /\ (c.meta[1] = 247 \/ c.meta[1] = 248) => Len(b) = c.meta[2]
  BY <1>1, Types DEF HasSize
<1>10. c.type = 254 /\ c.meta[1] = 254 => IsCounted(b, 1)
  BY <1>1, Types DEF HasSize
<1>11. c.type = 1 => Len(b) = FixedSize[1]
  BY <1>1, Types DEF HasSize
<1>12. c.type = 2 => Len(b) = FixedSize[2]
  BY <1>1, Types DEF HasSize
<1>13. c.type = 3 => Len(b) = FixedSize[3]
  BY <1>1, Types DEF HasSize
<1>14. c.type = 7 => Len(b) = FixedSize[7]
  BY <1>1, Types DEF HasSize
<1>15. c.type = 8 => Len(b) = FixedSize[8]
  BY <1>1, Types DEF HasSize
<1>16. c.type = 9 => Len(b) = FixedSize[9]
  BY <1>1, Types DEF HasSize
<1>17. c.type = 10 => Len(b) = FixedSize[10]
  BY <1>1, Types DEF HasSize
<1>18. c.type = 11 => Len(b) = FixedSize[11]
  BY <1>1, Types DEF HasSize
<1>19. c.type = 12 => Len(b) = FixedSize[12]
  BY <1>1, Types DEF HasSize
<1>20. c.type = 13 => Len(b) = FixedSize[13]
  BY <1>1, Types DEF HasSize
<1>21. /\ FixedSize[1] = 1 /\ FixedSize[13] = 1 /\ FixedSize[2] = 2
       /\ FixedSize[9] = 3 /\ FixedSize[10] = 3 /\ FixedSize[11] = 3
       /\ FixedSize[3] = 4 /\ FixedSize[7] = 4 /\ FixedSize[8] = 8 /\ FixedSize[12] = 8
  BY ONLY FixedSizes
<1>22. /\ c.type = 1 \/ c.type = 13 => Len(b) = 1
       /\ c.type = 2 => Len(b) = 2
       /\ c.type = 9 \/ c.type = 10 \/ c.type = 11 => Len(b) = 3
       /\ c.type = 3 \/ c.type = 7 => Len(b) = 4
       /\ c.type = 8 \/ c.type = 12 => Len(b) = 8
  BY ONLY <1>11, <1>12, <1>13, <1>14, <1>15, <1>16, <1>17, <1>18, <1>19, <1>20, <1>21
<1>23. QED
  BY ONLY <1>2, <1>3, <1>4, <1>5, <1>6, <1>7, <1>8, <1>9, <1>10, <1>22 DEF WrittenSize

LEMMA SizeRight ==
  ASSUME NEW c, c.meta \in Seq(Byte), Kind(c.type, c.meta),
         c.type = 254 => c.meta[1] \in {247, 248, 254},
         NEW b \in Seq(Byte), HasSize(c, b), NEW p, Agree(p, b)
  PROVE  calc_field_size(c.type, p, Number(c.meta)) = Len(b)
<1>1. PICK t : t = c.type
  OBVIOUS
<1>2. PICK m : m = c.meta
  OBVIOUS
<1>3. m \in Seq(Byte)
  BY <1>2
<1>4. Kind(t, m)
  BY <1>1, <1>2, Zenon
<1>5. t = 254 => m[1] \in {247, 248, 254}
  BY <1>1, <1>2, Zenon
<1>6. PICK z : z = calc_field_size(t, p, Number(m))
  OBVIOUS
<1>7. SUFFICES z = Len(b)
  BY <1>1, <1>2, <1>6, Zenon
<1>8. FieldSize(t, m, p, z)
  BY <1>3, <1>4, <1>6, SizeOfKind
<1>9. WrittenSize(t, m, b)
  <2>1. WrittenSize(c.type, c.meta, b)
    BY HasSizeOf
  <2>2. QED
    BY ONLY <1>1, <1>2, <2>1, Zenon
<1>10. Len(b) \in Nat
  OBVIOUS
<1>11. \A n \in 1 .. 4 : IsCounted(b, n) => Korr(p, n) = Len(b) - n
  BY KorrCounted
<1>12. CASE \/ t = 1 \/ t = 2 \/ t = 3 \/ t = 7 \/ t = 8 \/ t = 9 \/ t = 10 \/ t = 11 \/ t = 12 \/ t = 13
            \/ t = 4 \/ t = 5 \/ t = 246 \/ t = 16
  <2>1. CASE t = 1 \/ t = 13 \/ t = 2 \/ t = 9 \/ t = 10 \/ t = 11
    BY ONLY <1>8, <1>9, <2>1 DEF FieldSize, WrittenSize
  <2>2. CASE t = 3 \/ t = 7 \/ t = 8 \/ t = 12
    BY ONLY <1>8, <1>9, <2>2, ZenonT(30) DEF FieldSize, WrittenSize
  <2>3. CASE t = 4 \/ t = 5
    BY ONLY <1>8, <1>9, <2>3, ZenonT(30) DEF FieldSize, WrittenSize
  <2>4. CASE t = 246
    <3>1. z = DecimalSize(m[1] - m[2]) + DecimalSize(m[2])
      BY ONLY <1>8, <2>4 DEF FieldSize
    <3>2. Len(b) = DecimalSize(m[1] - m[2]) + DecimalSize(m[2])
      BY ONLY <1>9, <2>4 DEF WrittenSize
    <3>3. QED
      BY ONLY <3>1, <3>2, Zenon
  <2>5. CASE t = 16
    <3>1. z = Bytes(m[1] + 8 * m[2])
      BY ONLY <1>8, <2>5 DEF FieldSize
    <3>2. Len(b) = Bytes(m[1] + 8 * m[2])
      BY ONLY <1>9, <2>5 DEF WrittenSize
    <3>3. QED
      BY ONLY <3>1, <3>2, Zenon
  <2>6. QED
    BY ONLY <1>12, <2>1, <2>2, <2>3, <2>4, <2>5
<1>13. CASE t = 252 \/ t = 255
  <2>1. m[1] \in 1 .. 4
    BY <1>3, <1>4, <1>13, Kinds
  <2>2. z = m[1] + Korr(p, m[1]) /\ IsCounted(b, m[1])
    BY ONLY <1>8, <1>9, <1>13 DEF FieldSize, WrittenSize
  <2>3. Korr(p, m[1]) = Len(b) - m[1]
    BY ONLY <1>11, <2>1, <2>2
  <2>4. QED
    BY ONLY <1>10, <2>1, <2>2, <2>3
<1>14. CASE t = 15
  <2>1. /\ z = IF m[2] = 0 THEN 1 + Korr(p, 1) ELSE 2 + Korr(p, 2)
        /\ IsCounted(b, IF m[2] = 0 THEN 1 ELSE 2)
    BY ONLY <1>8, <1>9, <1>14 DEF FieldSize, WrittenSize
  <2>2. CASE m[2] = 0
    BY ONLY <1>10, <1>11, <2>1, <2>2
  <2>3. CASE m[2] # 0
    BY ONLY <1>10, <1>11, <2>1, <2>3
  <2>4. QED
    BY ONLY <2>2, <2>3
<1>15. CASE t = 254
  <2>1. Korr(p, 1) = At(p, 1)
    BY KorrSmall DEF Agree
  <2>2. z = IF m[1] = 247 \/ m[1] = 248 THEN m[2] ELSE At(p, 1) + 1
    BY ONLY <1>8, <1>15 DEF FieldSize
  <2>3. CASE m[1] = 247 \/ m[1] = 248
    BY ONLY <1>9, <1>15, <2>2, <2>3 DEF WrittenSize
  <2>4. CASE m[1] = 254
    <3>1. IsCounted(b, 1)
      BY ONLY <1>9, <1>15, <2>4 DEF WrittenSize
    <3>2. Korr(p, 1) = Len(b) - 1
      BY ONLY <1>11, <3>1
    <3>3. QED
      BY ONLY <1>10, <2>1, <2>2, <2>4, <3>2
  <2>5. QED
    BY ONLY <1>5, <1>15, <2>3, <2>4
<1>16. QED
  BY <1>3, <1>4, <1>12, <1>13, <1>14, <1>15, Kinds

-----------------------------------------------------------------------------
(* The texts of fields are bytes. *)
LEMMA FlattenTyped ==
  ASSUME NEW S, NEW n \in Nat, NEW g \in [1 .. n -> Seq(S)]
  PROVE  FlattenSeq(g) \in Seq(S)
<1>1. PICK t : Places(t, g, n)
  BY PlacesExist
<1>2. Joined(FlattenSeq(g), g, t, n, S)
  BY <1>1, Flattened
<1>3. QED
  BY <1>2 DEF Joined

LEMMA LabelsIn ==
  ASSUME NEW E, NEW lb \in Seq(E), NEW S
  PROVE  Labels(lb, S) \in Seq(E)
<1> DEFINE n == Len(lb)
           A == Seq(E)
           F(f) == [k \in 0 .. n |-> IF k = 0 THEN <<>>
                                     ELSE IF k \in S THEN Append(f[k - 1], lb[k]) ELSE f[k - 1]]
           chosen == CHOOSE f : f = F(f)
<1>1. PICK step : step = [k \in 0 + 1 .. n |-> [x \in A |-> IF k \in S THEN Append(x, lb[k]) ELSE x]]
  OBVIOUS
<1>2. n \in Nat /\ 0 <= n /\ <<>> \in A
  OBVIOUS
<1>3. step \in [0 + 1 .. n -> [A -> A]]
  <2>1. ASSUME NEW k \in 0 + 1 .. n, NEW x \in A PROVE (IF k \in S THEN Append(x, lb[k]) ELSE x) \in A
    <3>1. lb[k] \in E
      OBVIOUS
    <3>2. QED
      BY <3>1
  <2> HIDE DEF A, n
  <2>2. QED
    BY <1>1, <2>1
<1>4. PICK f : IsLoop(f, 0, n, <<>>, A, step)
  <2> HIDE DEF A, n
  <2>1. QED
    BY <1>2, <1>3, Iterated
<1>5. f \in [0 .. n -> A] /\ f = [k \in 0 .. n |-> IF k = 0 THEN <<>> ELSE step[k][f[k - 1]]]
  BY <1>4 DEF IsLoop
<1>6. ASSUME NEW k \in 0 .. n
      PROVE  f[k] = IF k = 0 THEN <<>> ELSE IF k \in S THEN Append(f[k - 1], lb[k]) ELSE f[k - 1]
  <2> HIDE DEF A, n
  <2>1. f[k] = IF k = 0 THEN <<>> ELSE step[k][f[k - 1]]
    BY <1>5
  <2>2. k # 0 => k \in 0 + 1 .. n /\ k - 1 \in 0 .. n /\ f[k - 1] \in A
    BY <1>2, <1>5
  <2>3. k # 0 => step[k][f[k - 1]] = IF k \in S THEN Append(f[k - 1], lb[k]) ELSE f[k - 1]
    BY <1>1, <2>2
  <2>4. QED
    BY <2>1, <2>3
<1>7. f = [k \in 0 .. n |-> f[k]]
  BY <1>5
<1>8. f = F(f)
  BY <1>6, <1>7
<1>9. chosen = F(chosen)
  <2> HIDE DEF F
  <2>1. QED
    BY <1>8
<1>10. Labels(lb, S) = chosen[n]
  BY DEF Labels
<1> HIDE DEF chosen
<1>11. \A k \in 0 .. n : chosen[k] \in A
  <2>1. PICK B : B = [k \in 0 .. n |-> A]
    OBVIOUS
  <2>2. chosen[0] = <<>> /\ chosen[0] \in B[0]
    BY <1>2, <1>9, <2>1
  <2>3. ASSUME NEW k \in 0 + 1 .. n, chosen[k - 1] \in B[k - 1] PROVE chosen[k] \in B[k]
    <3>1. k \in 0 .. n /\ k - 1 \in 0 .. n /\ k # 0 /\ lb[k] \in E
      OBVIOUS
    <3>2. chosen[k] = IF k \in S THEN Append(chosen[k - 1], lb[k]) ELSE chosen[k - 1]
      BY <1>9, <3>1
    <3>3. chosen[k - 1] \in A
      BY <2>1, <2>3, <3>1
    <3>4. Append(chosen[k - 1], lb[k]) \in A
      BY <3>1, <3>3
    <3>5. chosen[k] \in A
      BY <3>2, <3>3, <3>4
    <3>6. QED
      BY <2>1, <3>1, <3>5
  <2>4. 0 \in Nat
    OBVIOUS
  <2> HIDE DEF A, n, F
  <2>5. \A k \in 0 .. n : chosen[k] \in B[k]
    BY <1>2, <2>2, <2>3, <2>4, Kept
  <2>6. QED
    BY <2>1, <2>5
<1>12. QED
  BY <1>2, <1>10, <1>11

LEMMA LabelsTyped ==
  ASSUME NEW lb \in Seq(Seq(Byte)), NEW S
  PROVE  Labels(lb, S) \in Seq(Seq(Byte))
BY LabelsIn

LEMMA OnlyIn ==
  ASSUME NEW E, NEW q \in Seq(E), Len(q) = 1
  PROVE  q[1] \in E
OBVIOUS

(* Labels of which none is empty are not one empty label.                  *)
LEMMA NoEmptyAmong ==
  ASSUME NEW lb \in Seq(Seq(Byte)), \A k \in DOMAIN lb : lb[k] # <<>>, NEW S
  PROVE  Labels(lb, S) # << <<>> >>
<1>1. PICK E : E = Seq(Byte) \ {<<>>}
  OBVIOUS
<1>2. lb \in Seq(E)
  <2>1. PICK n \in Nat : n = Len(lb)
    OBVIOUS
  <2>2. lb \in [1 .. n -> E]
    BY <1>1, <2>1
  <2>3. QED
    BY <2>1, <2>2, SMTT(30)
<1>3. PICK q : q = Labels(lb, S) /\ q \in Seq(E)
  BY <1>2, LabelsIn
<1>4. ASSUME q = << <<>> >> PROVE FALSE
  <2>1. Len(q) = 1 /\ q[1] = <<>>
    BY <1>4
  <2>2. q \in Seq(E)
    BY <1>3
  <2>3. q[1] \in E
    BY ONLY <2>1, <2>2, OnlyIn, Zenon
  <2>4. QED
    BY ONLY <1>1, <2>1, <2>3, Zenon
<1>5. QED
  BY <1>3, <1>4

(* What SHOW COLUMNS gives, and the labels that are found in it, whatever  *)
(* it is.                                                                  *)
LEMMA ShownTyped ==
  ASSUME NEW lb \in Seq(Seq(Byte))
  PROVE  ShownType(lb) \in Seq(Byte)
<1> DEFINE shown(label) == FlattenSeq([k \in DOMAIN label |->
                        IF label[k] = Quote THEN <<Quote, Quote>> ELSE <<label[k]>>])
           part(k) == <<Quote>> \o shown(lb[k]) \o (IF k = Len(lb) THEN <<Quote>> ELSE <<Quote, 44>>)
<1>1. Quote \in Byte /\ 40 \in Byte /\ 41 \in Byte /\ 44 \in Byte
  BY DEF Quote, Byte
<1>2. ASSUME NEW label \in Seq(Byte) PROVE shown(label) \in Seq(Byte)
  <2>1. PICK g : g = [k \in DOMAIN label |-> IF label[k] = Quote THEN <<Quote, Quote>> ELSE <<label[k]>>]
    OBVIOUS
  <2>2. Len(label) \in Nat /\ DOMAIN label = 1 .. Len(label) /\ \A k \in 1 .. Len(label) : label[k] \in Byte
    OBVIOUS
  <2>3. ASSUME NEW k \in 1 .. Len(label) PROVE g[k] \in Seq(Byte)
    <3>1. <<Quote, Quote>> \in Seq(Byte) /\ <<label[k]>> \in Seq(Byte)
      BY <1>1, <2>2
    <3>2. QED
      BY <2>1, <2>2, <3>1
  <2>4. g \in [1 .. Len(label) -> Seq(Byte)]
    BY <2>1, <2>2, <2>3
  <2>5. FlattenSeq(g) \in Seq(Byte)
    BY <2>2, <2>4, FlattenTyped
  <2>6. QED
    BY <2>1, <2>5
<1> HIDE DEF shown
<1>3. Len(lb) \in Nat /\ DOMAIN lb = 1 .. Len(lb) /\ \A k \in 1 .. Len(lb) : lb[k] \in Seq(Byte)
  OBVIOUS
<1>4. \A k \in 1 .. Len(lb) : part(k) \in Seq(Byte)
  <2>1. <<Quote>> \in Seq(Byte) /\ <<Quote, 44>> \in Seq(Byte)
    BY <1>1
  <2>2. ASSUME NEW k \in 1 .. Len(lb) PROVE part(k) \in Seq(Byte)
    <3>1. PICK middle \in Seq(Byte) : middle = shown(lb[k])
      BY <1>2, <1>3
    <3>2. PICK behind \in Seq(Byte) : behind = IF k = Len(lb) THEN <<Quote>> ELSE <<Quote, 44>>
      BY <2>1
    <3>3. part(k) = <<Quote>> \o middle \o behind
      BY <3>1, <3>2
    <3> HIDE DEF part
    <3>4. QED
      BY <2>1, <3>3
  <2> HIDE DEF part
  <2>3. QED
    BY <2>2
<1>5. PICK g : g = [k \in DOMAIN lb |-> part(k)]
  OBVIOUS
<1>6. ShownType(lb) = <<40>> \o FlattenSeq(g) \o <<41>>
  BY <1>5 DEF ShownType, shown
<1> HIDE DEF part
<1>7. g \in [1 .. Len(lb) -> Seq(Byte)]
  BY <1>3, <1>4, <1>5
<1>8. FlattenSeq(g) \in Seq(Byte)
  BY <1>3, <1>7, FlattenTyped
<1>9. <<40>> \in Seq(Byte) /\ <<41>> \in Seq(Byte)
  BY <1>1
<1>10. QED
  BY <1>6, <1>8, <1>9

LEMMA QuoteExists ==
  ASSUME NEW s \in Seq(Byte), NEW k \in 1 .. Len(s) + 1
  PROVE  LET q == QuoteFrom(s, k)
         IN /\ q \in k .. Len(s) + 1 /\ (q > Len(s) \/ s[q] = Quote)
            /\ \A l \in k .. q - 1 : s[l] # Quote
<1> DEFINE S == {q \in k .. Len(s) + 1 : q > Len(s) \/ s[q] = Quote}
<1>1. Len(s) \in Nat /\ Len(s) + 1 \in S /\ S \subseteq Nat
  OBVIOUS
<1>2. PICK q \in S : \A x \in S : q <= x
  <2> HIDE DEF S
  <2>1. S # {}
    BY <1>1
  <2>2. QED
    BY <1>1, <2>1, LeastNat
<1>3. \A l \in k .. q - 1 : l \in k .. Len(s) + 1 /\ ~(q <= l)
  BY <1>1, <1>2
<1>4. \A l \in k .. q - 1 : s[l] # Quote
  BY <1>2, <1>3
<1>5. \E x \in k .. Len(s) + 1 : (x > Len(s) \/ s[x] = Quote) /\ \A l \in k .. x - 1 : s[l] # Quote
  BY <1>2, <1>4
<1>6. QED
  BY <1>5 DEF QuoteFrom

(* enum_labels goes through the string from a place on.                    *)
LabelsFrom(s, k, f) ==
  LET pos1 == QuoteFrom(s, k)
      pos2 == QuoteFrom(s, pos1 + 1)
  IN IF pos1 > Len(s) \/ pos2 > Len(s) THEN <<>>
     ELSE <<SubSeq(s, pos1 + 1, pos2 - 1)>> \o f[pos2 + 1]

LEMMA LabelsFromIs ==
  ASSUME NEW s \in Seq(Byte), NEW k \in 1 .. Len(s) + 1
  PROVE  \/ \A f : LabelsFrom(s, k, f) = <<>>
         \/ \E q \in k + 1 .. Len(s) + 1, label \in Seq(Byte) :
              \A f : LabelsFrom(s, k, f) = <<label>> \o f[q]
<1>1. PICK n \in Nat : n = Len(s)
  OBVIOUS
<1>2. PICK a : a = QuoteFrom(s, k)
  OBVIOUS
<1>3. a \in k .. n + 1
  BY <1>1, <1>2, QuoteExists
<1>4. PICK b : b = QuoteFrom(s, a + 1)
  OBVIOUS
<1>5. ASSUME NEW f PROVE LabelsFrom(s, k, f) = IF a > n \/ b > n THEN <<>>
                                                ELSE <<SubSeq(s, a + 1, b - 1)>> \o f[b + 1]
  BY <1>1, <1>2, <1>4 DEF LabelsFrom
<1>6. CASE a > n \/ b > n
  BY <1>5, <1>6
<1>7. CASE ~(a > n) /\ ~(b > n)
  <2>1. a + 1 \in 1 .. Len(s) + 1
    BY <1>1, <1>3, <1>7
  <2>2. b \in a + 1 .. n + 1
    BY <1>1, <1>4, <2>1, QuoteExists
  <2>3. b + 1 \in k + 1 .. n + 1
    BY <1>1, <1>3, <1>7, <2>2
  <2>4. PICK label : label = SubSeq(s, a + 1, b - 1)
    OBVIOUS
  <2>5. label \in Seq(Byte)
    <3>1. a + 1 \in Int /\ b - 1 \in Int /\ \A x \in a + 1 .. b - 1 : s[x] \in Byte
      BY <1>1, <1>3, <1>7, <2>2
    <3>2. QED
      BY <2>4, <3>1, SubSeqProperties
  <2>6. \A f : LabelsFrom(s, k, f) = <<label>> \o f[b + 1]
    BY <1>5, <1>7, <2>4
  <2>7. QED
    BY <1>1, <2>3, <2>5, <2>6
<1>8. QED
  BY <1>6, <1>7

(* from[k] is what is found from place k on.                               *)
LabelsAt(s, from) ==
  /\ enum_labels(s) = from[1]
  /\ \A k \in 1 .. Len(s) + 1 : from[k] = LabelsFrom(s, k, from) /\ from[k] \in Seq(Seq(Byte))

(* It is decided by what was found at the places behind.                   *)
LEMMA LabelsBehind ==
  ASSUME NEW s \in Seq(Byte), NEW k \in 1 .. Len(s) + 1, NEW f, NEW g
  PROVE  /\ (\A q \in k + 1 .. Len(s) + 1 : f[q] = g[q]) => LabelsFrom(s, k, f) = LabelsFrom(s, k, g)
         /\ (\A q \in k + 1 .. Len(s) + 1 : f[q] \in Seq(Seq(Byte))) =>
               LabelsFrom(s, k, f) \in Seq(Seq(Byte))
<1>1. CASE \A h : LabelsFrom(s, k, h) = <<>>
  <2>1. LabelsFrom(s, k, f) = <<>> /\ LabelsFrom(s, k, g) = <<>> /\ <<>> \in Seq(Seq(Byte))
    BY <1>1
  <2>2. QED
    BY <2>1
<1>2. CASE \E q \in k + 1 .. Len(s) + 1, label \in Seq(Byte) : \A h : LabelsFrom(s, k, h) = <<label>> \o h[q]
  <2>1. PICK q \in k + 1 .. Len(s) + 1, label \in Seq(Byte) : \A h : LabelsFrom(s, k, h) = <<label>> \o h[q]
    BY <1>2
  <2>2. LabelsFrom(s, k, f) = <<label>> \o f[q] /\ LabelsFrom(s, k, g) = <<label>> \o g[q]
    BY <2>1
  <2>3. <<label>> \in Seq(Seq(Byte))
    OBVIOUS
  <2>4. f[q] \in Seq(Seq(Byte)) => <<label>> \o f[q] \in Seq(Seq(Byte))
    BY <2>3
  <2>5. QED
    BY <2>2, <2>4
<1>3. QED
  BY <1>1, <1>2, LabelsFromIs

LEMMA LabelsWalk ==
  ASSUME NEW s \in Seq(Byte)
  PROVE  \E from : LabelsAt(s, from)
<1> DEFINE n == Len(s)
           A == Seq(Seq(Byte))
           F(f) == [k \in 1 .. n + 1 |-> LabelsFrom(s, k, f)]
           from == CHOOSE f : f = F(f)
           Good(f, r) == \A k \in n + 1 - r .. n + 1 : f[k] = LabelsFrom(s, k, f)
           S == {r \in 0 .. n : \E f \in [1 .. n + 1 -> A] : Good(f, r)}
<1>1. n \in Nat /\ <<>> \in A
  OBVIOUS
<1>2. enum_labels(s) = from[1]
  BY DEF enum_labels, LabelsFrom
<1> HIDE DEF n, A
<1>3. 0 \in S
  <2>2. PICK g : g = [k \in 1 .. n + 1 |-> <<>>]
    OBVIOUS
  <2>3. PICK h : h = [k \in 1 .. n + 1 |-> LabelsFrom(s, k, g)]
    OBVIOUS
  <2>4. \A k \in 1 .. n + 1 : h[k] \in A
    <3>1. ASSUME NEW k \in 1 .. n + 1 PROVE LabelsFrom(s, k, g) \in A
      <4>1. \A q \in k + 1 .. Len(s) + 1 : g[q] \in Seq(Seq(Byte))
        BY <1>1, <2>2 DEF n, A
      <4>2. QED
        BY <4>1, LabelsBehind DEF n, A
    <3>2. QED
      BY <2>3, <3>1
  <2>5. h \in [1 .. n + 1 -> A]
    BY <2>3, <2>4
  <2>6. h[n + 1] = LabelsFrom(s, n + 1, h)
    <3>1. n + 1 \in 1 .. n + 1
      BY <1>1
    <3>2. \A q \in (n + 1) + 1 .. Len(s) + 1 : g[q] = h[q]
      BY <1>1 DEF n
    <3>3. LabelsFrom(s, n + 1, g) = LabelsFrom(s, n + 1, h)
      BY <3>1, <3>2, LabelsBehind DEF n
    <3>4. QED
      BY <2>3, <3>1, <3>3
  <2>7. \A k \in n + 1 - 0 .. n + 1 : k = n + 1
    BY <1>1
  <2>8. Good(h, 0)
    BY <2>6, <2>7
  <2> HIDE DEF Good
  <2>9. QED
    BY <1>1, <2>5, <2>8
<1>4. ASSUME NEW r \in Nat, r < n, r \in S PROVE r + 1 \in S
  <2>1. PICK f \in [1 .. n + 1 -> A] : Good(f, r)
    BY <1>4
  <2>2. PICK new : new = n - r
    OBVIOUS
  <2>3. /\ new \in 1 .. n + 1 /\ n + 1 - (r + 1) = new /\ n + 1 - r = new + 1 /\ r + 1 \in 0 .. n
        /\ \A k \in new .. n + 1 : k = new \/ k \in new + 1 .. n + 1
    BY <1>1, <1>4, <2>2
  <2>4. LabelsFrom(s, new, f) \in A
    <3>1. \A q \in new + 1 .. Len(s) + 1 : f[q] \in Seq(Seq(Byte))
      BY <1>1, <2>1, <2>3 DEF n, A
    <3>2. QED
      BY <2>3, <3>1, LabelsBehind DEF n, A
  <2>5. PICK g : g = [f EXCEPT ![new] = LabelsFrom(s, new, f)]
    OBVIOUS
  <2>6. g \in [1 .. n + 1 -> A] /\ g[new] = LabelsFrom(s, new, f)
        /\ \A q \in new + 1 .. n + 1 : f[q] = g[q]
    BY <1>1, <2>1, <2>3, <2>4, <2>5
  <2>7. ASSUME NEW k \in new .. n + 1 PROVE g[k] = LabelsFrom(s, k, g)
    <3>1. k \in 1 .. n + 1 /\ \A q \in k + 1 .. n + 1 : q \in new + 1 .. n + 1
      BY <1>1, <2>3
    <3>2. \A q \in k + 1 .. Len(s) + 1 : f[q] = g[q]
      BY <2>6, <3>1 DEF n
    <3>3. LabelsFrom(s, k, f) = LabelsFrom(s, k, g)
      BY <3>1, <3>2, LabelsBehind DEF n
    <3>4. CASE k = new
      BY <2>6, <3>3, <3>4
    <3>5. CASE k \in new + 1 .. n + 1
      <4>1. f[k] = LabelsFrom(s, k, f)
        BY <2>1, <2>3, <3>5
      <4>2. g[k] = f[k]
        BY <2>6, <3>5
      <4>3. QED
        BY <3>3, <4>1, <4>2
    <3>6. QED
      BY <2>3, <3>4, <3>5
  <2>8. Good(g, r + 1)
    BY <2>3, <2>7
  <2> HIDE DEF Good
  <2>9. QED
    BY <2>3, <2>6, <2>8
<1>5. n \in S
  <2> HIDE DEF S
  <2>1. \A r \in 0 .. n : r \in S
    BY <1>1, <1>3, <1>4, UpTo
  <2>2. QED
    BY <1>1, <2>1
<1>6. PICK f \in [1 .. n + 1 -> A] : Good(f, n)
  BY <1>5
<1>7. f = F(f)
  <2>1. \A k \in 1 .. n + 1 : k \in n + 1 - n .. n + 1
    BY <1>1
  <2>2. \A k \in 1 .. n + 1 : f[k] = LabelsFrom(s, k, f)
    BY <1>6, <2>1
  <2>3. f = [k \in 1 .. n + 1 |-> f[k]]
    BY <1>6
  <2>4. QED
    BY <2>2, <2>3
<1>8. from = F(from)
  <2> HIDE DEF F
  <2>1. QED
    BY <1>7
<1> HIDE DEF from
<1>9. \A k \in 1 .. n + 1 : from[k] = LabelsFrom(s, k, from)
  BY <1>8
<1> DEFINE T == {r \in 0 .. n : \A k \in n + 1 - r .. n + 1 : from[k] \in A}
<1>10. 0 \in T
  <2>1. n + 1 \in 1 .. n + 1 /\ (\A k \in n + 1 - 0 .. n + 1 : k = n + 1) /\ 0 \in 0 .. n
    BY <1>1
  <2>2. \A q \in (n + 1) + 1 .. Len(s) + 1 : from[q] \in Seq(Seq(Byte))
    BY <1>1 DEF n
  <2>3. LabelsFrom(s, n + 1, from) \in A
    BY <2>1, <2>2, LabelsBehind DEF n, A
  <2>4. QED
    BY <1>9, <2>1, <2>3
<1>11. ASSUME NEW r \in Nat, r < n, r \in T PROVE r + 1 \in T
  <2>1. PICK new : new = n - r
    OBVIOUS
  <2>2. /\ new \in 1 .. n + 1 /\ n + 1 - (r + 1) = new /\ n + 1 - r = new + 1 /\ r + 1 \in 0 .. n
        /\ \A k \in new .. n + 1 : k = new \/ k \in new + 1 .. n + 1
    BY <1>1, <1>11, <2>1
  <2>3. \A q \in new + 1 .. n + 1 : from[q] \in A
    BY <1>11, <2>2
  <2>4. \A q \in new + 1 .. Len(s) + 1 : from[q] \in Seq(Seq(Byte))
    BY <2>3 DEF n, A
  <2>5. LabelsFrom(s, new, from) \in A
    BY <2>2, <2>4, LabelsBehind DEF n, A
  <2>6. from[new] \in A
    BY <1>9, <2>2, <2>5
  <2>7. QED
    BY <2>2, <2>3, <2>6
<1>12. \A k \in 1 .. n + 1 : from[k] \in A
  <2> HIDE DEF T
  <2>1. n \in T
    <3>1. \A r \in 0 .. n : r \in T
      BY <1>1, <1>10, <1>11, UpTo
    <3>2. QED
      BY <1>1, <3>1
  <2>2. \A k \in 1 .. n + 1 : k \in n + 1 - n .. n + 1
    BY <1>1
  <2> USE DEF T
  <2>3. QED
    BY <2>1, <2>2
<1>13. LabelsAt(s, from)
  BY <1>2, <1>9, <1>12 DEF LabelsAt, n, A
<1>14. QED
  BY <1>13

LEMMA LabelsFound ==
  ASSUME NEW s \in Seq(Byte)
  PROVE  enum_labels(s) \in Seq(Seq(Byte))
<1>1. PICK from : LabelsAt(s, from)
  BY LabelsWalk
<1>2. 1 \in 1 .. Len(s) + 1
  OBVIOUS
<1>3. QED
  BY <1>1, <1>2 DEF LabelsAt

(* A text is of characters, of labels, or of digits. *)
TextKind(text) ==
  \/ text[1] = "chars" /\ text[2] \in Seq(Byte)
  \/ text[1] = "labels" /\ text[2] \in Seq(Seq(Byte))
  \/ text[1] # "chars" /\ text[1] # "labels"

LEMMA BytestringTyped ==
  ASSUME NEW text, TextKind(text)
  PROVE  Bytestring(text) \in Seq(Byte)
<1>1. CASE text[1] = "chars" /\ text[2] \in Seq(Byte)
  <2>1. Bytestring(text) = text[2]
    BY <1>1 DEF Bytestring
  <2>2. QED
    BY <1>1, <2>1
<1>2. CASE text[1] = "labels" /\ text[2] \in Seq(Seq(Byte))
  <2>1. PICK lb \in Seq(Seq(Byte)) : lb = text[2]
    BY <1>2
  <2>2. PICK g : g = [k \in DOMAIN lb |-> IF k = 1 THEN lb[1] ELSE <<J!Comma>> \o lb[k]]
    OBVIOUS
  <2>3. Bytestring(text) = FlattenSeq(g)
    BY <1>2, <2>1, <2>2 DEF Bytestring
  <2>4. Len(lb) \in Nat /\ DOMAIN lb = 1 .. Len(lb) /\ \A k \in 1 .. Len(lb) : lb[k] \in Seq(Byte)
    OBVIOUS
  <2>5. ASSUME NEW k \in 1 .. Len(lb) PROVE g[k] \in Seq(Byte)
    <3>1. <<J!Comma>> \in Seq(Byte)
      BY MarkSizes
    <3>2. <<J!Comma>> \o lb[k] \in Seq(Byte) /\ lb[k] \in Seq(Byte)
      BY <2>4, <3>1
    <3>3. QED
      BY <2>2, <2>4, <3>2
  <2>6. g \in [1 .. Len(lb) -> Seq(Byte)]
    BY <2>2, <2>4, <2>5
  <2>7. QED
    BY <2>3, <2>4, <2>6, FlattenTyped
<1>3. CASE text[1] # "chars" /\ text[1] # "labels"
  <2>1. Bytestring(text) = <<48>>
    BY <1>3 DEF Bytestring
  <2>2. QED
    BY <2>1 DEF Byte
<1>4. QED
  BY <1>1, <1>2, <1>3 DEF TextKind

LEMMA NullText == TextKind(Null.text)
<1>1. Null.text = <<"null">>
  BY DEF Null
<1>2. Null.text[1] = "null" /\ "null" # "chars" /\ "null" # "labels"
  BY <1>1
<1>3. QED
  BY <1>2 DEF TextKind

LEMMA CharsTyped ==
  ASSUME NEW d, d.at \in Seq(Byte), d.len \in Int
  PROVE  Chars(d) \in Seq(Byte)
<1>1. PICK n \in Int : n = d.len
  OBVIOUS
<1>2. PICK p \in Seq(Byte) : p = d.at
  OBVIOUS
<1>3. Chars(d) = [k \in 1 .. n |-> At(p, k)]
  BY <1>1, <1>2 DEF Chars
<1>4. \A k \in 1 .. n : At(p, k) \in Byte
  <2>1. \A k \in 1 .. n : k \in Nat \ {0}
    OBVIOUS
  <2>2. QED
    BY <2>1, AtByte
<1>5. CASE n >= 0
  <2>1. n \in Nat /\ [k \in 1 .. n |-> At(p, k)] \in [1 .. n -> Byte]
    BY <1>4, <1>5
  <2>2. QED
    BY <1>3, <2>1
<1>6. CASE ~(n >= 0)
  <2>1. 1 .. n = 1 .. 0
    BY <1>6
  <2>2. Chars(d) \in [1 .. 0 -> Byte]
    BY <1>3, <1>4, <2>1
  <2>3. QED
    BY <2>2
<1>7. QED
  BY <1>5, <1>6

(* The field that is given to cols_tune begins in the row and has a length,*)
(* be it -1.                                                               *)
FieldTyped(d) == d.at \in Seq(Byte) /\ d.len \in Int

LEMMA FieldIs ==
  ASSUME NEW t, NEW p \in Seq(Byte), NEW n \in Int
  PROVE  FieldTyped(Field(t, p, n))
BY DEF FieldTyped, Field

LEMMA PreTuned ==
  ASSUME NEW t, NEW p \in Seq(Byte), NEW flen \in Nat, NEW mt \in Nat
  PROVE  FieldTyped(cols_pre_tune(t, p, flen, mt))
<1>1. FieldTyped(NullField)
  BY DEF FieldTyped, NullField
<1>2. High(mt) \in Int /\ flen - 1 \in Int
  BY DEF High
<1>3. \A m \in Nat : Skip(p, m) \in Seq(Byte)
  BY Skipped
<1>4. FieldTyped(Field(Low(mt), Skip(p, 1), flen - 1))
  BY <1>2, <1>3, FieldIs
<1>5. FieldTyped(Field(Low(mt), p, High(mt)))
  BY <1>2, FieldIs
<1>6. \A m \in 1 .. 4 : FieldTyped(Field(t, Skip(p, m), Korr(p, m)))
  <2>1. ASSUME NEW m \in 1 .. 4 PROVE FieldTyped(Field(t, Skip(p, m), Korr(p, m)))
    <3>1. m \in 0 .. 4 /\ m \in Nat
      OBVIOUS
    <3>2. Korr(p, m) \in Nat
      BY <3>1, KorrNat
    <3>3. Korr(p, m) \in Int /\ Skip(p, m) \in Seq(Byte)
      BY <1>3, <3>1, <3>2
    <3>4. QED
      BY <3>3, FieldIs
  <2>2. QED
    BY <2>1
<1>7. FieldTyped(Field(t, p, flen))
  BY FieldIs
<1>8. FieldTyped(Field(t, Skip(p, 1), Korr(p, 1))) /\ FieldTyped(Field(t, Skip(p, 2), Korr(p, 2)))
  BY <1>6
<1>9. CASE t = MY_TYPE.STRING
  <2>1. CASE Low(mt) = MY_TYPE.STRING
    <3>1. cols_pre_tune(t, p, flen, mt) = Field(Low(mt), Skip(p, 1), flen - 1)
      BY <1>9, <2>1, Types DEF cols_pre_tune
    <3>2. QED
      BY <1>4, <3>1
  <2>2. CASE Low(mt) \in {MY_TYPE.ENUM, MY_TYPE.SET}
    <3>1. cols_pre_tune(t, p, flen, mt) = Field(Low(mt), p, High(mt))
      BY <1>9, <2>2, Types DEF cols_pre_tune
    <3>2. QED
      BY <1>5, <3>1
  <2>3. CASE Low(mt) \notin {MY_TYPE.STRING, MY_TYPE.ENUM, MY_TYPE.SET}
    <3>1. cols_pre_tune(t, p, flen, mt) = NullField
      BY <1>9, <2>3, Types DEF cols_pre_tune
    <3>2. QED
      BY <1>1, <3>1
  <2>4. QED
    BY <2>1, <2>2, <2>3
<1>10. CASE t = MY_TYPE.VARCHAR
  <2>1. cols_pre_tune(t, p, flen, mt) =
          IF mt < 256 THEN Field(t, Skip(p, 1), Korr(p, 1)) ELSE Field(t, Skip(p, 2), Korr(p, 2))
    BY <1>10, Types DEF cols_pre_tune
  <2>2. QED
    BY <1>8, <2>1
<1>11. CASE t = MY_TYPE.BLOB
  <2>1. cols_pre_tune(t, p, flen, mt) =
          IF mt \in 1 .. 4 THEN Field(t, Skip(p, mt), Korr(p, mt)) ELSE NullField
    BY <1>11, Types DEF cols_pre_tune
  <2>2. QED
    BY <1>1, <1>6, <2>1
<1>12. CASE t # MY_TYPE.STRING /\ t # MY_TYPE.VARCHAR /\ t # MY_TYPE.BLOB
  <2>1. cols_pre_tune(t, p, flen, mt) = Field(t, p, flen)
    BY <1>12 DEF cols_pre_tune
  <2>2. QED
    BY <1>7, <2>1
<1>13. QED
  BY <1>9, <1>10, <1>11, <1>12

LEMMA Ends ==
  /\ TextKind(Asserts) /\ TextKind(Dies)
  /\ \A lb \in Seq(Seq(Byte)) : TextKind(<<"labels", lb>>)
  /\ \A s \in Seq(Byte) : TextKind(<<"chars", s>>)
<1>1. TextKind(Asserts)
  <2>1. Asserts[1] = "assertion fails"
    BY DEF Asserts
  <2>2. QED
    BY <2>1 DEF TextKind
<1>2. TextKind(Dies)
  <2>1. Dies[1] = "memory overrun, or a loop without end"
    BY DEF Dies
  <2>2. QED
    BY <2>1 DEF TextKind
<1>3. \A lb \in Seq(Seq(Byte)) : TextKind(<<"labels", lb>>)
  BY DEF TextKind
<1>4. \A s \in Seq(Byte) : TextKind(<<"chars", s>>)
  BY DEF TextKind
<1>5. QED
  BY <1>1, <1>2, <1>3, <1>4

LEMMA EnumTyped ==
  ASSUME NEW d, NEW lb \in Seq(Seq(Byte)), NEW text \in tune_as_enum(d, lb)
  PROVE  TextKind(text)
<1>1. PICK n : n = Korr(d.at, d.len)
  OBVIOUS
<1>2. text = IF n \in DOMAIN lb /\ lb[n] # <<>> THEN <<"labels", <<lb[n]>>>> ELSE Asserts
  BY <1>1 DEF tune_as_enum
<1>3. CASE n \in DOMAIN lb /\ lb[n] # <<>>
  <2>1. lb[n] \in Seq(Byte)
    BY <1>3
  <2>2. <<lb[n]>> \in Seq(Seq(Byte))
    BY <2>1
  <2>3. TextKind(<<"labels", <<lb[n]>>>>)
    BY <2>2, Ends
  <2>4. QED
    BY <1>2, <1>3, <2>3
<1>4. CASE ~(n \in DOMAIN lb /\ lb[n] # <<>>)
  BY <1>2, <1>4, Ends
<1>5. QED
  BY <1>3, <1>4

LEMMA SetTyped ==
  ASSUME NEW d, NEW lb \in Seq(Seq(Byte)), NEW text \in tune_as_set(d, lb)
  PROVE  TextKind(text)
<1>1. PICK S \in Bits(d) : text = IF S = {} \/ 32 \in S THEN Dies
                                  ELSE IF ~S \subseteq DOMAIN lb \/ Labels(lb, S) = << <<>> >> THEN Asserts
                                  ELSE <<"labels", Labels(lb, S)>>
  BY DEF tune_as_set
<1>2. TextKind(<<"labels", Labels(lb, S)>>)
  BY LabelsTyped, Ends
<1>3. QED
  BY <1>1, <1>2, Ends

LEMMA NumberKinds ==
  ASSUME NEW d
  PROVE  /\ tune_as_year(d)[1] = "year" /\ tune_as_datetime(d)[1] = "datetime"
         /\ tune_as_timestamp(d)[1] = "seconds" /\ tune_as_time(d)[1] \in {"time", "time cut"}
         /\ tune_as_date(d)[1] = "date" /\ tune_as_int(d)[1] = "number"
         /\ tune_as_double(d)[1] \in {"double", "double cut"}
<1>1. tune_as_year(d)[1] = "year"
  BY SMT DEF tune_as_year
<1>2. tune_as_datetime(d)[1] = "datetime"
  <2>1. \E x, y : tune_as_datetime(d) = <<"datetime", x, y>>
    BY Zenon DEF tune_as_datetime
  <2>2. QED
    BY <2>1, SMT
<1>3. tune_as_timestamp(d)[1] = "seconds"
  BY SMT DEF tune_as_timestamp
<1>4. tune_as_time(d)[1] \in {"time", "time cut"}
  BY SMT DEF tune_as_time
<1>5. tune_as_date(d)[1] = "date"
  BY SMT DEF tune_as_date
<1>6. tune_as_int(d)[1] = "number"
  BY SMT DEF tune_as_int
<1>7. tune_as_double(d)[1] \in {"double", "double cut"}
  BY SMT DEF tune_as_double
<1>8. QED
  BY <1>1, <1>2, <1>3, <1>4, <1>5, <1>6, <1>7

LEMMA NumbersTyped ==
  ASSUME NEW d
  PROVE  /\ TextKind(tune_as_year(d)) /\ TextKind(tune_as_datetime(d))
         /\ TextKind(tune_as_timestamp(d)) /\ TextKind(tune_as_time(d))
         /\ TextKind(tune_as_date(d)) /\ TextKind(tune_as_int(d)) /\ TextKind(tune_as_double(d))
<1> DEFINE kinds == {"year", "datetime", "seconds", "time", "time cut", "date", "number",
                     "double", "double cut"}
<1>1. \A text : text[1] \in kinds => TextKind(text)
  BY DEF TextKind
<1>2. /\ tune_as_year(d)[1] \in kinds /\ tune_as_datetime(d)[1] \in kinds
      /\ tune_as_timestamp(d)[1] \in kinds /\ tune_as_time(d)[1] \in kinds
      /\ tune_as_date(d)[1] \in kinds /\ tune_as_int(d)[1] \in kinds /\ tune_as_double(d)[1] \in kinds
  BY NumberKinds
<1> HIDE DEF kinds
<1>3. QED
  BY <1>1, <1>2, Zenon

LEMMA Tuned ==
  ASSUME NEW d, FieldTyped(d), NEW lb \in Seq(Seq(Byte)), NEW text \in cols_tune(d, lb)
  PROVE  TextKind(text)
<1>1. \A s \in tune_as_enum(d, lb) \cup tune_as_set(d, lb) : TextKind(s)
  BY EnumTyped, SetTyped
<1>2. TextKind(<<"chars", Chars(d)>>)
  BY CharsTyped, Ends DEF FieldTyped
<1>3. CASE d.null
  BY <1>3, NullText DEF cols_tune
<1>4. CASE ~d.null /\ d.type = MY_TYPE.ENUM
  <2>1. text \in tune_as_enum(d, lb)
    BY <1>4, Types DEF cols_tune
  <2>2. QED
    BY <1>1, <2>1
<1>5. CASE ~d.null /\ d.type = MY_TYPE.SET
  <2>1. text \in tune_as_set(d, lb)
    BY <1>5, Types DEF cols_tune
  <2>2. QED
    BY <1>1, <2>1
<1>6. CASE ~d.null /\ d.type # MY_TYPE.ENUM /\ d.type # MY_TYPE.SET
  <2>1. text \in {tune_as_year(d), tune_as_datetime(d), tune_as_timestamp(d), tune_as_time(d),
                  tune_as_date(d), tune_as_int(d), tune_as_double(d), <<"chars", Chars(d)>>}
    BY <1>6, Types DEF cols_tune
  <2>2. QED
    BY <1>2, <2>1, NumbersTyped
<1>7. QED
  BY <1>3, <1>4, <1>5, <1>6

-----------------------------------------------------------------------------
(* What holds of the walk for every rows event: it reads the metadata of   *)
(* the column it is at, and the columns it gives to conv_2_json are bytes. *)
Walk ==
  /\ event \in Events
  /\ DOMAIN labels = 1 .. NCols /\ \A c \in 1 .. NCols : labels[c] \in Seq(Seq(Byte))
  /\ pc \in {"parse", "row", "column", "done", "asserted", "died", "beyond"}
  /\ j \in 0 .. 3 /\ i \in 1 .. NCols + 1
  /\ data \in Nat
  /\ pc = "column" => pmeta = event.passed[i]
  /\ used \subseteq 1 .. NCols
  /\ DOMAIN cells = 1 .. NCols /\ \A c \in 1 .. NCols : TextKind(cells[c])

(* A rows event, its columns and its metadata. *)
LEMMA Table ==
  ASSUME event \in Events
  PROVE  /\ IsRowsEvent(event) /\ NCols \in Nat \ {0} /\ DOMAIN event.table = 1 .. NCols
         /\ \A c \in 1 .. NCols :
              /\ IsColumn(event.table[c])
              /\ event.table[c].name \in Seq(Byte) /\ event.table[c].labels \in Seq(Seq(Byte))
              /\ event.table[c].meta \in Seq(Byte) /\ Kind(event.table[c].type, event.table[c].meta)
<1>1. IsRowsEvent(event)
  BY EventsAssumption
<1>2. /\ NCols \in Nat \ {0} /\ DOMAIN event.table = 1 .. NCols
      /\ \A c \in 1 .. NCols : IsColumn(event.table[c])
  BY <1>1, EventParts DEF NCols
<1>3. ASSUME NEW c \in 1 .. NCols
      PROVE  /\ event.table[c].name \in Seq(Byte) /\ event.table[c].labels \in Seq(Seq(Byte))
             /\ event.table[c].meta \in Seq(Byte) /\ Kind(event.table[c].type, event.table[c].meta)
  <2>1. IsColumn(event.table[c])
    BY <1>2, <1>3
  <2>2. event.table[c].name \in Seq(Byte) /\ event.table[c].labels \in Seq(Seq(Byte))
    BY <2>1, Zenon DEF IsColumn
  <2>3. event.table[c].meta \in Seq(Byte) /\ Kind(event.table[c].type, event.table[c].meta)
    BY <2>1, ColumnKind
  <2>4. QED
    BY <2>2, <2>3
<1>4. QED
  BY <1>1, <1>2, <1>3

LEMMA NoCellsTyped ==
  ASSUME event \in Events
  PROVE  DOMAIN NoCells = 1 .. NCols /\ \A c \in 1 .. NCols : TextKind(NoCells[c])
<1>1. DOMAIN event.table = 1 .. NCols
  BY Table
<1>2. NoCells = [c \in 1 .. NCols |-> Null.text]
  BY <1>1 DEF NoCells
<1>3. QED
  BY <1>2, NullText

LEMMA ColumnsTyped ==
  ASSUME Walk
  PROVE  ColumnsOf(cells) \in Seq(JsonColumn)
<1>1. /\ NCols \in Nat /\ DOMAIN event.table = 1 .. NCols
      /\ \A c \in 1 .. NCols : event.table[c].name \in Seq(Byte)
  BY Table DEF Walk
<1>2. PICK name : name = [c \in 1 .. NCols |-> event.table[c].name]
  OBVIOUS
<1>3. PICK value : value = [c \in 1 .. NCols |-> Bytestring(cells[c])]
  OBVIOUS
<1>4. PICK null : null = [c \in 1 .. NCols |-> cells[c] = Null.text]
  OBVIOUS
<1>5. ASSUME NEW c \in 1 .. NCols
      PROVE  name[c] \in Seq(Byte) /\ value[c] \in Seq(Byte) /\ null[c] \in BOOLEAN
  <2>1. TextKind(cells[c])
    BY <1>5 DEF Walk
  <2>2. Bytestring(cells[c]) \in Seq(Byte)
    BY <2>1, BytestringTyped
  <2>3. QED
    BY <1>1, <1>2, <1>3, <1>4, <2>2
<1>6. ColumnsOf(cells) = [c \in 1 .. NCols |-> [name |-> name[c], null |-> null[c], value |-> value[c]]]
  BY <1>1, <1>2, <1>3, <1>4 DEF ColumnsOf
<1>7. ColumnsOf(cells) \in [1 .. NCols -> JsonColumn]
  BY <1>5, <1>6 DEF JsonColumn
<1>8. QED
  BY <1>1, <1>7

(* The field the walk is at. *)
LEMMA FieldHere ==
  ASSUME Walk, pc = "column", i <= NCols
  PROVE  /\ i \in 1 .. NCols /\ Metasize = Len(event.table[i].meta) /\ Metasize \in Nat
         /\ Meta = Number(event.table[i].meta) /\ Meta \in Nat
         /\ Here \in Seq(Byte) /\ calc_field_size(Type, Here, Meta) \in Nat
         /\ pmeta + Metasize = event.passed[i + 1] /\ i + 1 \in 1 .. NCols + 1
<1>1. event \in Events /\ i \in 1 .. NCols + 1 /\ data \in Nat /\ pmeta = event.passed[i]
  BY DEF Walk
<1>2. IsRowsEvent(event) /\ NCols \in Nat
  BY <1>1, Table
<1>3. i \in 1 .. NCols /\ i + 1 \in 1 .. NCols + 1
  BY <1>1, <1>2
<1>4. event.table[i].meta \in Seq(Byte) /\ Kind(event.table[i].type, event.table[i].meta)
  BY <1>1, <1>3, Table
<1>5. PICK m \in Seq(Byte) : m = event.table[i].meta
  BY <1>4
<1>6. Kind(Type, m)
  BY <1>4, <1>5, Zenon DEF Type
<1>7. Metasize = Len(m) /\ Len(m) \in {0, 1, 2}
  <2>1. calc_metadata_size(Type) = Len(m) /\ Len(m) \in {0, 1, 2}
    BY <1>6, MetaSize
  <2>2. QED
    BY <2>1 DEF Metasize
<1>8. Meta = Number(m)
  <2>1. i \in 1 .. Len(event.table)
    BY <1>3 DEF NCols
  <2>2. Korr(Skip(event.metadata, event.passed[i]), calc_metadata_size(event.table[i].type))
           = Number(event.table[i].meta)
    BY <1>2, <2>1, MetaOf
  <2>3. QED
    BY <1>1, <1>5, <2>2, Zenon DEF Meta, Metasize, Type
<1>9. Number(m) \in Nat
  <2>1. CASE Len(m) = 0
    BY <2>1 DEF Number
  <2>2. CASE Len(m) = 1
    <3>1. m[1] \in Byte
      BY <1>5, <2>2
    <3>2. Number(m) = m[1]
      BY <2>2 DEF Number
    <3>3. \A x \in Byte : x \in Nat
      BY DEF Byte
    <3>4. QED
      BY <3>1, <3>2, <3>3, Zenon
  <2>3. CASE Len(m) = 2
    <3>1. m[1] \in Byte /\ m[2] \in Byte
      BY <1>5, <2>3
    <3>2. Number(m) = m[1] + 256 * m[2]
      BY <2>3 DEF Number
    <3>3. \A x, y \in Byte : x + 256 * y \in Nat
      BY DEF Byte
    <3>4. m[1] + 256 * m[2] \in Nat
      BY <3>1, <3>3
    <3>5. QED
      BY <3>2, <3>4, Zenon
  <2>4. QED
    BY <1>7, <2>1, <2>2, <2>3
<1>10. Here \in Seq(Byte)
  <2>1. event.bytes \in Seq(Byte)
    BY <1>2, EventLayout DEF EventPlaces
  <2>2. QED
    BY <1>1, <2>1, Skipped DEF Here
<1>11. calc_field_size(Type, Here, Meta) \in Nat
  <2>1. calc_field_size(Type, Here, Number(m)) \in Nat
    BY <1>6, <1>10, SizeNat
  <2>2. QED
    BY <1>8, <2>1
<1>12. pmeta + Metasize = event.passed[i + 1]
  <2>1. MetadataPlaces(event)
    BY <1>2, MetadataLayout
  <2>2. event.passed[i + 1] = event.passed[i] + Len(event.table[i].meta)
    BY <1>3, <2>1 DEF MetadataPlaces, NCols
  <2>3. QED
    BY <1>1, <1>5, <1>7, <2>2
<1>13. QED
  BY <1>3, <1>5, <1>7, <1>8, <1>9, <1>10, <1>11, <1>12

LEMMA WalkStarts ==
  ASSUME Init
  PROVE  Walk
<1>1. /\ event \in Events /\ pc \in {"parse", "asserted"}
      /\ j = 1 /\ i = 1 /\ data = 0 /\ used = {} /\ cells = NoCells
  BY DEF Init
<1>2. labels = [c \in DOMAIN event.table |-> enum_labels(ShownType(event.table[c].labels))]
  BY DEF Init
<1>3. NCols \in Nat \ {0} /\ DOMAIN event.table = 1 .. NCols
  BY <1>1, Table
<1>4. ASSUME NEW c \in 1 .. NCols PROVE labels[c] \in Seq(Seq(Byte))
  <2>1. event.table[c].labels \in Seq(Seq(Byte))
    BY <1>1, Table
  <2>2. ShownType(event.table[c].labels) \in Seq(Byte)
    BY <2>1, ShownTyped
  <2>3. enum_labels(ShownType(event.table[c].labels)) \in Seq(Seq(Byte))
    BY <2>2, LabelsFound
  <2>4. QED
    BY <1>2, <1>3, <2>3
<1>5. DOMAIN labels = 1 .. NCols
  BY <1>2, <1>3
<1>6. DOMAIN cells = 1 .. NCols /\ \A c \in 1 .. NCols : TextKind(cells[c])
  BY <1>1, NoCellsTyped
<1>7. 1 \in 1 .. NCols + 1
  BY <1>3
<1>8. QED
  BY <1>1, <1>4, <1>5, <1>6, <1>7 DEF Walk

-----------------------------------------------------------------------------
(* One step of the walk. *)
LEMMA MaskTyped ==
  ASSUME NEW p, NEW n \in Nat
  PROVE  build_cols_mask(p, n).skip \in Nat /\ build_cols_mask(p, n).bits \subseteq 1 .. n
<1>1. PICK l : l = ((n + 7) \div 8) % 256
  OBVIOUS
<1>2. l \in Nat
  BY <1>1
<1>3. CASE l \in 1 .. 6
  <2>1. build_cols_mask(p, n) = [bits |-> {c \in 1 .. n : IsSet(p, c)}, skip |-> l]
    BY <1>1, <1>3, Zenon DEF build_cols_mask
  <2>2. QED
    BY <1>2, <2>1
<1>4. CASE l \notin 1 .. 6
  <2>1. build_cols_mask(p, n) = [bits |-> 1 .. n, skip |-> 0]
    BY <1>1, <1>4, Zenon DEF build_cols_mask
  <2>2. QED
    BY <2>1
<1>5. QED
  BY <1>3, <1>4

LEMMA ParseWalks ==
  ASSUME Walk, Parse
  PROVE  Walk'
<1>1. /\ pc' = "row"
      /\ UNCHANGED <<event, labels, j, i, pmeta, used, cells>>
  BY DEF Parse, given
<1>2. NCols \in Nat
  BY Table DEF Walk
<1>3. data' \in Nat
  <2>1. PICK first : first = build_cols_mask(Here, NCols).skip
    OBVIOUS
  <2>2. PICK second : second = build_cols_mask(Skip(Here, first), NCols).skip
    OBVIOUS
  <2>3. first \in Nat /\ second \in Nat
    BY <1>2, <2>1, <2>2, MaskTyped
  <2>4. data' = IF event.kind = "update" THEN first + second ELSE first
    BY <2>1, <2>2, Zenon DEF Parse
  <2>5. QED
    BY <2>3, <2>4
<1>4. NCols' = NCols
  BY <1>1 DEF NCols
<1>5. QED
  BY <1>1, <1>3, <1>4 DEF Walk

LEMMA NextImageWalks ==
  ASSUME Walk, NextImage
  PROVE  Walk'
<1>1. /\ pc' = "column" /\ i' = 1 /\ cells' = NoCells /\ pmeta' = 0
      /\ UNCHANGED <<event, labels, j>>
  BY DEF NextImage, given
<1>2. NCols \in Nat \ {0} /\ IsRowsEvent(event) /\ event \in Events
  BY Table DEF Walk
<1>3. PICK mask : mask = build_cols_mask(Here, NCols)
  OBVIOUS
<1>4. used' = (1 .. NCols) \ mask.bits /\ data' = data + mask.skip
  BY <1>3, Zenon DEF NextImage
<1>5. mask.skip \in Nat
  BY <1>2, <1>3, MaskTyped
<1>6. data' \in Nat /\ used' \subseteq 1 .. NCols
  BY <1>4, <1>5 DEF Walk
<1>7. event.passed[1] = 0
  <2>1. MetadataPlaces(event)
    BY <1>2, MetadataLayout
  <2>2. QED
    BY <2>1 DEF MetadataPlaces
<1>8. NCols' = NCols /\ NoCells' = NoCells
  BY <1>1 DEF NCols, NoCells
<1>9. DOMAIN cells' = 1 .. NCols /\ \A c \in 1 .. NCols : TextKind(cells'[c])
  BY <1>1, <1>2, NoCellsTyped
<1>10. 1 \in 1 .. NCols + 1
  BY <1>2
<1>11. QED
  BY <1>1, <1>6, <1>7, <1>8, <1>9, <1>10 DEF Walk

LEMMA PassNullWalks ==
  ASSUME Walk, PassNull
  PROVE  Walk'
<1>1. /\ pc = "column" /\ i <= NCols /\ pmeta' = pmeta + Metasize /\ i' = i + 1
      /\ UNCHANGED <<event, labels, pc, j, data, used, cells>>
  BY DEF PassNull, given
<1>2. pmeta' = event.passed[i'] /\ i' \in 1 .. NCols + 1
  BY <1>1, FieldHere
<1>3. NCols' = NCols
  BY <1>1 DEF NCols
<1>4. QED
  BY <1>1, <1>2, <1>3 DEF Walk

LEMMA ReadFieldWalks ==
  ASSUME Walk, ReadField
  PROVE  Walk'
<1>1. /\ pc = "column" /\ i <= NCols /\ pmeta' = pmeta + Metasize /\ i' = i + 1
      /\ UNCHANGED <<event, labels, j, used>>
  BY DEF ReadField, given
<1>2. /\ pmeta' = event.passed[i'] /\ i' \in 1 .. NCols + 1 /\ i \in 1 .. NCols
      /\ Here \in Seq(Byte) /\ Meta \in Nat
  BY <1>1, FieldHere
<1>3. PICK size : size = calc_field_size(Type, Here, Meta)
  OBVIOUS
<1>4. size \in Nat
  BY <1>1, <1>3, FieldHere
<1>5. PICK text : /\ text \in IF Selected
                              THEN cols_tune(cols_pre_tune(Type, Here, size, Meta), labels[i])
                              ELSE {Null.text}
                  /\ cells' = IF size > len THEN cells ELSE [cells EXCEPT ![i] = text]
                  /\ pc' = CASE text = Dies -> "died"
                             [] text = Asserts -> "asserted"
                             [] size > len -> "beyond"
                             [] OTHER -> "column"
  BY <1>3, Zenon DEF ReadField
<1>6. TextKind(text)
  <2>1. labels[i] \in Seq(Seq(Byte))
    BY <1>2 DEF Walk
  <2>2. FieldTyped(cols_pre_tune(Type, Here, size, Meta))
    BY <1>2, <1>4, PreTuned
  <2>3. CASE Selected
    BY <1>5, <2>1, <2>2, <2>3, Tuned
  <2>4. CASE ~ Selected
    BY <1>5, <2>4, NullText
  <2>5. QED
    BY <2>3, <2>4
<1>7. DOMAIN cells' = 1 .. NCols /\ \A c \in 1 .. NCols : TextKind(cells'[c])
  <2>1. DOMAIN cells = 1 .. NCols /\ \A c \in 1 .. NCols : TextKind(cells[c])
    BY DEF Walk
  <2>2. DOMAIN cells' = 1 .. NCols
    BY <1>5, <2>1
  <2>3. \A c \in 1 .. NCols : cells'[c] = IF c = i /\ ~(size > len) THEN text ELSE cells[c]
    BY <1>5, <2>1
  <2>4. QED
    BY <1>6, <2>1, <2>2, <2>3
<1>8. pc' \in {"died", "asserted", "beyond", "column"}
  BY <1>5
<1>9. data' \in Nat
  <2>1. IF size > len THEN UNCHANGED <<data, len>> ELSE data' = data + size /\ len' = len - size
    BY <1>3, Zenon DEF ReadField
  <2>2. data \in Nat
    BY DEF Walk
  <2>3. QED
    BY <1>4, <2>1, <2>2
<1>10. NCols' = NCols
  BY <1>1 DEF NCols
<1>11. QED
  BY <1>1, <1>2, <1>7, <1>8, <1>9, <1>10 DEF Walk

LEMMA ImageEndsWalks ==
  ASSUME Walk, ImageEnds
  PROVE  Walk'
<1>1. /\ pc' = "row" /\ j' = (j + 1) % 4
      /\ UNCHANGED <<event, labels, i, data, used, cells>>
  BY DEF ImageEnds, given
<1>2. j' \in 0 .. 3
  BY <1>1 DEF Walk
<1>3. NCols' = NCols
  BY <1>1 DEF NCols
<1>4. QED
  BY <1>1, <1>2, <1>3 DEF Walk

LEMMA WalkStays ==
  ASSUME Walk, UNCHANGED <<event, labels, j, i, data, pmeta, used, cells>>, pc' \in {pc, "done", "beyond"}
  PROVE  Walk'
<1>1. NCols' = NCols
  BY DEF NCols
<1>2. QED
  BY <1>1 DEF Walk

LEMMA RowStays ==
  ASSUME RowInv, UNCHANGED json
  PROVE  RowInv'
<1>1. UNCHANGED <<jrow, jpc, ji, jsize, jout>>
  BY DEF json
<1>2. QED
  BY <1>1 DEF RowInv

LEMMA RowStarts ==
  ASSUME J!Init
  PROVE  RowInv
<1>1. jpc = "idle" /\ jrow = <<>> /\ ji = 1 /\ jsize = 0 /\ jout = <<>>
  BY DEF J!Init
<1>2. <<>> \in Seq(JsonColumn)
  OBVIOUS
<1>3. PICK M : IsSum(M, 0, Len(jrow), Frame, Costs(jrow))
  BY <1>1, <1>2, RowTotals
<1>4. QED
  BY <1>1, <1>3 DEF RowInv

(* Every step of the walk, or of conv_2_json, keeps both. *)
LEMMA WalkSteps ==
  ASSUME Walk, RowInv, [Next]_vars
  PROVE  Walk' /\ RowInv'
<1>1. CASE Parse
  BY <1>1, ParseWalks, RowStays DEF Parse
<1>2. CASE NextImage
  BY <1>2, NextImageWalks, RowStays DEF NextImage
<1>3. CASE EventEnds
  BY <1>3, WalkStays, RowStays DEF EventEnds, given
<1>11. CASE MaskBeyond
  BY <1>11, WalkStays, RowStays DEF MaskBeyond, given
<1>4. CASE PassNull
  BY <1>4, PassNullWalks, RowStays DEF PassNull
<1>5. CASE ReadField
  BY <1>5, ReadFieldWalks, RowStays DEF ReadField
<1>6. CASE ImageEnds
  <2>1. IF Selected THEN J!Call(ColumnsOf(cells)) ELSE UNCHANGED json
    BY <1>6 DEF ImageEnds
  <2>2. RowInv'
    BY <2>1, ColumnsTyped, CallInv, RowStays
  <2>3. QED
    BY <1>6, <2>2, ImageEndsWalks
<1>7. CASE Convert
  BY <1>7, WalkStays, ConvertInv DEF Convert, walk, given
<1>8. CASE FlushRow
  BY <1>8, WalkStays, FreeInv DEF FlushRow, walk, given
<1>9. CASE UNCHANGED vars
  BY <1>9, WalkStays, RowStays DEF vars, walk, given
<1>10. QED
  BY <1>1, <1>2, <1>3, <1>4, <1>5, <1>6, <1>7, <1>8, <1>9, <1>11, Zenon DEF Next

(* For every rows event the walk reads the metadata of the column it is    *)
(* at, every text is one of its kinds, and the memory of conv_2_json holds *)
(* what was written so far.                                                *)
THEOREM WalkAlways == Spec => [](Walk /\ RowInv)
<1>1. Init => Walk /\ RowInv
  BY WalkStarts, RowStarts DEF Init
<1>2. Walk /\ RowInv /\ [Next]_vars => (Walk /\ RowInv)'
  BY WalkSteps
<1>3. QED
  BY <1>1, <1>2, PTL DEF Spec

(* "calc the total len" (ms_qs.c:245): the memory conv_2_json asks for is  *)
(* enough for what it writes, whatever the columns, for every rows event   *)
(* that reaches it.                                                        *)
THEOREM RowFitsAlways == Spec => []RowFits
<1>1. Walk /\ RowInv => RowFits
  BY RowInvFits DEF RowFits
<1>2. QED
  BY <1>1, WalkAlways, PTL

-----------------------------------------------------------------------------
(* The mask of up to 48 columns. *)
LEMMA MaskSkips ==
  ASSUME NEW p, NEW n \in 1 .. 48
  PROVE  build_cols_mask(p, n) = [bits |-> {c \in 1 .. n : IsSet(p, c)}, skip |-> Bytes(n)]
<1>1. PICK l : l = ((n + 7) \div 8) % 256
  OBVIOUS
<1>2. l \in 1 .. 6 /\ l = Bytes(n)
  BY <1>1 DEF Bytes
<1>3. QED
  BY <1>1, <1>2, Zenon DEF build_cols_mask

(* The eight bits of a byte. *)
EightBits(c) == c[1] + 2 * c[2] + 4 * c[3] + 8 * c[4] + 16 * c[5] + 32 * c[6] + 64 * c[7] + 128 * c[8]

LEMMA BitOf ==
  ASSUME NEW c \in [1 .. 8 -> {0, 1}], NEW k \in 1 .. 8
  PROVE  (EightBits(c) \div Mask[k]) % 2 = c[k]
<1>1. PICK v : v = EightBits(c)
  OBVIOUS
<1>2. v = c[1] + 2 * c[2] + 4 * c[3] + 8 * c[4] + 16 * c[5] + 32 * c[6] + 64 * c[7] + 128 * c[8]
  BY <1>1 DEF EightBits
<1>3. PICK c1 \in 0 .. 1, c2 \in 0 .. 1, c3 \in 0 .. 1, c4 \in 0 .. 1 :
        c1 = c[1] /\ c2 = c[2] /\ c3 = c[3] /\ c4 = c[4]
  OBVIOUS
<1>4. PICK c5 \in 0 .. 1, c6 \in 0 .. 1, c7 \in 0 .. 1, c8 \in 0 .. 1 :
        c5 = c[5] /\ c6 = c[6] /\ c7 = c[7] /\ c8 = c[8]
  OBVIOUS
<1>5. v = c1 + 2 * c2 + 4 * c3 + 8 * c4 + 16 * c5 + 32 * c6 + 64 * c7 + 128 * c8
  BY <1>2, <1>3, <1>4
<1>6. /\ (v \div 1) % 2 = c1 /\ (v \div 2) % 2 = c2 /\ (v \div 4) % 2 = c3 /\ (v \div 8) % 2 = c4
      /\ (v \div 16) % 2 = c5 /\ (v \div 32) % 2 = c6 /\ (v \div 64) % 2 = c7
      /\ (v \div 128) % 2 = c8
  BY ONLY <1>5
<1>7. /\ Mask[1] = 1 /\ Mask[2] = 2 /\ Mask[3] = 4 /\ Mask[4] = 8
      /\ Mask[5] = 16 /\ Mask[6] = 32 /\ Mask[7] = 64 /\ Mask[8] = 128
  BY DEF Mask
<1>8. (v \div Mask[k]) % 2 = c[k]
  <2>1. k = 1 \/ k = 2 \/ k = 3 \/ k = 4 \/ k = 5 \/ k = 6 \/ k = 7 \/ k = 8
    OBVIOUS
  <2>2. CASE k = 1
    BY <1>3, <1>6, <1>7, <2>2, Zenon
  <2>3. CASE k = 2
    BY <1>3, <1>6, <1>7, <2>3, Zenon
  <2>4. CASE k = 3
    BY <1>3, <1>6, <1>7, <2>4, Zenon
  <2>5. CASE k = 4
    BY <1>3, <1>6, <1>7, <2>5, Zenon
  <2>6. CASE k = 5
    BY <1>4, <1>6, <1>7, <2>6, Zenon
  <2>7. CASE k = 6
    BY <1>4, <1>6, <1>7, <2>7, Zenon
  <2>8. CASE k = 7
    BY <1>4, <1>6, <1>7, <2>8, Zenon
  <2>9. CASE k = 8
    BY <1>4, <1>6, <1>7, <2>9, Zenon
  <2>10. QED
    BY <2>1, <2>2, <2>3, <2>4, <2>5, <2>6, <2>7, <2>8, <2>9, Zenon
<1>9. QED
  BY <1>1, <1>8

LEMMA BitmapBits ==
  ASSUME NEW S, NEW n \in Nat, NEW b \in 1 .. n, NEW k \in 1 .. 8
  PROVE  (Bitmap(S, n)[b] \div Mask[k]) % 2 = IF 8 * (b - 1) + k \in S THEN 1 ELSE 0
<1> DEFINE bit(x) == IF 8 * (b - 1) + x \in S THEN 1 ELSE 0
<1>1. PICK c : c = [x \in 1 .. 8 |-> bit(x)]
  OBVIOUS
<1>2. Bitmap(S, n)[b] = bit(1) + 2 * bit(2) + 4 * bit(3) + 8 * bit(4)
                        + 16 * bit(5) + 32 * bit(6) + 64 * bit(7) + 128 * bit(8)
  BY DEF Bitmap
<1>3. \A x \in 1 .. 8 : c[x] = bit(x) /\ bit(x) \in {0, 1}
  BY <1>1
<1>4. c \in [1 .. 8 -> {0, 1}]
  <2> HIDE DEF bit
  <2>1. QED
    BY <1>1, <1>3
<1>5. Bitmap(S, n)[b] = EightBits(c)
  <2> HIDE DEF bit
  <2>1. /\ c[1] = bit(1) /\ c[2] = bit(2) /\ c[3] = bit(3) /\ c[4] = bit(4)
        /\ c[5] = bit(5) /\ c[6] = bit(6) /\ c[7] = bit(7) /\ c[8] = bit(8)
    BY <1>3
  <2>2. QED
    BY <1>2, <2>1, Zenon DEF EightBits
<1>6. c[k] = bit(k)
  BY <1>3
<1>7. QED
  BY <1>4, <1>5, <1>6, BitOf

LEMMA MaskRight ==
  ASSUME NEW n \in 1 .. 48, NEW S, NEW p, Agree(p, Bitmap(S, Bytes(n)))
  PROVE  build_cols_mask(p, n) = [bits |-> {c \in 1 .. n : c \in S}, skip |-> Bytes(n)]
<1>1. ASSUME NEW c \in 1 .. n PROVE IsSet(p, c) <=> c \in S
  <2>1. PICK m \in Nat : m = Bytes(n)
    BY BytesNat
  <2>2. PICK b, k : b = (c + 7) \div 8 /\ k = ((c - 1) % 8) + 1
    OBVIOUS
  <2>3. m = (n + 7) \div 8
    BY <2>1 DEF Bytes
  <2>4. b \in 1 .. m /\ k \in 1 .. 8 /\ 8 * (b - 1) + k = c
    BY <2>2, <2>3
  <2>5. At(p, b) = Bitmap(S, m)[b]
    <3>1. PICK q : q = Bitmap(S, m) /\ q \in Seq(Byte) /\ Len(q) = m
      BY BitmapBytes
    <3>2. p \in Seq(Byte) /\ Len(p) >= m /\ p[b] = q[b]
      BY <2>1, <2>4, <3>1 DEF Agree
    <3>3. b <= Len(p)
      BY <2>4, <3>2
    <3>4. QED
      BY <3>1, <3>2, <3>3 DEF At
  <2>6. (Bitmap(S, m)[b] \div Mask[k]) % 2 = IF 8 * (b - 1) + k \in S THEN 1 ELSE 0
    BY <2>4, BitmapBits
  <2>7. IsSet(p, c) <=> (At(p, b) \div Mask[k]) % 2 = 1
    BY <2>2, Zenon DEF IsSet
  <2>8. QED
    BY <2>4, <2>5, <2>6, <2>7
<1>2. {c \in 1 .. n : IsSet(p, c)} = {c \in 1 .. n : c \in S}
  BY <1>1
<1>3. QED
  BY <1>2, MaskSkips

-----------------------------------------------------------------------------
(* Where the fields of an image are in the event. *)
FieldPlaces(e, r) ==
  LET n == Len(e.table)
      row == e.rows[r]
      at == e.at[r]
  IN /\ at \in [1 .. n + 1 -> Nat] /\ at[1] = Bytes(n)
     /\ Begin(e, r) + at[n + 1] = Begin(e, r + 1)
     /\ \A k \in 1 .. n + 1 : Begin(e, r) + at[k] \in 0 .. Len(e.bytes)
     /\ Agree(Skip(e.bytes, Begin(e, r)), Bitmap(Nulls(row), Bytes(n)))
     /\ \A k \in 1 .. n :
          /\ at[k + 1] = at[k] + Len(row[k].bytes)
          /\ Agree(Skip(e.bytes, Begin(e, r) + at[k]), row[k].bytes)

LEMMA FieldLayout ==
  ASSUME NEW e, IsRowsEvent(e), NEW r \in 1 .. Len(e.rows)
  PROVE  FieldPlaces(e, r)
<1> DEFINE n == Len(e.table)
           row == e.rows[r]
           at == e.at[r]
           map == Bitmap(Nulls(row), Bytes(n))
<1>1. n \in Nat \ {0} /\ Len(e.rows) \in Nat /\ \A k \in 1 .. n : row[k].bytes \in Seq(Byte)
  BY EventParts, Cells
<1>2. Bytes(n) \in Nat \ {0} /\ map \in Seq(Byte) /\ Len(map) = Bytes(n)
  BY <1>1, BytesNat, BitmapBytes
<1>3. PICK image : image = Image(row)
  OBVIOUS
<1>4. /\ image \in Seq(Byte) /\ at \in [1 .. n + 1 -> Nat]
      /\ at[1] = Bytes(n) /\ at[n + 1] = Len(image)
      /\ \A k \in 1 .. n :
           /\ at[k + 1] = at[k] + Len(row[k].bytes)
           /\ at[k + 1] <= Len(image)
           /\ \A x \in 1 .. Len(row[k].bytes) :
                at[k] + x \in 1 .. Len(image) /\ image[at[k] + x] = row[k].bytes[x]
      /\ \A x \in 1 .. Bytes(n) : x \in 1 .. Len(image) /\ image[x] = map[x]
  <2>1. ImagePlaces(e, r)
    BY ImageLayout
  <2>2. QED
    BY <1>3, <2>1, Zenon DEF ImagePlaces
<1>5. PICK begin \in Nat, bytes \in Seq(Byte) : begin = Begin(e, r) /\ bytes = e.bytes
  <2>1. r \in 1 .. Len(e.rows) + 1
    BY <1>1
  <2>2. QED
    BY <2>1, EventLayout DEF EventPlaces
<1>6. /\ Begin(e, r + 1) = begin + Len(image)
      /\ \A x \in 1 .. Len(image) : bytes[begin + x] = image[x]
  BY <1>3, <1>5, EventLayout DEF EventPlaces
<1>7. begin + Len(image) <= Len(bytes)
  <2>1. r + 1 \in 1 .. Len(e.rows) + 1
    BY <1>1
  <2>2. QED
    BY <1>5, <1>6, <2>1, EventLayout DEF EventPlaces
<1> HIDE DEF n, row, at, map
<1>8. ASSUME NEW k \in 1 .. n + 1 PROVE at[k] \in Nat /\ at[k] <= Len(image)
  <2>1. CASE k = 1
    <3>1. Bytes(n) \in 1 .. Bytes(n)
      BY <1>2
    <3>2. Bytes(n) <= Len(image)
      BY <1>4, <3>1
    <3>3. QED
      BY <1>2, <1>4, <2>1, <3>2
  <2>2. CASE k # 1
    <3>1. k - 1 \in 1 .. n /\ (k - 1) + 1 = k
      BY <1>1, <2>2
    <3>2. at[(k - 1) + 1] <= Len(image)
      BY <1>4, <3>1
    <3>3. QED
      BY <1>4, <3>1, <3>2
  <2>3. QED
    BY <2>1, <2>2
<1>9. Agree(Skip(bytes, begin), map)
  <2>1. \A x \in 1 .. Len(map) : bytes[begin + x] = map[x]
    BY <1>2, <1>4, <1>6
  <2>2. Len(map) <= Len(image)
    <3>1. 1 \in 1 .. n + 1
      BY <1>1
    <3>2. QED
      BY <1>2, <1>4, <1>8, <3>1
  <2>3. begin + Len(map) <= Len(bytes)
    BY <1>2, <1>4, <1>5, <1>7, <2>2
  <2>4. QED
    BY <1>2, <1>5, <2>1, <2>3, AgreeAt
<1>10. ASSUME NEW k \in 1 .. n PROVE Agree(Skip(bytes, begin + at[k]), row[k].bytes)
  <2>1. k \in 1 .. n + 1 /\ k + 1 \in 1 .. n + 1
    BY <1>1
  <2>2. PICK b \in Seq(Byte) : b = row[k].bytes
    BY <1>1 DEF row, n
  <2>3. PICK m \in Nat : m = at[k]
    BY <1>8, <2>1
  <2>4. m + Len(b) <= Len(image)
    BY <1>4, <1>8, <2>1, <2>2, <2>3
  <2>5. ASSUME NEW x \in 1 .. Len(b) PROVE bytes[(begin + m) + x] = b[x]
    <3>1. m + x \in 1 .. Len(image) /\ image[m + x] = b[x]
      BY <1>4, <2>2, <2>3
    <3>2. bytes[begin + (m + x)] = image[m + x]
      BY <1>6, <3>1
    <3>3. begin + (m + x) = (begin + m) + x
      BY <1>5, <2>3
    <3>4. QED
      BY <3>1, <3>2, <3>3
  <2>6. begin + m \in Nat /\ (begin + m) + Len(b) <= Len(bytes)
    <3>1. Len(b) \in Nat /\ Len(image) \in Nat /\ Len(bytes) \in Nat
      BY <1>4
    <3>2. \A x, y, z, w, v \in Nat : w + z <= v /\ x + y <= z => w + x \in Nat /\ (w + x) + y <= v
      OBVIOUS
    <3>3. QED
      BY <1>7, <2>4, <3>1, <3>2
  <2>7. Agree(Skip(bytes, begin + m), b)
    BY <1>5, <2>2, <2>5, <2>6, AgreeAt
  <2>8. QED
    BY <2>2, <2>3, <2>7
<1>11. \A k \in 1 .. n + 1 : begin + at[k] \in 0 .. Len(bytes)
  BY <1>4, <1>5, <1>7, <1>8
<1>12. QED
  BY <1>4, <1>5, <1>6, <1>9, <1>10, <1>11 DEF FieldPlaces, n, row, at, map

-----------------------------------------------------------------------------
(* Where the walk is in the event. *)
AtImage(r) == data = Begin(event, r) /\ len = Len(event.bytes) - data
AtField(r) ==
  /\ began = Begin(event, r) /\ data = began + event.at[r][i]
  /\ len = Len(event.bytes) - data
  /\ used = (1 .. NCols) \ Nulls(event.rows[r])

(* Between two images the walk is at the begin of an image, or at the end; *)
(* in an image it is at the field of the column it is at.                  *)
Placed ==
  /\ pc # "beyond"
  /\ pc = "parse" => data = 0
  /\ {data, len, began} \subseteq 0 .. Len(event.bytes)
  /\ pmeta \in 0 .. Len(event.metadata)
  /\ pc = "row" => \E r \in 1 .. Len(event.rows) + 1 : AtImage(r)
  /\ pc = "column" => \E r \in 1 .. Len(event.rows) : AtField(r)

LEMMA Sizes ==
  ASSUME event \in Events
  PROVE  /\ IsRowsEvent(event) /\ NCols \in Nat \ {0}
         /\ Len(event.bytes) \in Nat /\ Len(event.metadata) \in Nat /\ Len(event.rows) \in Nat
         /\ event.bytes \in Seq(Byte)
         /\ Narrow => NCols \in 1 .. 48
<1>1. IsRowsEvent(event) /\ NCols \in Nat \ {0}
  BY Table
<1>2. event.bytes \in Seq(Byte)
  BY <1>1, EventLayout DEF EventPlaces
<1>3. event.metadata \in Seq(Byte)
  BY <1>1, MetadataLayout DEF MetadataPlaces
<1>4. Len(event.rows) \in Nat
  BY <1>1, EventParts
<1>5. Narrow => NCols \in 1 .. 48
  BY <1>1 DEF Narrow
<1>6. QED
  BY <1>1, <1>2, <1>3, <1>4, <1>5

LEMMA PlaceOf ==
  ASSUME event \in Events, NEW r \in 1 .. Len(event.rows) + 1
  PROVE  Begin(event, r) \in 0 .. Len(event.bytes)
<1>1. IsRowsEvent(event)
  BY Sizes
<1>2. QED
  BY <1>1, EventLayout DEF EventPlaces

LEMMA PlacedStarts ==
  ASSUME Init
  PROVE  Placed
<1>1. /\ event \in Events /\ pc \in {"parse", "asserted"}
      /\ data = 0 /\ len = 0 /\ began = 0 /\ pmeta = 0
  BY DEF Init
<1>2. 0 \in 0 .. Len(event.bytes) /\ 0 \in 0 .. Len(event.metadata)
  BY <1>1, Sizes
<1>3. QED
  BY <1>1, <1>2 DEF Placed

LEMMA ParsePlaced ==
  ASSUME Narrow, Walk, Placed, Parse
  PROVE  Placed'
<1>1. /\ pc = "parse" /\ pc' = "row" /\ len' = Len(event.bytes) - data'
      /\ UNCHANGED <<event, pmeta, began>>
  BY DEF Parse, given
<1>2. event \in Events /\ IsRowsEvent(event) /\ NCols \in 1 .. 48 /\ Len(event.bytes) \in Nat
  BY Sizes DEF Walk
<1>3. PICK m \in Nat : m = Bytes(NCols)
  BY <1>2, BytesNat
<1>4. data' = Begin(event, 1)
  <2>1. \A p : build_cols_mask(p, NCols).skip = m
    BY <1>2, <1>3, MaskSkips
  <2>2. data' = IF event.kind = "update" THEN m + m ELSE m
    BY <2>1 DEF Parse
  <2>3. HeaderSize(event) = IF event.kind = "update" THEN 2 * m ELSE m
    BY <1>3, Zenon DEF HeaderSize, NCols
  <2>4. Begin(event, 1) = HeaderSize(event)
    BY <1>2, EventLayout DEF EventPlaces
  <2>5. QED
    BY <1>3, <2>2, <2>3, <2>4
<1>5. 1 \in 1 .. Len(event.rows) + 1
  BY <1>2, Sizes
<1>6. data' \in 0 .. Len(event.bytes)
  BY <1>2, <1>4, <1>5, PlaceOf
<1>7. len' \in 0 .. Len(event.bytes)
  BY <1>1, <1>2, <1>6
<1>8. AtImage(1)'
  BY <1>1, <1>4 DEF AtImage, Begin
<1>9. QED
  BY <1>1, <1>5, <1>6, <1>7, <1>8 DEF Placed

(* The bitmap an image begins with. *)
LEMMA MaskHere ==
  ASSUME Narrow, Walk, Placed, pc = "row", len > 0
  PROVE  \E r \in 1 .. Len(event.rows) :
           /\ data = Begin(event, r) /\ data \in 0 .. Len(event.bytes)
           /\ len = Len(event.bytes) - data
           /\ event.at[r][1] \in Nat /\ event.at[r][1] <= len
           /\ build_cols_mask(Here, NCols) =
                [bits |-> {c \in 1 .. NCols : c \in Nulls(event.rows[r])}, skip |-> event.at[r][1]]
<1>2. /\ event \in Events /\ IsRowsEvent(event) /\ NCols \in 1 .. 48
      /\ Len(event.bytes) \in Nat /\ Len(event.rows) \in Nat
  BY Sizes DEF Walk
<1>3. PICK r \in 1 .. Len(event.rows) + 1 : AtImage(r)
  BY DEF Placed
<1>4. data = Begin(event, r) /\ len = Len(event.bytes) - data /\ data \in 0 .. Len(event.bytes)
  BY <1>2, <1>3, PlaceOf DEF AtImage
<1>5. r \in 1 .. Len(event.rows)
  <2>1. r \notin 1 .. Len(event.rows) => data = Len(event.bytes)
    BY <1>4 DEF Begin
  <2>2. QED
    BY <1>2, <1>4, <2>1
<1>6. FieldPlaces(event, r)
  BY <1>2, <1>5, FieldLayout
<1>7. Agree(Here, Bitmap(Nulls(event.rows[r]), Bytes(NCols)))
  BY <1>4, <1>6 DEF FieldPlaces, Here, NCols
<1>8. build_cols_mask(Here, NCols)
        = [bits |-> {c \in 1 .. NCols : c \in Nulls(event.rows[r])}, skip |-> Bytes(NCols)]
  BY <1>2, <1>7, MaskRight
<1>9. event.at[r][1] = Bytes(NCols) /\ event.at[r][1] \in Nat
      /\ data + event.at[r][1] \in 0 .. Len(event.bytes)
  <2>1. 1 \in 1 .. Len(event.table) + 1
    BY <1>2 DEF NCols
  <2>2. QED
    BY <1>4, <1>6, <2>1 DEF FieldPlaces, NCols
<1>10. event.at[r][1] <= len
  <2>1. PICK L \in Nat, d \in Nat, a \in Nat : L = Len(event.bytes) /\ d = data /\ a = event.at[r][1]
    BY <1>2, <1>4, <1>9
  <2>2. len = L - d /\ d + a <= L
    BY <1>4, <1>9, <2>1
  <2>3. a <= len
    BY ONLY <2>2, L \in Nat, d \in Nat, a \in Nat
  <2>4. QED
    BY <2>1, <2>3
<1>11. QED
  BY <1>4, <1>5, <1>8, <1>9, <1>10

LEMMA NextImagePlaced ==
  ASSUME Narrow, Walk, Placed, NextImage
  PROVE  Placed'
<1>1. /\ pc = "row" /\ len > 0 /\ pc' = "column" /\ i' = 1 /\ began' = data /\ pmeta' = 0
      /\ event' = event
  BY DEF NextImage, given
<1>2. /\ event \in Events /\ Len(event.bytes) \in Nat /\ Len(event.metadata) \in Nat
  BY Sizes DEF Walk
<1>3. PICK mask : mask = build_cols_mask(Here, NCols)
  OBVIOUS
<1>4. PICK r \in 1 .. Len(event.rows) :
        /\ data = Begin(event, r) /\ data \in 0 .. Len(event.bytes)
        /\ len = Len(event.bytes) - data
        /\ event.at[r][1] \in Nat /\ event.at[r][1] <= len
        /\ mask = [bits |-> {c \in 1 .. NCols : c \in Nulls(event.rows[r])},
                   skip |-> event.at[r][1]]
  BY <1>1, <1>3, MaskHere
<1>5. /\ used' = (1 .. NCols) \ mask.bits
      /\ data' = data + mask.skip /\ len' = len - mask.skip
  BY <1>3, Zenon DEF NextImage
<1>6. used' = (1 .. NCols) \ Nulls(event.rows[r])
  BY <1>4, <1>5
<1>7. data' = data + event.at[r][1] /\ len' = len - event.at[r][1]
  BY <1>4, <1>5
<1>8. data' \in 0 .. Len(event.bytes) /\ len' = Len(event.bytes) - data' /\ len' \in 0 .. Len(event.bytes)
  <2>1. PICK L \in Nat, d \in Nat, a \in Nat : L = Len(event.bytes) /\ d = data /\ a = event.at[r][1]
    BY <1>2, <1>4
  <2>2. len = L - d /\ data' = d + a /\ len' = len - a /\ a <= len
    BY <1>4, <1>7, <2>1
  <2>3. data' \in 0 .. L /\ len' = L - data' /\ len' \in 0 .. L
    BY ONLY <2>2, L \in Nat, d \in Nat, a \in Nat
  <2>4. QED
    BY <2>1, <2>3
<1>9. AtField(r)'
  <2>1. NCols' = NCols
    BY <1>1 DEF NCols
  <2>2. began' = Begin(event', r)
    BY <1>1, <1>4
  <2>3. data' = began' + event'.at[r][i']
    BY <1>1, <1>7
  <2>4. QED
    BY <1>1, <1>6, <1>8, <2>1, <2>2, <2>3 DEF AtField, Begin
<1>10. 0 \in 0 .. Len(event.metadata)
  BY <1>2
<1>11. QED
  BY <1>1, <1>4, <1>8, <1>9, <1>10 DEF Placed

(* The bitmap is never more than is left. *)
LEMMA MaskNeverBeyond ==
  ASSUME Narrow, Walk, Placed
  PROVE  ~MaskBeyond
<1> SUFFICES ASSUME MaskBeyond PROVE FALSE
  OBVIOUS
<1>1. pc = "row" /\ len > 0 /\ build_cols_mask(Here, NCols).skip > len
  BY DEF MaskBeyond
<1>2. PICK r \in 1 .. Len(event.rows) :
        /\ len = Len(event.bytes) - data /\ data \in 0 .. Len(event.bytes)
        /\ event.at[r][1] \in Nat /\ event.at[r][1] <= len
        /\ build_cols_mask(Here, NCols) =
             [bits |-> {c \in 1 .. NCols : c \in Nulls(event.rows[r])}, skip |-> event.at[r][1]]
  BY <1>1, MaskHere
<1>3. event.at[r][1] > len
  BY <1>1, <1>2
<1>4. len \in Int
  BY <1>2, Sizes DEF Walk
<1>5. QED
  BY <1>2, <1>3, <1>4

(* The metadata behind that of a column. *)
LEMMA MetadataLeft ==
  ASSUME Walk, pc = "column", i <= NCols
  PROVE  pmeta + Metasize \in 0 .. Len(event.metadata)
<1>1. i \in 1 .. NCols /\ pmeta + Metasize = event.passed[i + 1] /\ i + 1 \in 1 .. NCols + 1
  BY FieldHere
<1>2. MetadataPlaces(event) /\ Len(event.metadata) \in Nat
  BY Sizes, MetadataLayout DEF Walk
<1>3. event.passed[i + 1] \in Nat /\ event.passed[i + 1] <= Len(event.metadata)
  BY <1>1, <1>2 DEF MetadataPlaces, NCols
<1>4. QED
  BY <1>1, <1>2, <1>3

LEMMA PassNullAt ==
  ASSUME Walk, PassNull, NEW r \in 1 .. Len(event.rows), AtField(r)
  PROVE  AtField(r)' /\ event.rows[r][i] = Null
<1>1. /\ pc = "column" /\ i <= NCols /\ i \notin used /\ pmeta' = pmeta + Metasize /\ i' = i + 1
      /\ UNCHANGED <<event, pc, data, len, used, began>>
  BY DEF PassNull, given
<1>3. IsRowsEvent(event) /\ i \in 1 .. NCols
  BY <1>1, FieldHere, Sizes DEF Walk
<1>4. i \in Nulls(event.rows[r])
  BY <1>1, <1>3 DEF AtField
<1>2. event.rows[r][i] = Null
  BY <1>4 DEF Nulls
<1>5. event.rows[r][i].bytes = <<>>
  BY <1>2 DEF Null
<1>6. event.at[r][i + 1] = event.at[r][i]
  <2>1. FieldPlaces(event, r)
    BY <1>3, FieldLayout
  <2>2. event.at[r][i + 1] = event.at[r][i] + Len(event.rows[r][i].bytes) /\ event.at[r][i] \in Nat
    <3>1. i \in 1 .. Len(event.table) /\ i \in 1 .. Len(event.table) + 1
      BY <1>3, Sizes DEF NCols, Walk
    <3>2. QED
      BY <2>1, <3>1 DEF FieldPlaces
  <2>3. QED
    BY <1>5, <2>2
<1>7. AtField(r)'
  <2>1. NCols' = NCols
    BY <1>1 DEF NCols
  <2>2. QED
    BY <1>1, <1>6, <2>1 DEF AtField, Begin
<1>8. QED
  BY <1>2, <1>7

LEMMA PassNullPlaced ==
  ASSUME Walk, Placed, PassNull
  PROVE  Placed'
<1>1. /\ pc = "column" /\ i <= NCols /\ pmeta' = pmeta + Metasize
      /\ UNCHANGED <<event, pc, data, len, began>>
  BY DEF PassNull, given
<1>2. PICK r \in 1 .. Len(event.rows) : AtField(r)
  BY <1>1 DEF Placed
<1>3. AtField(r)'
  BY <1>2, PassNullAt
<1>4. pmeta' \in 0 .. Len(event.metadata)
  BY <1>1, MetadataLeft
<1>5. QED
  BY <1>1, <1>3, <1>4 DEF Placed

(* The size of a field that is not null is that of its bytes.              *)
LEMMA SizeHere ==
  ASSUME ShortChars, Walk, pc = "column", i <= NCols, i \in used,
         NEW r \in 1 .. Len(event.rows), AtField(r)
  PROVE  /\ Agree(Here, event.rows[r][i].bytes)
         /\ calc_field_size(Type, Here, Meta) = Len(event.rows[r][i].bytes)
<1>1. IsRowsEvent(event) /\ event \in Events /\ i \in 1 .. NCols /\ NCols \in Nat
  BY FieldHere, Sizes DEF Walk
<1>2. /\ event.table[i].meta \in Seq(Byte) /\ Kind(event.table[i].type, event.table[i].meta)
      /\ Meta = Number(event.table[i].meta)
  BY <1>1, FieldHere, Table
<1>3. i \in 1 .. Len(event.table) /\ i \in DOMAIN event.table
  BY <1>1, Table DEF NCols
<1>4. event.rows[r][i] # Null
  <2>1. i \notin Nulls(event.rows[r])
    BY DEF AtField
  <2>2. i \in DOMAIN event.rows[r]
    BY <1>1, <1>3, Cells
  <2>3. QED
    BY <2>1, <2>2 DEF Nulls
<1>5. /\ event.rows[r][i].bytes \in Seq(Byte)
      /\ HasSize(event.table[i], event.rows[r][i].bytes)
  BY <1>1, <1>3, <1>4, Cells
<1>6. Agree(Here, event.rows[r][i].bytes)
  <2>1. FieldPlaces(event, r)
    BY <1>1, FieldLayout
  <2>2. Agree(Skip(event.bytes, Begin(event, r) + event.at[r][i]), event.rows[r][i].bytes)
    BY <1>3, <2>1 DEF FieldPlaces
  <2>3. data = Begin(event, r) + event.at[r][i]
    BY DEF AtField
  <2>4. QED
    BY <2>2, <2>3 DEF Here
<1>7. event.table[i].type = 254 => event.table[i].meta[1] \in {247, 248, 254}
  <2>1. event.table[i].type = MY_TYPE.STRING =>
          event.table[i].meta[1] \in {MY_TYPE.STRING, MY_TYPE.ENUM, MY_TYPE.SET}
    BY <1>3, Zenon DEF ShortChars
  <2>2. QED
    BY <2>1, Types
<1>8. calc_field_size(event.table[i].type, Here, Number(event.table[i].meta))
        = Len(event.rows[r][i].bytes)
  BY <1>2, <1>5, <1>6, <1>7, SizeRight, SMTT(30)
<1>9. QED
  BY <1>2, <1>6, <1>8 DEF Type

LEMMA ReadFieldAt ==
  ASSUME ShortChars, Walk, Placed, ReadField, NEW r \in 1 .. Len(event.rows), AtField(r)
  PROVE  /\ AtField(r)' /\ data' \in 0 .. Len(event.bytes) /\ len' \in 0 .. Len(event.bytes)
         /\ pc' \in {"died", "asserted", "column"}
<1>1. /\ pc = "column" /\ i <= NCols /\ i \in used /\ pmeta' = pmeta + Metasize /\ i' = i + 1
      /\ UNCHANGED <<event, used, began>>
  BY DEF ReadField, given
<1>3. IsRowsEvent(event) /\ i \in 1 .. NCols /\ NCols \in Nat /\ Len(event.bytes) \in Nat
  BY <1>1, FieldHere, Sizes DEF Walk
<1>4. PICK size : size = calc_field_size(Type, Here, Meta)
  OBVIOUS
<1>5. size = Len(event.rows[r][i].bytes) /\ size \in Nat
  BY <1>1, <1>4, SizeHere, FieldHere
<1>6. /\ event.at[r][i + 1] = event.at[r][i] + size /\ event.at[r][i] \in Nat
      /\ began + event.at[r][i + 1] \in 0 .. Len(event.bytes)
      /\ began + event.at[r][i] \in 0 .. Len(event.bytes)
  <2>1. FieldPlaces(event, r)
    BY <1>3, FieldLayout
  <2>2. i \in 1 .. Len(event.table) /\ i \in 1 .. Len(event.table) + 1 /\ i + 1 \in 1 .. Len(event.table) + 1
    BY <1>3 DEF NCols
  <2>3. began = Begin(event, r)
    BY DEF AtField
  <2>4. QED
    BY <1>5, <2>1, <2>2, <2>3 DEF FieldPlaces
<1>7. data = began + event.at[r][i] /\ len = Len(event.bytes) - data /\ began \in Nat
  BY <1>3 DEF AtField, Placed
<1>8. PICK L \in Nat, a \in Nat, b \in Nat, c \in Nat :
        L = Len(event.bytes) /\ a = event.at[r][i] /\ b = began /\ c = size
  BY <1>3, <1>5, <1>6, <1>7
<1>9. ~ (size > len)
  <2>1. event.at[r][i + 1] = a + c /\ b + (a + c) \in 0 .. L /\ data = b + a /\ len = L - data
    BY <1>6, <1>7, <1>8
  <2>2. ~ (c > len)
    BY ONLY <2>1, a \in Nat, b \in Nat, c \in Nat, L \in Nat
  <2>3. QED
    BY <1>8, <2>2
<1>10. data' = data + size /\ len' = len - size
  BY <1>4, <1>9 DEF ReadField
<1>11. data' = began + event.at[r][i + 1] /\ len' = Len(event.bytes) - data'
  <2>1. event.at[r][i + 1] = a + c /\ data = b + a /\ len = L - data
    BY <1>6, <1>7, <1>8
  <2>2. data' = data + c /\ len' = len - c
    BY <1>8, <1>10
  <2>3. data' = b + (a + c) /\ len' = L - data'
    BY ONLY <2>1, <2>2, a \in Nat, b \in Nat, c \in Nat, L \in Nat
  <2>4. QED
    BY <1>8, <2>1, <2>3
<1>12. PICK text : pc' = CASE text = Dies -> "died"
                          [] text = Asserts -> "asserted"
                          [] size > len -> "beyond"
                          [] OTHER -> "column"
  BY <1>4, Zenon DEF ReadField
<1>13. pc' \in {"died", "asserted", "column"}
  BY <1>9, <1>12
<1>14. AtField(r)'
  <2>1. NCols' = NCols
    BY <1>1 DEF NCols
  <2>2. used = (1 .. NCols) \ Nulls(event.rows[r]) /\ began = Begin(event, r)
    BY DEF AtField
  <2>3. QED
    BY <1>1, <1>11, <2>1, <2>2 DEF AtField, Begin
<1>15. data' \in 0 .. Len(event.bytes)
  BY <1>6, <1>11
<1>16. len' \in 0 .. Len(event.bytes)
  BY <1>3, <1>11, <1>15
<1>17. QED
  BY <1>13, <1>14, <1>15, <1>16

LEMMA ReadFieldPlaced ==
  ASSUME ShortChars, Walk, Placed, ReadField
  PROVE  Placed'
<1>1. pc = "column" /\ i <= NCols /\ pmeta' = pmeta + Metasize /\ UNCHANGED <<event, began>>
  BY DEF ReadField, given
<1>2. PICK r \in 1 .. Len(event.rows) : AtField(r)
  BY <1>1 DEF Placed
<1>3. /\ AtField(r)' /\ data' \in 0 .. Len(event.bytes) /\ len' \in 0 .. Len(event.bytes)
      /\ pc' \in {"died", "asserted", "column"}
  BY <1>2, ReadFieldAt
<1>4. pmeta' \in 0 .. Len(event.metadata)
  BY <1>1, MetadataLeft
<1>5. QED
  BY <1>1, <1>3, <1>4 DEF Placed

LEMMA ImageEndsPlaced ==
  ASSUME Walk, Placed, ImageEnds
  PROVE  Placed'
<1>1. /\ pc = "column" /\ i > NCols /\ pc' = "row"
      /\ UNCHANGED <<event, data, len, pmeta, began>>
  BY DEF ImageEnds, given
<1>2. PICK r \in 1 .. Len(event.rows) : AtField(r)
  BY <1>1 DEF Placed
<1>3. IsRowsEvent(event) /\ NCols \in Nat /\ Len(event.rows) \in Nat
  BY Sizes DEF Walk
<1>4. i = NCols + 1
  BY <1>1, <1>3 DEF Walk
<1>5. data = Begin(event, r + 1)
  <2>1. Begin(event, r) + event.at[r][NCols + 1] = Begin(event, r + 1)
    BY <1>3, FieldLayout DEF FieldPlaces, NCols
  <2>2. QED
    BY <1>2, <1>4, <2>1 DEF AtField
<1>6. len = Len(event.bytes) - data
  BY <1>2 DEF AtField
<1>7. AtImage(r + 1)'
  BY <1>1, <1>5, <1>6 DEF AtImage, Begin
<1>8. r + 1 \in 1 .. Len(event.rows) + 1
  BY <1>3
<1>9. QED
  BY <1>1, <1>7, <1>8 DEF Placed

LEMMA PlacedStays ==
  ASSUME Placed, UNCHANGED <<event, i, data, len, pmeta, used, began>>, UNCHANGED pc \/ pc' = "done"
  PROVE  Placed'
<1>1. NCols' = NCols
  BY DEF NCols
<1>2. \A r : (AtImage(r) => AtImage(r)') /\ (AtField(r) => AtField(r)')
  BY <1>1 DEF AtImage, AtField, Begin
<1>3. QED
  BY <1>2 DEF Placed

LEMMA PlacedSteps ==
  ASSUME Followed, Walk, Placed, [Next]_vars
  PROVE  Placed'
<1> USE DEF Followed
<1>1. CASE Parse
  BY <1>1, ParsePlaced
<1>2. CASE NextImage
  BY <1>2, NextImagePlaced
<1>11. CASE MaskBeyond
  BY <1>11, MaskNeverBeyond
<1>3. CASE EventEnds
  BY <1>3, PlacedStays DEF EventEnds, given
<1>4. CASE PassNull
  BY <1>4, PassNullPlaced
<1>5. CASE ReadField
  BY <1>5, ReadFieldPlaced
<1>6. CASE ImageEnds
  BY <1>6, ImageEndsPlaced
<1>7. CASE Convert
  BY <1>7, PlacedStays DEF Convert, walk, given
<1>8. CASE FlushRow
  BY <1>8, PlacedStays DEF FlushRow, walk, given
<1>9. CASE UNCHANGED vars
  BY <1>9, PlacedStays DEF vars, walk, given
<1>10. QED
  BY <1>1, <1>2, <1>3, <1>4, <1>5, <1>6, <1>7, <1>8, <1>9, <1>11, Zenon DEF Next

(* The table of an event stays what it is. *)
LEMMA EventStays ==
  ASSUME [Next]_vars
  PROVE  event' = event /\ labels' = labels /\ (Followed' <=> Followed)
<1>1. event' = event /\ labels' = labels
  BY Zenon DEF Next, Parse, NextImage, MaskBeyond, EventEnds, PassNull, ReadField, ImageEnds,
               Convert, FlushRow, vars, walk, given
<1>2. QED
  BY <1>1, Zenon DEF Followed, Narrow, ShortChars, NCols

(* The walk of rows_event_handler is at the begin of an image or at the    *)
(* field of its column, and never reads beyond the event, in tables of up  *)
(* to 48 columns without a CHAR of more than 255 bytes.                    *)
THEOREM PlacedAlways == Spec => [](Walk /\ RowInv /\ (Followed => Placed))
<1>1. Init => (Followed => Placed)
  BY PlacedStarts
<1>2. Walk /\ (Followed => Placed) /\ [Next]_vars => (Followed => Placed)'
  BY PlacedSteps, EventStays
<1>3. QED
  BY <1>1, <1>2, WalkAlways, PTL DEF Spec

(* Each field is read where the master wrote it, with the metadata of its  *)
(* column, for every size, null or not, of the fields before it: for every *)
(* table and all images of it, as long as the table has up to 48 columns   *)
(* and no CHAR of more than 255 bytes.                                     *)
THEOREM AlignedAlways == Spec => []Aligned
<1>1. Walk /\ (Followed => Placed) => Aligned
  <2> SUFFICES ASSUME Walk, Followed, Placed, pc = "column" PROVE Aligned
    BY DEF Aligned
  <2>1. PICK r \in 1 .. Len(event.rows) : AtField(r)
    BY DEF Placed
  <2>2. DOMAIN event.rows = 1 .. Len(event.rows)
    BY Sizes, EventParts DEF Walk
  <2>3. began = event.start[r]
    BY <2>1 DEF AtField, Begin
  <2>4. QED
    BY <2>1, <2>2, <2>3 DEF Aligned, AtField, Walk
<1>2. QED
  BY <1>1, PlacedAlways, PTL


-----------------------------------------------------------------------------
(* Whatever the walk takes for a size, it stays in the event: when a       *)
(* bitmap or a field is more than is left, it is beyond.                   *)
Within ==
  /\ {data, len, began} \subseteq 0 .. Len(event.bytes)
  /\ data + len <= Len(event.bytes)
  /\ pmeta \in 0 .. Len(event.metadata)

LEMMA WithinStarts ==
  ASSUME Init
  PROVE  Within
<1>1. event \in Events /\ data = 0 /\ len = 0 /\ began = 0 /\ pmeta = 0
  BY DEF Init
<1>2. Len(event.bytes) \in Nat /\ Len(event.metadata) \in Nat
  BY <1>1, Sizes
<1>3. QED
  BY <1>1, <1>2 DEF Within

(* The mask of an image is at most its bitmap, for any number of columns.  *)
LEMMA MaskAtMost ==
  ASSUME NEW p, NEW n \in Nat
  PROVE  build_cols_mask(p, n).skip \in 0 .. Bytes(n)
<1>1. PICK l, m : l = ((n + 7) \div 8) % 256 /\ m = (n + 7) \div 8
  OBVIOUS
<1>2. m \in Nat /\ l = m % 256
  BY <1>1
<1>3. l \in 0 .. m
  <2>1. \A x \in Nat : x % 256 \in 0 .. x
    OBVIOUS
  <2>2. QED
    BY <1>2, <2>1
<1>4. Bytes(n) = m
  BY <1>1, Zenon DEF Bytes
<1>5. CASE l \in 1 .. 6
  <2>1. build_cols_mask(p, n) = [bits |-> {c \in 1 .. n : IsSet(p, c)}, skip |-> l]
    BY <1>1, <1>5, Zenon DEF build_cols_mask
  <2>2. QED
    BY <1>3, <1>4, <2>1
<1>6. CASE l \notin 1 .. 6
  <2>1. build_cols_mask(p, n) = [bits |-> 1 .. n, skip |-> 0]
    BY <1>1, <1>6, Zenon DEF build_cols_mask
  <2>2. QED
    BY <1>2, <1>4, <2>1
<1>7. QED
  BY <1>5, <1>6

LEMMA ParseWithin ==
  ASSUME Walk, Within, Parse
  PROVE  Within'
<1>1. len' = Len(event.bytes) - data' /\ UNCHANGED <<event, pmeta, began>>
  BY DEF Parse, given
<1>2. IsRowsEvent(event) /\ event \in Events /\ NCols \in Nat \ {0} /\ Len(event.bytes) \in Nat
  BY Sizes DEF Walk
<1>3. PICK m \in Nat : m = Bytes(NCols)
  BY <1>2, BytesNat
<1>4. data' \in Nat /\ data' <= Begin(event, 1)
  <2>1. PICK first : first = build_cols_mask(Here, NCols).skip
    OBVIOUS
  <2>2. PICK second : second = build_cols_mask(Skip(Here, first), NCols).skip
    OBVIOUS
  <2>3. first \in 0 .. m /\ second \in 0 .. m
    BY <1>2, <1>3, <2>1, <2>2, MaskAtMost
  <2>4. data' = IF event.kind = "update" THEN first + second ELSE first
    BY <2>1, <2>2, Zenon DEF Parse
  <2>5. HeaderSize(event) = IF event.kind = "update" THEN 2 * m ELSE m
    BY <1>3, Zenon DEF HeaderSize, NCols
  <2>6. Begin(event, 1) = HeaderSize(event)
    BY <1>2, EventLayout DEF EventPlaces
  <2>7. QED
    BY <1>3, <2>3, <2>4, <2>5, <2>6
<1>5. Begin(event, 1) \in 0 .. Len(event.bytes)
  <2>1. 1 \in 1 .. Len(event.rows) + 1
    BY <1>2, Sizes
  <2>2. QED
    BY <1>2, <2>1, PlaceOf
<1>6. data' \in 0 .. Len(event.bytes) /\ len' \in 0 .. Len(event.bytes) /\ data' + len' <= Len(event.bytes)
  BY <1>1, <1>2, <1>4, <1>5
<1>7. QED
  BY <1>1, <1>6 DEF Within

(* Moving on by no more than is left. *)
LEMMA MovesWithin ==
  ASSUME Walk, Within, event' = event, NEW n \in Nat, n <= len, data' = data + n, len' = len - n,
         began' \in {began, data}, pmeta' \in 0 .. Len(event.metadata)
  PROVE  Within'
<1>1. PICK L \in Nat : L = Len(event.bytes)
  BY Sizes DEF Walk
<1>2. data \in 0 .. L /\ len \in 0 .. L /\ began \in 0 .. L /\ data + len <= L
  BY <1>1 DEF Within
<1>3. data' \in 0 .. L /\ len' \in 0 .. L /\ data' + len' <= L
  BY <1>1, <1>2
<1>4. QED
  BY <1>1, <1>2, <1>3 DEF Within

LEMMA NextImageWithin ==
  ASSUME Walk, Within, NextImage
  PROVE  Within'
<1>1. began' = data /\ pmeta' = 0 /\ event' = event
  BY DEF NextImage, given
<1>2. NCols \in Nat /\ Len(event.metadata) \in Nat
  BY Sizes DEF Walk
<1>3. PICK mask : mask = build_cols_mask(Here, NCols)
  OBVIOUS
<1>4. mask.skip <= len /\ data' = data + mask.skip /\ len' = len - mask.skip
  BY <1>3, Zenon DEF NextImage
<1>5. mask.skip \in Nat
  BY <1>2, <1>3, MaskTyped
<1>6. QED
  BY <1>1, <1>2, <1>4, <1>5, MovesWithin

LEMMA ReadFieldWithin ==
  ASSUME Walk, Within, ReadField
  PROVE  Within'
<1>1. pc = "column" /\ i <= NCols /\ pmeta' = pmeta + Metasize /\ UNCHANGED <<event, began>>
  BY DEF ReadField, given
<1>2. PICK size \in Nat : size = calc_field_size(Type, Here, Meta)
  BY <1>1, FieldHere
<1>3. IF size > len THEN UNCHANGED <<data, len>> ELSE data' = data + size /\ len' = len - size
  BY <1>2, Zenon DEF ReadField
<1>4. pmeta' \in 0 .. Len(event.metadata)
  BY <1>1, MetadataLeft
<1>5. CASE size > len
  BY <1>1, <1>3, <1>4, <1>5 DEF Within
<1>6. CASE ~(size > len)
  <2>1. len \in Int
    BY Sizes DEF Walk, Within
  <2>2. size <= len
    BY <1>6, <2>1
  <2>3. QED
    BY <1>1, <1>3, <1>4, <1>6, <2>2, MovesWithin
<1>7. QED
  BY <1>5, <1>6

LEMMA WithinSteps ==
  ASSUME Walk, Within, [Next]_vars
  PROVE  Within'
<1>1. CASE Parse
  BY <1>1, ParseWithin
<1>2. CASE NextImage
  BY <1>2, NextImageWithin
<1>3. CASE MaskBeyond
  BY <1>3 DEF MaskBeyond, given, Within
<1>4. CASE EventEnds
  BY <1>4 DEF EventEnds, given, Within
<1>5. CASE PassNull
  <2>1. pc = "column" /\ i <= NCols /\ pmeta' = pmeta + Metasize /\ UNCHANGED <<event, data, len, began>>
    BY <1>5 DEF PassNull, given
  <2>2. pmeta' \in 0 .. Len(event.metadata)
    BY <2>1, MetadataLeft
  <2>3. QED
    BY <2>1, <2>2 DEF Within
<1>6. CASE ReadField
  BY <1>6, ReadFieldWithin
<1>7. CASE ImageEnds
  BY <1>7 DEF ImageEnds, given, Within
<1>8. CASE Convert
  BY <1>8 DEF Convert, walk, given, Within
<1>9. CASE FlushRow
  BY <1>9 DEF FlushRow, walk, given, Within
<1>10. CASE UNCHANGED vars
  BY <1>10 DEF vars, walk, given, Within
<1>11. QED
  BY <1>1, <1>2, <1>3, <1>4, <1>5, <1>6, <1>7, <1>8, <1>9, <1>10, Zenon DEF Next

(* All of the state has its type, for every rows event: i, data, len and   *)
(* pmeta never leave the columns, the event and the metadata.              *)
THEOREM TypeAlways == Spec => []TypeOK
<1>1. Init => Within
  BY WithinStarts
<1>2. Walk /\ Within /\ [Next]_vars => Within'
  BY WithinSteps
<1>3. Walk /\ RowInv /\ Within => TypeOK
  BY RowInvFits DEF Walk, Within, TypeOK
<1>4. QED
  BY <1>1, <1>2, <1>3, WalkAlways, PTL DEF Spec

-----------------------------------------------------------------------------
(* The labels in the type of a column.  m pairs of quotes, one behind the  *)
(* other, are at least m labels.                                           *)
Pairs(s, m, a, b) ==
  \A l \in 1 .. m :
    /\ a[l] \in 1 .. Len(s) /\ b[l] \in 1 .. Len(s) /\ a[l] < b[l]
    /\ s[a[l]] = Quote /\ s[b[l]] = Quote
    /\ l < m => b[l] < a[l + 1]

(* One step of the search, seen from before a quote at a, with one at b    *)
(* behind it.                                                              *)
FoundFrom(s, from, k, a, b) ==
  \E p \in k .. a, q \in 1 .. b :
    /\ p < q /\ s[p] = Quote /\ s[q] = Quote
    /\ \A l \in k .. p - 1 : s[l] # Quote
    /\ \A l \in p + 1 .. q - 1 : s[l] # Quote
    /\ from[k] = <<SubSeq(s, p + 1, q - 1)>> \o from[q + 1]
    /\ from[q + 1] \in Seq(Seq(Byte)) /\ SubSeq(s, p + 1, q - 1) \in Seq(Byte)

LEMMA NextPair ==
  ASSUME NEW s \in Seq(Byte), NEW from, LabelsAt(s, from),
         NEW a \in 1 .. Len(s), NEW b \in 1 .. Len(s), a < b, s[a] = Quote, s[b] = Quote,
         NEW k \in 1 .. a
  PROVE  FoundFrom(s, from, k, a, b)
<1>1. PICK n \in Nat : n = Len(s)
  OBVIOUS
<1>2. PICK p : p = QuoteFrom(s, k)
  OBVIOUS
<1>3. k \in 1 .. n + 1
  BY <1>1
<1>4. p \in k .. n + 1 /\ (p > n \/ s[p] = Quote) /\ \A l \in k .. p - 1 : s[l] # Quote
  BY <1>1, <1>2, <1>3, QuoteExists
<1>5. p \in k .. a
  <2>1. CASE p > a
    <3>1. a \in k .. p - 1
      BY <1>4, <2>1
    <3>2. QED
      BY <1>4, <3>1
  <2>2. QED
    BY <1>4, <2>1
<1>6. s[p] = Quote /\ p + 1 \in 1 .. n + 1 /\ ~ (p > n)
  BY <1>1, <1>4, <1>5
<1>7. PICK q : q = QuoteFrom(s, p + 1)
  OBVIOUS
<1>8. q \in p + 1 .. n + 1 /\ (q > n \/ s[q] = Quote) /\ \A l \in p + 1 .. q - 1 : s[l] # Quote
  BY <1>1, <1>6, <1>7, QuoteExists
<1>9. q \in 1 .. b /\ p < q
  <2>1. CASE q > b
    <3>1. b \in p + 1 .. q - 1
      BY <1>5, <1>8, <2>1
    <3>2. QED
      BY <1>8, <3>1
  <2>2. QED
    BY <1>5, <1>8, <2>1
<1>10. s[q] = Quote /\ ~ (q > n) /\ q + 1 \in 1 .. n + 1
  BY <1>1, <1>8, <1>9
<1>11. LabelsFrom(s, k, from) = <<SubSeq(s, p + 1, q - 1)>> \o from[q + 1]
  BY <1>1, <1>2, <1>6, <1>7, <1>10 DEF LabelsFrom
<1>12. from[k] = LabelsFrom(s, k, from) /\ from[q + 1] \in Seq(Seq(Byte))
  BY <1>1, <1>3, <1>10 DEF LabelsAt
<1>13. SubSeq(s, p + 1, q - 1) \in Seq(Byte)
  <2>1. p + 1 \in Int /\ q - 1 \in Int /\ \A x \in p + 1 .. q - 1 : s[x] \in Byte
    BY <1>1, <1>5, <1>8, <1>10
  <2>2. QED
    BY <2>1, SubSeqProperties
<1>14. QED
  BY <1>4, <1>5, <1>6, <1>8, <1>9, <1>10, <1>11, <1>12, <1>13 DEF FoundFrom

LEMMA PairsFound ==
  ASSUME NEW s \in Seq(Byte), NEW m \in Nat, NEW a, NEW b, Pairs(s, m, a, b)
  PROVE  Len(enum_labels(s)) >= m
<1>1. PICK from : LabelsAt(s, from)
  BY LabelsWalk
<1>2. CASE m = 0
  BY <1>2, LabelsFound
<1>3. CASE m # 0
  <2> DEFINE S == {r \in 0 .. m - 1 : \A k \in 1 .. a[m - r] : Len(from[k]) >= r + 1}
  <2>1. ASSUME NEW l \in 1 .. m, NEW k \in 1 .. a[l],
               l < m => \A x \in 1 .. a[l + 1] : Len(from[x]) >= m - l
        PROVE  Len(from[k]) >= m - l + 1
    <3>1. PICK x, y : x = a[l] /\ y = b[l]
      OBVIOUS
    <3>2. /\ x \in 1 .. Len(s) /\ y \in 1 .. Len(s) /\ x < y /\ s[x] = Quote /\ s[y] = Quote
          /\ l < m => y < a[l + 1]
      BY <3>1 DEF Pairs
    <3>3. k \in 1 .. x
      BY <3>1
    <3>4. PICK label \in Seq(Byte), q \in 1 .. y :
            from[k] = <<label>> \o from[q + 1] /\ from[q + 1] \in Seq(Seq(Byte))
      <4>1. FoundFrom(s, from, k, x, y)
        BY <1>1, <3>2, <3>3, NextPair
      <4>2. QED
        BY <4>1 DEF FoundFrom
    <3>5. PICK rest \in Seq(Seq(Byte)) : rest = from[q + 1]
      BY <3>4
    <3>6. Len(from[k]) = 1 + Len(rest) /\ Len(rest) \in Nat
      <4>1. <<label>> \in Seq(Seq(Byte)) /\ Len(<<label>>) = 1
        OBVIOUS
      <4>2. QED
        BY <3>4, <3>5, <4>1
    <3>7. l < m => Len(rest) >= m - l
      <4>1. l < m => q + 1 \in 1 .. a[l + 1]
        <5>1. l < m => l + 1 \in 1 .. m
          OBVIOUS
        <5>2. l < m => a[l + 1] \in Nat
          BY <5>1 DEF Pairs
        <5>3. QED
          BY <3>2, <5>2
      <4>2. QED
        BY <2>1, <3>5, <4>1
    <3>8. QED
      BY <3>6, <3>7
  <2>2. 0 \in S
    <3>1. m \in 1 .. m /\ m - 0 = m /\ ~ (m < m) /\ 0 \in 0 .. m - 1
      BY <1>3
    <3>2. \A k \in 1 .. a[m] : Len(from[k]) >= m - m + 1
      BY <2>1, <3>1
    <3>3. QED
      BY <3>1, <3>2
  <2>3. ASSUME NEW r \in Nat, r < m - 1, r \in S PROVE r + 1 \in S
    <3>1. PICK l : l = m - (r + 1)
      OBVIOUS
    <3>2. l \in 1 .. m /\ l + 1 = m - r /\ m - l = r + 1 /\ r + 1 \in 0 .. m - 1
      BY <2>3, <3>1
    <3>3. \A x \in 1 .. a[l + 1] : Len(from[x]) >= m - l
      BY <2>3, <3>2
    <3>4. \A k \in 1 .. a[l] : Len(from[k]) >= (r + 1) + 1
      BY <2>1, <3>2, <3>3
    <3>5. QED
      BY <3>1, <3>2, <3>4
  <2>4. m - 1 \in S
    <3>1. m - 1 \in Nat
      BY <1>3
    <3> HIDE DEF S
    <3>2. \A r \in 0 .. m - 1 : r \in S
      BY <2>2, <2>3, <3>1, UpTo
    <3>3. QED
      BY <3>1, <3>2
  <2>5. 1 \in 1 .. a[1] /\ m - (m - 1) = 1 /\ (m - 1) + 1 = m
    <3>1. 1 \in 1 .. m
      BY <1>3
    <3>2. a[1] \in 1 .. Len(s)
      BY <3>1 DEF Pairs
    <3>3. QED
      BY <3>2
  <2>6. Len(from[1]) >= m
    BY <2>4, <2>5
  <2>7. QED
    BY <1>1, <2>6 DEF LabelsAt
<1>4. QED
  BY <1>2, <1>3

(* A label as it is shown, and the part of the type that is about it.      *)
Shown(label) == FlattenSeq([k \in DOMAIN label |->
                  IF label[k] = Quote THEN <<Quote, Quote>> ELSE <<label[k]>>])

ShownPart(lb, k) ==
  <<Quote>> \o Shown(lb[k]) \o (IF k = Len(lb) THEN <<Quote>> ELSE <<Quote, 44>>)

LEMMA ShownLabel ==
  ASSUME NEW label \in Seq(Byte)
  PROVE  /\ Shown(label) \in Seq(Byte)
         /\ (\A k \in 1 .. Len(label) : label[k] # Quote) => Shown(label) = label
<1>1. Quote \in Byte
  BY DEF Quote, Byte
<1>2. PICK n \in Nat : n = Len(label)
  OBVIOUS
<1>3. DOMAIN label = 1 .. n /\ \A k \in 1 .. n : label[k] \in Byte
  BY <1>2
<1>4. PICK g : g = [k \in 1 .. n |-> IF label[k] = Quote THEN <<Quote, Quote>> ELSE <<label[k]>>]
  OBVIOUS
<1>5. Shown(label) = FlattenSeq(g)
  BY <1>3, <1>4 DEF Shown
<1>6. g \in [1 .. n -> Seq(Byte)]
  <2>1. ASSUME NEW k \in 1 .. n PROVE g[k] \in Seq(Byte)
    <3>1. <<Quote, Quote>> \in Seq(Byte) /\ <<label[k]>> \in Seq(Byte)
      BY <1>1, <1>3
    <3>2. QED
      BY <1>4, <3>1
  <2>2. QED
    BY <1>4, <2>1
<1>7. PICK t : Places(t, g, n)
  BY <1>6, PlacesExist
<1>8. Joined(FlattenSeq(g), g, t, n, Byte)
  BY <1>6, <1>7, Flattened
<1>9. ASSUME \A k \in 1 .. n : label[k] # Quote PROVE Shown(label) = label
  <2>1. \A k \in 1 .. n : g[k] = <<label[k]>> /\ Len(g[k]) = 1
    BY <1>4, <1>9
  <2>2. \A k \in 0 .. n : t[k] = k
    <3> DEFINE T == {k \in Nat : k <= n => t[k] = k}
    <3>1. 0 \in T
      BY <1>7 DEF Places
    <3>2. ASSUME NEW k \in Nat, k < n, k \in T PROVE k + 1 \in T
      <4>1. k + 1 \in 1 .. n /\ (k + 1) - 1 = k
        BY <3>2
      <4>2. t[k + 1] = t[k] + Len(g[k + 1])
        BY <1>7, <4>1 DEF Places
      <4>3. t[k] = k /\ Len(g[k + 1]) = 1
        BY <2>1, <3>2, <4>1
      <4>4. QED
        BY <4>2, <4>3
    <3> HIDE DEF T
    <3>3. \A k \in 0 .. n : k \in T
      BY <3>1, <3>2, UpTo
    <3> USE DEF T
    <3>4. QED
      BY <3>3
  <2>3. PICK q \in Seq(Byte) : q = Shown(label)
    BY <1>5, <1>8 DEF Joined
  <2>4. Len(q) = n
    <3>1. Len(q) = t[n] /\ n \in 0 .. n
      BY <1>5, <1>8, <2>3 DEF Joined
    <3>2. QED
      BY <2>2, <3>1
  <2>5. ASSUME NEW k \in 1 .. n PROVE q[k] = label[k]
    <3>1. k - 1 \in 0 .. n /\ (k - 1) + 1 = k /\ 1 \in 1 .. 1
      OBVIOUS
    <3>2. t[k - 1] = k - 1 /\ 1 \in 1 .. Len(g[k]) /\ g[k][1] = label[k]
      BY <2>1, <2>2, <3>1
    <3>3. q[t[k - 1] + 1] = g[k][1]
      BY <1>5, <1>8, <2>3, <3>2 DEF Joined
    <3>4. QED
      BY <3>1, <3>2, <3>3
  <2>6. q = label
    BY <1>2, <1>3, <2>3, <2>4, <2>5
  <2>7. QED
    BY <2>3, <2>6
<1>10. QED
  BY <1>2, <1>5, <1>6, <1>9, FlattenTyped

(* In a shown type s the label of number k begins behind t[k - 1].         *)
ShownAt(s, lb, t) ==
  LET m == Len(lb)
  IN /\ s \in Seq(Byte) /\ t \in [0 .. m -> Nat] /\ t[0] = 1 /\ Len(s) = t[m] + 1
     /\ s[1] # Quote /\ s[Len(s)] # Quote
     /\ \A k \in 1 .. m :
          /\ t[k] = t[k - 1] + Len(Shown(lb[k])) + (IF k = m THEN 2 ELSE 3)
          /\ s[t[k - 1] + 1] = Quote
          /\ \A x \in 1 .. Len(Shown(lb[k])) : s[t[k - 1] + 1 + x] = Shown(lb[k])[x]
          /\ s[t[k - 1] + Len(Shown(lb[k])) + 2] = Quote
          /\ k < m => s[t[k]] # Quote

IsPart(part, w, last) ==
  /\ part \in Seq(Byte) /\ Len(part) = Len(w) + (IF last THEN 2 ELSE 3)
  /\ part[1] = Quote /\ part[Len(w) + 2] = Quote
  /\ \A x \in 1 .. Len(w) : part[1 + x] = w[x]
  /\ ~last => part[Len(w) + 3] = 44

LEMMA PartIs ==
  ASSUME NEW w \in Seq(Byte), NEW last \in BOOLEAN, NEW part,
         part = <<Quote>> \o w \o (IF last THEN <<Quote>> ELSE <<Quote, 44>>)
  PROVE  IsPart(part, w, last)
<1>1. Quote \in Byte /\ 44 \in Byte /\ Len(w) \in Nat
  BY DEF Quote, Byte
<1>2. <<Quote>> \in Seq(Byte) /\ Len(<<Quote>>) = 1 /\ <<Quote>>[1] = Quote
  BY <1>1
<1>3. PICK v : v = <<Quote>> \o w
  OBVIOUS
<1>4. v \in Seq(Byte) /\ Len(v) = Len(w) + 1 /\ v[1] = Quote /\ \A x \in 1 .. Len(w) : v[1 + x] = w[x]
  BY <1>1, <1>2, <1>3
<1>5. PICK z : z = IF last THEN <<Quote>> ELSE <<Quote, 44>>
  OBVIOUS
<1>6. z \in Seq(Byte) /\ Len(z) = (IF last THEN 1 ELSE 2) /\ z[1] = Quote /\ (~last => z[2] = 44)
  BY <1>1, <1>5
<1>7. part = v \o z
  BY <1>3, <1>5
<1>8. part \in Seq(Byte) /\ Len(part) = Len(v) + Len(z)
  BY <1>4, <1>6, <1>7
<1>9. \A x \in 1 .. Len(v) : part[x] = v[x]
  BY <1>4, <1>6, <1>7
<1>10. \A x \in 1 .. Len(z) : part[Len(v) + x] = z[x]
  BY <1>4, <1>6, <1>7, Behind
<1>11. part[1] = Quote /\ \A x \in 1 .. Len(w) : part[1 + x] = w[x]
  BY <1>1, <1>4, <1>9
<1>12. part[Len(w) + 2] = Quote
  <2>1. 1 \in 1 .. Len(z) /\ Len(v) + 1 = Len(w) + 2
    BY <1>1, <1>4, <1>6
  <2>2. QED
    BY <1>6, <1>10, <2>1
<1>13. ~last => part[Len(w) + 3] = 44
  <2>1. ~last => 2 \in 1 .. Len(z) /\ Len(v) + 2 = Len(w) + 3
    BY <1>1, <1>4, <1>6
  <2>2. QED
    BY <1>6, <1>10, <2>1
<1>14. QED
  BY <1>4, <1>6, <1>8, <1>11, <1>12, <1>13 DEF IsPart

LEMMA ShownLayout ==
  ASSUME NEW lb \in Seq(Seq(Byte))
  PROVE  \E t : ShownAt(ShownType(lb), lb, t)
<1>1. PICK m \in Nat : m = Len(lb)
  OBVIOUS
<1>2. DOMAIN lb = 1 .. m /\ \A k \in 1 .. m : lb[k] \in Seq(Byte)
  BY <1>1
<1>3. PICK g : g = [k \in 1 .. m |-> ShownPart(lb, k)]
  OBVIOUS
<1>4. ASSUME NEW k \in 1 .. m
      PROVE  LET w == Shown(lb[k])
             IN /\ w \in Seq(Byte)
                /\ g[k] \in Seq(Byte) /\ Len(g[k]) = Len(w) + (IF k = m THEN 2 ELSE 3)
                /\ g[k][1] = Quote /\ g[k][Len(w) + 2] = Quote
                /\ \A x \in 1 .. Len(w) : g[k][1 + x] = w[x]
                /\ k < m => g[k][Len(w) + 3] = 44
  <2>1. PICK w \in Seq(Byte) : w = Shown(lb[k])
    BY <1>2, ShownLabel
  <2>2. PICK last \in BOOLEAN : last <=> k = m
    OBVIOUS
  <2>3. g[k] = <<Quote>> \o w \o (IF last THEN <<Quote>> ELSE <<Quote, 44>>)
    BY <1>1, <1>3, <2>1, <2>2 DEF ShownPart
  <2>4. IsPart(g[k], w, last)
    BY <2>3, PartIs
  <2>5. k < m => ~last
    BY <2>2
  <2>6. QED
    BY <2>1, <2>2, <2>4, <2>5 DEF IsPart
<1>5. g \in [1 .. m -> Seq(Byte)]
  BY <1>3, <1>4
<1>6. PICK u : Places(u, g, m)
  BY <1>5, PlacesExist
<1>7. PICK f : f = FlattenSeq(g)
  OBVIOUS
<1>8. Joined(f, g, u, m, Byte)
  BY <1>5, <1>6, <1>7, Flattened
<1>9. PICK s : s = ShownType(lb)
  OBVIOUS
<1>10. s = <<40>> \o f \o <<41>>
  <2>1. [k \in DOMAIN lb |-> <<Quote>> \o Shown(lb[k]) \o (IF k = Len(lb) THEN <<Quote>> ELSE <<Quote, 44>>)] = g
    BY <1>2, <1>3 DEF ShownPart
  <2>2. QED
    BY <1>7, <1>9, <2>1 DEF ShownType, Shown
<1>11. f \in Seq(Byte) /\ Len(f) = u[m] /\ u \in [0 .. m -> Nat] /\ u[0] = 0
  BY <1>6, <1>8 DEF Joined, Places
<1>12. /\ s \in Seq(Byte) /\ Len(s) = u[m] + 2 /\ s[1] = 40 /\ s[u[m] + 2] = 41
       /\ \A x \in 1 .. u[m] : s[1 + x] = f[x]
  <2>1. PICK L \in Nat : L = u[m] /\ L = Len(f)
    BY <1>11
  <2>2. <<40>> \in Seq(Byte) /\ <<41>> \in Seq(Byte) /\ Len(<<40>>) = 1 /\ Len(<<41>>) = 1
        /\ <<40>>[1] = 40 /\ <<41>>[1] = 41 /\ 1 \in 1 .. 1
    BY DEF Byte
  <2>3. PICK v : v = <<40>> \o f
    OBVIOUS
  <2>4. v \in Seq(Byte) /\ Len(v) = L + 1 /\ v[1] = 40
    BY <1>11, <2>1, <2>2, <2>3
  <2>5. \A x \in 1 .. L : v[1 + x] = f[x]
    BY <1>11, <2>1, <2>2, <2>3, Behind
  <2>6. s = v \o <<41>>
    BY <1>10, <2>3
  <2>7. s \in Seq(Byte) /\ Len(s) = L + 2
    BY <2>2, <2>4, <2>6
  <2>8. \A x \in 1 .. L + 1 : s[x] = v[x]
    BY <2>2, <2>4, <2>6
  <2>9. s[L + 2] = 41
    <3>1. s[Len(v) + 1] = <<41>>[1]
      BY <2>2, <2>4, <2>6, Behind
    <3>2. Len(v) + 1 = L + 2
      BY <2>4
    <3>3. QED
      BY <2>2, <3>1, <3>2
  <2>10. 1 \in 1 .. L + 1 /\ \A x \in 1 .. L : 1 + x \in 1 .. L + 1
    OBVIOUS
  <2>11. QED
    BY <2>1, <2>4, <2>5, <2>7, <2>8, <2>9, <2>10
<1>13. PICK t : t = [k \in 0 .. m |-> u[k] + 1]
  OBVIOUS
<1>14. t \in [0 .. m -> Nat] /\ t[0] = 1 /\ Len(s) = t[m] + 1 /\ \A k \in 0 .. m : t[k] = u[k] + 1
  BY <1>11, <1>12, <1>13
<1>15. ASSUME NEW k \in 1 .. m
       PROVE  /\ t[k] = t[k - 1] + Len(Shown(lb[k])) + (IF k = m THEN 2 ELSE 3)
              /\ s[t[k - 1] + 1] = Quote
              /\ \A x \in 1 .. Len(Shown(lb[k])) : s[t[k - 1] + 1 + x] = Shown(lb[k])[x]
              /\ s[t[k - 1] + Len(Shown(lb[k])) + 2] = Quote
              /\ k < m => s[t[k]] # Quote
  <2>1. PICK w \in Seq(Byte) : w = Shown(lb[k])
    BY <1>4
  <2>2. PICK c \in Nat : c = Len(w)
    BY <2>1
  <2>3. /\ Len(g[k]) = c + (IF k = m THEN 2 ELSE 3)
        /\ g[k][1] = Quote /\ g[k][c + 2] = Quote
        /\ \A x \in 1 .. c : g[k][1 + x] = w[x]
        /\ k < m => g[k][c + 3] = 44
    BY <1>4, <2>1, <2>2
  <2>4. k \in 0 .. m /\ k - 1 \in 0 .. m
    OBVIOUS
  <2>5. PICK b \in Nat : b = u[k - 1] /\ t[k - 1] = b + 1
    BY <1>11, <1>14, <2>4
  <2>6. PICK z : z = Len(g[k]) /\ z = c + (IF k = m THEN 2 ELSE 3) /\ t[k] = (b + z) + 1
    <3>1. u[k] = b + Len(g[k]) /\ t[k] = u[k] + 1
      BY <1>6, <1>14, <2>4, <2>5 DEF Places
    <3>2. QED
      BY <2>3, <3>1, Zenon
  <2>14. PICK e : e = t[k - 1] /\ e = b + 1
    BY <2>5
  <2>7. \A x \in 1 .. Len(g[k]) : s[1 + (b + x)] = g[k][x]
    <3>1. \A x \in 1 .. Len(g[k]) : b + x \in 1 .. u[m] /\ f[b + x] = g[k][x]
      BY <1>8, <2>5 DEF Joined
    <3>2. QED
      BY <1>12, <3>1
  <2>8. t[k] = t[k - 1] + c + (IF k = m THEN 2 ELSE 3)
    <3>1. (b + z) + 1 = e + c + (IF k = m THEN 2 ELSE 3)
      BY ONLY <2>14, <2>6, b \in Nat, c \in Nat
    <3>2. QED
      BY <2>14, <2>6, <3>1, Zenon
  <2>9. s[t[k - 1] + 1] = Quote
    <3>1. 1 \in 1 .. z /\ 1 + (b + 1) = e + 1
      BY ONLY <2>14, <2>6, b \in Nat, c \in Nat
    <3>2. QED
      BY <2>14, <2>3, <2>6, <2>7, <3>1
  <2>10. ASSUME NEW x \in 1 .. c PROVE s[t[k - 1] + 1 + x] = w[x]
    <3>1. 1 + x \in 1 .. z /\ 1 + (b + (1 + x)) = e + 1 + x
      BY ONLY <2>14, <2>6, b \in Nat, c \in Nat, x \in 1 .. c
    <3>2. QED
      BY <2>14, <2>3, <2>6, <2>7, <3>1
  <2>11. s[t[k - 1] + c + 2] = Quote
    <3>1. c + 2 \in 1 .. z /\ 1 + (b + (c + 2)) = e + c + 2
      BY ONLY <2>14, <2>6, b \in Nat, c \in Nat
    <3>2. s[1 + (b + (c + 2))] = g[k][c + 2]
      BY <2>6, <2>7, <3>1
    <3>3. QED
      BY <2>3, <2>14, <3>1, <3>2
  <2>12. ASSUME k < m PROVE s[t[k]] # Quote
    <3>1. c + 3 \in 1 .. z /\ 1 + (b + (c + 3)) = (b + z) + 1
      BY ONLY <2>6, <2>12, b \in Nat, c \in Nat, k \in 1 .. m, m \in Nat
    <3>2. s[1 + (b + (c + 3))] = g[k][c + 3]
      BY <2>6, <2>7, <3>1
    <3>3. s[t[k]] = 44
      BY <2>3, <2>6, <2>12, <3>1, <3>2
    <3>4. QED
      BY <3>3 DEF Quote
  <2>13. QED
    BY <2>1, <2>2, <2>8, <2>9, <2>10, <2>11, <2>12
<1>16. s[1] # Quote /\ s[Len(s)] # Quote
  BY <1>12 DEF Quote
<1>17. ShownAt(s, lb, t)
  BY <1>1, <1>12, <1>14, <1>15, <1>16 DEF ShownAt
<1>18. QED
  BY <1>9, <1>17

(* Of each label that is there one is found, at least: those of mysync are *)
(* not fewer than those of the column.                                     *)
LEMMA NoLabelMissing ==
  ASSUME NEW lb \in Seq(Seq(Byte))
  PROVE  Len(enum_labels(ShownType(lb))) >= Len(lb)
<1>1. PICK s, t : s = ShownType(lb) /\ ShownAt(s, lb, t)
  BY ShownLayout
<1>2. PICK m \in Nat : m = Len(lb)
  OBVIOUS
<1>3. PICK a, b : /\ a = [k \in 1 .. m |-> t[k - 1] + 1]
                  /\ b = [k \in 1 .. m |-> t[k - 1] + Len(Shown(lb[k])) + 2]
  OBVIOUS
<1>4. s \in Seq(Byte) /\ t \in [0 .. m -> Nat] /\ Len(s) = t[m] + 1
  BY <1>1, <1>2 DEF ShownAt
<1>5. ASSUME NEW k \in 1 .. m
      PROVE  /\ t[k - 1] \in Nat /\ t[k] \in Nat /\ Len(Shown(lb[k])) \in Nat
             /\ a[k] = t[k - 1] + 1 /\ b[k] = t[k - 1] + Len(Shown(lb[k])) + 2
             /\ t[k] = t[k - 1] + Len(Shown(lb[k])) + (IF k = m THEN 2 ELSE 3)
  <2>1. k \in 0 .. m /\ k - 1 \in 0 .. m /\ lb[k] \in Seq(Byte)
    BY <1>2
  <2>2. Len(Shown(lb[k])) \in Nat
    BY <2>1, ShownLabel
  <2>3. QED
    BY <1>1, <1>2, <1>3, <1>4, <2>1, <2>2 DEF ShownAt
<1>6. \A k \in 0 .. m : t[k] <= t[m]
  <2>1. PICK g : g = [k \in 1 .. m |-> Len(Shown(lb[k])) + (IF k = m THEN 2 ELSE 3)]
    OBVIOUS
  <2>2. ASSUME NEW k \in 1 .. m PROVE g[k] \in Nat /\ t[k] = t[k - 1] + g[k]
    <3>1. PICK c \in Nat, x \in Nat : c = Len(Shown(lb[k])) /\ x = t[k - 1]
      BY <1>5
    <3>2. t[k] = x + c + (IF k = m THEN 2 ELSE 3) /\ g[k] = c + (IF k = m THEN 2 ELSE 3)
      BY <1>5, <2>1, <3>1
    <3>3. g[k] \in Nat /\ t[k] = x + g[k]
      BY ONLY <3>2, c \in Nat, x \in Nat
    <3>4. QED
      BY <3>1, <3>3
  <2>3. AddsUp(t, 0, m, 1, g) /\ \A k \in 0 + 1 .. m : g[k] \in Nat
    BY <1>1, <1>2, <2>2 DEF AddsUp, ShownAt
  <2>4. ASSUME NEW k \in 0 .. m PROVE t[k] <= t[m]
    <3>1. \A l \in k .. m : t[k] <= t[l]
      BY <1>4, <2>3, Grows
    <3>2. QED
      BY <3>1
  <2>5. QED
    BY <2>4
<1>7. ASSUME NEW k \in 1 .. m
      PROVE  /\ a[k] \in 1 .. Len(s) /\ b[k] \in 1 .. Len(s) /\ a[k] < b[k]
             /\ s[a[k]] = Quote /\ s[b[k]] = Quote
             /\ k < m => b[k] < a[k + 1]
  <2>1. t[k] <= t[m] /\ t[m] \in Nat
    BY <1>4, <1>6
  <2>2. s[t[k - 1] + 1] = Quote /\ s[t[k - 1] + Len(Shown(lb[k])) + 2] = Quote
    BY <1>1, <1>2 DEF ShownAt
  <2>3. k < m => a[k + 1] = t[k] + 1
    <3>1. k < m => k + 1 \in 1 .. m /\ (k + 1) - 1 = k
      OBVIOUS
    <3>2. QED
      BY <1>3, <3>1
  <2>4. PICK x \in Nat, c \in Nat, y \in Nat, z \in Nat, L \in Nat :
          x = t[k - 1] /\ c = Len(Shown(lb[k])) /\ y = t[k] /\ z = t[m] /\ L = Len(s)
    <3>1. t[k - 1] \in Nat /\ t[k] \in Nat /\ Len(Shown(lb[k])) \in Nat /\ t[m] \in Nat
      BY <1>5, <2>1
    <3>2. Len(s) \in Nat
      BY <1>4
    <3>3. QED
      BY ONLY <3>1, <3>2
  <2>5. L = z + 1 /\ y <= z /\ a[k] = x + 1 /\ b[k] = x + c + 2 /\ y = x + c + (IF k = m THEN 2 ELSE 3)
    BY <1>4, <1>5, <2>1, <2>4
  <2>6. /\ a[k] \in 1 .. L /\ b[k] \in 1 .. L /\ a[k] < b[k]
        /\ k < m => b[k] < y + 1
    BY ONLY <2>5, x \in Nat, c \in Nat, z \in Nat, k \in 1 .. m, m \in Nat
  <2>7. QED
    BY <1>5, <2>2, <2>3, <2>4, <2>6
<1>8. Pairs(s, m, a, b)
  BY <1>7 DEF Pairs
<1>9. QED
  BY <1>1, <1>2, <1>4, <1>8, PairsFound

-----------------------------------------------------------------------------
(* The labels of an enum and a set.  No other text is an end.              *)
NoEnd(text) == text # Asserts /\ text # Dies

LEMMA EndsApart ==
  /\ Asserts # Dies /\ NoEnd(Null.text)
  /\ \A x : NoEnd(<<"labels", x>>) /\ NoEnd(<<"chars", x>>)
<1>1. Asserts[1] = "assertion fails" /\ Dies[1] = "memory overrun, or a loop without end"
  BY DEF Asserts, Dies
<1>2. Null.text[1] = "null"
  BY DEF Null
<1>3. ASSUME NEW x PROVE NoEnd(<<"labels", x>>) /\ NoEnd(<<"chars", x>>)
  <2>1. <<"labels", x>>[1] = "labels" /\ <<"chars", x>>[1] = "chars"
    OBVIOUS
  <2>2. QED
    BY <1>1, <2>1 DEF NoEnd
<1>4. QED
  BY <1>1, <1>2, <1>3 DEF NoEnd

LEMMA NumbersAreTexts ==
  ASSUME NEW d, NEW text \in {tune_as_year(d), tune_as_datetime(d), tune_as_timestamp(d),
                             tune_as_time(d), tune_as_date(d), tune_as_int(d), tune_as_double(d)}
  PROVE  NoEnd(text)
<1>1. Asserts[1] = "assertion fails" /\ Dies[1] = "memory overrun, or a loop without end"
  BY DEF Asserts, Dies
<1>2. text[1] \in {"year", "datetime", "seconds", "time", "time cut", "date", "number", "double",
                  "double cut"}
  BY NumberKinds
<1>3. QED
  BY <1>1, <1>2 DEF NoEnd

LEMMA OthersNeverEnd ==
  ASSUME NEW d, d.null \/ d.type \notin {MY_TYPE.ENUM, MY_TYPE.SET}, NEW lb,
         NEW text \in cols_tune(d, lb)
  PROVE  NoEnd(text)
<1>1. CASE d.null
  BY <1>1, EndsApart DEF cols_tune
<1>2. CASE ~d.null
  <2>1. d.type # MY_TYPE.ENUM /\ d.type # MY_TYPE.SET
    BY <1>2
  <2>2. text \in {tune_as_year(d), tune_as_datetime(d), tune_as_timestamp(d), tune_as_time(d),
                  tune_as_date(d), tune_as_int(d), tune_as_double(d), <<"chars", Chars(d)>>}
    BY <1>2, <2>1, Types DEF cols_tune
  <2>3. NoEnd(<<"chars", Chars(d)>>)
    BY EndsApart
  <2>4. QED
    BY <2>2, <2>3, NumbersAreTexts
<1>3. QED
  BY <1>1, <1>2

LEMMA Remains == \A x \in 0 .. 255 : x % 256 = x
OBVIOUS

(* The number of a label, as it is written.                                *)
LEMMA EnumNumber ==
  ASSUME NEW lb \in Seq(Seq(Byte)), Len(lb) <= MaxLabels, NEW k \in 0 .. Len(lb),
         NEW b, b = EnumOf(lb, k).bytes, NEW p, Agree(p, b)
  PROVE  Korr(p, Len(b)) = k
<1>1. PICK n : n = IF Len(lb) < 256 THEN 1 ELSE 2
  OBVIOUS
<1>2. k \in Nat /\ n \in 1 .. 2 /\ (n = 1 => k < 256) /\ k < 65536
  BY <1>1, SMT DEF MaxLabels
<1>3. b = [x \in 1 .. n |-> IF x > 4 THEN (IF k < 0 THEN 255 ELSE 0) ELSE (k \div PlaceValue[x]) % 256]
  BY <1>1 DEF EnumOf, LEBytes
<1>4. PlaceValue[1] = 1 /\ PlaceValue[2] = 256
  BY DEF PlaceValue
<1>5. b[1] = k % 256 /\ (n = 2 => b[2] = (k \div 256) % 256)
  <2>1. 1 \in 1 .. n /\ (n = 2 => 2 \in 1 .. n) /\ k \div 1 = k
    BY <1>2
  <2>2. b[1] = (k \div PlaceValue[1]) % 256 /\ (n = 2 => b[2] = (k \div PlaceValue[2]) % 256)
    BY <1>3, <2>1
  <2>3. QED
    BY <1>4, <2>1, <2>2
<1>6. Len(b) = n
  <2>1. n \in Nat /\ DOMAIN b = 1 .. n
    BY <1>2, <1>3
  <2>2. b \in [1 .. n -> Int]
    <3>1. \A x \in 1 .. n : b[x] \in Int
      <4>1. n = 1 \/ n = 2
        BY <1>2
      <4>2. \A x \in 1 .. n : x = 1 \/ (x = 2 /\ n = 2)
        BY <4>1
      <4>3. k % 256 \in Int /\ (k \div 256) % 256 \in Int
        BY <1>2
      <4>4. QED
        BY <1>5, <4>2, <4>3
    <3>2. QED
      BY <1>3, <3>1
  <2>3. QED
    BY <2>1, <2>2
<1>7. p \in Seq(Byte) /\ Len(p) >= n /\ \A x \in 1 .. n : p[x] = b[x] /\ At(p, x) = b[x]
  BY <1>2, <1>6 DEF Agree, At
<1>8. CASE n = 1
  <2>1. Korr(p, 1) = At(p, 1) /\ At(p, 1) = k % 256
    BY <1>5, <1>7, <1>8, KorrSmall
  <2>2. QED
    BY <1>2, <1>6, <1>8, <2>1
<1>9. CASE n = 2
  <2>1. Korr(p, 2) = At(p, 1) + 256 * At(p, 2) /\ At(p, 1) = k % 256 /\ At(p, 2) = (k \div 256) % 256
    BY <1>5, <1>7, <1>9, KorrSmall
  <2>2. (k % 256) + 256 * ((k \div 256) % 256) = k
    <3>1. PICK h \in Nat : h = k \div 256 /\ h < 256
      BY ONLY <1>2
    <3>4. h % 256 = h
      <4>1. h \in 0 .. 255
        BY <3>1
      <4>2. QED
        BY ONLY <4>1, Remains, Zenon
    <3>2. \A v \in Nat : (v % 256) + 256 * (v \div 256) = v
      OBVIOUS
    <3>3. QED
      BY ONLY <1>2, <3>1, <3>2, <3>4
  <2>3. Korr(p, 2) = k
    BY ONLY <2>1, <2>2
  <2>4. QED
    BY <1>6, <1>9, <2>3
<1>10. QED
  BY <1>2, <1>8, <1>9

(* The bits of a set, as they are written.                                 *)
LEMMA SetBits ==
  ASSUME NEW n \in 1 .. 4, NEW S, NEW d, d.len = n, Agree(d.at, Bitmap(S, n))
  PROVE  Bits(d) = {{c \in 1 .. 8 * n : c \in S}}
<1>1. 8 * n \in 1 .. 48 /\ Bytes(8 * n) = n
  BY DEF Bytes
<1>2. build_cols_mask(d.at, 8 * n).bits = {c \in 1 .. 8 * n : c \in S}
  BY <1>1, MaskRight
<1>3. build_cols_mask(d.at, 8 * n).bits = {c \in 1 .. 8 * n : IsSet(d.at, c)}
  BY <1>1, MaskSkips
<1>4. QED
  BY <1>2, <1>3 DEF Bits

(* What the type of a field becomes.                                       *)
LEMMA TunedType ==
  ASSUME NEW t, NEW p, NEW size, NEW mt, NEW d, d = cols_pre_tune(t, p, size, mt)
  PROVE  d.null \/ d.type = t \/ (t = MY_TYPE.STRING /\ d.type = Low(mt))
<1>1. \A x, y, z : Field(x, y, z).type = x
  BY DEF Field
<1>2. NullField.null
  BY DEF NullField
<1>3. CASE t = MY_TYPE.STRING
  <2>1. d \in {Field(Low(mt), Skip(p, 1), size - 1), Field(Low(mt), p, High(mt)), NullField}
    BY <1>3, Types, SMT DEF cols_pre_tune
  <2>2. QED
    BY <1>1, <1>2, <1>3, <2>1
<1>4. CASE t # MY_TYPE.STRING
  <2>1. \/ d = NullField
        \/ \E y, z : d = Field(t, y, z)
    BY <1>4, Types, SMT DEF cols_pre_tune
  <2>2. QED
    BY <1>1, <1>2, <2>1
<1>5. QED
  BY <1>3, <1>4

(* An enum or a set as it is given to cols_tune.                           *)
LEMMA TunedLabels ==
  ASSUME NEW m \in Seq(Byte), Len(m) = 2, m[1] \in {MY_TYPE.ENUM, MY_TYPE.SET}, NEW p, NEW size
  PROVE  cols_pre_tune(MY_TYPE.STRING, p, size, Number(m)) = Field(m[1], p, m[2])
<1>1. Low(Number(m)) = m[1] /\ High(Number(m)) = m[2]
  BY LowHigh
<1>2. QED
  BY <1>1, Types DEF cols_pre_tune

LEMMA EnumKnown ==
  ASSUME NEW lb \in Seq(Seq(Byte)), Len(lb) <= MaxLabels, NEW k \in DOMAIN lb,
         NEW b, b = EnumOf(lb, k).bytes, NEW d, d.len = Len(b), Agree(d.at, b),
         NEW found \in Seq(Seq(Byte)), Len(found) >= Len(lb), \A l \in DOMAIN found : found[l] # <<>>,
         NEW text \in tune_as_enum(d, found)
  PROVE  NoEnd(text)
<1>1. k \in 0 .. Len(lb) /\ k \in DOMAIN found
  OBVIOUS
<1>2. Korr(d.at, d.len) = k
  <2>1. Korr(d.at, Len(b)) = k
    BY <1>1, EnumNumber, Zenon
  <2>2. QED
    BY <2>1
<1>3. tune_as_enum(d, found) = {<<"labels", <<found[k]>>>>}
  BY <1>1, <1>2 DEF tune_as_enum
<1>4. QED
  BY <1>3, EndsApart

LEMMA EnumNeverDies ==
  ASSUME NEW d, NEW found, NEW text \in tune_as_enum(d, found)
  PROVE  text # Dies
<1>1. PICK x : text = <<"labels", x>> \/ text = Asserts
  BY DEF tune_as_enum
<1>2. QED
  BY <1>1, EndsApart DEF NoEnd

(* The bytes of a set whose size is that of its column.                    *)
LEMMA SetSize ==
  ASSUME NEW lb \in Seq(Seq(Byte)), NEW S \in SUBSET DOMAIN lb,
         NEW b, b = SetOf(lb, S).bytes, NEW n \in 1 .. 8, Len(b) = n
  PROVE  \/ /\ n \in 1 .. 4 /\ b = Bitmap(S, n) /\ Len(lb) <= 8 * n
            /\ Len(lb) <= 32
         \/ n = 8 /\ Len(lb) > 32
<1>1. PICK l \in Nat : l = Len(lb)
  OBVIOUS
<1>2. b = Bitmap(S, IF l > 32 THEN 8 ELSE Bytes(l))
  BY <1>1 DEF SetOf
<1>3. CASE l > 32
  <2>1. n = 8
    BY <1>2, <1>3, BitmapBytes
  <2>2. QED
    BY <1>1, <1>3, <2>1
<1>4. CASE ~(l > 32)
  <2>1. PICK y : y = Bytes(l)
    OBVIOUS
  <2>2. y \in 0 .. 4 /\ l <= 8 * y
    BY <1>4, <2>1 DEF Bytes
  <2>3. b = Bitmap(S, y)
    BY <1>2, <1>4, <2>1
  <2>4. Len(b) = y
    BY <2>2, <2>3, BitmapBytes
  <2>5. QED
    BY <1>1, <1>4, <2>2, <2>3, <2>4
<1>5. QED
  BY <1>3, <1>4

LEMMA SetKnown ==
  ASSUME NEW lb \in Seq(Seq(Byte)), NEW S \in SUBSET DOMAIN lb,
         NEW b, b = SetOf(lb, S).bytes, NEW n \in 1 .. 8, Len(b) = n,
         NEW d, d.len = n, Agree(d.at, b),
         NEW found \in Seq(Seq(Byte)), Len(found) >= Len(lb), \A l \in DOMAIN found : found[l] # <<>>,
         NEW text \in tune_as_set(d, found)
  PROVE  /\ text # Asserts
         /\ text = Dies => Len(lb) > 32 \/ 32 \in S \/ S = {}
<1>1. DOMAIN lb \subseteq DOMAIN found /\ DOMAIN lb = 1 .. Len(lb)
  OBVIOUS
<1>2. n \in 1 .. 4 => Bits(d) = {S}
  <2>1. ASSUME n \in 1 .. 4 PROVE Bits(d) = {S}
    <3>1. b = Bitmap(S, n) /\ Len(lb) <= 8 * n
      <4>1. n # 8
        BY <2>1
      <4>2. QED
        BY <4>1, SetSize, ZenonT(30)
    <3>2. {c \in 1 .. 8 * n : c \in S} = S
      BY <1>1, <3>1
    <3>3. Agree(d.at, Bitmap(S, n))
      BY <3>1
    <3>4. Bits(d) = {{c \in 1 .. 8 * n : c \in S}}
      BY <2>1, <3>3, SetBits, Zenon
    <3>5. QED
      BY <3>2, <3>4
  <2>2. QED
    BY <2>1
<1>3. \A T \in Bits(d) : T \subseteq DOMAIN found
  <2>1. CASE n \in 1 .. 4
    BY <1>1, <1>2, <2>1
  <2>2. CASE n \notin 1 .. 4
    <3>1. Len(lb) > 32
      BY <2>2, SetSize, Zenon
    <3>2. Bits(d) = {{}, {1}, {2}}
      BY <2>2 DEF Bits
    <3>3. 1 \in DOMAIN found /\ 2 \in DOMAIN found
      BY <3>1
    <3>4. QED
      BY <3>2, <3>3
  <2>3. QED
    BY <2>1, <2>2
<1>4. PICK T \in Bits(d) :
        text = IF T = {} \/ 32 \in T THEN Dies
               ELSE IF ~T \subseteq DOMAIN found \/ Labels(found, T) = << <<>> >> THEN Asserts
               ELSE <<"labels", Labels(found, T)>>
  BY DEF tune_as_set
<1>5. Labels(found, T) # << <<>> >>
  BY NoEmptyAmong
<1>6. text = IF T = {} \/ 32 \in T THEN Dies ELSE <<"labels", Labels(found, T)>>
  BY <1>3, <1>4, <1>5
<1>7. NoEnd(<<"labels", Labels(found, T)>>)
  BY EndsApart
<1>8. text # Asserts
  BY <1>6, <1>7, EndsApart DEF NoEnd
<1>9. ASSUME text = Dies PROVE Len(lb) > 32 \/ 32 \in S \/ S = {}
  <2>1. T = {} \/ 32 \in T
    BY <1>6, <1>7, <1>9 DEF NoEnd
  <2>2. n \in 1 .. 4 \/ Len(lb) > 32
    BY SetSize, Zenon
  <2>3. n \in 1 .. 4 => T = S
    BY <1>2
  <2>4. QED
    BY <2>1, <2>2, <2>3
<1>10. QED
  BY <1>8, <1>9

LEMMA LabelWidth ==
  ASSUME NEW c, IsColumn(c)
  PROVE  /\ Len(c.labels) <= MaxLabels
         /\ c.type = 254 /\ (c.meta[1] = 247 \/ c.meta[1] = 248) => c.meta[2] \in 1 .. 8
<1>1. Len(c.labels) <= MaxLabels
  BY Zenon DEF IsColumn
<1>2. ASSUME c.type = 254, c.meta[1] = 247 \/ c.meta[1] = 248 PROVE c.meta[2] \in 1 .. 8
  <2>1. \/ c.type \in DOMAIN FixedSize
        \/ c.type = MY_TYPE.FLOAT
        \/ c.type = MY_TYPE.DOUBLE
        \/ c.type \in {MY_TYPE.BLOB, MY_TYPE.GEOMETRY}
        \/ c.type = MY_TYPE.VARCHAR
        \/ c.type = MY_TYPE.NEWDECIMAL
        \/ c.type = MY_TYPE.BIT
        \/ \E length \in 0 .. 1023 : c.meta = CharColumn(length).meta
        \/ \E width \in 1 .. 8 : c.meta \in {<<MY_TYPE.ENUM, width>>, <<MY_TYPE.SET, width>>}
    BY Zenon DEF IsColumn
  <2>2. DOMAIN FixedSize = {1, 2, 3, 7, 8, 9, 10, 11, 12, 13}
    BY FixedSizes
  <2>3. \/ \E length \in 0 .. 1023 : c.meta = CharColumn(length).meta
        \/ \E width \in 1 .. 8 : c.meta \in {<<MY_TYPE.ENUM, width>>, <<MY_TYPE.SET, width>>}
    <3>1. /\ c.type \notin DOMAIN FixedSize /\ c.type # MY_TYPE.FLOAT /\ c.type # MY_TYPE.DOUBLE
          /\ c.type \notin {MY_TYPE.BLOB, MY_TYPE.GEOMETRY} /\ c.type # MY_TYPE.VARCHAR
          /\ c.type # MY_TYPE.NEWDECIMAL /\ c.type # MY_TYPE.BIT
      BY <1>2, <2>2, Types
    <3>2. QED
      BY <2>1, <3>1, Zenon
  <2>4. ASSUME NEW length \in 0 .. 1023, c.meta = CharColumn(length).meta PROVE FALSE
    <3>1. c.meta[1] = IF length < 256 THEN 254 ELSE 254 - 16 * (length \div 256)
      BY <2>4, Types DEF CharColumn, Column
    <3>2. length \div 256 \in 0 .. 3
      OBVIOUS
    <3>3. QED
      BY <1>2, <3>1, <3>2
  <2>5. ASSUME NEW width \in 1 .. 8, c.meta \in {<<MY_TYPE.ENUM, width>>, <<MY_TYPE.SET, width>>}
        PROVE  c.meta[2] \in 1 .. 8
    BY <2>5
  <2>6. QED
    BY <2>3, <2>4, <2>5, ZenonT(30)
<1>3. QED
  BY <1>1, <1>2

LEMMA NoLabelType ==
  ASSUME NEW t, NEW m, Kind(t, m)
  PROVE  t # 247 /\ t # 248
BY DEF Kind

(* The labels mysync has of each column, and how a process has ended.      *)
Labelled ==
  /\ labels = [c \in 1 .. NCols |-> enum_labels(ShownType(event.table[c].labels))]
  /\ pc = "asserted" => EmptyLabel \/ NoEnum \/ NoSet
  /\ pc = "died" => NoSet \/ OddSet
  /\ pc # "asserted" => ~EmptyLabel

LEMMA LabelledStarts ==
  ASSUME Init
  PROVE  Labelled
<1>1. /\ event \in Events /\ pc = IF EmptyLabel THEN "asserted" ELSE "parse"
      /\ labels = [c \in DOMAIN event.table |-> enum_labels(ShownType(event.table[c].labels))]
  BY DEF Init
<1>2. DOMAIN event.table = 1 .. NCols
  BY <1>1, Table
<1>3. QED
  BY <1>1, <1>2 DEF Labelled

(* A field that is not null and has labels is one of those they name.      *)
LEMMA FieldNamed ==
  ASSUME NEW r \in DOMAIN event.rows, NEW c \in DOMAIN event.table,
         event.table[c].type = MY_TYPE.STRING, event.rows[r][c] # Null,
         NEW column, column = event.table[c], NEW cell, cell = event.rows[r][c],
         NEW S, S = InSet(column, cell)
  PROVE  /\ ~NoEnum /\ column.meta[1] = MY_TYPE.ENUM =>
              \E k \in DOMAIN column.labels : cell.bytes = EnumOf(column.labels, k).bytes
         /\ ~NoSet /\ column.meta[1] = MY_TYPE.SET => cell.bytes = SetOf(column.labels, S).bytes
         /\ ~OddSet /\ column.meta[1] = MY_TYPE.SET => ~(Len(column.labels) > 32 \/ 32 \in S \/ S = {})
BY Zenon DEF NoEnum, NoSet, OddSet, IsField

(* The text of a field is an end only for the causes named.                *)
LEMMA EndsForCause ==
  ASSUME ~EmptyLabel, ShortChars, Walk, Labelled, pc = "column", i <= NCols, i \in used,
         NEW r \in 1 .. Len(event.rows), AtField(r), NEW size, size = calc_field_size(Type, Here, Meta),
         NEW text \in cols_tune(cols_pre_tune(Type, Here, size, Meta), labels[i])
  PROVE  /\ text = Asserts => NoEnum \/ NoSet
         /\ text = Dies => NoSet \/ OddSet
<1>1. IsRowsEvent(event) /\ event \in Events /\ i \in 1 .. NCols /\ NCols \in Nat
  BY FieldHere, Sizes DEF Walk
<1>2. PICK column, m, cell : column = event.table[i] /\ m = column.meta /\ cell = event.rows[r][i]
  OBVIOUS
<1>3. /\ m \in Seq(Byte) /\ Kind(column.type, m) /\ Meta = Number(m) /\ Type = column.type
      /\ column.labels \in Seq(Seq(Byte)) /\ IsColumn(column)
  BY <1>1, <1>2, FieldHere, Table DEF Type
<1>4. /\ Agree(Here, cell.bytes) /\ size = Len(cell.bytes)
      /\ cell # Null /\ cell.bytes \in Seq(Byte) /\ HasSize(column, cell.bytes)
  <2>1. i \in 1 .. Len(event.table) /\ i \in DOMAIN event.rows[r]
    BY <1>1, Cells DEF NCols
  <2>2. i \notin Nulls(event.rows[r])
    BY DEF AtField
  <2>3. cell # Null
    BY <1>2, <2>1, <2>2 DEF Nulls
  <2>4. cell.bytes \in Seq(Byte) /\ HasSize(column, cell.bytes)
    BY <1>1, <1>2, <2>1, <2>3, Cells
  <2>5. QED
    BY <1>2, <2>3, <2>4, SizeHere
<1>5. PICK found \in Seq(Seq(Byte)) : /\ found = labels[i] /\ Len(found) >= Len(column.labels)
                                    /\ \A l \in DOMAIN found : found[l] # <<>>
  <2>1. labels[i] = enum_labels(ShownType(column.labels))
    BY <1>1, <1>2 DEF Labelled
  <2>2. PICK found : found = labels[i]
    OBVIOUS
  <2>3. found \in Seq(Seq(Byte)) /\ Len(found) >= Len(column.labels)
    BY <1>3, <2>1, <2>2, NoLabelMissing, LabelsFound, ShownTyped
  <2>4. \A l \in DOMAIN found : found[l] # <<>>
    <3>1. i \in DOMAIN labels
      BY <1>1 DEF Walk
    <3>2. <<>> \notin ToSet(found)
      BY <2>2, <3>1 DEF EmptyLabel
    <3>3. QED
      BY <3>2 DEF ToSet
  <2>5. QED
    BY <2>2, <2>3, <2>4
<1>6. PICK d : d = cols_pre_tune(Type, Here, size, Meta)
  OBVIOUS
<1>7. CASE Type = MY_TYPE.STRING /\ m[1] \in {MY_TYPE.ENUM, MY_TYPE.SET}
  <2>8. column.type = 254 /\ (m[1] = 247 \/ m[1] = 248)
    BY <1>3, <1>7, Types
  <2>1. Len(m) = 2 /\ m[2] = Len(cell.bytes) /\ m[2] \in 1 .. 8
    <3>1. Len(m) = 2
      BY <1>3, <1>7, Kinds, Types
    <3>2. m[2] = Len(cell.bytes)
      <4>1. WrittenSize(column.type, m, cell.bytes)
        BY <1>2, <1>4, HasSizeOf
      <4>2. QED
        BY <2>8, <4>1 DEF WrittenSize
    <3>3. m[2] \in 1 .. 8
      BY <1>2, <1>3, <2>8, LabelWidth
    <3>4. QED
      BY <3>1, <3>2, <3>3
  <2>2. d = Field(m[1], Here, m[2])
    BY <1>3, <1>6, <1>7, <2>1, TunedLabels
  <2>3. d.type = m[1] /\ d.at = Here /\ d.len = m[2] /\ d.null = FALSE
    BY <2>2 DEF Field
  <2>4. PICK S : S = InSet(column, cell)
    OBVIOUS
  <2>9. /\ ~NoEnum /\ m[1] = MY_TYPE.ENUM =>
             \E k \in DOMAIN column.labels : cell.bytes = EnumOf(column.labels, k).bytes
        /\ ~NoSet /\ m[1] = MY_TYPE.SET => cell.bytes = SetOf(column.labels, S).bytes
        /\ ~OddSet /\ m[1] = MY_TYPE.SET => ~(Len(column.labels) > 32 \/ 32 \in S \/ S = {})
    <3>1. r \in DOMAIN event.rows /\ i \in DOMAIN event.table
      BY <1>1, EventParts, Table
    <3>2. event.table[i].type = MY_TYPE.STRING /\ event.rows[r][i] # Null
      BY <1>2, <1>3, <1>4, <1>7
    <3>3. /\ ~NoEnum /\ column.meta[1] = MY_TYPE.ENUM =>
               \E k \in DOMAIN column.labels : cell.bytes = EnumOf(column.labels, k).bytes
          /\ ~NoSet /\ column.meta[1] = MY_TYPE.SET => cell.bytes = SetOf(column.labels, S).bytes
          /\ ~OddSet /\ column.meta[1] = MY_TYPE.SET =>
               ~(Len(column.labels) > 32 \/ 32 \in S \/ S = {})
      BY ONLY <1>2, <2>4, <3>1, <3>2, FieldNamed, SMTT(30)
    <3>4. QED
      BY <1>2, <3>3
  <2>5. CASE m[1] = MY_TYPE.ENUM
    <3>1. cols_tune(d, found) = tune_as_enum(d, found)
      <4>1. ~d.null /\ d.type = MY_TYPE.ENUM
        BY <2>3, <2>5
      <4>2. QED
        BY <4>1, Types, SMT DEF cols_tune
    <3> SUFFICES ASSUME ~NoEnum PROVE NoEnd(text)
      <4>2. NoEnum => text # Dies
        BY <1>5, <1>6, <3>1, EnumNeverDies
      <4>3. QED
        BY <4>2 DEF NoEnd
    <3>2. PICK k \in DOMAIN column.labels : cell.bytes = EnumOf(column.labels, k).bytes
      BY <2>9, <2>5
    <3>3. Len(column.labels) <= MaxLabels
      BY <1>2, <1>3, <2>8, LabelWidth
    <3>4. d.len = Len(cell.bytes) /\ Agree(d.at, cell.bytes)
      BY <1>4, <2>1, <2>3
    <3>5. column.labels \in Seq(Seq(Byte)) /\ text \in tune_as_enum(d, found)
      BY <1>3, <1>5, <1>6, <3>1
    <3>6. QED
      BY ONLY <1>5, <3>2, <3>3, <3>4, <3>5, EnumKnown
  <2>6. CASE m[1] = MY_TYPE.SET
    <3>1. cols_tune(d, found) = tune_as_set(d, found)
      <4>1. ~d.null /\ d.type = MY_TYPE.SET
        BY <2>3, <2>6
      <4>2. QED
        BY <4>1, Types, SMT DEF cols_tune
    <3> SUFFICES ASSUME ~NoSet PROVE text # Asserts /\ (text = Dies => OddSet)
      OBVIOUS
    <3>2. S \in SUBSET DOMAIN column.labels /\ cell.bytes = SetOf(column.labels, S).bytes
      BY <2>4, <2>6, <2>9 DEF InSet
    <3>3. /\ text # Asserts
          /\ text = Dies => Len(column.labels) > 32 \/ 32 \in S \/ S = {}
      <4>1. d.len = m[2] /\ Len(cell.bytes) = m[2] /\ Agree(d.at, cell.bytes)
        BY <1>4, <2>1, <2>3
      <4>2. QED
        <5>1. text \in tune_as_set(d, found)
          BY <1>5, <1>6, <3>1
        <5>2. QED
          BY <1>3, <1>5, <2>1, <3>2, <4>1, <5>1, SetKnown, Zenon
    <3>4. QED
      BY <2>6, <2>9, <3>3
  <2>7. QED
    BY <1>7, <2>5, <2>6
<1>8. CASE ~(Type = MY_TYPE.STRING /\ m[1] \in {MY_TYPE.ENUM, MY_TYPE.SET})
  <2>1. d.null \/ d.type = Type \/ (Type = MY_TYPE.STRING /\ d.type = Low(Meta))
    BY <1>6, TunedType
  <2>2. Type \notin {MY_TYPE.ENUM, MY_TYPE.SET}
    <3>1. column.type # 247 /\ column.type # 248
      BY <1>3, NoLabelType
    <3>2. Type # 247 /\ Type # 248
      BY <1>3, <3>1, Zenon
    <3>3. MY_TYPE.ENUM = 247 /\ MY_TYPE.SET = 248
      BY Types
    <3>4. QED
      BY ONLY <3>2, <3>3
  <2>3. Type = MY_TYPE.STRING => Low(Meta) \notin {MY_TYPE.ENUM, MY_TYPE.SET}
    <3>1. Type = MY_TYPE.STRING => Len(m) = 2
      BY <1>3, Kinds, Types
    <3>2. Type = MY_TYPE.STRING => Low(Meta) = m[1]
      BY <1>3, <3>1, LowHigh
    <3>3. QED
      BY <1>8, <3>2
  <2>4. d.null \/ d.type \notin {MY_TYPE.ENUM, MY_TYPE.SET}
    BY <2>1, <2>2, <2>3
  <2>5. QED
    BY <1>6, <2>4, OthersNeverEnd DEF NoEnd
<1>9. QED
  BY <1>7, <1>8

LEMMA LabelledStays ==
  ASSUME Labelled, UNCHANGED <<event, labels>>,
         pc' = "asserted" => EmptyLabel \/ NoEnum \/ NoSet,
         pc' = "died" => NoSet \/ OddSet,
         pc' # "asserted" => ~EmptyLabel
  PROVE  Labelled'
<1>1. (EmptyLabel' <=> EmptyLabel) /\ (NoEnum' <=> NoEnum) /\ (NoSet' <=> NoSet) /\ (OddSet' <=> OddSet)
  BY DEF EmptyLabel, NoEnum, NoSet, OddSet, IsField
<1>2. NCols' = NCols
  BY DEF NCols
<1>3. QED
  BY <1>1, <1>2 DEF Labelled

LEMMA ReadFieldLabelled ==
  ASSUME ShortChars, Walk, Placed, Labelled, ReadField
  PROVE  Labelled'
<1>1. pc = "column" /\ i <= NCols /\ i \in used /\ UNCHANGED <<event, labels>>
  BY DEF ReadField, given
<1>2. PICK r \in 1 .. Len(event.rows) : AtField(r)
  BY <1>1 DEF Placed
<1>3. PICK size : size = calc_field_size(Type, Here, Meta)
  OBVIOUS
<1>4. PICK text : /\ text \in IF Selected
                              THEN cols_tune(cols_pre_tune(Type, Here, size, Meta), labels[i])
                              ELSE {Null.text}
                  /\ pc' = CASE text = Dies -> "died"
                             [] text = Asserts -> "asserted"
                             [] size > len -> "beyond"
                             [] OTHER -> "column"
  BY <1>3, Zenon DEF ReadField
<1>5. ~EmptyLabel
  BY <1>1 DEF Labelled
<1>6. /\ text = Asserts => NoEnum \/ NoSet
      /\ text = Dies => NoSet \/ OddSet
  <2>1. CASE Selected
    <3>1. text \in cols_tune(cols_pre_tune(Type, Here, size, Meta), labels[i])
      BY <1>4, <2>1
    <3>2. QED
      BY <1>1, <1>2, <1>3, <1>5, <3>1, EndsForCause
  <2>2. CASE ~Selected
    BY <1>4, <2>2, EndsApart DEF NoEnd
  <2>3. QED
    BY <2>1, <2>2
<1>7. /\ pc' = "asserted" => NoEnum \/ NoSet
      /\ pc' = "died" => NoSet \/ OddSet
  BY <1>4, <1>6
<1>8. QED
  BY <1>1, <1>5, <1>7, LabelledStays

LEMMA LabelledSteps ==
  ASSUME ShortChars, Walk, Placed, Labelled, [Next]_vars
  PROVE  Labelled'
<1>1. CASE ReadField
  BY <1>1, ReadFieldLabelled
<1>2. CASE ~ReadField
  <2>1. UNCHANGED <<event, labels>> /\ (UNCHANGED pc \/ pc' \in {"row", "column", "done", "beyond"})
    BY <1>2, Zenon DEF Next, Parse, NextImage, MaskBeyond, EventEnds, PassNull, ImageEnds, Convert,
                       FlushRow, vars, walk, given
  <2>2. CASE UNCHANGED pc
    BY <2>1, <2>2, LabelledStays DEF Labelled
  <2>3. CASE pc # "asserted" /\ pc' \in {"row", "column", "done", "beyond"}
    BY <2>1, <2>3, LabelledStays DEF Labelled
  <2>4. pc = "asserted" => UNCHANGED pc
    BY <1>2, Zenon DEF Next, Parse, NextImage, MaskBeyond, EventEnds, PassNull, ImageEnds, Convert,
                       FlushRow, vars, walk, given
  <2>5. QED
    BY <2>1, <2>2, <2>3, <2>4
<1>3. QED
  BY <1>1, <1>2

(* What ends the process, or takes it beyond the event: an assertion       *)
(* (core/ms_string.c:51, core/ms_array.c:80) fails only for an empty label *)
(* or a field that is none of its labels, memory is overrun only for a set *)
(* that is empty or has a label from the 32nd on.  sync_one_table_info     *)
(* finds at least as many labels in the type of a column as the column     *)
(* has, whatever bytes, quotes too, they are of.                           *)
THEOREM FailsForCauseAlways == Spec => []FailsOnlyForCause
<1>1. Init => (Followed => Labelled)
  BY LabelledStarts
<1>2. Walk /\ (Followed => Placed) /\ (Followed => Labelled) /\ [Next]_vars => (Followed => Labelled)'
  BY LabelledSteps, EventStays DEF Followed
<1>3. (Followed => Placed) /\ (Followed => Labelled) => FailsOnlyForCause
  BY DEF Placed, Labelled, FailsOnlyForCause
<1>4. QED
  BY <1>1, <1>2, <1>3, PlacedAlways, PTL DEF Spec
=============================================================================
