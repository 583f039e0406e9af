--------------------------- MODULE NameHashProofs ---------------------------
(***************************************************************************)
(* The hash of table names, proved about NameHash for any names, any hash  *)
(* function and any entries of the buckets that have no names.             *)
(***************************************************************************)
EXTENDS NameHash, FiniteSetTheorems, WellFoundedInduction, TLAPS

-----------------------------------------------------------------------------
(* A set of natural numbers has a least one.                               *)
LEMMA LeastNat ==
  ASSUME NEW T \in SUBSET Nat, T # {}
  PROVE  \E m \in T : \A k \in T : m <= k
<1> DEFINE below == {pair \in Nat \X Nat : pair[1] < pair[2]}
<1>1. OpToRel(<, Nat) = below
  BY DEF OpToRel
<1>2. IsWellFoundedOn(below, Nat)
  BY <1>1, NatLessThanWellFounded
<1>3. PICK m \in T : \A k \in T : <<k, m>> \notin below
  BY <1>2, WFMin
<1>4. ASSUME NEW k \in T, k < m PROVE FALSE
  <2>1. <<k, m>> \in below
    BY <1>4
  <2>2. QED
    BY <1>3, <2>1
<1>5. QED
  BY <1>4

(* A set that has 0, and the successor of each number up to N that it has, *)
(* has all numbers up to N: no least one is missing.  It is stated of a    *)
(* set and not of a predicate, so that it can be cited.                    *)
LEMMA UpTo ==
  ASSUME NEW N \in Nat, NEW S, 0 \in S,
         \A k \in Nat : k < N /\ k \in S => k + 1 \in S
  PROVE  \A k \in 0 .. N : k \in S
<1> DEFINE missing == {k \in Nat : k <= N /\ k \notin S}
<1> SUFFICES ASSUME missing # {} PROVE FALSE
  OBVIOUS
<1>1. PICK m \in missing : \A k \in missing : m <= k
  BY LeastNat
<1>2. m # 0 /\ m - 1 \in Nat /\ m - 1 < N /\ m - 1 \notin missing
  BY <1>1
<1>3. (m - 1) + 1 \in S
  BY <1>2
<1>4. QED
  BY <1>1, <1>3

-----------------------------------------------------------------------------
(* Sums, as loops add them up.  All of them are values of one function.    *)
LEMMA Totals ==
  ASSUME NEW N \in Nat, NEW g \in [1 .. N -> Nat]
  PROVE  \E t \in [0 .. N -> Nat] : t[0] = 0 /\ \A m \in 1 .. N : t[m] = t[m - 1] + g[m]
<1> DEFINE Good(r, t) == t[0] = 0 /\ \A m \in 1 .. r : t[m] = t[m - 1] + g[m]
           S == {r \in 0 .. N : \E t \in [0 .. r -> Nat] : Good(r, t)}
<1>1. 0 \in S
  <2>1. PICK t : t = [m \in 0 .. 0 |-> 0]
    OBVIOUS
  <2>2. t \in [0 .. 0 -> Nat] /\ Good(0, t)
    BY <2>1
  <2>3. QED
    BY <2>2
<1>2. ASSUME NEW r \in Nat, r < N, r \in S PROVE r + 1 \in S
  <2>1. PICK t \in [0 .. r -> Nat] : Good(r, t)
    BY <1>2
  <2>2. PICK u : u = [m \in 0 .. r + 1 |-> IF m = r + 1 THEN t[r] + g[r + 1] ELSE t[m]]
    OBVIOUS
  <2>3. u \in [0 .. r + 1 -> Nat]
    <3>1. t[r] + g[r + 1] \in Nat
      BY <1>2
    <3>2. \A m \in 0 .. r + 1 : m # r + 1 => t[m] \in Nat
      OBVIOUS
    <3>3. QED
      BY <2>2, <3>1, <3>2
  <2>4. u[0] = 0
    BY <2>1, <2>2
  <2>5. ASSUME NEW m \in 1 .. r + 1 PROVE u[m] = u[m - 1] + g[m]
    <3>1. m - 1 \in 0 .. r + 1 /\ m - 1 # r + 1 /\ m \in 0 .. r + 1
      OBVIOUS
    <3>2. u[m - 1] = t[m - 1]
      BY <2>2, <3>1
    <3>3. CASE m = r + 1
      BY <2>2, <3>1, <3>2, <3>3
    <3>4. CASE m # r + 1
      <4>1. m \in 1 .. r
        BY <3>4
      <4>2. QED
        BY <2>1, <2>2, <3>1, <3>2, <4>1
    <3>5. QED
      BY <3>3, <3>4
  <2>6. Good(r + 1, u)
    BY <2>4, <2>5
  <2>7. r + 1 \in 0 .. N
    BY <1>2
  <2> HIDE DEF Good
  <2>8. QED
    BY <2>3, <2>6, <2>7
<1>3. N \in S
  <2> HIDE DEF S
  <2>1. \A k \in 0 .. N : k \in S
    BY <1>1, <1>2, UpTo
  <2>2. QED
    BY <2>1
<1>4. QED
  BY <1>3

AddsUp(f, g, r) == f[0] = 0 /\ \A m \in 1 .. r : f[m] = f[m - 1] + g[m]

LEMMA OneTotal ==
  ASSUME NEW N \in Nat, NEW t, NEW g, AddsUp(t, g, N),
         NEW r \in 0 .. N, NEW f, AddsUp(f, g, r)
  PROVE  f[r] = t[r]
<1>0. /\ t[0] = 0 /\ \A m \in 1 .. N : t[m] = t[m - 1] + g[m]
      /\ f[0] = 0 /\ \A m \in 1 .. r : f[m] = f[m - 1] + g[m]
  BY DEF AddsUp
<1> DEFINE S == {m \in 0 .. r : f[m] = t[m]}
<1>1. 0 \in S
  BY <1>0
<1>2. ASSUME NEW k \in Nat, k < r, k \in S PROVE k + 1 \in S
  <2>1. k + 1 \in 1 .. r /\ k + 1 \in 1 .. N /\ (k + 1) - 1 = k /\ k + 1 \in 0 .. r
    BY <1>2
  <2>2. f[k + 1] = f[k] + g[k + 1] /\ t[k + 1] = t[k] + g[k + 1]
    BY <1>0, <2>1
  <2>3. QED
    BY <1>2, <2>1, <2>2
<1>3. r \in Nat
  OBVIOUS
<1>4. r \in S
  <2> HIDE DEF S
  <2>1. \A k \in 0 .. r : k \in S
    BY <1>1, <1>2, <1>3, UpTo
  <2>2. QED
    BY <1>3, <2>1
<1>5. QED
  BY <1>4

(* The words that name m adds to bucket row of s, Load and Start as        *)
(* functions of what they depend on.                                       *)
Gain(ns, kh, s, row, m) == IF kh[ns[m].word] % s = row THEN EltSize(ns[m]) ELSE 0

LoadOf(ns, kh, s, row, k) ==
  LET load[m \in 0..k] ==
        IF m = 0 THEN 0
        ELSE load[m - 1] + (IF kh[ns[m].word] % s = row THEN EltSize(ns[m]) ELSE 0)
  IN  load[k]

LEMMA LoadIs ==
  ASSUME NEW s, NEW row, NEW k
  PROVE  Load(s, row, k) = LoadOf(names, key_hash, s, row, k)
BY DEF Load, LoadOf

LEMMA Gains ==
  ASSUME NEW N \in Nat, NEW ns \in [1 .. N -> Names], NEW kh, NEW s, NEW row, NEW m \in 1 .. N
  PROVE  Gain(ns, kh, s, row, m) \in Nat /\ EltSize(ns[m]) \in Nat /\ EltSize(ns[m]) >= 2
<1>1. ns[m] \in Names /\ ns[m].word \in Words
  BY DEF Names
<1>2. NameWords[ns[m].word] \in Nat \ {0}
  BY <1>1, HashAssumption
<1>3. EltSize(ns[m]) = 1 + NameWords[ns[m].word]
  BY DEF EltSize
<1>4. EltSize(ns[m]) \in Nat /\ EltSize(ns[m]) >= 2
  BY <1>2, <1>3
<1>5. QED
  BY <1>4 DEF Gain

IsLoad(t, N, ns, kh, s, row) ==
  /\ t \in [0 .. N -> Nat]
  /\ t[0] = 0 /\ \A m \in 1 .. N : t[m] = t[m - 1] + Gain(ns, kh, s, row, m)
  /\ \A k \in 0 .. N : LoadOf(ns, kh, s, row, k) = t[k]

LEMMA LoadTotal ==
  ASSUME NEW N \in Nat, NEW ns \in [1 .. N -> Names], NEW kh, NEW s, NEW row
  PROVE  \E t : IsLoad(t, N, ns, kh, s, row)
<1>1. PICK g : g = [m \in 1 .. N |-> Gain(ns, kh, s, row, m)]
  OBVIOUS
<1>2. g \in [1 .. N -> Nat] /\ \A m \in 1 .. N : g[m] = Gain(ns, kh, s, row, m)
  BY <1>1, Gains
<1>3. PICK t \in [0 .. N -> Nat] : t[0] = 0 /\ \A m \in 1 .. N : t[m] = t[m - 1] + g[m]
  BY <1>2, Totals
<1>4. ASSUME NEW k \in 0 .. N PROVE LoadOf(ns, kh, s, row, k) = t[k]
  <2> DEFINE loop(f) == [m \in 0 .. k |-> IF m = 0 THEN 0 ELSE f[m - 1] +
                           (IF kh[ns[m].word] % s = row THEN EltSize(ns[m]) ELSE 0)]
  <2>0. \A m \in 1 .. k : g[m] = IF kh[ns[m].word] % s = row THEN EltSize(ns[m]) ELSE 0
    BY <1>2 DEF Gain
  <2>1. PICK w : w = [m \in 0 .. k |-> t[m]]
    OBVIOUS
  <2>2. w = loop(w)
    <3>1. ASSUME NEW m \in 0 .. k PROVE w[m] = loop(w)[m]
      <4>1. CASE m = 0
        BY <1>3, <2>1, <4>1
      <4>2. CASE m # 0
        <5>1. m \in 1 .. k /\ m \in 1 .. N /\ m - 1 \in 0 .. k
          BY <4>2
        <5>2. w[m] = t[m] /\ w[m - 1] = t[m - 1] /\ t[m] = t[m - 1] + g[m]
          BY <1>3, <2>1, <5>1
        <5>3. QED
          BY <2>0, <4>2, <5>1, <5>2
      <4>3. QED
        BY <4>1, <4>2
    <3>2. w = [m \in 0 .. k |-> w[m]]
      BY <2>1
    <3>3. loop(w) = [m \in 0 .. k |-> loop(w)[m]]
      OBVIOUS
    <3> HIDE DEF loop
    <3>4. QED
      BY <3>1, <3>2, <3>3
  <2>3. PICK L : L = CHOOSE f : f = loop(f)
    OBVIOUS
  <2>4. L = loop(L)
    <3> HIDE DEF loop
    <3>1. QED
      BY <2>2, <2>3
  <2>5. LoadOf(ns, kh, s, row, k) = L[k]
    BY <2>3 DEF LoadOf
  <2>6. L[0] = 0
    <3>1. 0 \in 0 .. k
      OBVIOUS
    <3>2. loop(L)[0] = 0
      BY <3>1
    <3> HIDE DEF loop
    <3>3. QED
      BY <2>4, <3>2
  <2>7. ASSUME NEW m \in 1 .. k PROVE L[m] = L[m - 1] + g[m]
    <3>1. m \in 0 .. k /\ m # 0
      OBVIOUS
    <3>2. loop(L)[m] = L[m - 1] + g[m]
      BY <2>0, <3>1
    <3> HIDE DEF loop
    <3>3. QED
      BY <2>4, <3>2
  <2>8. AddsUp(t, g, N) /\ AddsUp(L, g, k)
    BY <1>3, <2>6, <2>7 DEF AddsUp
  <2>9. L[k] = t[k]
    BY <2>8, OneTotal
  <2>10. QED
    BY <2>5, <2>9
<1>5. \A m \in 1 .. N : t[m] = t[m - 1] + Gain(ns, kh, s, row, m)
  BY <1>2, <1>3
<1>6. IsLoad(t, N, ns, kh, s, row)
  BY <1>3, <1>4, <1>5 DEF IsLoad
<1>7. QED
  BY <1>6

LEMMA Monotone ==
  ASSUME NEW N \in Nat, NEW t \in [0 .. N -> Nat], \A m \in 1 .. N : t[m - 1] <= t[m],
         NEW i \in 0 .. N, NEW j \in 0 .. N, i <= j
  PROVE  t[i] <= t[j]
<1> DEFINE S == {m \in 0 .. N : i + m <= N => t[i] <= t[i + m]}
<1>1. 0 \in S
  OBVIOUS
<1>2. ASSUME NEW k \in Nat, k < N, k \in S PROVE k + 1 \in S
  <2>1. SUFFICES ASSUME i + (k + 1) <= N PROVE t[i] <= t[i + (k + 1)]
    BY <1>2
  <2>2. i + (k + 1) \in 1 .. N /\ i + (k + 1) - 1 = i + k /\ i + k \in 0 .. N /\ i + k <= N
    BY <1>2, <2>1
  <2>3. t[i + k] <= t[i + (k + 1)] /\ t[i] <= t[i + k]
    BY <1>2, <2>2
  <2>4. t[i] \in Nat /\ t[i + k] \in Nat /\ t[i + (k + 1)] \in Nat
    BY <2>2
  <2>5. QED
    BY <2>3, <2>4
<1>3. \A k \in 0 .. N : k \in S
  <2> HIDE DEF S
  <2>1. QED
    BY <1>1, <1>2, UpTo
<1>4. j - i \in S /\ i + (j - i) = j
  <2>1. j - i \in 0 .. N /\ i + (j - i) = j
    OBVIOUS
  <2> HIDE DEF S
  <2>2. QED
    BY <1>3, <2>1
<1>5. QED
  BY <1>4

Adds(N, ns, kh, s, row) ==
  /\ LoadOf(ns, kh, s, row, 0) = 0
  /\ \A k \in 0 .. N : LoadOf(ns, kh, s, row, k) \in Nat
  /\ \A k \in 1 .. N : LoadOf(ns, kh, s, row, k)
                         = LoadOf(ns, kh, s, row, k - 1) + Gain(ns, kh, s, row, k)

LEMMA LoadSteps ==
  ASSUME NEW N \in Nat, NEW ns \in [1 .. N -> Names], NEW kh, NEW s, NEW row
  PROVE  Adds(N, ns, kh, s, row)
<1>0. PICK t : IsLoad(t, N, ns, kh, s, row)
  BY LoadTotal
<1>1. /\ t \in [0 .. N -> Nat]
      /\ t[0] = 0 /\ \A m \in 1 .. N : t[m] = t[m - 1] + Gain(ns, kh, s, row, m)
      /\ \A k \in 0 .. N : LoadOf(ns, kh, s, row, k) = t[k]
  BY <1>0 DEF IsLoad
<1>2. 0 \in 0 .. N /\ \A k \in 1 .. N : k \in 0 .. N /\ k - 1 \in 0 .. N
  OBVIOUS
<1>3. QED
  BY <1>1, <1>2 DEF Adds

LEMMA LoadGrows ==
  ASSUME NEW N \in Nat, NEW ns \in [1 .. N -> Names], NEW kh, NEW s, NEW row,
         NEW i \in 0 .. N, NEW j \in 0 .. N, i <= j
  PROVE  /\ LoadOf(ns, kh, s, row, i) \in Nat /\ LoadOf(ns, kh, s, row, j) \in Nat
         /\ LoadOf(ns, kh, s, row, i) <= LoadOf(ns, kh, s, row, j)
<1>0. PICK t : IsLoad(t, N, ns, kh, s, row)
  BY LoadTotal
<1>1. /\ t \in [0 .. N -> Nat]
      /\ t[0] = 0 /\ \A m \in 1 .. N : t[m] = t[m - 1] + Gain(ns, kh, s, row, m)
      /\ \A k \in 0 .. N : LoadOf(ns, kh, s, row, k) = t[k]
  BY <1>0 DEF IsLoad
<1>2. ASSUME NEW m \in 1 .. N PROVE t[m - 1] <= t[m]
  <2>1. t[m] = t[m - 1] + Gain(ns, kh, s, row, m) /\ m - 1 \in 0 .. N
    BY <1>1
  <2>2. Gain(ns, kh, s, row, m) \in Nat /\ t[m - 1] \in Nat
    BY <1>1, <2>1, Gains
  <2>3. QED
    BY <2>1, <2>2
<1>3. t[i] <= t[j]
  BY <1>1, <1>2, Monotone
<1>4. QED
  BY <1>1, <1>3

(* A bucket grows only with its own names. *)
LEMMA LoadConst ==
  ASSUME NEW N \in Nat, NEW ns \in [1 .. N -> Names], NEW kh, NEW s, NEW row,
         NEW i \in 0 .. N, NEW j \in 0 .. N, i <= j,
         \A m \in i + 1 .. j : kh[ns[m].word] % s # row
  PROVE  LoadOf(ns, kh, s, row, i) = LoadOf(ns, kh, s, row, j)
<1> DEFINE S == {m \in 0 .. N : i + m <= j =>
                   LoadOf(ns, kh, s, row, i) = LoadOf(ns, kh, s, row, i + m)}
<1>1. 0 \in S
  OBVIOUS
<1>2. ASSUME NEW k \in Nat, k < N, k \in S PROVE k + 1 \in S
  <2>1. SUFFICES ASSUME i + (k + 1) <= j
                 PROVE  LoadOf(ns, kh, s, row, i) = LoadOf(ns, kh, s, row, i + (k + 1))
    BY <1>2
  <2>2. /\ i + (k + 1) \in 1 .. N /\ i + (k + 1) - 1 = i + k /\ i + k <= j
        /\ i + (k + 1) \in i + 1 .. j /\ i + k \in 0 .. N
    BY <1>2, <2>1
  <2>3. Gain(ns, kh, s, row, i + (k + 1)) = 0
    BY <2>2 DEF Gain
  <2>a. Adds(N, ns, kh, s, row)
    BY LoadSteps
  <2>4. LoadOf(ns, kh, s, row, i + (k + 1)) = LoadOf(ns, kh, s, row, i + k) + 0
    BY <2>2, <2>3, <2>a DEF Adds
  <2>5. LoadOf(ns, kh, s, row, i + k) \in Nat
    BY <2>2, <2>a DEF Adds
  <2>6. LoadOf(ns, kh, s, row, i) = LoadOf(ns, kh, s, row, i + k)
    BY <1>2, <2>2
  <2>7. QED
    BY <2>4, <2>5, <2>6
<1>3. \A k \in 0 .. N : k \in S
  <2> HIDE DEF S
  <2>1. QED
    BY <1>1, <1>2, UpTo
<1>4. j - i \in S /\ i + (j - i) = j
  <2>1. j - i \in 0 .. N /\ i + (j - i) = j
    OBVIOUS
  <2> HIDE DEF S
  <2>2. QED
    BY <1>3, <2>1
<1>5. QED
  BY <1>4

-----------------------------------------------------------------------------
(* How the buckets lie behind each other.                                  *)
BucketOf(ns, kh, s, row) ==
  LET used == (1 + LoadOf(ns, kh, s, row, Len(ns))) % Short
  IN  IF used = 1 THEN 0 ELSE used

StartOf(ns, kh, s, row) ==
  LET start[m \in 0..row] ==
        IF m = 0 THEN 0 ELSE start[m - 1] + BucketOf(ns, kh, s, m - 1)
  IN  start[row]

LEMMA BucketIs ==
  ASSUME NEW row
  PROVE  BucketSize(row) = BucketOf(names, key_hash, size, row)
BY LoadIs DEF BucketSize, BucketOf

LEMMA StartIs ==
  ASSUME NEW row
  PROVE  Start(row) = StartOf(names, key_hash, size, row)
BY DEF Start, StartOf, BucketSize, BucketOf, Load, LoadOf

IsStart(t, ns, kh, s) ==
  /\ t \in [0 .. s -> Nat]
  /\ t[0] = 0 /\ \A m \in 1 .. s : t[m] = t[m - 1] + BucketOf(ns, kh, s, m - 1)
  /\ \A row \in 0 .. s : StartOf(ns, kh, s, row) = t[row]

LEMMA StartTotal ==
  ASSUME NEW N \in Nat, NEW ns \in [1 .. N -> Names], Len(ns) = N, NEW kh, NEW s \in Nat
  PROVE  \E t : IsStart(t, ns, kh, s)
<1>1. PICK g : g = [m \in 1 .. s |-> BucketOf(ns, kh, s, m - 1)]
  OBVIOUS
<1>2. g \in [1 .. s -> Nat] /\ \A m \in 1 .. s : g[m] = BucketOf(ns, kh, s, m - 1)
  <2>1. ASSUME NEW m \in 1 .. s PROVE BucketOf(ns, kh, s, m - 1) \in Nat
    <3>1. LoadOf(ns, kh, s, m - 1, Len(ns)) \in Nat
      <4>1. Len(ns) \in 0 .. N
        OBVIOUS
      <4>2. Adds(N, ns, kh, s, m - 1)
        BY LoadSteps
      <4>3. QED
        BY <4>1, <4>2 DEF Adds
    <3>2. Short \in Nat \ {0}
      BY HashAssumption
    <3>3. QED
      BY <3>1, <3>2 DEF BucketOf
  <2>2. QED
    BY <1>1, <2>1
<1>3. PICK t \in [0 .. s -> Nat] : t[0] = 0 /\ \A m \in 1 .. s : t[m] = t[m - 1] + g[m]
  BY <1>2, Totals
<1>4. ASSUME NEW k \in 0 .. s PROVE StartOf(ns, kh, s, k) = t[k]
  <2> DEFINE loop(f) == [m \in 0 .. k |-> IF m = 0 THEN 0
                                          ELSE f[m - 1] + BucketOf(ns, kh, s, m - 1)]
  <2>1. PICK w : w = [m \in 0 .. k |-> t[m]]
    OBVIOUS
  <2>2. w = loop(w)
    <3>1. ASSUME NEW m \in 0 .. k PROVE w[m] = loop(w)[m]
      <4>1. CASE m = 0
        BY <1>3, <2>1, <4>1
      <4>2. CASE m # 0
        <5>1. m \in 1 .. k /\ m \in 1 .. s /\ m - 1 \in 0 .. k
          BY <4>2
        <5>2. w[m] = t[m] /\ w[m - 1] = t[m - 1] /\ t[m] = t[m - 1] + g[m]
          BY <1>3, <2>1, <5>1
        <5>3. QED
          BY <1>2, <4>2, <5>1, <5>2
      <4>3. QED
        BY <4>1, <4>2
    <3>2. w = [m \in 0 .. k |-> w[m]]
      BY <2>1
    <3>3. loop(w) = [m \in 0 .. k |-> loop(w)[m]]
      OBVIOUS
    <3> HIDE DEF loop
    <3>4. QED
      BY <3>1, <3>2, <3>3
  <2>3. PICK L : L = CHOOSE f : f = loop(f)
    OBVIOUS
  <2>4. L = loop(L)
    <3> HIDE DEF loop
    <3>1. QED
      BY <2>2, <2>3
  <2>5. StartOf(ns, kh, s, k) = L[k]
    BY <2>3 DEF StartOf
  <2>6. L[0] = 0
    <3>1. 0 \in 0 .. k
      OBVIOUS
    <3>2. loop(L)[0] = 0
      BY <3>1
    <3> HIDE DEF loop
    <3>3. QED
      BY <2>4, <3>2
  <2>7. ASSUME NEW m \in 1 .. k PROVE L[m] = L[m - 1] + g[m]
    <3>1. m \in 0 .. k /\ m # 0 /\ m \in 1 .. s
      OBVIOUS
    <3>2. loop(L)[m] = L[m - 1] + g[m]
      BY <1>2, <3>1
    <3> HIDE DEF loop
    <3>3. QED
      BY <2>4, <3>2
  <2>8. AddsUp(t, g, s) /\ AddsUp(L, g, k)
    BY <1>3, <2>6, <2>7 DEF AddsUp
  <2>9. L[k] = t[k]
    BY <2>8, OneTotal
  <2>10. QED
    BY <2>5, <2>9
<1>5. \A m \in 1 .. s : t[m] = t[m - 1] + BucketOf(ns, kh, s, m - 1)
  BY <1>2, <1>3
<1>6. IsStart(t, ns, kh, s)
  BY <1>3, <1>4, <1>5 DEF IsStart
<1>7. QED
  BY <1>6

LEMMA StartSteps ==
  ASSUME NEW N \in Nat, NEW ns \in [1 .. N -> Names], Len(ns) = N, NEW kh, NEW s \in Nat
  PROVE  /\ \A row \in 0 .. s : StartOf(ns, kh, s, row) \in Nat
         /\ \A row \in 0 .. s - 1 : /\ BucketOf(ns, kh, s, row) \in Nat
                                    /\ StartOf(ns, kh, s, row + 1)
                                         = StartOf(ns, kh, s, row) + BucketOf(ns, kh, s, row)
         /\ \A i, j \in 0 .. s : i <= j => StartOf(ns, kh, s, i) <= StartOf(ns, kh, s, j)
<1>0. PICK t : IsStart(t, ns, kh, s)
  BY StartTotal
<1>1. /\ t \in [0 .. s -> Nat]
      /\ t[0] = 0 /\ \A m \in 1 .. s : t[m] = t[m - 1] + BucketOf(ns, kh, s, m - 1)
      /\ \A row \in 0 .. s : StartOf(ns, kh, s, row) = t[row]
  BY <1>0 DEF IsStart
<1>2. ASSUME NEW row \in 0 .. s - 1
      PROVE  BucketOf(ns, kh, s, row) \in Nat
  <2>1. LoadOf(ns, kh, s, row, Len(ns)) \in Nat
    <3>1. Len(ns) \in 0 .. N
      OBVIOUS
    <3>2. Adds(N, ns, kh, s, row)
      BY LoadSteps
    <3>3. QED
      BY <3>1, <3>2 DEF Adds
  <2>2. Short \in Nat \ {0}
    BY HashAssumption
  <2>3. QED
    BY <2>1, <2>2 DEF BucketOf
<1>3. ASSUME NEW row \in 0 .. s - 1
      PROVE  t[row + 1] = t[row] + BucketOf(ns, kh, s, row)
  <2>1. row + 1 \in 1 .. s /\ (row + 1) - 1 = row
    OBVIOUS
  <2>2. QED
    BY <1>1, <2>1
<1>4. \A row \in 0 .. s - 1 : row \in 0 .. s /\ row + 1 \in 0 .. s
  OBVIOUS
<1>5. ASSUME NEW m \in 1 .. s PROVE t[m - 1] <= t[m]
  <2>1. m - 1 \in 0 .. s - 1 /\ (m - 1) + 1 = m /\ m - 1 \in 0 .. s
    OBVIOUS
  <2>2. t[m] = t[m - 1] + BucketOf(ns, kh, s, m - 1) /\ BucketOf(ns, kh, s, m - 1) \in Nat
    BY <1>1, <1>2, <2>1
  <2>3. QED
    BY <1>1, <2>1, <2>2
<1>6. ASSUME NEW i \in 0 .. s, NEW j \in 0 .. s, i <= j PROVE t[i] <= t[j]
  BY <1>1, <1>5, <1>6, Monotone
<1>7. QED
  BY <1>1, <1>2, <1>3, <1>4, <1>6

-----------------------------------------------------------------------------
(* A size was found: with so many buckets, each takes its names, and the   *)
(* words of none are more than a u_short counts.                           *)
Home(ns, kh, s, i) == kh[ns[i].word] % s

PlaceOf(ns, kh, s, i) ==
  StartOf(ns, kh, s, Home(ns, kh, s, i)) + LoadOf(ns, kh, s, Home(ns, kh, s, i), i - 1)

TextEnd(ns, kh, s, row) == StartOf(ns, kh, s, row) + LoadOf(ns, kh, s, row, Len(ns))

Snug(N, ns, kh, s) ==
  /\ N \in Nat /\ ns \in [1 .. N -> Names] /\ Len(ns) = N
  /\ kh \in [Words -> Hashes] /\ s \in Nat \ {0}
  /\ \A row \in 0 .. s - 1 : 1 + LoadOf(ns, kh, s, row, N) < Short

LEMMA NoWraps ==
  ASSUME NEW N \in Nat, NEW ns \in [1 .. N -> Names], NEW kh, NEW s, NEW row,
         NEW words \in Nat, 2 * words < Short,
         \A i \in 1 .. N : EltSize(ns[i]) <= words,
         \A k \in 1 .. N : LoadOf(ns, kh, s, row, k) % Short <= words % Short
  PROVE  \A k \in 0 .. N : LoadOf(ns, kh, s, row, k) <= words
<1>0. Adds(N, ns, kh, s, row)
  BY LoadSteps
<1> DEFINE S == {k \in 0 .. N : LoadOf(ns, kh, s, row, k) <= words}
<1>1. 0 \in S
  BY <1>0 DEF Adds
<1>2. ASSUME NEW k \in Nat, k < N, k \in S PROVE k + 1 \in S
  <2>1. k + 1 \in 1 .. N /\ (k + 1) - 1 = k /\ k \in 0 .. N /\ k + 1 \in 0 .. N
    BY <1>2
  <2>2. PICK a : a = LoadOf(ns, kh, s, row, k)
    OBVIOUS
  <2>3. PICK b : b = LoadOf(ns, kh, s, row, k + 1)
    OBVIOUS
  <2>4. PICK e : e = Gain(ns, kh, s, row, k + 1)
    OBVIOUS
  <2>5. a \in Nat /\ b \in Nat /\ b = a + e /\ a <= words
    BY <1>0, <1>2, <2>1, <2>2, <2>3, <2>4 DEF Adds
  <2>6. e \in Nat /\ e <= words
    <3>1. e \in Nat
      BY <2>1, <2>4, Gains
    <3>2. e = 0 \/ e = EltSize(ns[k + 1])
      BY <2>4 DEF Gain
    <3>3. QED
      BY <2>1, <3>1, <3>2
  <2>7. b < Short /\ words < Short /\ Short \in Nat \ {0}
    BY <2>5, <2>6, HashAssumption
  <2>8. b % Short = b /\ words % Short = words
    BY <2>5, <2>7
  <2>9. b <= words
    BY <2>1, <2>3, <2>8
  <2>10. QED
    BY <2>1, <2>3, <2>9
<1>3. \A k \in 0 .. N : k \in S
  <2> HIDE DEF S
  <2>1. QED
    BY <1>1, <1>2, UpTo
<1>4. QED
  BY <1>3

LEMMA BucketFits ==
  ASSUME NEW N, NEW ns, NEW kh, NEW s, Snug(N, ns, kh, s), NEW row \in 0 .. s - 1
  PROVE  /\ LoadOf(ns, kh, s, row, N) \in Nat
         /\ BucketOf(ns, kh, s, row) = IF LoadOf(ns, kh, s, row, N) = 0 THEN 0
                                       ELSE LoadOf(ns, kh, s, row, N) + 1
<1>1. PICK a : a = LoadOf(ns, kh, s, row, N)
  OBVIOUS
<1>2. Adds(N, ns, kh, s, row) /\ N \in 0 .. N
  BY LoadSteps DEF Snug
<1>3. a \in Nat
  BY <1>1, <1>2 DEF Adds
<1>4. 1 + a < Short /\ Short \in Nat \ {0}
  BY <1>1, HashAssumption DEF Snug
<1>5. (1 + a) % Short = 1 + a
  BY <1>3, <1>4
<1>6. Len(ns) = N
  BY DEF Snug
<1>7. BucketOf(ns, kh, s, row) = IF a = 0 THEN 0 ELSE a + 1
  BY <1>1, <1>3, <1>5, <1>6 DEF BucketOf
<1>8. QED
  BY <1>1, <1>3, <1>7

(* A bucket that has names ends with a word of its own, before the next.   *)
LEMMA BucketRoom ==
  ASSUME NEW N, NEW ns, NEW kh, NEW s, Snug(N, ns, kh, s), NEW row \in 0 .. s - 1,
         LoadOf(ns, kh, s, row, N) # 0
  PROVE  /\ StartOf(ns, kh, s, row) \in Nat /\ StartOf(ns, kh, s, s) \in Nat
         /\ TextEnd(ns, kh, s, row) \in Nat
         /\ TextEnd(ns, kh, s, row) < StartOf(ns, kh, s, s)
         /\ \A r \in 0 .. s - 1 : row < r =>
              /\ StartOf(ns, kh, s, r) \in Nat
              /\ TextEnd(ns, kh, s, row) < StartOf(ns, kh, s, r)
<1>0. N \in Nat /\ ns \in [1 .. N -> Names] /\ Len(ns) = N /\ s \in Nat \ {0}
  BY DEF Snug
<1>1. /\ \A r \in 0 .. s : StartOf(ns, kh, s, r) \in Nat
      /\ \A r \in 0 .. s - 1 : StartOf(ns, kh, s, r + 1)
                                 = StartOf(ns, kh, s, r) + BucketOf(ns, kh, s, r)
      /\ \A i, j \in 0 .. s : i <= j => StartOf(ns, kh, s, i) <= StartOf(ns, kh, s, j)
  BY <1>0, StartSteps
<1>2. /\ LoadOf(ns, kh, s, row, N) \in Nat
      /\ BucketOf(ns, kh, s, row) = LoadOf(ns, kh, s, row, N) + 1
  BY BucketFits
<1>3. row \in 0 .. s /\ row + 1 \in 0 .. s /\ s \in 0 .. s
  BY <1>0
<1>4. /\ TextEnd(ns, kh, s, row) \in Nat /\ StartOf(ns, kh, s, row) \in Nat
      /\ StartOf(ns, kh, s, row + 1) = TextEnd(ns, kh, s, row) + 1
  BY <1>0, <1>1, <1>2, <1>3 DEF TextEnd
<1>5. ASSUME NEW r \in 0 .. s, row < r
      PROVE  StartOf(ns, kh, s, r) \in Nat /\ TextEnd(ns, kh, s, row) < StartOf(ns, kh, s, r)
  <2>1. row + 1 <= r
    BY <1>5
  <2>2. StartOf(ns, kh, s, row + 1) <= StartOf(ns, kh, s, r) /\ StartOf(ns, kh, s, r) \in Nat
    BY <1>1, <1>3, <2>1
  <2>3. QED
    BY <1>4, <2>2
<1>6. row < s /\ \A r \in 0 .. s - 1 : r \in 0 .. s
  BY <1>0
<1>7. QED
  BY <1>3, <1>4, <1>5, <1>6

LEMMA PlaceFits ==
  ASSUME NEW N, NEW ns, NEW kh, NEW s, Snug(N, ns, kh, s), NEW i \in 1 .. N,
         NEW row, row = Home(ns, kh, s, i)
  PROVE  /\ row \in 0 .. s - 1 /\ LoadOf(ns, kh, s, row, N) # 0
         /\ PlaceOf(ns, kh, s, i) \in Nat /\ EltSize(ns[i]) \in Nat /\ EltSize(ns[i]) >= 2
         /\ StartOf(ns, kh, s, row) \in Nat
         /\ StartOf(ns, kh, s, row) <= PlaceOf(ns, kh, s, i)
         /\ PlaceOf(ns, kh, s, i) = StartOf(ns, kh, s, row) + LoadOf(ns, kh, s, row, i - 1)
         /\ PlaceOf(ns, kh, s, i) + EltSize(ns[i])
              = StartOf(ns, kh, s, row) + LoadOf(ns, kh, s, row, i)
         /\ PlaceOf(ns, kh, s, i) + EltSize(ns[i]) <= TextEnd(ns, kh, s, row)
<1>0. /\ N \in Nat /\ ns \in [1 .. N -> Names] /\ Len(ns) = N /\ s \in Nat \ {0}
      /\ kh \in [Words -> Hashes] /\ Hashes \subseteq Nat
  BY HashAssumption DEF Snug
<1>1. row \in 0 .. s - 1
  <2>1. ns[i] \in Names
    BY <1>0
  <2>2. ns[i].word \in Words
    BY <2>1 DEF Names
  <2>3. kh[ns[i].word] \in Nat
    BY <1>0, <2>2
  <2>4. QED
    BY <1>0, <2>3 DEF Home
<1>2. Adds(N, ns, kh, s, row)
  BY <1>0, LoadSteps
<1>3. PICK a : a = LoadOf(ns, kh, s, row, i - 1)
  OBVIOUS
<1>4. PICK b : b = LoadOf(ns, kh, s, row, i)
  OBVIOUS
<1>5. PICK c : c = LoadOf(ns, kh, s, row, N)
  OBVIOUS
<1>6. Gain(ns, kh, s, row, i) = EltSize(ns[i]) /\ EltSize(ns[i]) \in Nat /\ EltSize(ns[i]) >= 2
  BY <1>0, Gains DEF Gain, Home
<1>7. i - 1 \in 0 .. N /\ i \in 0 .. N /\ N \in 0 .. N /\ i <= N
  BY <1>0
<1>8. a \in Nat /\ b \in Nat /\ c \in Nat /\ b = a + EltSize(ns[i])
  BY <1>2, <1>3, <1>4, <1>5, <1>6, <1>7 DEF Adds
<1>9. b <= c
  BY <1>0, <1>4, <1>5, <1>7, LoadGrows
<1>10. row \in 0 .. s
  BY <1>0, <1>1
<1>11. StartOf(ns, kh, s, row) \in Nat
  BY <1>0, <1>10, StartSteps
<1>12. /\ PlaceOf(ns, kh, s, i) = StartOf(ns, kh, s, row) + a
       /\ TextEnd(ns, kh, s, row) = StartOf(ns, kh, s, row) + c
  BY <1>0, <1>3, <1>5 DEF PlaceOf, TextEnd
<1>13. QED
  BY <1>1, <1>3, <1>4, <1>5, <1>6, <1>8, <1>9, <1>11, <1>12

(* The same of the place of a name, in one word.                           *)
Placed(N, ns, kh, s, i, row) ==
  /\ row \in 0 .. s - 1 /\ LoadOf(ns, kh, s, row, N) # 0
  /\ PlaceOf(ns, kh, s, i) \in Nat /\ EltSize(ns[i]) \in Nat /\ EltSize(ns[i]) >= 2
  /\ StartOf(ns, kh, s, row) \in Nat
  /\ PlaceOf(ns, kh, s, i) = StartOf(ns, kh, s, row) + LoadOf(ns, kh, s, row, i - 1)
  /\ PlaceOf(ns, kh, s, i) + EltSize(ns[i]) <= TextEnd(ns, kh, s, row)

LEMMA PlacedIn ==
  ASSUME NEW N, NEW ns, NEW kh, NEW s, Snug(N, ns, kh, s), NEW i \in 1 .. N,
         NEW row, row = Home(ns, kh, s, i)
  PROVE  Placed(N, ns, kh, s, i, row)
BY PlaceFits DEF Placed

(* Elements and null words lie apart. *)
LEMMA ElementsApart ==
  ASSUME NEW N, NEW ns, NEW kh, NEW s, Snug(N, ns, kh, s),
         NEW i \in 1 .. N, NEW j \in 1 .. N, i < j
  PROVE  \/ PlaceOf(ns, kh, s, i) + EltSize(ns[i]) <= PlaceOf(ns, kh, s, j)
         \/ PlaceOf(ns, kh, s, j) + EltSize(ns[j]) <= PlaceOf(ns, kh, s, i)
<1>0. N \in Nat /\ ns \in [1 .. N -> Names] /\ s \in Nat \ {0}
  BY DEF Snug
<1>1. PICK r : r = Home(ns, kh, s, i)
  OBVIOUS
<1>2. PICK q : q = Home(ns, kh, s, j)
  OBVIOUS
<1>3. /\ r \in 0 .. s - 1 /\ LoadOf(ns, kh, s, r, N) # 0
      /\ PlaceOf(ns, kh, s, i) \in Nat /\ EltSize(ns[i]) \in Nat
      /\ StartOf(ns, kh, s, r) \in Nat /\ StartOf(ns, kh, s, r) <= PlaceOf(ns, kh, s, i)
      /\ PlaceOf(ns, kh, s, i) + EltSize(ns[i])
           = StartOf(ns, kh, s, r) + LoadOf(ns, kh, s, r, i)
      /\ PlaceOf(ns, kh, s, i) + EltSize(ns[i]) <= TextEnd(ns, kh, s, r)
  BY <1>1, PlaceFits
<1>4. /\ q \in 0 .. s - 1 /\ LoadOf(ns, kh, s, q, N) # 0
      /\ PlaceOf(ns, kh, s, j) \in Nat /\ EltSize(ns[j]) \in Nat
      /\ StartOf(ns, kh, s, q) \in Nat /\ StartOf(ns, kh, s, q) <= PlaceOf(ns, kh, s, j)
      /\ PlaceOf(ns, kh, s, j) = StartOf(ns, kh, s, q) + LoadOf(ns, kh, s, q, j - 1)
      /\ PlaceOf(ns, kh, s, j) + EltSize(ns[j]) <= TextEnd(ns, kh, s, q)
  BY <1>2, PlaceFits
<1>5. CASE r = q
  <2>1. i \in 0 .. N /\ j - 1 \in 0 .. N /\ i <= j - 1
    BY <1>0
  <2>2. /\ LoadOf(ns, kh, s, r, i) \in Nat /\ LoadOf(ns, kh, s, r, j - 1) \in Nat
        /\ LoadOf(ns, kh, s, r, i) <= LoadOf(ns, kh, s, r, j - 1)
    BY <1>0, <2>1, LoadGrows
  <2>3. QED
    BY <1>3, <1>4, <1>5, <2>2
<1>6. CASE r < q
  <2>1. TextEnd(ns, kh, s, r) \in Nat /\ TextEnd(ns, kh, s, r) < StartOf(ns, kh, s, q)
    BY <1>3, <1>4, <1>6, BucketRoom
  <2>2. QED
    BY <1>3, <1>4, <2>1
<1>7. CASE q < r
  <2>1. TextEnd(ns, kh, s, q) \in Nat /\ TextEnd(ns, kh, s, q) < StartOf(ns, kh, s, r)
    BY <1>3, <1>4, <1>7, BucketRoom
  <2>2. QED
    BY <1>3, <1>4, <2>1
<1>8. QED
  BY <1>3, <1>4, <1>5, <1>6, <1>7

LEMMA EndsApart ==
  ASSUME NEW N, NEW ns, NEW kh, NEW s, Snug(N, ns, kh, s),
         NEW i \in 1 .. N, NEW row \in 0 .. s - 1, LoadOf(ns, kh, s, row, N) # 0
  PROVE  \/ PlaceOf(ns, kh, s, i) + EltSize(ns[i]) <= TextEnd(ns, kh, s, row)
         \/ TextEnd(ns, kh, s, row) < PlaceOf(ns, kh, s, i)
<1>0. N \in Nat /\ ns \in [1 .. N -> Names] /\ s \in Nat \ {0}
  BY DEF Snug
<1>1. PICK r : r = Home(ns, kh, s, i)
  OBVIOUS
<1>3. /\ r \in 0 .. s - 1 /\ LoadOf(ns, kh, s, r, N) # 0
      /\ PlaceOf(ns, kh, s, i) \in Nat /\ EltSize(ns[i]) \in Nat
      /\ StartOf(ns, kh, s, r) \in Nat /\ StartOf(ns, kh, s, r) <= PlaceOf(ns, kh, s, i)
      /\ PlaceOf(ns, kh, s, i) + EltSize(ns[i]) <= TextEnd(ns, kh, s, r)
  BY <1>1, PlaceFits
<1>4. CASE r = row
  BY <1>3, <1>4
<1>5. CASE r < row
  <2>1. /\ TextEnd(ns, kh, s, r) \in Nat /\ StartOf(ns, kh, s, row) \in Nat
        /\ TextEnd(ns, kh, s, r) < StartOf(ns, kh, s, row)
    BY <1>3, <1>5, BucketRoom
  <2>2. LoadOf(ns, kh, s, row, N) \in Nat
    BY BucketFits
  <2>3. TextEnd(ns, kh, s, row) = StartOf(ns, kh, s, row) + LoadOf(ns, kh, s, row, N)
    BY DEF TextEnd, Snug
  <2>4. QED
    BY <1>3, <2>1, <2>2, <2>3
<1>6. CASE row < r
  <2>1. TextEnd(ns, kh, s, row) \in Nat /\ TextEnd(ns, kh, s, row) < StartOf(ns, kh, s, r)
    BY <1>3, <1>6, BucketRoom
  <2>2. QED
    BY <1>3, <2>1
<1>7. QED
  BY <1>3, <1>4, <1>5, <1>6

-----------------------------------------------------------------------------
(* The hash, when a u_short counts the words of a bucket.                  *)
Old == {Null, Elsewhere, NoAddress} \union {At(a) : a \in 0..room - 1}

ArgInv ==
  /\ Len(names) \in Nat \ {0} /\ names \in [1 .. Len(names) -> Names]
  /\ key_hash \in [Words -> Hashes] /\ bucket_size \in BucketSizes /\ max_size \in Heights

StageInv ==
  /\ pc \in {"check", "sizing", "found", "filling", "ready", "failed", "crashed"}
  /\ size \in Nat /\ n \in 1 .. Len(names) + 1
  /\ pc \in {"sizing", "found"} =>
       size >= 1 /\ \A i \in 1 .. Len(names) : bucket_size >= EltSize(names[i]) + 1
  /\ pc \in {"found", "filling", "ready", "crashed"} =>
       Snug(Len(names), names, key_hash, size)
  /\ pc \in {"ready", "crashed"} => n = Len(names) + 1

Built == pc \in {"filling", "ready", "crashed"}

LayoutInv ==
  IF Built
  THEN /\ room = StartOf(names, key_hash, size, size)
       /\ DOMAIN test = Rows /\ DOMAIN buckets = Rows
       /\ \A row \in Rows :
            /\ test[row] = LoadOf(names, key_hash, size, row, n - 1)
            /\ IF LoadOf(names, key_hash, size, row, Len(names)) = 0
               THEN buckets[row] \in Old
               ELSE buckets[row] = At(StartOf(names, key_hash, size, row))
  ELSE test = <<>> /\ buckets = <<>> /\ room = 0 /\ elts = <<>> /\ outside = {}

(* The entry of an empty bucket, which nothing set, is an address in the   *)
(* elements of bucket row.                                                 *)
Hit(row) ==
  \E q \in Rows : \E w \in 0 .. LoadOf(names, key_hash, size, row, Len(names)) - 1 :
    /\ LoadOf(names, key_hash, size, q, Len(names)) = 0
    /\ buckets[q] = At(StartOf(names, key_hash, size, row) + w)

(* What was written is there: the elements of the first n - 1 names and,   *)
(* when the hash is ready, the null words.  Only they overwrite elements.  *)
IsPlaced(i) ==
  LET a == PlaceOf(names, key_hash, size, i)
  IN  /\ a \in DOMAIN elts /\ elts[a] = i
      /\ a + 1 \in DOMAIN elts /\ elts[a + 1] = Lower(names[i])

IsEnded(row) ==
  LET a == buckets[row][2] + LoadOf(names, key_hash, size, row, Len(names))
  IN  buckets[row][1] = "elts" => a \in DOMAIN elts /\ elts[a] = 0

OutsideInv ==
  \A row \in outside :
    /\ row \in Rows /\ pc = "ready"
    /\ LoadOf(names, key_hash, size, row, Len(names)) = 0

ElementInv ==
  Built => /\ DOMAIN elts \subseteq 0 .. room - 1
           /\ \A i \in 1 .. n - 1 :
                (pc = "ready" /\ Hit(Home(names, key_hash, size, i))) \/ IsPlaced(i)
           /\ pc = "ready" => \A row \in Rows : IsEnded(row)
           /\ OutsideInv

Inv == ArgInv /\ StageInv /\ LayoutInv /\ ElementInv

LEMMA FoundSnug ==
  ASSUME Counted, ArgInv, size \in Nat, size >= 1, Fits(size),
         \A i \in 1 .. Len(names) : bucket_size >= EltSize(names[i]) + 1
  PROVE  Snug(Len(names), names, key_hash, size)
<1>1. PICK N \in Nat \ {0} : N = Len(names)
  BY DEF ArgInv
<1>2. PICK words : words = bucket_size - 1
  OBVIOUS
<1>3. names \in [1 .. N -> Names] /\ key_hash \in [Words -> Hashes]
  BY <1>1 DEF ArgInv
<1>4. bucket_size \in Nat /\ words \in Nat /\ 2 * words < Short /\ Short \in Nat \ {0}
  <2>1. bucket_size \in BucketSizes /\ bucket_size \in Nat \ {0}
    BY HashAssumption DEF ArgInv
  <2>2. 2 * (bucket_size - 1) < Short
    BY <2>1 DEF Counted, BucketWords
  <2>3. QED
    BY <1>2, <2>1, <2>2, HashAssumption
<1>5. ASSUME NEW i \in 1 .. N PROVE EltSize(names[i]) <= words /\ words >= 2
  <2>1. EltSize(names[i]) \in Nat /\ EltSize(names[i]) >= 2
    BY <1>3, Gains
  <2>2. bucket_size >= EltSize(names[i]) + 1
    BY <1>1
  <2>3. QED
    BY <1>2, <1>4, <2>1, <2>2
<1>6. words >= 2
  <2>1. 1 \in 1 .. N
    BY <1>1
  <2>2. QED
    BY <1>5, <2>1
<1>7. ASSUME NEW row \in 0 .. size - 1, NEW k \in 1 .. N
      PROVE  LoadOf(names, key_hash, size, row, k) % Short <= words % Short
  <2>1. Load(size, row, k) % Short <= BucketWords % Short
    BY <1>1 DEF Fits, NameIndexes
  <2>2. QED
    BY <1>2, <2>1, LoadIs DEF BucketWords
<1>8. ASSUME NEW row \in 0 .. size - 1 PROVE 1 + LoadOf(names, key_hash, size, row, N) < Short
  <2>1. \A k \in 0 .. N : LoadOf(names, key_hash, size, row, k) <= words
    BY <1>1, <1>3, <1>4, <1>5, <1>7, NoWraps
  <2>2. N \in 0 .. N
    BY <1>1
  <2>3. LoadOf(names, key_hash, size, row, N) \in Nat
    <3>1. Adds(N, names, key_hash, size, row)
      BY <1>1, <1>3, LoadSteps
    <3>2. QED
      BY <2>2, <3>1 DEF Adds
  <2>4. LoadOf(names, key_hash, size, row, N) <= words
    BY <2>1, <2>2
  <2>5. QED
    BY <1>4, <1>6, <2>3, <2>4
<1>9. size \in Nat \ {0}
  OBVIOUS
<1>10. QED
  BY <1>1, <1>3, <1>8, <1>9 DEF Snug

LEMMA InitInv == Init => Inv
<1> SUFFICES ASSUME Init PROVE Inv
  OBVIOUS
<1>1. PICK k \in 1 .. MaxNames : names \in [1 .. k -> Names]
  BY DEF Init
<1>2. k \in Nat \ {0} /\ Len(names) = k
  <2>1. k \in Nat \ {0}
    BY HashAssumption
  <2>2. QED
    BY <1>1, <2>1
<1>3. ArgInv
  BY <1>1, <1>2 DEF Init, ArgInv
<1>4. StageInv
  BY <1>2 DEF Init, StageInv
<1>5. LayoutInv /\ ElementInv
  BY DEF Init, LayoutInv, ElementInv, Built
<1>6. QED
  BY <1>3, <1>4, <1>5 DEF Inv

(* Steps before the hash is laid out. *)
LEMMA PlainInv ==
  ASSUME Inv, Keep, n' = n, ~Built, ~Built', StageInv'
  PROVE  Inv'
<1>1. ArgInv'
  BY DEF Inv, ArgInv, Keep, arguments
<1>2. LayoutInv' /\ ElementInv'
  BY DEF Inv, LayoutInv, ElementInv, Keep
<1>3. QED
  BY <1>1, <1>2 DEF Inv

LEMMA FirstSizeType ==
  ASSUME ArgInv, \A i \in 1 .. Len(names) : bucket_size >= EltSize(names[i]) + 1
  PROVE  /\ BucketWords \in Nat /\ BucketWords >= 2
         /\ FirstSize \in Nat /\ FirstSize >= 1
<1>1. PICK N \in Nat \ {0} : N = Len(names)
  BY DEF ArgInv
<1>2. BucketWords \in Nat /\ BucketWords >= 2
  <2>1. bucket_size \in Nat
    BY HashAssumption DEF ArgInv
  <2>2. 1 \in 1 .. N /\ names \in [1 .. N -> Names]
    BY <1>1 DEF ArgInv
  <2>3. EltSize(names[1]) \in Nat /\ EltSize(names[1]) >= 2
    BY <1>1, <2>2, Gains
  <2>4. bucket_size >= EltSize(names[1]) + 1
    BY <1>1, <2>2
  <2>5. QED
    BY <2>1, <2>3, <2>4 DEF BucketWords
<1>3. BucketWords \div 2 \in Nat \ {0}
  BY <1>2
<1>4. N \div (BucketWords \div 2) \in Nat
  BY <1>1, <1>3
<1>5. max_size \in Nat
  BY HashAssumption DEF ArgInv
<1>6. FirstSize \in Nat /\ FirstSize >= 1
  BY <1>1, <1>4, <1>5 DEF FirstSize
<1>7. QED
  BY <1>2, <1>6

LEMMA CheckInv == ASSUME Inv, CheckNames PROVE Inv'
<1>1. /\ pc = "check" /\ Keep /\ n' = n
      /\ names' = names /\ key_hash' = key_hash /\ bucket_size' = bucket_size
      /\ outside' = outside
  BY DEF CheckNames, Keep, arguments
<1>2. size \in Nat /\ n \in 1 .. Len(names) + 1 /\ ArgInv
  BY DEF Inv, StageInv
<1>3. CASE \A i \in 1 .. Len(names) : bucket_size >= EltSize(names[i]) + 1
  <2>1. pc' = "sizing" /\ size' = FirstSize
    BY <1>3 DEF CheckNames, NameIndexes
  <2>2. size' \in Nat /\ size' >= 1
    BY <1>2, <1>3, <2>1, FirstSizeType
  <2>3. \A i \in 1 .. Len(names') : bucket_size' >= EltSize(names'[i]) + 1
    BY <1>1, <1>3
  <2>4. StageInv'
    BY <1>1, <1>2, <2>1, <2>2, <2>3 DEF StageInv, NameIndexes
  <2>5. QED
    BY <1>1, <2>1, <2>4, PlainInv DEF Built
<1>4. CASE ~ \A i \in 1 .. Len(names) : bucket_size >= EltSize(names[i]) + 1
  <2>1. pc' = "failed" /\ size' = size
    BY <1>4 DEF CheckNames, NameIndexes
  <2>2. StageInv'
    BY <1>1, <1>2, <2>1 DEF StageInv, NameIndexes
  <2>3. QED
    BY <1>1, <2>1, <2>2, PlainInv DEF Built
<1>5. QED
  BY <1>3, <1>4

LEMMA TryInv == ASSUME Counted, Inv, TrySize PROVE Inv'
<1>1. /\ pc = "sizing" /\ Keep /\ n' = n
      /\ names' = names /\ key_hash' = key_hash /\ bucket_size' = bucket_size
      /\ outside' = outside
  BY DEF TrySize, Keep, arguments
<1>2. /\ size \in Nat /\ n \in 1 .. Len(names) + 1 /\ ArgInv
      /\ size >= 1 /\ \A i \in 1 .. Len(names) : bucket_size >= EltSize(names[i]) + 1
  BY <1>1 DEF Inv, StageInv
<1>3. \A i \in 1 .. Len(names') : bucket_size' >= EltSize(names'[i]) + 1
  BY <1>1, <1>2
<1>4. CASE Fits(size)
  <2>1. pc' = "found" /\ size' = size
    BY <1>4 DEF TrySize
  <2>2. Snug(Len(names), names, key_hash, size)
    BY <1>2, <1>4, FoundSnug
  <2>3. Snug(Len(names'), names', key_hash', size')
    BY <1>1, <2>1, <2>2
  <2>4. StageInv'
    BY <1>1, <1>2, <1>3, <2>1, <2>3 DEF StageInv, NameIndexes
  <2>5. QED
    BY <1>1, <2>1, <2>4, PlainInv DEF Built
<1>5. CASE ~Fits(size)
  <2>1. pc' = "sizing" /\ size' = size + 1
    BY <1>1, <1>5 DEF TrySize
  <2>2. StageInv'
    BY <1>1, <1>2, <1>3, <2>1 DEF StageInv, NameIndexes
  <2>3. QED
    BY <1>1, <2>1, <2>2, PlainInv DEF Built
<1>6. QED
  BY <1>4, <1>5

LEMMA GiveUpInv == ASSUME Inv, NoSize \/ NoMemory PROVE Inv'
<1>1. /\ pc \in {"sizing", "found"} /\ pc' = "failed" /\ Keep /\ n' = n /\ size' = size
      /\ names' = names /\ outside' = outside
  BY DEF NoSize, NoMemory, Keep, arguments
<1>2. size \in Nat /\ n \in 1 .. Len(names) + 1
  BY DEF Inv, StageInv
<1>3. StageInv'
  BY <1>1, <1>2 DEF StageInv, NameIndexes
<1>4. QED
  BY <1>1, <1>3, PlainInv DEF Built

LEMMA FoundInv == ASSUME Inv, Found PROVE Inv'
<1>1. /\ pc = "found" /\ pc' = "filling" /\ n' = 1 /\ size' = size /\ elts' = elts
      /\ names' = names /\ key_hash' = key_hash /\ bucket_size' = bucket_size
      /\ max_size' = max_size /\ outside' = outside
      /\ room' = Start(size) /\ test' = [row \in Rows |-> 0]
  BY DEF Found, arguments
<1>2. PICK N : N = Len(names)
  OBVIOUS
<1>3. /\ size \in Nat /\ ArgInv
      /\ Snug(N, names, key_hash, size) /\ elts = <<>> /\ outside = {}
  BY <1>1, <1>2 DEF Inv, StageInv, LayoutInv, Built
<1>4. ArgInv'
  BY <1>1, <1>3 DEF ArgInv
<1>5. StageInv'
  <2>1. N \in Nat
    BY <1>2, <1>3 DEF Snug
  <2>2. n' \in 1 .. Len(names') + 1
    BY <1>1, <1>2, <2>1
  <2>3. Snug(Len(names'), names', key_hash', size')
    BY <1>1, <1>2, <1>3
  <2>4. QED
    BY <1>1, <1>3, <2>2, <2>3 DEF StageInv, NameIndexes
<1>6. LayoutInv'
  <2>1. room' = StartOf(names', key_hash', size', size')
    BY <1>1, StartIs
  <2>2. PICK old \in [Empty -> {Null, Elsewhere, NoAddress} \union {At(a) : a \in 0..Start(size) - 1}] :
          buckets' = [row \in Rows |-> IF row \in Empty THEN old[row] ELSE At(Start(row))]
    BY DEF Found
  <2>a. Old' = {Null, Elsewhere, NoAddress} \union {At(a) : a \in 0..Start(size) - 1}
    BY <1>1 DEF Old
  <2>3. Rows' = Rows /\ DOMAIN test' = Rows' /\ DOMAIN buckets' = Rows'
    BY <1>1, <2>2 DEF Rows
  <2>4. ASSUME NEW row \in Rows
        PROVE  /\ test'[row] = LoadOf(names', key_hash', size', row, n' - 1)
               /\ IF LoadOf(names', key_hash', size', row, Len(names')) = 0
                  THEN buckets'[row] \in Old'
                  ELSE buckets'[row] = At(StartOf(names', key_hash', size', row))
    <3>1. Adds(N, names, key_hash, size, row)
      BY <1>3, LoadSteps DEF Snug
    <3>2. LoadOf(names, key_hash, size, row, 0) = 0 /\ 1 - 1 = 0
      BY <3>1 DEF Adds
    <3>3. test'[row] = LoadOf(names', key_hash', size', row, n' - 1)
      BY <1>1, <3>2
    <3>4. row \in 0 .. size - 1
      BY DEF Rows
    <3>5. PICK c : c = LoadOf(names, key_hash, size, row, N)
      OBVIOUS
    <3>6. /\ c \in Nat
          /\ BucketOf(names, key_hash, size, row) = IF c = 0 THEN 0 ELSE c + 1
      BY <1>3, <3>4, <3>5, BucketFits
    <3>7. row \in Empty <=> c = 0
      BY <3>6, BucketIs DEF Empty
    <3>8. row \in Empty => old[row] \in Old'
      BY <2>2, <2>a
    <3>9. buckets'[row] = IF c = 0 THEN old[row] ELSE At(StartOf(names, key_hash, size, row))
      BY <2>2, <3>7, StartIs
    <3>10. QED
      BY <1>1, <1>2, <2>3, <3>3, <3>5, <3>7, <3>8, <3>9
  <2>5. QED
    BY <1>1, <2>1, <2>3, <2>4 DEF LayoutInv, Built
<1>7. ElementInv'
  <2>1. 1 .. n' - 1 = {} /\ DOMAIN elts' = {} /\ pc' # "ready" /\ outside' = {}
    BY <1>1, <1>3
  <2>2. QED
    BY <2>1 DEF ElementInv, OutsideInv
<1>8. QED
  BY <1>4, <1>5, <1>6, <1>7 DEF Inv

LEMMA WrittenIs ==
  ASSUME NEW words
  PROVE  /\ DOMAIN Written(words) = DOMAIN elts \union DOMAIN words
         /\ \A a \in DOMAIN words : Written(words)[a] = words[a]
         /\ \A a \in DOMAIN elts : a \notin DOMAIN words => Written(words)[a] = elts[a]
BY DEF Written

LEMMA FillInv == ASSUME Inv, Fill PROVE Inv'
<1> DEFINE row == key_hash[names[n].word] % size
           a == buckets[row][2] + test[row]
<1>0. PICK r : r = row
  OBVIOUS
<1>1. /\ pc = "filling" /\ pc' = pc /\ n' = n + 1 /\ size' = size
      /\ names' = names /\ key_hash' = key_hash /\ bucket_size' = bucket_size
      /\ max_size' = max_size /\ outside' = outside /\ room' = room /\ buckets' = buckets
      /\ n <= Len(names) /\ buckets[r][1] = "elts"
      /\ test' = [test EXCEPT ![r] = (@ + EltSize(names[n])) % Short]
  BY <1>0 DEF Fill, arguments
<1>2. PICK N : N = Len(names)
  OBVIOUS
<1>3. /\ size \in Nat /\ n \in 1 .. N + 1 /\ ArgInv
      /\ Snug(N, names, key_hash, size)
  BY <1>1, <1>2 DEF Inv, StageInv
<1>4. N \in Nat /\ n \in 1 .. N /\ names \in [1 .. N -> Names] /\ size \in Nat \ {0}
  BY <1>1, <1>2, <1>3 DEF Snug
<1>5. r = Home(names, key_hash, size, n)
  BY <1>0 DEF Home
<1>6. PICK p : p = PlaceOf(names, key_hash, size, n)
  OBVIOUS
<1>7. PICK e : e = EltSize(names[n])
  OBVIOUS
<1>8. PICK end : end = TextEnd(names, key_hash, size, r)
  OBVIOUS
<1>9. /\ r \in 0 .. size - 1 /\ LoadOf(names, key_hash, size, r, N) # 0
      /\ p \in Nat /\ e \in Nat /\ e >= 2 /\ StartOf(names, key_hash, size, r) \in Nat
      /\ p = StartOf(names, key_hash, size, r) + LoadOf(names, key_hash, size, r, n - 1)
      /\ p + e <= end
  <2>1. Placed(N, names, key_hash, size, n, r)
    BY <1>3, <1>4, <1>5, PlacedIn
  <2>2. QED
    BY <2>1, <1>6, <1>7, <1>8 DEF Placed
<1>10. /\ room = StartOf(names, key_hash, size, size)
       /\ DOMAIN test = Rows /\ DOMAIN buckets = Rows
       /\ \A q \in Rows :
            /\ test[q] = LoadOf(names, key_hash, size, q, n - 1)
            /\ IF LoadOf(names, key_hash, size, q, N) = 0
               THEN buckets[q] \in Old
               ELSE buckets[q] = At(StartOf(names, key_hash, size, q))
  BY <1>1, <1>2 DEF Inv, LayoutInv, Built
<1>11. r \in Rows
  BY <1>9 DEF Rows
<1>12. a = p
  <2>1. buckets[r] = At(StartOf(names, key_hash, size, r))
    BY <1>9, <1>10, <1>11
  <2>2. buckets[r][2] = StartOf(names, key_hash, size, r)
    BY <2>1 DEF At
  <2>3. QED
    BY <1>0, <1>9, <1>10, <1>11, <2>2
<1>13. PICK words : /\ words = [w \in a .. a + EltSize(names[n]) - 1 |->
                                  CASE w = a -> n
                                    [] w = a + 1 -> Lower(names[n])
                                    [] OTHER -> "text"]
                    /\ elts' = Written(words)
  BY Zenon DEF Fill
<1>a. DOMAIN words = p .. p + e - 1
  <2> HIDE DEF a
  <2>1. DOMAIN words = a .. a + EltSize(names[n]) - 1
    BY <1>13
  <2>2. QED
    BY <1>7, <1>12, <2>1
<1>b. /\ p \in p .. p + e - 1 /\ p + 1 \in p .. p + e - 1 /\ p + 1 # p
  BY ONLY <1>9
<1>c. words[p] = n /\ words[p + 1] = Lower(names[n])
  <2> HIDE DEF a
  <2>1. \A w \in a .. a + EltSize(names[n]) - 1 :
          words[w] = CASE w = a -> n
                       [] w = a + 1 -> Lower(names[n])
                       [] OTHER -> "text"
    BY <1>13
  <2>2. QED
    BY <1>7, <1>12, <1>b, <2>1
<1>14. /\ DOMAIN elts' = DOMAIN elts \union (p .. p + e - 1)
       /\ \A w \in p .. p + e - 1 : elts'[w] = words[w]
       /\ \A w \in DOMAIN elts : w \notin p .. p + e - 1 => elts'[w] = elts[w]
  BY <1>13, <1>a, WrittenIs
<1>15. /\ end \in Nat /\ end < room /\ room \in Nat
  BY <1>3, <1>8, <1>9, <1>10, BucketRoom
<1>16. ArgInv'
  BY <1>1, <1>3 DEF ArgInv
<1>17. StageInv'
  <2>1. n' \in 1 .. N + 1
    BY <1>1, <1>4
  <2>2. Len(names') = N /\ Snug(Len(names'), names', key_hash', size')
    BY <1>1, <1>2, <1>3
  <2>3. QED
    BY <1>1, <1>3, <2>1, <2>2 DEF StageInv, NameIndexes
<1>18. ASSUME NEW q \in Rows
       PROVE  test'[q] = LoadOf(names, key_hash, size, q, n)
  <2>1. Adds(N, names, key_hash, size, q)
    BY <1>4, LoadSteps
  <2>2. PICK x : x = LoadOf(names, key_hash, size, q, n - 1)
    OBVIOUS
  <2>3. PICK y : y = LoadOf(names, key_hash, size, q, n)
    OBVIOUS
  <2>4. n - 1 \in 0 .. N /\ n \in 0 .. N /\ N \in 0 .. N /\ n <= N
    BY <1>4
  <2>5. x \in Nat /\ y \in Nat /\ y = x + Gain(names, key_hash, size, q, n)
    BY <1>4, <2>1, <2>2, <2>3, <2>4 DEF Adds
  <2>6. test[q] = x
    BY <1>10, <2>2
  <2>7. CASE q = r
    <3>1. Gain(names, key_hash, size, q, n) = e
      BY <1>5, <1>7, <2>7 DEF Gain, Home
    <3>2. y <= LoadOf(names, key_hash, size, r, N) /\ LoadOf(names, key_hash, size, r, N) \in Nat
      BY <1>4, <2>3, <2>4, <2>7, LoadGrows
    <3>3. 1 + LoadOf(names, key_hash, size, r, N) < Short /\ Short \in Nat \ {0}
      BY <1>3, <1>9, HashAssumption DEF Snug
    <3>4. y % Short = y
      BY <2>5, <3>2, <3>3
    <3>5. test'[q] = (x + e) % Short
      BY <1>1, <1>7, <1>10, <1>11, <2>6, <2>7
    <3>6. QED
      BY <2>3, <2>5, <3>1, <3>4, <3>5
  <2>8. CASE q # r
    <3>1. Gain(names, key_hash, size, q, n) = 0
      BY <1>5, <2>8 DEF Gain, Home
    <3>2. test'[q] = x
      BY <1>1, <1>10, <2>6, <2>8
    <3>3. QED
      BY <2>3, <2>5, <3>1, <3>2
  <2>9. QED
    BY <2>7, <2>8
<1>19. LayoutInv'
  <2>1. Rows' = Rows /\ DOMAIN test' = Rows /\ Old' = Old
    BY <1>1, <1>10 DEF Rows, Old
  <2>2. n' - 1 = n
    BY <1>1, <1>4
  <2>3. \A q \in Rows :
          /\ test'[q] = LoadOf(names', key_hash', size', q, n' - 1)
          /\ IF LoadOf(names', key_hash', size', q, Len(names')) = 0
             THEN buckets'[q] \in Old'
             ELSE buckets'[q] = At(StartOf(names', key_hash', size', q))
    BY <1>1, <1>2, <1>10, <1>18, <2>1, <2>2
  <2>4. QED
    BY <1>1, <1>10, <2>1, <2>3 DEF LayoutInv, Built
<1>20. ElementInv'
  <2>1. DOMAIN elts \subseteq 0 .. room - 1 /\ \A i \in 1 .. n - 1 : IsPlaced(i)
    BY <1>1 DEF Inv, ElementInv, Built
  <2>a. outside' = {}
    BY <1>1 DEF Inv, ElementInv, OutsideInv, Built
  <2>2. p .. p + e - 1 \subseteq 0 .. room - 1
    BY <1>9, <1>15
  <2>3. DOMAIN elts' \subseteq 0 .. room' - 1
    BY <1>1, <1>14, <2>1, <2>2
  <2>4. ASSUME NEW i \in 1 .. n PROVE IsPlaced(i)'
    <3>1. PICK b : b = PlaceOf(names, key_hash, size, i)
      OBVIOUS
    <3>2. i \in 1 .. N
      BY <1>4
    <3>3. SUFFICES /\ b \in DOMAIN elts' /\ elts'[b] = i
                   /\ b + 1 \in DOMAIN elts' /\ elts'[b + 1] = Lower(names[i])
      <4>1. Lower(names'[i]) = Lower(names[i])
        BY <1>1
      <4>2. QED
        BY <1>1, <3>1, <4>1 DEF IsPlaced
    <3>4. CASE i = n
      <4>1. b = p
        BY <1>6, <3>1, <3>4
      <4>2. QED
        BY <1>14, <1>b, <1>c, <3>4, <4>1
    <3>5. CASE i # n
      <4>1. i \in 1 .. n - 1 /\ i < n
        BY <1>4, <3>5
      <4>2. /\ b \in DOMAIN elts /\ elts[b] = i
            /\ b + 1 \in DOMAIN elts /\ elts[b + 1] = Lower(names[i])
        BY <2>1, <3>1, <4>1 DEF IsPlaced
      <4>3. /\ b \in Nat /\ EltSize(names[i]) \in Nat /\ EltSize(names[i]) >= 2
        BY <1>3, <3>1, <3>2, PlaceFits
      <4>4. b + EltSize(names[i]) <= p \/ p + e <= b
        BY <1>3, <1>4, <1>6, <1>7, <3>1, <3>2, <4>1, ElementsApart
      <4>5. b \notin p .. p + e - 1 /\ b + 1 \notin p .. p + e - 1
        BY <1>9, <4>3, <4>4
      <4>6. QED
        BY <1>14, <4>2, <4>5
    <3>6. QED
      BY <3>4, <3>5
  <2>5. n' - 1 = n /\ pc' # "ready"
    BY <1>1, <1>4
  <2>6. \A i \in 1 .. n' - 1 : IsPlaced(i)'
    BY <2>4, <2>5
  <2>7. QED
    BY <2>3, <2>5, <2>6, <2>a DEF ElementInv, OutsideInv
<1>21. QED
  BY <1>16, <1>17, <1>19, <1>20 DEF Inv

LEMMA EndInv == ASSUME Inv, End PROVE Inv'
<1>1. /\ pc = "filling" /\ n' = n /\ size' = size
      /\ names' = names /\ key_hash' = key_hash /\ bucket_size' = bucket_size
      /\ max_size' = max_size /\ room' = room /\ buckets' = buckets /\ test' = test
      /\ n > Len(names)
  BY DEF End, arguments
<1>2. PICK N : N = Len(names)
  OBVIOUS
<1>3. /\ size \in Nat /\ n \in 1 .. N + 1 /\ ArgInv
      /\ Snug(N, names, key_hash, size)
  BY <1>1, <1>2 DEF Inv, StageInv
<1>4. N \in Nat /\ n = N + 1 /\ n - 1 = N /\ size \in Nat \ {0}
  BY <1>1, <1>2, <1>3 DEF Snug
<1>5. /\ room = StartOf(names, key_hash, size, size)
      /\ \A q \in Rows :
            /\ test[q] = LoadOf(names, key_hash, size, q, N)
            /\ IF LoadOf(names, key_hash, size, q, N) = 0
               THEN buckets[q] \in Old
               ELSE buckets[q] = At(StartOf(names, key_hash, size, q))
  BY <1>1, <1>2, <1>4 DEF Inv, LayoutInv, Built
<1>6. pc' \in {"ready", "crashed"}
  BY DEF End
<1>8. ArgInv'
  BY <1>1, <1>3 DEF ArgInv
<1>9. StageInv'
  <2>1. Len(names') = N /\ Snug(Len(names'), names', key_hash', size')
    BY <1>1, <1>2, <1>3
  <2>2. QED
    BY <1>1, <1>3, <1>4, <1>6, <2>1 DEF StageInv
<1>10. LayoutInv'
  <2>1. Rows' = Rows /\ Old' = Old
    BY <1>1 DEF Rows, Old
  <2>2. LayoutInv /\ Built /\ Built'
    BY <1>1, <1>6 DEF Inv, Built
  <2>3. QED
    BY <1>1, <2>1, <2>2 DEF LayoutInv
<1>11. DOMAIN elts \subseteq 0 .. room - 1 /\ (\A i \in 1 .. N : IsPlaced(i)) /\ outside = {}
  BY <1>1, <1>4 DEF Inv, ElementInv, OutsideInv, Built
<1>12. ElementInv'
  <2>1. CASE pc' = "crashed"
    <3>1. elts' = elts /\ outside' = outside
      BY <2>1 DEF End
    <3>2. \A i \in 1 .. n' - 1 : IsPlaced(i)'
      BY <1>1, <1>4, <1>11, <3>1 DEF IsPlaced
    <3>3. QED
      BY <1>1, <1>11, <2>1, <3>1, <3>2 DEF ElementInv, OutsideInv
  <2>2. CASE pc' # "crashed"
    <3> DEFINE rows == {q \in Rows : buckets[q][1] = "elts"}
    <3>1. PICK ends : ends = {buckets[q][2] + test[q] : q \in rows}
      OBVIOUS
    <3>2. PICK words : words = [w \in ends |-> 0] /\ elts' = Written(words) /\ pc' = "ready"
      BY <2>2, <3>1 DEF End
    <3>a. DOMAIN words = ends /\ \A w \in ends : words[w] = 0
      BY <3>2
    <3>3. /\ DOMAIN elts' = DOMAIN elts \union ends
          /\ \A w \in ends : elts'[w] = 0
          /\ \A w \in DOMAIN elts : w \notin ends => elts'[w] = elts[w]
      BY <3>2, <3>a, WrittenIs
    <3>4. ASSUME NEW q \in Rows, q \in rows
          PROVE  \/ /\ LoadOf(names, key_hash, size, q, N) # 0
                    /\ buckets[q][2] + test[q] = TextEnd(names, key_hash, size, q)
                 \/ /\ LoadOf(names, key_hash, size, q, N) = 0
                    /\ buckets[q][2] + test[q] \in 0 .. room - 1
                    /\ buckets[q] = At(buckets[q][2] + test[q])
      <4>1. CASE LoadOf(names, key_hash, size, q, N) # 0
        <5>1. buckets[q][2] = StartOf(names, key_hash, size, q)
          BY <1>5, <4>1 DEF At
        <5>2. QED
          BY <1>2, <1>5, <4>1, <5>1 DEF TextEnd
      <4>2. CASE LoadOf(names, key_hash, size, q, N) = 0
        <5>1. buckets[q] \in Old /\ test[q] = 0 /\ buckets[q][1] = "elts"
          BY <1>5, <3>4, <4>2
        <5>2. buckets[q] \notin {Null, Elsewhere, NoAddress}
          BY <5>1 DEF Null, Elsewhere, NoAddress
        <5>3. PICK a \in 0 .. room - 1 : buckets[q] = At(a)
          BY <5>1, <5>2 DEF Old
        <5>4. buckets[q][2] = a /\ a + 0 = a
          BY <5>3 DEF At
        <5>5. QED
          BY <4>2, <5>1, <5>3, <5>4
      <4>3. QED
        BY <4>1, <4>2
    <3>5. \A w \in ends : \E q \in Rows : q \in rows /\ w = buckets[q][2] + test[q]
      BY <3>1
    <3>6. \A q \in Rows : q \in rows => buckets[q][2] + test[q] \in ends
      BY <3>1
    <3>b. \A q \in Rows : q \in rows <=> buckets[q][1] = "elts"
      OBVIOUS
    <3> HIDE DEF rows
    <3>7. ASSUME NEW w \in ends
          PROVE  /\ w \in 0 .. room - 1
                 /\ \A i \in 1 .. N : \/ Hit(Home(names, key_hash, size, i))
                                      \/ /\ w # PlaceOf(names, key_hash, size, i)
                                         /\ w # PlaceOf(names, key_hash, size, i) + 1
      <4>1. PICK q \in Rows : q \in rows /\ w = buckets[q][2] + test[q]
        BY <3>5
      <4>2. q \in 0 .. size - 1
        BY DEF Rows
      <4>3. CASE LoadOf(names, key_hash, size, q, N) # 0
        <5>1. w = TextEnd(names, key_hash, size, q)
          BY <3>4, <4>1, <4>3
        <5>2. w \in Nat /\ w < room /\ room \in Nat
          BY <1>3, <1>5, <4>2, <4>3, <5>1, BucketRoom
        <5>3. ASSUME NEW i \in 1 .. N
              PROVE  /\ w # PlaceOf(names, key_hash, size, i)
                     /\ w # PlaceOf(names, key_hash, size, i) + 1
          <6>1. /\ PlaceOf(names, key_hash, size, i) \in Nat
                /\ EltSize(names[i]) \in Nat /\ EltSize(names[i]) >= 2
            BY <1>3, PlaceFits
          <6>2. \/ PlaceOf(names, key_hash, size, i) + EltSize(names[i]) <= w
                \/ w < PlaceOf(names, key_hash, size, i)
            BY <1>3, <4>2, <4>3, <5>1, EndsApart
          <6>3. QED
            BY <5>2, <6>1, <6>2
        <5>4. QED
          BY <5>2, <5>3
      <4>4. CASE LoadOf(names, key_hash, size, q, N) = 0
        <5>1. w \in 0 .. room - 1 /\ buckets[q] = At(w)
          BY <3>4, <4>1, <4>4
        <5>2. ASSUME NEW i \in 1 .. N, NEW x \in {0, 1},
                     w = PlaceOf(names, key_hash, size, i) + x
              PROVE  Hit(Home(names, key_hash, size, i))
          <6>1. PICK row : row = Home(names, key_hash, size, i)
            OBVIOUS
          <6>2. PICK p : p = PlaceOf(names, key_hash, size, i)
            OBVIOUS
          <6>3. PICK b : b = StartOf(names, key_hash, size, row)
            OBVIOUS
          <6>4. PICK l : l = LoadOf(names, key_hash, size, row, N)
            OBVIOUS
          <6>5. PICK e : e = EltSize(names[i])
            OBVIOUS
          <6>6. /\ row \in 0 .. size - 1 /\ p \in Nat /\ b \in Nat /\ b <= p
                /\ e \in Nat /\ e >= 2 /\ p + e <= TextEnd(names, key_hash, size, row)
            BY <1>3, <6>1, <6>2, <6>3, <6>5, PlaceFits
          <6>7. l \in Nat /\ TextEnd(names, key_hash, size, row) = b + l
            BY <1>2, <1>3, <6>3, <6>4, <6>6, BucketFits DEF TextEnd
          <6>8. (p + x) - b \in 0 .. l - 1 /\ b + ((p + x) - b) = p + x
            BY ONLY <6>6, <6>7, x \in {0, 1}
          <6>9. QED
            BY <1>2, <4>4, <5>1, <5>2, <6>1, <6>2, <6>3, <6>4, <6>8 DEF Hit
        <5>3. ASSUME NEW i \in 1 .. N
              PROVE  \/ Hit(Home(names, key_hash, size, i))
                     \/ /\ w # PlaceOf(names, key_hash, size, i)
                        /\ w # PlaceOf(names, key_hash, size, i) + 1
          <6>1. PlaceOf(names, key_hash, size, i) \in Nat
            BY <1>3, PlaceFits
          <6>2. PlaceOf(names, key_hash, size, i) + 0 = PlaceOf(names, key_hash, size, i)
            BY <6>1
          <6>3. QED
            BY <5>2, <6>2
        <5>4. QED
          BY <5>1, <5>3
      <4>5. QED
        BY <4>3, <4>4
    <3>8. DOMAIN elts' \subseteq 0 .. room' - 1
      BY <1>1, <1>11, <3>3, <3>7
    <3>9. ASSUME NEW i \in 1 .. N, ~Hit(Home(names, key_hash, size, i)) PROVE IsPlaced(i)'
      <4>1. PICK b : b = PlaceOf(names, key_hash, size, i)
        OBVIOUS
      <4>2. /\ b \in DOMAIN elts /\ elts[b] = i
            /\ b + 1 \in DOMAIN elts /\ elts[b + 1] = Lower(names[i])
        BY <1>11, <4>1 DEF IsPlaced
      <4>3. b \notin ends /\ b + 1 \notin ends
        BY <3>7, <3>9, <4>1
      <4>4. /\ b \in DOMAIN elts' /\ elts'[b] = i
            /\ b + 1 \in DOMAIN elts' /\ elts'[b + 1] = Lower(names[i])
        BY <3>3, <4>2, <4>3
      <4>5. Lower(names'[i]) = Lower(names[i])
        BY <1>1
      <4>6. QED
        BY <1>1, <4>1, <4>4, <4>5 DEF IsPlaced
    <3>10. ASSUME NEW q \in Rows PROVE IsEnded(q)'
      <4>1. buckets[q][1] = "elts" =>
              buckets[q][2] + LoadOf(names, key_hash, size, q, N) \in ends
        BY <1>5, <3>6, <3>b
      <4>2. QED
        BY <1>1, <1>2, <3>3, <4>1 DEF IsEnded
    <3>11. Rows' = Rows /\ n' - 1 = N
      BY <1>1, <1>4 DEF Rows
    <3>12. ASSUME NEW i \in 1 .. N
           PROVE  Hit(Home(names, key_hash, size, i))' \/ IsPlaced(i)'
      <4>1. Hit(Home(names, key_hash, size, i)) => Hit(Home(names, key_hash, size, i))'
        BY <1>1, <3>11 DEF Hit
      <4>2. QED
        BY <3>9, <4>1
    <3>13. \A q \in Rows' : IsEnded(q)'
      BY <3>10, <3>11
    <3>14. OutsideInv'
      <4>1. ASSUME NEW q \in Rows, buckets[q] = Elsewhere
            PROVE  LoadOf(names, key_hash, size, q, N) = 0
        BY <1>5, <4>1 DEF Elsewhere, At
      <4>2. outside' = {q \in Rows : buckets[q] = Elsewhere}
        BY <1>11, <2>2 DEF End
      <4>3. QED
        BY <1>1, <1>2, <3>2, <3>11, <4>1, <4>2 DEF OutsideInv
    <3>15. QED
      BY <3>2, <3>8, <3>11, <3>12, <3>13, <3>14 DEF ElementInv
  <2>3. QED
    BY <2>1, <2>2
<1>13. QED
  BY <1>8, <1>9, <1>10, <1>12 DEF Inv

(* With words that are counted, each name has a bucket with memory.        *)
LEMMA NoUnset == ASSUME Inv, FillUnset PROVE FALSE
<1>1. PICK r : r = key_hash[names[n].word] % size
  OBVIOUS
<1>2. /\ pc = "filling" /\ n <= Len(names) /\ buckets[r][1] # "elts"
  BY <1>1 DEF FillUnset
<1>3. PICK N : N = Len(names)
  OBVIOUS
<1>4. Snug(N, names, key_hash, size) /\ n \in 1 .. N + 1
  BY <1>2, <1>3 DEF Inv, StageInv
<1>5. n \in 1 .. N
  BY <1>2, <1>3, <1>4 DEF Snug
<1>6. r = Home(names, key_hash, size, n)
  BY <1>1 DEF Home
<1>7. r \in 0 .. size - 1 /\ LoadOf(names, key_hash, size, r, N) # 0
  BY <1>4, <1>5, <1>6, PlaceFits
<1>8. buckets[r] = At(StartOf(names, key_hash, size, r))
  BY <1>2, <1>3, <1>7 DEF Inv, LayoutInv, Built, Rows
<1>9. QED
  BY <1>2, <1>8 DEF At

LEMMA NextInv == Counted /\ Inv /\ [Next]_vars => Inv'
<1> SUFFICES ASSUME Counted, Inv, [Next]_vars PROVE Inv'
  OBVIOUS
<1>1. CASE CheckNames
  BY <1>1, CheckInv
<1>2. CASE TrySize
  BY <1>2, TryInv
<1>3. CASE NoSize \/ NoMemory
  BY <1>3, GiveUpInv
<1>4. CASE Found
  BY <1>4, FoundInv
<1>5. CASE Fill
  BY <1>5, FillInv
<1>6. CASE End
  BY <1>6, EndInv
<1>a. CASE FillUnset
  BY <1>a, NoUnset
<1>7. CASE UNCHANGED vars
  BY <1>7 DEF vars, arguments, Inv, ArgInv, StageInv, LayoutInv, ElementInv, Built, Rows, Old,
              NameIndexes, Hit, IsPlaced, IsEnded, OutsideInv
<1>8. QED
  BY <1>1, <1>2, <1>3, <1>4, <1>5, <1>6, <1>7, <1>a DEF Next

LEMMA SameArguments == [Next]_vars => UNCHANGED arguments
<1>1. Next => UNCHANGED arguments
  <2>1. CheckNames \/ TrySize \/ NoSize \/ NoMemory => UNCHANGED arguments
    BY DEF CheckNames, TrySize, NoSize, NoMemory, Keep
  <2>2. Found \/ End => UNCHANGED arguments
    BY DEF Found, End
  <2>3. Fill \/ FillUnset => UNCHANGED arguments
    BY DEF Fill, FillUnset
  <2>4. QED
    BY <2>1, <2>2, <2>3 DEF Next
<1>2. UNCHANGED vars => UNCHANGED arguments
  BY DEF vars, arguments
<1>3. QED
  BY <1>1, <1>2

(* The inductive invariant, whatever lay in the memory of the bucket array *)
(* before: the names that were written are where the sizes of the buckets  *)
(* put them, unless the null word of an empty bucket is written over one,  *)
(* and each bucket that has a name ends with a null word (ms_hash_init,    *)
(* core/ms_hash.c:46-181).                                                 *)
THEOREM HashStaysSound == Spec => [](Counted => Inv)
<1>1. Init => (Counted => Inv)
  BY InitInv
<1>2. (Counted => Inv) /\ [Next]_vars => (Counted => Inv)'
  <2>1. [Next]_vars => (Counted <=> Counted')
    BY SameArguments DEF Counted, BucketWords, arguments
  <2>2. QED
    BY <2>1, NextInv
<1>3. QED
  BY <1>1, <1>2, PTL DEF Spec

(* What ms_hash_init measures in its first pass over the names is what it  *)
(* writes in its second: no name and no end of a bucket is written outside *)
(* of the allocation, and what else is written elsewhere are null words    *)
(* through entries that were never set.                                    *)
THEOREM StaysInAllocation == Spec => []InAllocation
<1>1. ASSUME Inv PROVE InAllocation
  <2>1. CASE Built
    BY <1>1, <2>1, LoadIs DEF Inv, ElementInv, OutsideInv, InAllocation
  <2>2. CASE ~Built
    BY <1>1, <2>2 DEF Inv, LayoutInv, InAllocation
  <2>3. QED
    BY <2>1, <2>2
<1>2. (Counted => Inv) => InAllocation
  BY <1>1 DEF InAllocation
<1>3. QED
  BY <1>2, HashStaysSound, PTL

-----------------------------------------------------------------------------
(* The form of the hash does not depend on its words being counted.        *)
TypeInv ==
  /\ ArgInv /\ TypeOK
  /\ pc # "check" => size >= 1 \/ pc = "failed"
  /\ pc = "check" => buckets = <<>> /\ outside = {}

LEMMA StartsInside ==
  ASSUME ArgInv, size \in Nat
  PROVE  /\ Start(size) \in Nat
         /\ \A row \in Rows : row \notin Empty => Start(row) \in 0 .. Start(size) - 1
<1>1. PICK N \in Nat \ {0} : N = Len(names) /\ names \in [1 .. N -> Names]
  BY DEF ArgInv
<1>2. /\ \A row \in 0 .. size : StartOf(names, key_hash, size, row) \in Nat
      /\ \A row \in 0 .. size - 1 :
           /\ BucketOf(names, key_hash, size, row) \in Nat
           /\ StartOf(names, key_hash, size, row + 1)
                = StartOf(names, key_hash, size, row) + BucketOf(names, key_hash, size, row)
      /\ \A i, j \in 0 .. size : i <= j =>
           StartOf(names, key_hash, size, i) <= StartOf(names, key_hash, size, j)
  BY <1>1, StartSteps
<1>3. ASSUME NEW row \in Rows, row \notin Empty PROVE Start(row) \in 0 .. Start(size) - 1
  <2>1. row \in 0 .. size - 1 /\ row \in 0 .. size /\ row + 1 \in 0 .. size /\ row + 1 <= size
        /\ size \in 0 .. size
    BY DEF Rows
  <2>2. BucketOf(names, key_hash, size, row) # 0
    BY <1>3, BucketIs DEF Empty
  <2>3. /\ StartOf(names, key_hash, size, row + 1) <= StartOf(names, key_hash, size, size)
        /\ StartOf(names, key_hash, size, row + 1)
             = StartOf(names, key_hash, size, row) + BucketOf(names, key_hash, size, row)
        /\ BucketOf(names, key_hash, size, row) \in Nat
        /\ StartOf(names, key_hash, size, row) \in Nat
        /\ StartOf(names, key_hash, size, size) \in Nat
    BY <1>2, <2>1
  <2>4. StartOf(names, key_hash, size, row) \in 0 .. StartOf(names, key_hash, size, size) - 1
    BY <2>2, <2>3
  <2>5. QED
    BY <2>4, StartIs
<1>4. Start(size) \in Nat
  BY <1>2, StartIs
<1>5. QED
  BY <1>3, <1>4

LEMMA TypeInvStep == ASSUME TypeInv, [Next]_vars PROVE TypeInv'
<1>1. UNCHANGED arguments
  BY SameArguments
<1>2. ArgInv'
  BY <1>1 DEF TypeInv, ArgInv, arguments
<1>3. PICK N \in Nat \ {0} : N = Len(names) /\ ArgInv
  BY DEF TypeInv, ArgInv
<1>4. Len(names') = N
  BY <1>1, <1>3 DEF arguments
<1>5. /\ size \in Nat /\ n \in 1 .. N + 1 /\ room \in Nat /\ outside \subseteq Rows
      /\ \A row \in DOMAIN buckets :
           buckets[row] \in {Null, Elsewhere, NoAddress} \union {At(a) : a \in 0..room - 1}
  BY <1>3 DEF TypeInv, TypeOK
<1>6. CASE CheckNames
  <2>1. /\ pc' \in {"sizing", "failed"} /\ n' = n /\ buckets' = buckets /\ room' = room
        /\ outside' = outside /\ outside = {}
    BY <1>6 DEF CheckNames, Keep, TypeInv
  <2>2. size' \in Nat /\ (pc' = "sizing" => size' >= 1)
    <3>1. CASE \A i \in NameIndexes : bucket_size >= EltSize(names[i]) + 1
      <4>1. FirstSize \in Nat /\ FirstSize >= 1
        BY <1>3, <3>1, FirstSizeType DEF NameIndexes
      <4>2. QED
        BY <1>6, <3>1, <4>1 DEF CheckNames
    <3>2. CASE ~ \A i \in NameIndexes : bucket_size >= EltSize(names[i]) + 1
      BY <1>5, <1>6, <3>2 DEF CheckNames
    <3>3. QED
      BY <3>1, <3>2
  <2>3. QED
    BY <1>2, <1>4, <1>5, <2>1, <2>2 DEF TypeInv, TypeOK
<1>7. CASE TrySize \/ NoSize \/ NoMemory
  <2>1. /\ pc' \in {"sizing", "found", "failed"} /\ n' = n /\ buckets' = buckets /\ room' = room
        /\ outside' = outside /\ pc \in {"sizing", "found"}
        /\ (size' = size \/ size' = size + 1)
    BY <1>7 DEF TrySize, NoSize, NoMemory, Keep
  <2>2. size >= 1
    BY <2>1 DEF TypeInv
  <2>3. size' \in Nat /\ size' >= 1 /\ Rows \subseteq Rows'
    BY <1>5, <2>1, <2>2 DEF Rows
  <2>4. QED
    BY <1>2, <1>4, <1>5, <2>1, <2>3 DEF TypeInv, TypeOK
<1>8. CASE Found
  <2>1. PICK old \in [Empty -> {Null, Elsewhere, NoAddress} \union {At(a) : a \in 0..Start(size) - 1}] :
          buckets' = [row \in Rows |-> IF row \in Empty THEN old[row] ELSE At(Start(row))]
    BY <1>8 DEF Found
  <2>2. /\ pc = "found" /\ pc' = "filling" /\ n' = 1 /\ size' = size /\ room' = Start(size)
        /\ outside' = outside
    BY <1>8 DEF Found
  <2>3. Rows' = Rows /\ size >= 1 /\ Start(size) \in Nat
    BY <1>3, <1>5, <2>2, StartsInside DEF Rows, TypeInv
  <2>4. ASSUME NEW row \in DOMAIN buckets'
        PROVE  buckets'[row] \in {Null, Elsewhere, NoAddress} \union {At(a) : a \in 0..Start(size) - 1}
    <3>1. row \in Rows /\ buckets'[row] = IF row \in Empty THEN old[row] ELSE At(Start(row))
      BY <2>1
    <3>2. row \notin Empty => Start(row) \in 0 .. Start(size) - 1
      BY <1>3, <1>5, <3>1, StartsInside
    <3>3. row \in Empty => old[row] \in {Null, Elsewhere, NoAddress} \union {At(a) : a \in 0..Start(size) - 1}
      BY <2>1
    <3>4. QED
      BY <3>1, <3>2, <3>3
  <2>5. QED
    BY <1>2, <1>4, <1>5, <2>2, <2>3, <2>4 DEF TypeInv, TypeOK
<1>9. CASE Fill \/ FillUnset \/ End
  <2>1. /\ pc = "filling" /\ pc' \in {"filling", "ready", "crashed"} /\ size' = size
        /\ room' = room /\ buckets' = buckets
    BY <1>9 DEF Fill, FillUnset, End
  <2>2. size >= 1 /\ Rows' = Rows
    BY <2>1 DEF TypeInv, Rows
  <2>3. n' \in 1 .. N + 1 /\ outside' \subseteq Rows
    <3>1. CASE Fill
      <4>1. n <= Len(names) /\ n' = n + 1 /\ outside' = outside
        BY <3>1 DEF Fill
      <4>2. QED
        BY <1>3, <1>5, <4>1
    <3>2. CASE FillUnset
      <4>1. PICK row : row = key_hash[names[n].word] % size
        OBVIOUS
      <4>2. /\ n <= Len(names) /\ (n' = n \/ n' = n + 1)
            /\ (outside' = outside \/ outside' = outside \union {row})
        BY <3>2, <4>1 DEF FillUnset
      <4>3. n \in 1 .. N
        BY <1>3, <1>5, <4>2
      <4>4. names[n] \in Names
        BY <1>3, <4>3 DEF ArgInv
      <4>5. key_hash[names[n].word] \in Nat
        BY <1>3, <4>4, HashAssumption DEF ArgInv, Names
      <4>6. row \in Rows
        BY <1>5, <2>2, <4>1, <4>5 DEF Rows
      <4>7. QED
        BY <1>5, <4>2, <4>3, <4>6
    <3>3. CASE End
      BY <1>5, <3>3 DEF End
    <3>4. QED
      BY <1>9, <3>1, <3>2, <3>3
  <2>4. QED
    BY <1>2, <1>4, <1>5, <2>1, <2>2, <2>3 DEF TypeInv, TypeOK
<1>10. CASE UNCHANGED vars
  BY <1>10 DEF vars, TypeInv, TypeOK, ArgInv, Rows
<1>11. QED
  BY <1>6, <1>7, <1>8, <1>9, <1>10 DEF Next

(* The hash keeps its form, whether its words are counted or wrap: an      *)
(* entry of the bucket array is an address in the memory that was          *)
(* allocated, or what lay there before (ms_hash_init).                     *)
THEOREM TypeCorrect == Spec => []TypeOK
<1>1. Init => TypeInv
  <2>1. Init => ArgInv /\ size = 0 /\ n \in 1 .. Len(names) + 1
    BY InitInv DEF Inv, StageInv, Init
  <2>2. QED
    BY <2>1 DEF Init, TypeInv, TypeOK
<1>2. TypeInv /\ [Next]_vars => TypeInv'
  BY TypeInvStep
<1>3. TypeInv => TypeOK
  BY DEF TypeInv
<1>4. QED
  BY <1>1, <1>2, <1>3, PTL DEF Spec

-----------------------------------------------------------------------------
(* Looking a name up.                                                      *)
Step(query, a) ==
  IF a = room \/ elts[a] = 0 \/ elts[a + 1] = query THEN a ELSE a + EltSize(elts[a + 1])

IsWalk(w, x, query, r) == w[0] = x /\ \A k \in 1 .. r : w[k] = Step(query, w[k - 1])

LEMMA WalkExists ==
  ASSUME NEW N \in Nat, NEW x, NEW query
  PROVE  \E w : IsWalk(w, x, query, N)
<1> DEFINE S == {r \in 0 .. N : \E w : IsWalk(w, x, query, r)}
<1>1. 0 \in S
  <2>1. PICK w : w = [m \in 0 .. 0 |-> x]
    OBVIOUS
  <2>2. IsWalk(w, x, query, 0)
    BY <2>1 DEF IsWalk
  <2>3. QED
    BY <2>2
<1>2. ASSUME NEW r \in Nat, r < N, r \in S PROVE r + 1 \in S
  <2>1. PICK w : IsWalk(w, x, query, r)
    BY <1>2
  <2>2. PICK u : u = [m \in 0 .. r + 1 |-> IF m = r + 1 THEN Step(query, w[r]) ELSE w[m]]
    OBVIOUS
  <2>3. u[0] = x
    BY <2>1, <2>2 DEF IsWalk
  <2>4. ASSUME NEW m \in 1 .. r + 1 PROVE u[m] = Step(query, u[m - 1])
    <3>1. m - 1 \in 0 .. r + 1 /\ m - 1 # r + 1 /\ m \in 0 .. r + 1
      OBVIOUS
    <3>2. u[m - 1] = w[m - 1]
      BY <2>2, <3>1
    <3>3. CASE m = r + 1
      <4>1. u[m] = Step(query, w[r]) /\ m - 1 = r
        BY <2>2, <3>1, <3>3
      <4>2. QED
        BY <3>2, <4>1
    <3>4. CASE m # r + 1
      <4>1. m \in 1 .. r
        BY <3>4
      <4>2. u[m] = w[m] /\ w[m] = Step(query, w[m - 1])
        BY <2>1, <2>2, <3>1, <3>4, <4>1 DEF IsWalk
      <4>3. QED
        BY <3>2, <4>2
    <3>5. QED
      BY <3>3, <3>4
  <2>5. IsWalk(u, x, query, r + 1)
    BY <2>3, <2>4 DEF IsWalk
  <2>6. r + 1 \in 0 .. N
    BY <1>2
  <2>7. QED
    BY <2>5, <2>6
<1>3. N \in S
  <2> HIDE DEF S
  <2>1. \A k \in 0 .. N : k \in S
    BY <1>1, <1>2, UpTo
  <2>2. QED
    BY <2>1
<1>4. QED
  BY <1>3

LEMMA FindIs ==
  ASSUME Len(names) \in Nat, NEW query, NEW entry,
         entry = buckets[key_hash[query.word] % size]
  PROVE  \E w : /\ IsWalk(w, entry[2], query, Len(names))
                /\ ms_hash_find(query) =
                     IF entry[1] # "elts" \/ w[Len(names)] = room \/ elts[w[Len(names)]] = 0
                     THEN 0 ELSE elts[w[Len(names)]]
<1>1. PICK N \in Nat : N = Len(names)
  OBVIOUS
<1> DEFINE loop(f) == [k \in 0..N |->
        IF k = 0 THEN entry[2]
        ELSE IF (f[k - 1] = room \/ elts[f[k - 1]] = 0) \/ elts[f[k - 1] + 1] = query
             THEN f[k - 1]
             ELSE f[k - 1] + EltSize(elts[f[k - 1] + 1])]
<1>2. ASSUME NEW f, NEW k \in 0 .. N
      PROVE  loop(f)[k] = IF k = 0 THEN entry[2] ELSE Step(query, f[k - 1])
  BY DEF Step
<1>3. PICK v : IsWalk(v, entry[2], query, N)
  BY WalkExists
<1>4. PICK u : u = [k \in 0 .. N |-> v[k]]
  OBVIOUS
<1>5. u = loop(u)
  <2>1. ASSUME NEW k \in 0 .. N PROVE u[k] = loop(u)[k]
    <3>1. CASE k = 0
      <4>1. u[k] = entry[2]
        BY <1>3, <1>4, <3>1 DEF IsWalk
      <4> HIDE DEF loop
      <4>2. QED
        BY <1>2, <3>1, <4>1
    <3>2. CASE k # 0
      <4>1. k \in 1 .. N /\ k - 1 \in 0 .. N
        BY <3>2
      <4>2. u[k] = Step(query, u[k - 1])
        BY <1>3, <1>4, <4>1 DEF IsWalk
      <4> HIDE DEF loop
      <4>3. QED
        BY <1>2, <3>2, <4>2
    <3>3. QED
      BY <3>1, <3>2
  <2>2. u = [k \in 0 .. N |-> u[k]]
    BY <1>4
  <2>3. loop(u) = [k \in 0 .. N |-> loop(u)[k]]
    OBVIOUS
  <2> HIDE DEF loop
  <2>4. QED
    BY <2>1, <2>2, <2>3
<1>6. PICK w : w = CHOOSE f : f = loop(f)
  OBVIOUS
<1>7. w = loop(w)
  <2> HIDE DEF loop
  <2>1. QED
    BY <1>5, <1>6
<1>8. ms_hash_find(query) =
        IF entry[1] # "elts" \/ (w[N] = room \/ elts[w[N]] = 0) THEN 0 ELSE elts[w[N]]
  BY <1>1, <1>6 DEF ms_hash_find
<1>9. IsWalk(w, entry[2], query, N)
  <2>1. 0 \in 0 .. N /\ \A k \in 1 .. N : k \in 0 .. N /\ k # 0
    OBVIOUS
  <2>2. loop(w)[0] = entry[2] /\ \A k \in 1 .. N : loop(w)[k] = Step(query, w[k - 1])
    <3> HIDE DEF loop
    <3>1. QED
      BY <1>2, <2>1
  <2> HIDE DEF loop
  <2>3. QED
    BY <1>7, <2>2 DEF IsWalk
<1> HIDE DEF loop
<1>10. QED
  BY <1>1, <1>8, <1>9

(* Behind the first j names, a bucket ends or has the next of its names.   *)
LEMMA NextElement ==
  ASSUME NEW N, NEW ns, NEW kh, NEW s, Snug(N, ns, kh, s), NEW row, NEW j \in 0 .. N
  PROVE  \/ /\ LoadOf(ns, kh, s, row, j) = LoadOf(ns, kh, s, row, N)
            /\ \A i \in j + 1 .. N : Home(ns, kh, s, i) # row
         \/ \E i \in j + 1 .. N :
              /\ Home(ns, kh, s, i) = row
              /\ LoadOf(ns, kh, s, row, i - 1) = LoadOf(ns, kh, s, row, j)
              /\ \A m \in j + 1 .. i - 1 : Home(ns, kh, s, m) # row
<1>0. N \in Nat /\ ns \in [1 .. N -> Names]
  BY DEF Snug
<1> DEFINE T == {i \in j + 1 .. N : Home(ns, kh, s, i) = row}
<1>1. CASE T = {}
  <2>1. \A i \in j + 1 .. N : Home(ns, kh, s, i) # row
    BY <1>1
  <2>2. \A i \in j + 1 .. N : kh[ns[i].word] % s # row
    BY <2>1 DEF Home
  <2>3. N \in 0 .. N /\ j <= N
    BY <1>0
  <2>4. LoadOf(ns, kh, s, row, j) = LoadOf(ns, kh, s, row, N)
    BY <1>0, <2>2, <2>3, LoadConst
  <2>5. QED
    BY <2>1, <2>4
<1>2. CASE T # {}
  <2>1. T \in SUBSET Nat
    BY <1>0
  <2>2. PICK i \in T : \A k \in T : i <= k
    <3> HIDE DEF T
    <3>1. QED
      BY <1>2, <2>1, LeastNat
  <2>3. i \in j + 1 .. N /\ Home(ns, kh, s, i) = row
    OBVIOUS
  <2>4. ASSUME NEW m \in j + 1 .. i - 1 PROVE Home(ns, kh, s, m) # row
    <3>1. m \in j + 1 .. N /\ ~(i <= m)
      BY <1>0, <2>3
    <3>2. QED
      BY <2>2, <3>1
  <2>5. \A m \in j + 1 .. i - 1 : kh[ns[m].word] % s # row
    BY <2>4 DEF Home
  <2>6. i - 1 \in 0 .. N /\ j <= i - 1
    BY <1>0, <2>3
  <2>7. LoadOf(ns, kh, s, row, j) = LoadOf(ns, kh, s, row, i - 1)
    BY <1>0, <2>5, <2>6, LoadConst
  <2>8. QED
    BY <2>3, <2>4, <2>7
<1>3. QED
  BY <1>1, <1>2

LEMMA LowerIs ==
  ASSUME NEW nm \in Names
  PROVE  /\ Lower(nm) = [word |-> nm.word, capitals |-> FALSE]
         /\ Lower(nm).word = nm.word
<1>1. PICK l : l = Lower(nm)
  OBVIOUS
<1>2. l.word = nm.word /\ l.capitals = FALSE /\ l \in [word: Words, capitals: BOOLEAN]
  BY <1>1 DEF Names, Lower
<1>3. l = [word |-> l.word, capitals |-> l.capitals]
  BY <1>2
<1>4. QED
  BY <1>1, <1>2, <1>3

(* What a step of the walk finds behind the first j names of a bucket.     *)
LEMMA StepIs ==
  ASSUME Inv, pc = "ready", NEW N, N = Len(names), NEW word \in Words, NEW query,
         query = [word |-> word, capitals |-> FALSE],
         NEW row \in Rows, ~Hit(row), NEW j \in 0 .. N, NEW a,
         LoadOf(names, key_hash, size, row, N) # 0,
         a = StartOf(names, key_hash, size, row) + LoadOf(names, key_hash, size, row, j)
  PROVE  \/ /\ elts[a] = 0
            /\ \A i \in j + 1 .. N : Home(names, key_hash, size, i) # row
         \/ \E i \in j + 1 .. N :
              /\ a # room /\ elts[a] = i /\ elts[a] # 0
              /\ \A m \in j + 1 .. i - 1 : Home(names, key_hash, size, m) # row
              /\ IF names[i].word = word
                 THEN Step(query, a) = a
                 ELSE /\ Step(query, a) = StartOf(names, key_hash, size, row)
                                            + LoadOf(names, key_hash, size, row, i)
                      /\ Step(query, a) # a
<1>0. /\ Snug(N, names, key_hash, size) /\ n = N + 1
      /\ room = StartOf(names, key_hash, size, size)
      /\ \A i \in 1 .. n - 1 : Home(names, key_hash, size, i) = row => IsPlaced(i)
      /\ IsEnded(row) /\ buckets[row] = At(StartOf(names, key_hash, size, row))
  BY DEF Inv, StageInv, LayoutInv, ElementInv, Built
<1>1. N \in Nat /\ names \in [1 .. N -> Names] /\ n - 1 = N
  BY <1>0 DEF Snug
<1>2. row \in 0 .. size - 1
  BY DEF Rows
<1>3. CASE /\ LoadOf(names, key_hash, size, row, j) = LoadOf(names, key_hash, size, row, N)
           /\ \A i \in j + 1 .. N : Home(names, key_hash, size, i) # row
  <2>1. a = buckets[row][2] + LoadOf(names, key_hash, size, row, Len(names))
    BY <1>0, <1>3 DEF At
  <2>2. elts[a] = 0
    BY <1>0, <2>1 DEF IsEnded, At
  <2>3. QED
    BY <1>3, <2>2
<1>4. ASSUME NEW i \in j + 1 .. N,
             Home(names, key_hash, size, i) = row,
             LoadOf(names, key_hash, size, row, i - 1) = LoadOf(names, key_hash, size, row, j),
             \A m \in j + 1 .. i - 1 : Home(names, key_hash, size, m) # row
      PROVE  \E x \in j + 1 .. N :
              /\ a # room /\ elts[a] = x /\ elts[a] # 0
              /\ \A m \in j + 1 .. x - 1 : Home(names, key_hash, size, m) # row
              /\ IF names[x].word = word
                 THEN Step(query, a) = a
                 ELSE /\ Step(query, a) = StartOf(names, key_hash, size, row)
                                            + LoadOf(names, key_hash, size, row, x)
                      /\ Step(query, a) # a
  <2>1. i \in 1 .. N /\ i # 0
    BY <1>1
  <2>2. PICK e : e = EltSize(names[i])
    OBVIOUS
  <2>3. PICK end : end = TextEnd(names, key_hash, size, row)
    OBVIOUS
  <2>4. /\ PlaceOf(names, key_hash, size, i) \in Nat /\ e \in Nat /\ e >= 2
        /\ PlaceOf(names, key_hash, size, i)
             = StartOf(names, key_hash, size, row) + LoadOf(names, key_hash, size, row, i - 1)
        /\ PlaceOf(names, key_hash, size, i) + e
             = StartOf(names, key_hash, size, row) + LoadOf(names, key_hash, size, row, i)
        /\ PlaceOf(names, key_hash, size, i) + e <= end
    <3>1. row = Home(names, key_hash, size, i) /\ Snug(N, names, key_hash, size)
      BY <1>0, <1>4
    <3>2. /\ PlaceOf(names, key_hash, size, i) \in Nat /\ EltSize(names[i]) \in Nat
          /\ EltSize(names[i]) >= 2
          /\ PlaceOf(names, key_hash, size, i)
               = StartOf(names, key_hash, size, row) + LoadOf(names, key_hash, size, row, i - 1)
          /\ PlaceOf(names, key_hash, size, i) + EltSize(names[i])
               = StartOf(names, key_hash, size, row) + LoadOf(names, key_hash, size, row, i)
          /\ PlaceOf(names, key_hash, size, i) + EltSize(names[i])
               <= TextEnd(names, key_hash, size, row)
      BY ONLY <2>1, <3>1, PlaceFits
    <3>3. QED
      BY <2>2, <2>3, <3>2
  <2>5. a = PlaceOf(names, key_hash, size, i) /\ a \in Nat
    BY <1>4, <2>4
  <2>6. end \in Nat /\ end < room
    BY <1>0, <1>2, <2>3, BucketRoom
  <2>7. a # room
    BY <2>4, <2>5, <2>6
  <2>8. elts[a] = i /\ elts[a + 1] = Lower(names[i])
    BY <1>0, <1>1, <1>4, <2>1, <2>5 DEF IsPlaced
  <2>9. names[i] \in Names
    BY <1>1, <2>1
  <2>a. PICK nm \in Names : nm = names[i]
    BY <2>9
  <2>b. Lower(nm) = [word |-> nm.word, capitals |-> FALSE] /\ Lower(nm).word = nm.word
    BY LowerIs
  <2>10. Lower(names[i]) = query <=> names[i].word = word
    <3>1. query.word = word
      OBVIOUS
    <3>2. Lower(nm) = query => nm.word = word
      BY <2>b, <3>1
    <3>3. nm.word = word => Lower(nm) = query
      BY <2>b
    <3>4. QED
      BY <2>a, <3>2, <3>3
  <2>11. EltSize(Lower(names[i])) = e
    BY <2>2, <2>a, <2>b DEF EltSize
  <2>12. CASE names[i].word = word
    <3>1. Step(query, a) = a
      BY <2>8, <2>10, <2>12 DEF Step
    <3>2. QED
      BY <1>4, <2>1, <2>7, <2>8, <2>12, <3>1
  <2>13. CASE names[i].word # word
    <3>1. Step(query, a) = a + e
      BY <2>1, <2>7, <2>8, <2>10, <2>11, <2>13 DEF Step
    <3>2. a + e # a
      BY <2>4, <2>5
    <3>3. a + e = StartOf(names, key_hash, size, row) + LoadOf(names, key_hash, size, row, i)
      BY <2>4, <2>5
    <3>4. QED
      BY <1>4, <2>1, <2>7, <2>8, <2>13, <3>1, <3>2, <3>3
  <2>14. QED
    BY <2>12, <2>13
<1>5. \/ /\ LoadOf(names, key_hash, size, row, j) = LoadOf(names, key_hash, size, row, N)
         /\ \A i \in j + 1 .. N : Home(names, key_hash, size, i) # row
      \/ \E i \in j + 1 .. N :
           /\ Home(names, key_hash, size, i) = row
           /\ LoadOf(names, key_hash, size, row, i - 1) = LoadOf(names, key_hash, size, row, j)
           /\ \A m \in j + 1 .. i - 1 : Home(names, key_hash, size, m) # row
  BY <1>0, NextElement
<1>6. QED
  BY <1>3, <1>4, <1>5

(* After k steps, the walk has passed k names of its bucket, or stopped,   *)
(* and none that it passed is the one that is looked up.                   *)
LEMMA WalkIs ==
  ASSUME Inv, pc = "ready", NEW N, N = Len(names), NEW word \in Words, NEW query,
         query = [word |-> word, capitals |-> FALSE],
         NEW row, row = key_hash[word] % size, ~Hit(row),
         LoadOf(names, key_hash, size, row, N) # 0,
         NEW w, IsWalk(w, StartOf(names, key_hash, size, row), query, N)
  PROVE  \E j \in 0 .. N :
           /\ w[N] = StartOf(names, key_hash, size, row) + LoadOf(names, key_hash, size, row, j)
           /\ \A m \in 1 .. j : names[m].word # word
           /\ j = N \/ Step(query, w[N]) = w[N]
<1>0. Snug(N, names, key_hash, size)
  BY DEF Inv, StageInv
<1>1. /\ N \in Nat /\ names \in [1 .. N -> Names] /\ size \in Nat \ {0}
      /\ key_hash \in [Words -> Hashes] /\ Hashes \subseteq Nat
  BY <1>0, HashAssumption DEF Snug
<1>2. row \in Rows
  <2>1. key_hash[word] \in Nat
    BY <1>1
  <2>2. QED
    BY <1>1, <2>1 DEF Rows
<1>3. PICK base : base = StartOf(names, key_hash, size, row)
  OBVIOUS
<1>4. base \in Nat
  <2>1. row \in 0 .. size
    BY <1>1, <1>2 DEF Rows
  <2>2. QED
    BY <1>1, <1>3, <2>1, StartSteps
<1> DEFINE At1(k, j) == /\ w[k] = base + LoadOf(names, key_hash, size, row, j)
                        /\ \A m \in 1 .. j : names[m].word # word
                        /\ j >= k \/ Step(query, w[k]) = w[k]
           S == {k \in 0 .. N : \E j \in 0 .. N : At1(k, j)}
<1>5. 0 \in S
  <2>1. Adds(N, names, key_hash, size, row)
    BY <1>1, LoadSteps
  <2>2. w[0] = base + LoadOf(names, key_hash, size, row, 0)
    BY <1>3, <1>4, <2>1 DEF IsWalk, Adds
  <2>3. At1(0, 0) /\ 0 \in 0 .. N
    BY <1>1, <2>2
  <2> HIDE DEF At1
  <2>4. QED
    BY <2>3
<1>6. ASSUME NEW k \in Nat, k < N, k \in S PROVE k + 1 \in S
  <2>1. PICK j \in 0 .. N : At1(k, j)
    BY <1>6
  <2>2. k + 1 \in 1 .. N /\ (k + 1) - 1 = k /\ k + 1 \in 0 .. N
    BY <1>1, <1>6
  <2>3. w[k + 1] = Step(query, w[k])
    BY <2>2 DEF IsWalk
  <2>4. CASE Step(query, w[k]) = w[k]
    <3>1. w[k + 1] = w[k] /\ Step(query, w[k + 1]) = w[k + 1]
      BY <2>3, <2>4
    <3>2. At1(k + 1, j)
      BY <2>1, <3>1
    <3> HIDE DEF At1
    <3>3. QED
      BY <2>2, <3>2
  <2>5. CASE Step(query, w[k]) # w[k]
    <3>1. j >= k
      BY <2>1, <2>5
    <3>2. \/ /\ elts[w[k]] = 0
             /\ \A i \in j + 1 .. N : Home(names, key_hash, size, i) # row
          \/ \E i \in j + 1 .. N :
               /\ w[k] # room /\ elts[w[k]] = i /\ elts[w[k]] # 0
               /\ \A m \in j + 1 .. i - 1 : Home(names, key_hash, size, m) # row
               /\ IF names[i].word = word
                  THEN Step(query, w[k]) = w[k]
                  ELSE /\ Step(query, w[k]) = base + LoadOf(names, key_hash, size, row, i)
                       /\ Step(query, w[k]) # w[k]
      BY <1>2, <1>3, <2>1, StepIs
    <3>3. elts[w[k]] # 0
      BY <2>5 DEF Step
    <3>4. PICK i \in j + 1 .. N :
               /\ \A m \in j + 1 .. i - 1 : Home(names, key_hash, size, m) # row
               /\ names[i].word # word
               /\ Step(query, w[k]) = base + LoadOf(names, key_hash, size, row, i)
      BY <2>5, <3>2, <3>3
    <3>5. i \in 0 .. N /\ i >= k + 1
      BY <1>1, <3>1
    <3>6. ASSUME NEW m \in 1 .. i PROVE names[m].word # word
      <4>1. m \in 1 .. j \/ m \in j + 1 .. i - 1 \/ m = i
        BY <1>1, <3>5
      <4>2. m \in j + 1 .. i - 1 => names[m].word # word
        BY <3>4 DEF Home
      <4>3. QED
        BY <2>1, <3>4, <4>1, <4>2
    <3>7. At1(k + 1, i)
      BY <2>3, <3>4, <3>5, <3>6
    <3> HIDE DEF At1
    <3>8. QED
      BY <2>2, <3>5, <3>7
  <2>6. QED
    BY <2>4, <2>5
<1>7. N \in S
  <2> HIDE DEF S
  <2>1. \A k \in 0 .. N : k \in S
    BY <1>1, <1>5, <1>6, UpTo
  <2>2. QED
    BY <1>1, <2>1
<1>8. PICK j \in 0 .. N : At1(N, j)
  BY <1>7
<1>9. j = N \/ Step(query, w[N]) = w[N]
  BY <1>1, <1>8
<1>10. QED
  BY <1>3, <1>8, <1>9

(* A walk that begins at a null word stays there.                          *)
LEMMA WalkStays ==
  ASSUME NEW N \in Nat, NEW a, elts[a] = 0, NEW query, NEW w, IsWalk(w, a, query, N)
  PROVE  w[N] = a
<1> DEFINE S == {k \in 0 .. N : w[k] = a}
<1>1. 0 \in S
  BY DEF IsWalk
<1>2. ASSUME NEW k \in Nat, k < N, k \in S PROVE k + 1 \in S
  <2>1. k + 1 \in 1 .. N /\ (k + 1) - 1 = k /\ k + 1 \in 0 .. N
    BY <1>2
  <2>2. w[k + 1] = Step(query, a)
    BY <1>2, <2>1 DEF IsWalk
  <2>3. QED
    BY <2>1, <2>2 DEF Step
<1> HIDE DEF S
<1>3. \A k \in 0 .. N : k \in S
  BY <1>1, <1>2, UpTo
<1>4. N \in S
  BY <1>3
<1>5. QED
  BY <1>4 DEF S

LEMMA InvExact == (Counted => Inv) => LookupExact
<1> SUFFICES ASSUME Inv, pc = "ready", NEW word \in Words, NEW query,
                    query = [word |-> word, capitals |-> FALSE],
                    Undisturbed(key_hash[word] % size)
             PROVE  IF Watching(query) = {} THEN ms_hash_find(query) = 0
                    ELSE /\ ms_hash_find(query) \in Watching(query)
                         /\ \A i \in Watching(query) : ms_hash_find(query) <= i
  BY Zenon DEF LookupExact
<1>0. PICK N : N = Len(names) /\ Snug(N, names, key_hash, size)
  BY DEF Inv, StageInv
<1>1. /\ N \in Nat /\ names \in [1 .. N -> Names] /\ size \in Nat \ {0}
      /\ key_hash \in [Words -> Hashes] /\ Hashes \subseteq Nat
  BY <1>0, HashAssumption DEF Snug
<1>2. PICK row : row = key_hash[word] % size
  OBVIOUS
<1>3. row \in Rows
  <2>1. key_hash[word] \in Nat
    BY <1>1
  <2>2. QED
    BY <1>1, <1>2, <2>1 DEF Rows
<1>4. Watching(query) = {i \in 1 .. N : names[i].word = word}
  BY <1>0 DEF Watching, NameIndexes
<1>5. \A i \in 1 .. N : names[i].word = word => Home(names, key_hash, size, i) = row
  BY <1>2 DEF Home
<1>6. PICK entry : entry = buckets[row]
  OBVIOUS
<1>7. PICK w : /\ IsWalk(w, entry[2], query, N)
               /\ ms_hash_find(query) = IF entry[1] # "elts" \/ w[N] = room \/ elts[w[N]] = 0
                                        THEN 0 ELSE elts[w[N]]
  <2>1. query.word = word
    OBVIOUS
  <2>2. entry = buckets[key_hash[query.word] % size] /\ Len(names) \in Nat
    BY <1>0, <1>1, <1>2, <1>6, <2>1
  <2>3. QED
    BY <1>0, <2>2, FindIs
<1>8. IF LoadOf(names, key_hash, size, row, N) = 0
      THEN entry \in Old
      ELSE entry = At(StartOf(names, key_hash, size, row))
  BY <1>0, <1>3, <1>6 DEF Inv, LayoutInv, Built
<1>9. CASE LoadOf(names, key_hash, size, row, N) = 0
  <2>1. entry[1] = "elts" => elts[w[N]] = 0
    <3>1. SUFFICES ASSUME entry[1] = "elts" PROVE elts[w[N]] = 0
      OBVIOUS
    <3>2. entry \in Old
      BY <1>8, <1>9
    <3>3. entry \notin {Null, Elsewhere, NoAddress}
      BY <3>1 DEF Null, Elsewhere, NoAddress
    <3>4. PICK a \in 0 .. room - 1 : entry = At(a)
      BY <3>2, <3>3 DEF Old
    <3>5. entry[2] = a /\ a + 0 = a
      BY <3>4 DEF At
    <3>6. elts[a] = 0
      BY <1>0, <1>3, <1>6, <1>9, <3>1, <3>5 DEF Inv, ElementInv, Built, IsEnded
    <3>7. QED
      BY <1>1, <1>7, <3>5, <3>6, WalkStays
  <2>2. ms_hash_find(query) = 0
    BY <1>7, <2>1
  <2>3. ASSUME NEW i \in 1 .. N, names[i].word = word PROVE FALSE
    <3>1. Home(names, key_hash, size, i) = row
      BY <1>5, <2>3
    <3>2. QED
      BY <1>0, <1>9, <3>1, PlaceFits
  <2>4. QED
    BY <1>4, <2>2, <2>3
<1>10. CASE LoadOf(names, key_hash, size, row, N) # 0
  <2>1. entry[1] = "elts" /\ entry[2] = StartOf(names, key_hash, size, row)
    BY <1>8, <1>10 DEF At
  <2>a. ~Hit(row)
    <3>1. ASSUME NEW q \in Rows, LoadOf(names, key_hash, size, q, N) = 0 PROVE q \in Empty
      <4>1. q \in 0 .. size - 1
        BY DEF Rows
      <4>2. BucketOf(names, key_hash, size, q) = 0
        BY <1>0, <3>1, <4>1, BucketFits
      <4>3. QED
        BY <4>2, BucketIs DEF Empty
    <3>2. Start(row) = StartOf(names, key_hash, size, row)
          /\ Load(size, row, Len(names)) = LoadOf(names, key_hash, size, row, N)
      BY <1>0, StartIs, LoadIs
    <3>3. \A q \in Empty :
            buckets[q] \notin {At(StartOf(names, key_hash, size, row) + x) :
                                 x \in 0..LoadOf(names, key_hash, size, row, N) - 1}
      BY <1>2, <3>2 DEF Undisturbed
    <3>4. QED
      BY <1>0, <3>1, <3>3 DEF Hit
  <2>2. PICK j \in 0 .. N :
           /\ w[N] = StartOf(names, key_hash, size, row) + LoadOf(names, key_hash, size, row, j)
           /\ \A m \in 1 .. j : names[m].word # word
           /\ j = N \/ Step(query, w[N]) = w[N]
    BY <1>0, <1>2, <1>7, <1>10, <2>1, <2>a, WalkIs
  <2>3. \/ /\ elts[w[N]] = 0
           /\ \A i \in j + 1 .. N : Home(names, key_hash, size, i) # row
        \/ \E i \in j + 1 .. N :
             /\ w[N] # room /\ elts[w[N]] = i /\ elts[w[N]] # 0
             /\ \A m \in j + 1 .. i - 1 : Home(names, key_hash, size, m) # row
             /\ IF names[i].word = word
                THEN Step(query, w[N]) = w[N]
                ELSE /\ Step(query, w[N]) = StartOf(names, key_hash, size, row)
                                              + LoadOf(names, key_hash, size, row, i)
                     /\ Step(query, w[N]) # w[N]
    BY <1>0, <1>3, <1>10, <2>2, <2>a, StepIs
  <2>4. CASE /\ elts[w[N]] = 0
             /\ \A i \in j + 1 .. N : Home(names, key_hash, size, i) # row
    <3>1. ms_hash_find(query) = 0
      BY <1>7, <2>4
    <3>2. ASSUME NEW i \in 1 .. N, names[i].word = word PROVE FALSE
      <4>1. i \in 1 .. j \/ i \in j + 1 .. N
        BY <1>1
      <4>2. QED
        BY <1>5, <2>2, <2>4, <3>2, <4>1
    <3>3. QED
      BY <1>4, <3>1, <3>2
  <2>5. ASSUME NEW i \in j + 1 .. N,
               w[N] # room, elts[w[N]] = i, elts[w[N]] # 0,
               \A m \in j + 1 .. i - 1 : Home(names, key_hash, size, m) # row,
               names[i].word # word => Step(query, w[N]) # w[N]
        PROVE  /\ ms_hash_find(query) \in Watching(query)
               /\ \A x \in Watching(query) : ms_hash_find(query) <= x
    <3>1. j # N /\ i \in 1 .. N
      BY <1>1
    <3>2. names[i].word = word
      BY <2>2, <2>5, <3>1
    <3>3. ms_hash_find(query) = i
      BY <1>7, <2>1, <2>5
    <3>4. ASSUME NEW x \in 1 .. N, names[x].word = word PROVE i <= x
      <4>1. x \in 1 .. j \/ x \in j + 1 .. i - 1 \/ i <= x
        BY <1>1, <3>1
      <4>2. QED
        BY <1>5, <2>2, <2>5, <3>4, <4>1
    <3>5. QED
      BY <1>4, <3>1, <3>2, <3>3, <3>4
  <2>6. QED
    BY <2>3, <2>4, <2>5
<1>11. QED
  BY <1>9, <1>10

(* Whatever names share a bucket, a table map event that names a table in  *)
(* lower case finds the first watch directive for it, and one that names   *)
(* another table finds none, unless an uncleared entry of the bucket array *)
(* leads into that bucket (ms_hash_find, core/ms_hash.c:198).              *)
THEOREM LookupIsExact == Spec => []LookupExact
BY HashStaysSound, InvExact, PTL

-----------------------------------------------------------------------------
(* The size that is tried first.  A bucket takes half as many names as it  *)
(* has words, for an element has two at least: with fewer buckets, there   *)
(* is no room for all names.                                               *)
FitsOf(ns, kh, b, s) ==
  \A k \in 1 .. Len(ns) : \A row \in 0 .. s - 1 :
    LoadOf(ns, kh, s, row, k) % Short <= (b - 1) % Short

In(ns, kh, s, row, k) == {i \in 1 .. k : Home(ns, kh, s, i) = row}

LEMMA NamesInBucket ==
  ASSUME NEW N \in Nat, NEW ns \in [1 .. N -> Names], NEW kh, NEW s, NEW row
  PROVE  /\ IsFiniteSet(In(ns, kh, s, row, N))
         /\ Cardinality(In(ns, kh, s, row, N)) \in Nat
         /\ 2 * Cardinality(In(ns, kh, s, row, N)) <= LoadOf(ns, kh, s, row, N)
<1>0. Adds(N, ns, kh, s, row)
  BY LoadSteps
<1> DEFINE Good(k) == /\ IsFiniteSet(In(ns, kh, s, row, k))
                      /\ Cardinality(In(ns, kh, s, row, k)) \in Nat
                      /\ 2 * Cardinality(In(ns, kh, s, row, k)) <= LoadOf(ns, kh, s, row, k)
           S == {k \in 0 .. N : Good(k)}
<1>1. 0 \in S
  <2>1. In(ns, kh, s, row, 0) = {}
    BY DEF In
  <2>2. LoadOf(ns, kh, s, row, 0) = 0
    BY <1>0 DEF Adds
  <2>3. IsFiniteSet({}) /\ Cardinality({}) = 0
    BY FS_EmptySet
  <2>4. Good(0)
    BY <2>1, <2>2, <2>3
  <2> HIDE DEF Good
  <2>5. QED
    BY <2>4
<1>2. ASSUME NEW k \in Nat, k < N, k \in S PROVE k + 1 \in S
  <2>1. k + 1 \in 1 .. N /\ (k + 1) - 1 = k /\ k \in 0 .. N /\ k + 1 \in 0 .. N
    BY <1>2
  <2>2. PICK T : T = In(ns, kh, s, row, k)
    OBVIOUS
  <2>3. PICK c : c = Cardinality(T)
    OBVIOUS
  <2>4. PICK x : x = LoadOf(ns, kh, s, row, k)
    OBVIOUS
  <2>5. PICK y : y = LoadOf(ns, kh, s, row, k + 1)
    OBVIOUS
  <2>6. IsFiniteSet(T) /\ c \in Nat /\ 2 * c <= x
    BY <1>2, <2>2, <2>3, <2>4
  <2>7. x \in Nat /\ y \in Nat /\ y = x + Gain(ns, kh, s, row, k + 1)
    BY <1>0, <2>1, <2>4, <2>5 DEF Adds
  <2>8. CASE Home(ns, kh, s, k + 1) = row
    <3>1. In(ns, kh, s, row, k + 1) = T \union {k + 1}
      BY <2>2, <2>8 DEF In
    <3>2. k + 1 \notin T
      BY <2>2 DEF In
    <3>3. IsFiniteSet(T \union {k + 1}) /\ Cardinality(T \union {k + 1}) = c + 1
      BY <2>3, <2>6, <3>2, FS_AddElement
    <3>4. Gain(ns, kh, s, row, k + 1) = EltSize(ns[k + 1])
      BY <2>8 DEF Gain, Home
    <3>5. EltSize(ns[k + 1]) \in Nat /\ EltSize(ns[k + 1]) >= 2
      BY <2>1, Gains
    <3>6. c + 1 \in Nat /\ 2 * (c + 1) <= y
      BY <2>6, <2>7, <3>4, <3>5
    <3>7. Good(k + 1)
      BY <2>5, <3>1, <3>3, <3>6
    <3> HIDE DEF Good
    <3>8. QED
      BY <2>1, <3>7
  <2>9. CASE Home(ns, kh, s, k + 1) # row
    <3>1. In(ns, kh, s, row, k + 1) = T
      BY <2>2, <2>9 DEF In
    <3>2. Gain(ns, kh, s, row, k + 1) = 0
      BY <2>9 DEF Gain, Home
    <3>3. Good(k + 1)
      BY <2>3, <2>5, <2>6, <2>7, <3>1, <3>2
    <3> HIDE DEF Good
    <3>4. QED
      BY <2>1, <3>3
  <2>10. QED
    BY <2>8, <2>9
<1>3. N \in S
  <2> HIDE DEF S
  <2>1. \A k \in 0 .. N : k \in S
    BY <1>1, <1>2, UpTo
  <2>2. QED
    BY <2>1
<1>4. QED
  BY <1>3

LEMMA EnoughBuckets ==
  ASSUME NEW N \in Nat, NEW ns \in [1 .. N -> Names], NEW kh \in [Words -> Hashes],
         NEW s \in Nat \ {0}, NEW c \in Nat,
         \A row \in 0 .. s - 1 : LoadOf(ns, kh, s, row, N) <= 2 * c + 1
  PROVE  N <= s * c
<1> DEFINE Below(r) == {i \in 1 .. N : Home(ns, kh, s, i) < r}
           Good(r) == IsFiniteSet(Below(r)) /\ Cardinality(Below(r)) <= r * c
           S == {r \in 0 .. s : Good(r)}
<1>0. ASSUME NEW i \in 1 .. N PROVE Home(ns, kh, s, i) \in 0 .. s - 1
  <2>1. ns[i].word \in Words
    BY DEF Names
  <2>2. kh[ns[i].word] \in Nat
    BY <2>1, HashAssumption
  <2>3. QED
    BY <2>2 DEF Home
<1>1. 0 \in S
  <2>1. Below(0) = {}
    BY <1>0
  <2>2. IsFiniteSet({}) /\ Cardinality({}) = 0 /\ 0 * c = 0
    BY FS_EmptySet
  <2> HIDE DEF Below
  <2>3. Good(0)
    <3>1. IsFiniteSet(Below(0))
      BY <2>1, <2>2
    <3>2. Cardinality(Below(0)) = 0
      BY <2>1, <2>2
    <3>3. Cardinality(Below(0)) <= 0 * c
      BY <2>2, <3>2
    <3>4. QED
      BY <3>1, <3>3
  <2> HIDE DEF Good
  <2>4. QED
    BY <2>3
<1>2. ASSUME NEW r \in Nat, r < s, r \in S PROVE r + 1 \in S
  <2>1. r \in 0 .. s - 1 /\ r + 1 \in 0 .. s
    BY <1>2
  <2>2. PICK T : T = Below(r)
    OBVIOUS
  <2>3. PICK B : B = In(ns, kh, s, r, N)
    OBVIOUS
  <2>4. PICK t : t = Cardinality(T)
    OBVIOUS
  <2>5. PICK b : b = Cardinality(B)
    OBVIOUS
  <2>6. IsFiniteSet(T) /\ t \in Nat /\ t <= r * c
    BY <1>2, <2>2, <2>4, FS_CardinalityType
  <2>7. IsFiniteSet(B) /\ b \in Nat /\ b <= c
    <3>1. IsFiniteSet(B) /\ b \in Nat /\ 2 * b <= LoadOf(ns, kh, s, r, N)
      BY <2>3, <2>5, NamesInBucket
    <3>2. PICK x : x = LoadOf(ns, kh, s, r, N)
      OBVIOUS
    <3>3. x <= 2 * c + 1 /\ x \in Nat
      <4>1. Adds(N, ns, kh, s, r) /\ N \in 0 .. N
        BY LoadSteps
      <4>2. QED
        BY <2>1, <3>2, <4>1 DEF Adds
    <3>4. QED
      BY <3>1, <3>2, <3>3
  <2>8. Below(r + 1) = T \union B
    <3>1. \A i \in 1 .. N : Home(ns, kh, s, i) < r + 1 <=>
                              Home(ns, kh, s, i) < r \/ Home(ns, kh, s, i) = r
      BY <1>0
    <3>2. QED
      BY <2>2, <2>3, <3>1 DEF In
  <2>9. T \cap B = {}
    <3>1. \A i \in 1 .. N : ~(Home(ns, kh, s, i) < r /\ Home(ns, kh, s, i) = r)
      BY <1>0
    <3>2. QED
      BY <2>2, <2>3, <3>1 DEF In
  <2>10. IsFiniteSet(T \union B) /\ Cardinality(T \union B) = t + b
    <3>1. Cardinality(T \cap B) = 0
      BY <2>9, FS_EmptySet
    <3>2. IsFiniteSet(T \union B)
          /\ Cardinality(T \union B) = Cardinality(T) + Cardinality(B) - Cardinality(T \cap B)
      BY <2>6, <2>7, FS_Union
    <3>3. QED
      BY <2>4, <2>5, <2>6, <2>7, <3>1, <3>2
  <2>11. (r + 1) * c = r * c + c /\ r * c \in Nat
    OBVIOUS
  <2> HIDE DEF Below
  <2>12. Good(r + 1)
    <3>1. IsFiniteSet(Below(r + 1)) /\ Cardinality(Below(r + 1)) = t + b
      BY <2>8, <2>10
    <3>2. t + b <= (r + 1) * c
      BY <2>6, <2>7, <2>11
    <3>3. QED
      BY <3>1, <3>2
  <2> HIDE DEF Good
  <2>13. QED
    BY <2>1, <2>12
<1>3. s \in S
  <2> HIDE DEF S
  <2>1. \A r \in 0 .. s : r \in S
    BY <1>1, <1>2, UpTo
  <2>2. QED
    BY <2>1
<1>4. Below(s) = 1 .. N
  BY <1>0
<1>5. Cardinality(1 .. N) = N
  BY FS_Interval
<1>6. QED
  BY <1>3, <1>4, <1>5

(* The search begins near ti_bucket_height when that is above 10000.       *)
SmallHeights == \A h \in Heights : h <= 10000

LEMMA FitsIs ==
  ASSUME NEW s
  PROVE  Fits(s) <=> FitsOf(names, key_hash, bucket_size, s)
BY LoadIs DEF Fits, FitsOf, NameIndexes, BucketWords

LEMMA NotPassed ==
  ASSUME Counted, SmallHeights, ArgInv,
         \A i \in 1 .. Len(names) : bucket_size >= EltSize(names[i]) + 1,
         NEW s \in Nat \ {0}, FitsOf(names, key_hash, bucket_size, s)
  PROVE  s >= FirstSize
<1>1. PICK N \in Nat \ {0} : N = Len(names)
  BY DEF ArgInv
<1>2. PICK words : words = bucket_size - 1
  OBVIOUS
<1>3. names \in [1 .. N -> Names] /\ key_hash \in [Words -> Hashes]
  BY <1>1 DEF ArgInv
<1>4. /\ bucket_size \in Nat /\ words \in Nat /\ words >= 2 /\ words = BucketWords
      /\ 2 * words < Short
  <2>1. BucketWords \in Nat /\ BucketWords >= 2 /\ words = BucketWords
    BY <1>2, FirstSizeType DEF BucketWords
  <2>2. bucket_size \in BucketSizes /\ bucket_size \in Nat \ {0}
    BY HashAssumption DEF ArgInv
  <2>3. 2 * (bucket_size - 1) < Short
    BY <2>2 DEF Counted, BucketWords
  <2>4. QED
    BY <1>2, <2>1, <2>2, <2>3
<1>5. ASSUME NEW i \in 1 .. N PROVE EltSize(names[i]) <= words
  <2>1. EltSize(names[i]) \in Nat
    BY <1>3, Gains
  <2>2. bucket_size >= EltSize(names[i]) + 1
    BY <1>1
  <2>3. QED
    BY <1>2, <1>4, <2>1, <2>2
<1>6. PICK c : c = words \div 2
  OBVIOUS
<1>7. c \in Nat \ {0} /\ words <= 2 * c + 1
  BY <1>4, <1>6
<1>8. ASSUME NEW row \in 0 .. s - 1
      PROVE  LoadOf(names, key_hash, s, row, N) <= 2 * c + 1
  <2>1. \A k \in 1 .. N : LoadOf(names, key_hash, s, row, k) % Short <= words % Short
    BY <1>1, <1>2 DEF FitsOf
  <2>2. \A k \in 0 .. N : LoadOf(names, key_hash, s, row, k) <= words
    BY <1>1, <1>3, <1>4, <1>5, <2>1, NoWraps
  <2>3. N \in 0 .. N
    BY <1>1
  <2>4. LoadOf(names, key_hash, s, row, N) <= words
    BY <2>2, <2>3
  <2>5. LoadOf(names, key_hash, s, row, N) \in Nat
    <3>1. Adds(N, names, key_hash, s, row)
      BY <1>1, <1>3, LoadSteps
    <3>2. QED
      BY <2>3, <3>1 DEF Adds
  <2>6. QED
    BY <1>4, <1>7, <2>4, <2>5
<1>9. N <= s * c
  BY <1>1, <1>3, <1>7, <1>8, EnoughBuckets
<1>10. PICK least : least = N \div c
  OBVIOUS
<1>11. least \in Nat /\ c * least <= N
  BY <1>1, <1>7, <1>10
<1>12. least <= s
  <2>1. SUFFICES ASSUME least >= s + 1 PROVE FALSE
    BY <1>11
  <2>2. PICK d \in Nat : least = (s + 1) + d
    <3>1. least - (s + 1) \in Nat /\ least = (s + 1) + (least - (s + 1))
      BY <1>11, <2>1
    <3>2. QED
      BY <3>1
  <2>3. c * least = s * c + c + c * d /\ c * d \in Nat /\ s * c \in Nat
    BY <1>7, <2>2
  <2>4. QED
    BY <1>1, <1>7, <1>9, <1>11, <2>3
<1>13. FirstSize = IF least = 0 THEN 1 ELSE least
  <2>1. max_size \in Nat /\ max_size <= 10000
    BY HashAssumption DEF ArgInv, SmallHeights
  <2>2. QED
    BY <1>1, <1>4, <1>6, <1>10, <2>1 DEF FirstSize
<1>14. QED
  BY <1>11, <1>12, <1>13

SearchInv ==
  Counted /\ pc = "sizing" => \A s \in 1 .. max_size - 1 :
                     FitsOf(names, key_hash, bucket_size, s) => s >= size

LEMMA SearchStep ==
  ASSUME SmallHeights, Counted => Inv, SearchInv, [Next]_vars
  PROVE  SearchInv'
<1> SUFFICES ASSUME Counted' PROVE SearchInv'
  BY DEF SearchInv
<1>b. Counted /\ Inv
  BY SameArguments DEF Counted, BucketWords, arguments
<1>0. ArgInv /\ size \in Nat /\ max_size \in Nat
  BY <1>b, HashAssumption DEF Inv, ArgInv, StageInv
<1>1. CASE CheckNames
  <2>1. /\ names' = names /\ key_hash' = key_hash /\ bucket_size' = bucket_size
        /\ max_size' = max_size
    BY <1>1 DEF CheckNames, Keep, arguments
  <2>2. SUFFICES ASSUME pc' = "sizing", NEW s \in 1 .. max_size - 1,
                        FitsOf(names, key_hash, bucket_size, s)
                 PROVE  s >= size'
    BY <2>1 DEF SearchInv
  <2>3. /\ \A i \in 1 .. Len(names) : bucket_size >= EltSize(names[i]) + 1
        /\ size' = FirstSize
    BY <1>1, <2>2 DEF CheckNames, NameIndexes
  <2>4. s \in Nat \ {0}
    BY <1>0
  <2>5. QED
    BY <1>0, <1>b, <2>2, <2>3, <2>4, NotPassed
<1>2. CASE TrySize
  <2>1. /\ names' = names /\ key_hash' = key_hash /\ bucket_size' = bucket_size
        /\ max_size' = max_size /\ pc = "sizing"
    BY <1>2 DEF TrySize, Keep, arguments
  <2>2. SUFFICES ASSUME pc' = "sizing", NEW s \in 1 .. max_size - 1,
                        FitsOf(names, key_hash, bucket_size, s)
                 PROVE  s >= size'
    BY <2>1 DEF SearchInv
  <2>3. ~Fits(size) /\ size' = size + 1
    BY <1>2, <2>2 DEF TrySize
  <2>4. s >= size /\ s \in Nat
    BY <1>0, <1>b, <2>1, <2>2 DEF SearchInv
  <2>5. s # size
    BY <2>2, <2>3, FitsIs
  <2>6. QED
    BY <1>0, <2>3, <2>4, <2>5
<1>3. CASE NoSize \/ NoMemory \/ Found \/ Fill \/ FillUnset \/ End
  BY <1>3 DEF NoSize, NoMemory, Found, Fill, FillUnset, End, SearchInv
<1>4. CASE UNCHANGED vars
  BY <1>4, <1>b DEF vars, arguments, SearchInv
<1>5. QED
  BY <1>1, <1>2, <1>3, <1>4 DEF Next

(* The loop of ms_hash_init begins at a number of buckets below which the  *)
(* names do not fit, and passes over none that would do: it fails only if  *)
(* every number below ti_bucket_height is too small.                       *)
THEOREM NoFitIsPassedOver ==
  ASSUME SmallHeights
  PROVE  Spec => []GivesUpOnlyIfNothingFits
<1>1. Init => SearchInv
  BY DEF Init, SearchInv
<1>2. (Counted => Inv) /\ SearchInv /\ [Next]_vars => SearchInv'
  BY SearchStep
<1>3. SearchInv => GivesUpOnlyIfNothingFits
  BY FitsIs DEF SearchInv, GivesUpOnlyIfNothingFits
<1>4. QED
  BY <1>1, <1>2, <1>3, HashStaysSound, PTL DEF Spec

=============================================================================
