---------------------------- MODULE ConfigProofs ----------------------------
(***************************************************************************)
(* A configuration that is accepted is usable, proved about Config for     *)
(* words of any even size, any numbers in the file and any missing memory. *)
(***************************************************************************)
EXTENDS Config, WellFoundedInduction, TLAPS

-----------------------------------------------------------------------------
(* A set of natural numbers has a least one.                               *)
LEMMA LeastNat ==
  ASSUME NEW T \in SUBSET Nat, T # {}
  PROVE  \E m \in T : \A k \in T : m <= k
<1> DEFINE below == {pair \in Nat \X Nat : pair[1] < pair[2]}
<1>1. OpToRel(<, Nat) = below
  BY DEF OpToRel
<1>2. IsWellFoundedOn(below, Nat)
  BY <1>1, NatLessThanWellFounded
<1>3. PICK m \in T : \A k \in T : <<k, m>> \notin below
  BY <1>2, WFMin
<1>4. ASSUME NEW k \in T, k < m PROVE FALSE
  <2>1. <<k, m>> \in below
    BY <1>4
  <2>2. QED
    BY <1>3, <2>1
<1>5. QED
  BY <1>4

(* A set that has 0, and the successor of each number up to n that it has, *)
(* has all numbers up to n: no least one is missing.  It is stated of a    *)
(* set and not of a predicate, so that it can be cited.                    *)
LEMMA UpTo ==
  ASSUME NEW n \in Nat, NEW S, 0 \in S,
         \A k \in Nat : k < n /\ k \in S => k + 1 \in S
  PROVE  \A k \in 0 .. n : k \in S
<1> DEFINE missing == {k \in Nat : k <= n /\ k \notin S}
<1> SUFFICES ASSUME missing # {} PROVE FALSE
  OBVIOUS
<1>1. PICK m \in missing : \A k \in missing : m <= k
  BY LeastNat
<1>2. m # 0 /\ m - 1 \in Nat /\ m - 1 < n /\ m - 1 \notin missing
  BY <1>1
<1>3. (m - 1) + 1 \in S
  BY <1>2
<1>4. QED
  BY <1>1, <1>3

(* Between a number and its double lies a prime: the postulate of Bertrand,*)
(* a theorem of Chebyshev's, that says how far cal_prime goes down at most.*)
Bertrand == \A m \in 1 .. WordSize : \E p \in m + 1 .. 2 * m : Prime(p)

-----------------------------------------------------------------------------
(* Numbers.                                                                *)
LEMMA Quotient ==
  ASSUME NEW a \in Nat, NEW b \in Nat \ {0}, a % b = 0
  PROVE  a \div b \in Nat /\ b * (a \div b) = a
OBVIOUS

LEMMA Multiple ==
  ASSUME NEW a \in Nat, NEW b \in Nat \ {0}
  PROVE  (b * a) % b = 0
OBVIOUS

LEMMA Larger ==
  ASSUME NEW a \in Nat, NEW b \in Nat, NEW c \in Nat, a <= b
  PROVE  a * c <= b * c /\ c * a <= c * b
<1>1. PICK d \in Nat : b = a + d
  <2>1. b - a \in Nat /\ b = a + (b - a)
    OBVIOUS
  <2>2. QED
    BY <2>1
<1>2. d * c \in Nat /\ a * c \in Nat /\ b * c = a * c + d * c /\ c * a = a * c /\ c * b = b * c
  BY <1>1
<1>3. QED
  BY <1>2

(* Where the loop of cal_prime stops. *)
Stops(a) == a <= 2 \/ ~ \E i \in 3 .. a : i % 2 = 1 /\ i * i <= a /\ a % i = 0

(* Odd divisors up to the square root are enough to tell an odd prime. *)
LEMMA OddStop ==
  ASSUME NEW p \in Nat, p % 2 = 1, p > 2, Stops(p)
  PROVE  Prime(p)
<1>p. p > 1
  OBVIOUS
<1>p2. ~(p <= 2)
  OBVIOUS
<1> SUFFICES ASSUME NEW d \in 2 .. p - 1, p % d = 0 PROVE FALSE
  BY <1>p, Zenon DEF Prime
<1>1. PICK e : e = p \div d
  OBVIOUS
<1>2. d \in Nat \ {0} /\ d >= 2 /\ d < p
  OBVIOUS
<1>3. e \in Nat /\ d * e = p
  BY <1>1, <1>2, Quotient
<1>4. e # 0 /\ e # 1
  <2>1. e = 0 => p = 0
    BY <1>2, <1>3
  <2>2. e = 1 => p = d
    BY <1>2, <1>3
  <2>3. QED
    BY <1>2, <2>1, <2>2
<1>5. e < p
  <2>1. 2 * e <= d * e
    BY <1>2, <1>3, Larger
  <2>2. QED
    BY <1>3, <1>4, <2>1
<1>6. ASSUME NEW x \in Nat, NEW y \in Nat, x * y = p PROVE x % 2 = 1
  <2>1. SUFFICES ASSUME x % 2 = 0 PROVE FALSE
    OBVIOUS
  <2>2. PICK c \in Nat : x = 2 * c
    <3>1. x \div 2 \in Nat /\ x = 2 * (x \div 2)
      BY <2>1
    <3>2. QED
      BY <3>1
  <2>3. PICK z \in Nat : z = c * y
    OBVIOUS
  <2>4. p = 2 * z
    BY <1>6, <2>2, <2>3
  <2>5. QED
    BY <2>4
<1>7. d % 2 = 1 /\ e % 2 = 1
  <2>1. e * d = p
    BY <1>2, <1>3
  <2>2. QED
    BY <1>2, <1>3, <1>6, <2>1
<1>8. d >= 3 /\ e >= 3
  BY <1>2, <1>3, <1>4, <1>7
<1>9. p % e = 0
  <2>1. e * d = p /\ e \in Nat \ {0}
    BY <1>2, <1>3, <1>4
  <2>2. QED
    BY <1>2, <2>1, Multiple
<1>10. d * d <= p \/ e * e <= p
  <2>1. CASE d <= e
    BY <1>2, <1>3, <2>1, Larger
  <2>2. CASE e <= d
    BY <1>2, <1>3, <2>2, Larger
  <2>3. QED
    BY <1>2, <1>3, <2>1, <2>2
<1>11. d \in 3 .. p /\ e \in 3 .. p
  BY <1>2, <1>3, <1>5, <1>8
<1>12. \A i \in 3 .. p : ~(i % 2 = 1 /\ i * i <= p /\ p % i = 0)
  BY Zenon, <1>p2 DEF Stops
<1>13. QED
  BY <1>7, <1>9, <1>10, <1>11, <1>12, Zenon

LEMMA PrimeStops ==
  ASSUME NEW p \in Nat, Prime(p)
  PROVE  Stops(p)
<1> SUFFICES ASSUME p > 2, NEW i \in 3 .. p, i * i <= p, p % i = 0 PROVE FALSE
  BY DEF Stops
<1>1. i # p
  <2>1. SUFFICES ASSUME i = p PROVE FALSE
    OBVIOUS
  <2>2. 2 * p <= p * p
    BY Larger
  <2>3. QED
    BY <2>1, <2>2
<1>2. i \in 2 .. p - 1
  BY <1>1
<1>3. QED
  BY <1>2, Zenon DEF Prime

-----------------------------------------------------------------------------
(* The loop of cal_prime.                                                  *)
LEMMA Down ==
  ASSUME NEW D, D = CHOOSE f : f = [a \in Int |-> IF Stops(a) THEN a ELSE f[a - 2]]
  PROVE  \A a \in Int : D[a] = IF Stops(a) THEN a ELSE D[a - 2]
<1> DEFINE loop(f) == [a \in Int |-> IF Stops(a) THEN a ELSE f[a - 2]]
           K(a) == {k \in Nat : Stops(a - 2 * k)}
           T(a) == CHOOSE m \in K(a) : \A k \in K(a) : m <= k
           w == [a \in Int |-> a - 2 * T(a)]
<1>1. ASSUME NEW a \in Int
      PROVE  T(a) \in K(a) /\ \A k \in K(a) : T(a) <= k
  <2>1. K(a) \in SUBSET Nat
    OBVIOUS
  <2>2. \E k \in Nat : a - 2 * k <= 2
    <3>1. CASE a <= 2
      <4>1. 0 \in Nat /\ a - 2 * 0 <= 2
        BY <3>1
      <4>2. QED
        BY <4>1
    <3>2. CASE a > 2
      <4>1. a \in Nat /\ a - 2 * a <= 2
        BY <3>2
      <4>2. QED
        BY <4>1
    <3>3. QED
      BY <3>1, <3>2
  <2>3. K(a) # {}
    BY <2>2 DEF Stops
  <2> HIDE DEF K
  <2>4. \E m \in K(a) : \A k \in K(a) : m <= k
    BY <2>1, <2>3, LeastNat
  <2>5. QED
    BY <2>4
<1> HIDE DEF T
<1>2. ASSUME NEW a \in Int
      PROVE  w[a] = IF Stops(a) THEN a ELSE w[a - 2]
  <2>0. w[a] = a - 2 * T(a) /\ w[a - 2] = (a - 2) - 2 * T(a - 2) /\ a - 2 \in Int
    OBVIOUS
  <2>1. CASE Stops(a)
    <3>1. 0 \in K(a)
      <4>1. a - 2 * 0 = a /\ 0 \in Nat
        OBVIOUS
      <4>2. QED
        BY <2>1, <4>1
    <3>2. T(a) = 0
      BY <1>1, <3>1
    <3>3. QED
      BY <2>0, <2>1, <3>2
  <2>2. CASE ~Stops(a)
    <3>1. T(a) \in Nat /\ T(a - 2) \in Nat /\ Stops(a - 2 * T(a))
          /\ Stops((a - 2) - 2 * T(a - 2))
      BY <1>1, <2>0
    <3>2. T(a) # 0
      <4>1. T(a) = 0 => a - 2 * T(a) = a
        OBVIOUS
      <4>2. QED
        BY <2>2, <3>1, <4>1
    <3>3. T(a) - 1 \in Nat /\ (a - 2) - 2 * (T(a) - 1) = a - 2 * T(a)
      BY <3>1, <3>2
    <3>4. T(a) - 1 \in K(a - 2)
      BY <3>1, <3>3
    <3>5. T(a - 2) + 1 \in Nat /\ a - 2 * (T(a - 2) + 1) = (a - 2) - 2 * T(a - 2)
      BY <3>1
    <3>6. T(a - 2) + 1 \in K(a)
      BY <3>1, <3>5
    <3>7. T(a - 2) <= T(a) - 1 /\ T(a) <= T(a - 2) + 1
      <4> HIDE DEF K
      <4>1. QED
        BY <1>1, <2>0, <3>4, <3>6
    <3>8. T(a) = T(a - 2) + 1
      BY <3>1, <3>7
    <3>9. QED
      BY <2>0, <2>2, <3>1, <3>8
  <2>3. QED
    BY <2>1, <2>2
<1> HIDE DEF w
<1>3. w = loop(w)
  <2>1. w = [a \in Int |-> w[a]]
    BY DEF w
  <2>2. QED
    BY <1>2, <2>1
<1>4. D = loop(D)
  <2>1. \E f : f = loop(f)
    BY <1>3
  <2>2. QED
    BY <2>1
<1>5. QED
  BY <1>4

(* From an odd number it ends at the first odd number where it stops.      *)
LEMMA DownOdd ==
  ASSUME NEW D, \A a \in Int : D[a] = IF Stops(a) THEN a ELSE D[a - 2], NEW n \in Nat
  PROVE  \E j \in 0 .. n : /\ D[2 * n + 1] = 2 * j + 1 /\ Stops(2 * j + 1)
                           /\ \A i \in j + 1 .. n : ~Stops(2 * i + 1)
<1> DEFINE good(k) == \E j \in 0 .. k : /\ D[2 * k + 1] = 2 * j + 1 /\ Stops(2 * j + 1)
                                        /\ \A i \in j + 1 .. k : ~Stops(2 * i + 1)
           S == {k \in Nat : good(k)}
<1>1. 0 \in S
  <2>1. Stops(2 * 0 + 1) /\ 2 * 0 + 1 \in Int /\ 0 \in 0 .. 0 /\ 0 \in Nat
    BY DEF Stops
  <2>2. \A i \in 0 + 1 .. 0 : FALSE
    OBVIOUS
  <2>3. D[2 * 0 + 1] = 2 * 0 + 1
    BY <2>1
  <2>4. good(0)
    BY <2>1, <2>2, <2>3
  <2> HIDE DEF good
  <2>5. QED
    BY <2>4
<1>2. ASSUME NEW k \in Nat, k \in S PROVE k + 1 \in S
  <2>0. good(k)
    BY <1>2
  <2>1. PICK j \in 0 .. k : /\ D[2 * k + 1] = 2 * j + 1 /\ Stops(2 * j + 1)
                            /\ \A i \in j + 1 .. k : ~Stops(2 * i + 1)
    BY <2>0
  <2>2. 2 * (k + 1) + 1 \in Int /\ 2 * (k + 1) + 1 - 2 = 2 * k + 1
    OBVIOUS
  <2>3. CASE Stops(2 * (k + 1) + 1)
    <3>1. D[2 * (k + 1) + 1] = 2 * (k + 1) + 1
      BY <2>2, <2>3
    <3>2. k + 1 \in 0 .. k + 1 /\ \A i \in (k + 1) + 1 .. k + 1 : FALSE
      OBVIOUS
    <3>3. good(k + 1)
      BY <2>3, <3>1, <3>2
    <3> HIDE DEF good
    <3>4. QED
      BY <3>3
  <2>4. CASE ~Stops(2 * (k + 1) + 1)
    <3>1. D[2 * (k + 1) + 1] = 2 * j + 1
      BY <2>1, <2>2, <2>4
    <3>2. j \in 0 .. k + 1 /\ \A i \in j + 1 .. k + 1 : i \in j + 1 .. k \/ i = k + 1
      OBVIOUS
    <3>3. \A i \in j + 1 .. k + 1 : ~Stops(2 * i + 1)
      BY <2>1, <2>4, <3>2
    <3>4. good(k + 1)
      BY <2>1, <3>1, <3>2, <3>3
    <3> HIDE DEF good
    <3>5. QED
      BY <3>4
  <2>5. QED
    BY <2>3, <2>4
<1>3. \A k \in 0 .. n : k \in S
  <2> HIDE DEF S
  <2>1. QED
    BY <1>1, <1>2, UpTo
<1>4. n \in S
  <2> HIDE DEF S
  <2>1. QED
    BY <1>3
<1>5. QED
  BY <1>4

LEMMA CalPrime ==
  ASSUME NEW arg \in 0 .. WordSize - 1
  PROVE  \E n \in Nat, j \in Nat :
           /\ 2 * n + 1 = (IF arg = 0 THEN WordSize - 1 ELSE IF arg % 2 = 0 THEN arg - 1 ELSE arg)
           /\ j <= n /\ 2 * n + 1 \in 1 .. WordSize - 1
           /\ cal_prime(arg) = 2 * j + 1 /\ Stops(2 * j + 1)
           /\ \A i \in j + 1 .. n : ~Stops(2 * i + 1)
<1>1. PICK D : D = CHOOSE f : f = [a \in Int |-> IF Stops(a) THEN a ELSE f[a - 2]]
  OBVIOUS
<1>2. \A a \in Int : D[a] = IF Stops(a) THEN a ELSE D[a - 2]
  BY <1>1, Down
<1>3. cal_prime(arg) = D[IF arg % 2 = 0 THEN (arg - 1) % WordSize ELSE arg]
  BY <1>1 DEF cal_prime, Stops
<1>4. WordSize \in Nat /\ WordSize % 2 = 0 /\ WordSize > 2 /\ arg \in Nat
  BY ConfigAssumption
<1>5. PICK a \in Nat : a = IF arg = 0 THEN WordSize - 1 ELSE IF arg % 2 = 0 THEN arg - 1 ELSE arg
  BY <1>4
<1>6. a = IF arg % 2 = 0 THEN (arg - 1) % WordSize ELSE arg
  <2>1. CASE arg = 0
    <3>1. (0 - 1) % WordSize = WordSize - 1
      BY <1>4
    <3>2. QED
      BY <1>5, <2>1, <3>1
  <2>2. CASE arg # 0
    <3>1. (arg - 1) % WordSize = arg - 1
      BY <1>4, <2>2
    <3>2. QED
      BY <1>5, <2>2, <3>1
  <2>3. QED
    BY <2>1, <2>2
<1>7. a % 2 = 1 /\ a \in 1 .. WordSize - 1
  <2>1. CASE arg = 0
    BY <1>4, <1>5, <2>1
  <2>2. CASE arg # 0 /\ arg % 2 = 0
    BY <1>4, <1>5, <2>2
  <2>3. CASE arg # 0 /\ arg % 2 # 0
    BY <1>4, <1>5, <2>3
  <2>4. QED
    BY <2>1, <2>2, <2>3
<1>8. PICK n \in Nat : a = 2 * n + 1
  <2>1. a \div 2 \in Nat /\ a = 2 * (a \div 2) + 1
    BY <1>7
  <2>2. QED
    BY <2>1
<1>9. PICK j \in 0 .. n : /\ D[2 * n + 1] = 2 * j + 1 /\ Stops(2 * j + 1)
                          /\ \A i \in j + 1 .. n : ~Stops(2 * i + 1)
  BY <1>2, DownOdd
<1>10. cal_prime(arg) = 2 * j + 1
  BY <1>3, <1>6, <1>8, <1>9
<1>11. j \in Nat /\ j <= n /\ 2 * n + 1 = a
  BY <1>8
<1>12. QED
  BY <1>5, <1>7, <1>9, <1>10, <1>11

(* The length of ti_map and its prime go together. *)
MapUsable(info) ==
  info.ti_map # 0 =>
    /\ info.ti_map_prime \in 1 .. info.ti_map
    /\ info.ti_map_prime = 1 \/ Prime(info.ti_map_prime)
    /\ Bertrand => info.ti_map <= 2 * info.ti_map_prime

LEMMA PrimeOfMap ==
  ASSUME NEW arg \in 0 .. WordSize - 1
  PROVE  /\ cal_prime(arg) \in 0 .. WordSize - 1
         /\ arg # 0 => /\ cal_prime(arg) \in 1 .. arg
                       /\ cal_prime(arg) = 1 \/ Prime(cal_prime(arg))
                       /\ Bertrand => arg <= 2 * cal_prime(arg)
<1>0. WordSize \in Nat /\ arg \in Nat
  BY ConfigAssumption
<1>1. PICK n \in Nat, j \in Nat :
        /\ 2 * n + 1 = (IF arg = 0 THEN WordSize - 1 ELSE IF arg % 2 = 0 THEN arg - 1 ELSE arg)
        /\ j <= n /\ 2 * n + 1 \in 1 .. WordSize - 1
        /\ cal_prime(arg) = 2 * j + 1 /\ Stops(2 * j + 1)
        /\ \A i \in j + 1 .. n : ~Stops(2 * i + 1)
  BY CalPrime
<1>2. cal_prime(arg) \in 0 .. WordSize - 1
  BY <1>0, <1>1
<1>3. ASSUME arg # 0 PROVE cal_prime(arg) \in 1 .. arg
  BY <1>0, <1>1, <1>3
<1>4. cal_prime(arg) = 1 \/ Prime(cal_prime(arg))
  <2>1. CASE j = 0
    BY <1>1, <2>1
  <2>2. CASE j # 0
    <3>1. 2 * j + 1 \in Nat /\ (2 * j + 1) % 2 = 1 /\ 2 * j + 1 > 2
      BY <2>2
    <3>2. QED
      BY <1>1, <3>1, OddStop
  <2>3. QED
    BY <2>1, <2>2
<1>5. ASSUME arg # 0, Bertrand PROVE arg <= 2 * cal_prime(arg)
  <2>1. CASE n = 0
    BY <1>0, <1>1, <1>5, <2>1
  <2>2. CASE n # 0
    <3>1. arg = 2 * n + 1 \/ arg = 2 * n + 2
      BY <1>0, <1>1, <1>5
    <3>2. PICK m \in Nat : m = IF arg = 2 * n + 1 THEN n ELSE n + 1
      OBVIOUS
    <3>3. m \in 1 .. WordSize /\ m >= 1 /\ arg \in {2 * m, 2 * m + 1}
      BY <1>0, <1>1, <2>2, <3>1, <3>2
    <3>4. PICK p \in m + 1 .. 2 * m : Prime(p)
      BY <1>5, <3>3 DEF Bertrand
    <3>5. p \in Nat /\ p > 1
      BY <3>3
    <3>6. CASE p = 2
      <4>1. m = 1
        BY <3>4, <3>6
      <4>2. arg = 3 /\ n = 1
        BY <2>2, <3>1, <3>2, <3>3, <4>1
      <4>3. Stops(2 * 1 + 1)
        <5>1. \A i \in 3 .. 3 : i = 3
          OBVIOUS
        <5>2. QED
          BY <5>1 DEF Stops
      <4>4. 1 <= j
        BY <1>1, <4>2, <4>3
      <4>5. QED
        BY <1>1, <4>2, <4>4
    <3>7. CASE p # 2
      <4>1. p % 2 # 0
        <5>1. 2 \in 2 .. p - 1
          BY <3>5, <3>7
        <5>2. \A d \in 2 .. p - 1 : p % d # 0
          BY <3>4, Zenon DEF Prime
        <5>3. QED
          BY <5>1, <5>2
      <4>2. PICK i \in Nat : p = 2 * i + 1
        <5>1. p \div 2 \in Nat /\ p = 2 * (p \div 2) + 1
          BY <3>5, <4>1
        <5>2. QED
          BY <5>1
      <4>3. i <= n
        BY <3>1, <3>2, <3>4, <4>2
      <4>4. Stops(2 * i + 1)
        BY <3>4, <3>5, <4>2, PrimeStops
      <4>5. i <= j
        BY <1>1, <4>3, <4>4
      <4>6. QED
        BY <1>1, <3>3, <3>4, <4>2, <4>5
    <3>8. QED
      BY <3>6, <3>7
  <2>3. QED
    BY <2>1, <2>2
<1>6. QED
  BY <1>2, <1>3, <1>4, <1>5

-----------------------------------------------------------------------------
(* The invariant: what a stage of mysync_conf_load relies on was seen to by *)
(* the stages before it.                                                   *)
StageInv ==
  /\ pc \in {"map", "hash", "verify"} => new.pool
  /\ pc \in {"hash", "verify"} => new.watch > 0 /\ MapUsable(new)
  /\ pc = "verify" => ~new.unnamed

UsableInv ==
  Running => mi.ti_map # 0 /\ MapUsable(mi) /\ mi.pool /\ ~mi.unnamed /\ mi.watch > 0

Inv == TypeOK /\ StageInv /\ UsableInv

LEMMA Bounds ==
  /\ WordSize \in Nat /\ WordSize > 2 /\ PortSize \in 1 .. WordSize
  /\ Capacity \in Nat \ {0} /\ MaxWatch \in Nat /\ MaxFiles \in Nat
  /\ mysync_info_init \in Infos /\ mysync_info_init.watch <= mysync_info_init.nalloc
<1>1. /\ WordSize \in Nat /\ WordSize > 2 /\ PortSize \in 1 .. WordSize
      /\ Capacity \in Nat \ {0} /\ MaxWatch \in Nat /\ MaxFiles \in Nat
  BY ConfigAssumption
<1>2. /\ 0 \in 0 .. WordSize - 1 /\ 0 \in 0 .. MaxWatch
      /\ 0 \in 0 .. 2 * (MaxWatch + Capacity)
  BY <1>1
<1>3. [key \in Numbers |-> 0] \in [Numbers -> 0 .. WordSize - 1]
  BY <1>2
<1>4. mysync_info_init \in Infos /\ mysync_info_init.watch <= mysync_info_init.nalloc
  BY <1>2, <1>3 DEF mysync_info_init, Infos
<1>5. QED
  BY <1>1, <1>4

LEMMA InitInv == Init => Inv
<1> SUFFICES ASSUME Init PROVE Inv
  OBVIOUS
<1>1. pc = "idle" /\ new = mysync_info_init /\ mi = mysync_info_init /\ opened = 0
  BY DEF Init
<1>2. TypeOK
  BY <1>1, Bounds DEF TypeOK
<1>3. StageInv /\ UsableInv
  BY <1>1 DEF StageInv, UsableInv, Running
<1>4. QED
  BY <1>2, <1>3 DEF Inv

(* Every end of a load that is no success. *)
LEMMA EndsInv ==
  ASSUME Inv, Rejected \/ Crashed \/ OutOfMemory, mi' = mi, opened' \in 0 .. MaxFiles
  PROVE  Inv'
<1>1. /\ pc' \in {"idle", "exited", "crashed", "no memory"}
      /\ new' = mysync_info_init \/ new' = new
  BY DEF Rejected, Crashed, OutOfMemory
<1>2. TypeOK'
  BY <1>1, Bounds DEF Inv, TypeOK
<1>3. StageInv' /\ UsableInv'
  BY <1>1 DEF Inv, StageInv, UsableInv, Running
<1>4. QED
  BY <1>2, <1>3 DEF Inv

(* What reading a line leaves when it changes the configuration. *)
LEMMA LineInv ==
  ASSUME Inv, pc = "reading", pc' = pc, new' \in Infos, new'.watch <= new'.nalloc,
         mi' = mi, opened' = opened
  PROVE  Inv'
<1>1. TypeOK'
  BY DEF Inv, TypeOK
<1>2. StageInv' /\ UsableInv'
  BY DEF Inv, StageInv, UsableInv, Running
<1>3. QED
  BY <1>1, <1>2 DEF Inv

LEMMA ReadInv == ASSUME Inv, ReadLine PROVE Inv'
<1>0. /\ new \in Infos /\ new.watch <= new.nalloc /\ opened \in 0 .. MaxFiles
  BY DEF Inv, TypeOK
<1>1. ASSUME NEW key \in Numbers, NEW value \in Values[key], ReadNumber(key, value)
      PROVE  Inv'
  <2>1. value \in 0 .. WordSize - 1
    BY ConfigAssumption
  <2>2. value % PortSize \in 0 .. WordSize - 1
    <3>1. PortSize \in Nat \ {0} /\ PortSize <= WordSize /\ value \in Nat /\ WordSize \in Nat
      BY <2>1, Bounds
    <3>2. value % PortSize \in 0 .. PortSize - 1
      BY <3>1
    <3>3. QED
      BY <3>1, <3>2
  <2>3. PICK v \in 0 .. WordSize - 1 :
          pc = "reading" /\ pc' = pc /\ new' = [new EXCEPT !.numbers[key] = v]
          /\ mi' = mi /\ opened' = opened
    BY <1>1, <2>1, <2>2 DEF ReadNumber
  <2>4. new' \in Infos /\ new'.watch <= new'.nalloc
    BY <1>0, <2>3 DEF Infos
  <2>5. QED
    BY <2>3, <2>4, LineInv
<1>2. ASSUME NEW value \in Values["pool_size"], NEW gets \in BOOLEAN, ReadPoolSize(value, gets)
      PROVE  Inv'
  <2>1. CASE pc' = pc /\ new' = [new EXCEPT !.pool = TRUE]
    <3>1. new' \in Infos /\ new'.watch <= new'.nalloc
      BY <1>0, <2>1 DEF Infos
    <3>2. QED
      BY <1>2, <2>1, <3>1, LineInv DEF ReadPoolSize
  <2>2. CASE Rejected \/ OutOfMemory
    BY <1>0, <1>2, <2>2, EndsInv DEF ReadPoolSize
  <2>3. QED
    BY <1>2, <2>1, <2>2 DEF ReadPoolSize
<1>3. ASSUME NEW key \in Texts, NEW gets \in BOOLEAN, ReadText(key, gets)
      PROVE  Inv'
  <2>1. CASE pc' = pc /\ new' = [new EXCEPT !.texts = IF gets THEN @ \union {key} ELSE @ \ {key}]
    <3>1. new' \in Infos /\ new'.watch <= new'.nalloc
      BY <1>0, <2>1 DEF Infos
    <3>2. QED
      BY <1>3, <2>1, <3>1, LineInv DEF ReadText
  <2>2. CASE Crashed
    BY <1>0, <1>3, <2>2, EndsInv DEF ReadText
  <2>3. QED
    BY <1>3, <2>1, <2>2 DEF ReadText
<1>4. ASSUME NEW grows \in BOOLEAN, NEW named \in BOOLEAN, ReadWatch(grows, named)
      PROVE  Inv'
  <2>1. CASE /\ pc' = pc
             /\ new' = [new EXCEPT !.watch = @ + 1,
                                   !.nalloc = ms_array_push(new.watch, @),
                                   !.unnamed = @ \/ ~named]
    <3>1. /\ new.watch \in 0 .. MaxWatch /\ new.watch < MaxWatch /\ new.unnamed \in BOOLEAN
          /\ new.nalloc \in 0 .. 2 * (MaxWatch + Capacity)
      BY <1>0, <1>4 DEF Infos, ReadWatch
    <3>2. PICK nalloc : nalloc = ms_array_push(new.watch, new.nalloc)
      OBVIOUS
    <3>3. nalloc \in 0 .. 2 * (MaxWatch + Capacity) /\ new.watch + 1 <= nalloc
          /\ new.watch + 1 \in 0 .. MaxWatch
      BY <1>0, <3>1, <3>2, Bounds DEF ms_array_push
    <3>4. PICK unnamed \in BOOLEAN : unnamed = (new.unnamed \/ ~named)
      BY <3>1
    <3>5. new' = [new EXCEPT !.watch = new.watch + 1, !.nalloc = nalloc, !.unnamed = unnamed]
      BY <2>1, <3>2, <3>4
    <3>6. new' \in Infos /\ new'.watch <= new'.nalloc
      BY <1>0, <3>3, <3>5 DEF Infos
    <3>7. QED
      BY <1>4, <2>1, <3>6, LineInv DEF ReadWatch
  <2>2. CASE Crashed \/ Rejected
    BY <1>0, <1>4, <2>2, EndsInv DEF ReadWatch
  <2>3. QED
    BY <1>4, <2>1, <2>2 DEF ReadWatch
<1>5. CASE ReadUnknown
  BY <1>0, <1>5, EndsInv DEF ReadUnknown
<1>6. QED
  BY <1>1, <1>2, <1>3, <1>4, <1>5 DEF ReadLine

LEMMA BuildInv ==
  ASSUME Inv, NEW gets \in BOOLEAN, NEW dirty \in BOOLEAN, BuildMap(gets, dirty)
  PROVE  Inv'
<1>0. /\ new \in Infos /\ mi \in Infos /\ new.watch <= new.nalloc /\ opened \in 0 .. MaxFiles
      /\ pc = "map" /\ mi' = mi /\ opened' = opened /\ new.pool
  BY DEF Inv, TypeOK, StageInv, BuildMap
<1>1. PICK nelts : nelts = (new.watch * new.numbers["ti_map_ratio"]) % WordSize
  OBVIOUS
<1>2. nelts \in 0 .. WordSize - 1
  <2>1. new.watch \in Nat /\ new.numbers["ti_map_ratio"] \in Nat /\ WordSize \in Nat \ {0}
    BY <1>0, Bounds DEF Infos, Numbers
  <2>2. new.watch * new.numbers["ti_map_ratio"] \in Nat
    BY <2>1
  <2>3. QED
    BY <1>1, <2>1, <2>2
<1>3. CASE Crashed \/ Rejected
  BY <1>0, <1>3, EndsInv
<1>4. CASE /\ new.watch # 0 /\ pc' = "hash"
           /\ new' = [new EXCEPT !.ti_map = nelts, !.dirty = dirty,
                                 !.ti_map_prime = cal_prime(nelts)]
  <2>1. PICK prime : prime = cal_prime(nelts)
    OBVIOUS
  <2>2. /\ prime \in 0 .. WordSize - 1
        /\ nelts # 0 => /\ prime \in 1 .. nelts
                        /\ prime = 1 \/ Prime(prime)
                        /\ Bertrand => nelts <= 2 * prime
    BY <1>2, <2>1, PrimeOfMap
  <2>3. new' = [new EXCEPT !.ti_map = nelts, !.dirty = dirty, !.ti_map_prime = prime]
    BY <1>4, <2>1
  <2>4. /\ new' \in Infos /\ new'.ti_map = nelts /\ new'.ti_map_prime = prime
        /\ new'.watch = new.watch /\ new'.nalloc = new.nalloc /\ new'.pool = new.pool
    BY <1>0, <1>2, <2>2, <2>3 DEF Infos
  <2>5. TypeOK'
    BY <1>0, <1>4, <2>4 DEF Inv, TypeOK
  <2>6. MapUsable(new')
    BY <2>2, <2>4 DEF MapUsable
  <2>7. StageInv'
    <3>1. new.watch > 0
      BY <1>0, <1>4, Bounds DEF Infos
    <3>2. QED
      BY <1>0, <1>4, <2>4, <2>6, <3>1 DEF StageInv
  <2>8. UsableInv'
    BY <1>0 DEF Inv, UsableInv, Running
  <2>9. QED
    BY <2>5, <2>7, <2>8 DEF Inv
<1>5. QED
  BY <1>1, <1>3, <1>4 DEF BuildMap

LEMMA NextInv == Inv /\ [Next]_vars => Inv'
<1> SUFFICES ASSUME Inv, [Next]_vars PROVE Inv'
  OBVIOUS
<1>0. /\ new \in Infos /\ mi \in Infos /\ new.watch <= new.nalloc /\ mi.watch <= mi.nalloc
      /\ opened \in 0 .. MaxFiles
  BY DEF Inv, TypeOK
<1>1. CASE Open
  <2>1. /\ pc' = "reading" /\ new' = mysync_info_init /\ opened' \in 0 .. MaxFiles /\ mi' = mi
    BY <1>0, <1>1, Bounds DEF Open
  <2>2. TypeOK'
    BY <1>0, <2>1, Bounds DEF TypeOK
  <2>3. StageInv' /\ UsableInv'
    BY <2>1 DEF Inv, StageInv, UsableInv, Running
  <2>4. QED
    BY <2>2, <2>3 DEF Inv
<1>2. CASE OpenFails
  BY <1>0, <1>2, EndsInv DEF OpenFails
<1>3. CASE ReadLine
  BY <1>3, ReadInv
<1>4. ASSUME NEW gets \in BOOLEAN, EndOfFile(gets) PROVE Inv'
  <2>1. CASE Crashed
    BY <1>0, <1>4, <2>1, EndsInv DEF EndOfFile
  <2>2. CASE /\ new.pool /\ pc' = "map"
             /\ new' = IF gets THEN [new EXCEPT !.texts = @ \union {"cf_path"}] ELSE new
    <3>1. new' \in Infos /\ new'.watch = new.watch /\ new'.nalloc = new.nalloc
          /\ new'.pool = new.pool
      BY <1>0, <2>2 DEF Infos
    <3>2. TypeOK'
      BY <1>0, <1>4, <2>2, <3>1 DEF TypeOK, EndOfFile
    <3>3. StageInv' /\ UsableInv'
      BY <1>4, <2>2, <3>1 DEF Inv, StageInv, UsableInv, Running, EndOfFile
    <3>4. QED
      BY <3>2, <3>3 DEF Inv
  <2>3. QED
    BY <1>4, <2>1, <2>2 DEF EndOfFile
<1>5. ASSUME NEW gets \in BOOLEAN, NEW dirty \in BOOLEAN, BuildMap(gets, dirty) PROVE Inv'
  BY <1>5, BuildInv
<1>6. ASSUME NEW built \in BOOLEAN, BuildHash(built) PROVE Inv'
  <2>1. CASE Rejected \/ OutOfMemory \/ Crashed
    BY <1>0, <1>6, <2>1, EndsInv DEF BuildHash
  <2>2. CASE ~new.unnamed /\ pc' = "verify" /\ new' = [new EXCEPT !.ti_hash = TRUE]
    <3>1. /\ new' \in Infos /\ new'.watch = new.watch /\ new'.nalloc = new.nalloc
          /\ new'.pool = new.pool /\ new'.unnamed = new.unnamed
          /\ new'.ti_map = new.ti_map /\ new'.ti_map_prime = new.ti_map_prime
      BY <1>0, <2>2 DEF Infos
    <3>2. TypeOK'
      BY <1>0, <1>6, <2>2, <3>1 DEF TypeOK, BuildHash
    <3>3. pc = "hash" /\ new.pool /\ new.watch > 0 /\ MapUsable(new)
      BY <1>6 DEF Inv, StageInv, BuildHash
    <3>4. StageInv'
      BY <2>2, <3>1, <3>3 DEF StageInv, MapUsable
    <3>5. UsableInv'
      BY <1>6 DEF Inv, UsableInv, Running, BuildHash
    <3>6. QED
      BY <3>2, <3>4, <3>5 DEF Inv
  <2>3. QED
    BY <1>6, <2>1, <2>2 DEF BuildHash
<1>7. CASE Verify
  <2>1. CASE Rejected /\ UNCHANGED mi
    BY <1>0, <1>7, <2>1, EndsInv DEF Verify
  <2>2. CASE mysync_info_verify(new) /\ mi' = new /\ new' = mysync_info_init /\ pc' = "idle"
    <3>1. TypeOK'
      BY <1>0, <1>7, <2>2, Bounds DEF TypeOK, Verify
    <3>2. StageInv'
      BY <2>2 DEF StageInv
    <3>3. new.pool /\ ~new.unnamed /\ new.watch > 0 /\ new.ti_map # 0 /\ MapUsable(new)
      BY <1>7, <2>2 DEF Inv, StageInv, Verify, mysync_info_verify
    <3>4. UsableInv'
      BY <2>2, <3>3 DEF UsableInv, MapUsable
    <3>5. QED
      BY <3>1, <3>2, <3>4 DEF Inv
  <2>3. QED
    BY <1>7, <2>1, <2>2 DEF Verify
<1>8. CASE UNCHANGED vars
  BY <1>8 DEF vars, Inv, TypeOK, StageInv, UsableInv, Running
<1>9. QED
  BY <1>1, <1>2, <1>3, <1>4, <1>5, <1>6, <1>7, <1>8 DEF Next

LEMMA Always == Spec => []Inv
<1>1. Inv /\ [Next]_vars => Inv'
  BY NextInv
<1>2. QED
  BY <1>1, InitInv, PTL DEF Spec

(* The stages of mysync_conf_load keep every number in its width, and more *)
(* table infos in an array than it has room for are never counted.         *)
THEOREM TypeCorrect == Spec => []TypeOK
<1>1. Inv => TypeOK
  BY DEF Inv
<1>2. QED
  BY <1>1, Always, PTL

(* A configuration in use has a table map and a prime that go together,    *)
(* for words of any size: cal_prime finds a prime, or 1, that leaves at    *)
(* most half of the map unused.                                            *)
THEOREM AcceptedIsUsable == ASSUME Bertrand PROVE Spec => []RunningConfUsable
<1>1. Inv => RunningConfUsable
  BY DEF Inv, UsableInv, MapUsable, RunningConfUsable
<1>2. QED
  BY <1>1, Always, PTL
=============================================================================
