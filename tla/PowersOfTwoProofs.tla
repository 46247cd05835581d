-------------------------- MODULE PowersOfTwoProofs --------------------------
(***************************************************************************)
(* Powers of two and division, for the drivers whose registers hold an     *)
(* exponent. Pow2 is a function on the naturals; the provers know no       *)
(* recursion, so that its defining equation is proved from its finite      *)
(* beginnings, which agree where they overlap. Induction is the existence  *)
(* of a least counterexample.                                              *)
(***************************************************************************)
EXTENDS PowersOfTwo, Integers, TLAPS, WellFoundedInduction

LEMMA NatOrder ==
  \E R : IsWellFoundedOn(R, Nat) /\ \A x, y \in Nat : y < x => <<y, x>> \in R
<1> DEFINE R == OpToRel(<, Nat)
<1>1. IsWellFoundedOn(R, Nat)
  BY NatLessThanWellFounded
<1>2. \A x, y \in Nat : y < x => <<y, x>> \in R
  BY DEF OpToRel
<1> HIDE DEF R
<1> QED
  BY <1>1, <1>2

\* A set of numbers that is not empty has a least one: what the proofs below
\* take in the place of an induction.
LEMMA LeastNumber ==
  ASSUME NEW S \in SUBSET Nat, S # {}
  PROVE  \E x \in S : \A y \in S : x <= y
<1>1. PICK R : /\ IsWellFoundedOn(R, Nat)
               /\ \A x, y \in Nat : y < x => <<y, x>> \in R
  BY NatOrder
<1>2. PICK x \in S : \A y \in S : ~ (<<y, x>> \in R)
  BY <1>1, WFMin
<1>3. \A y \in S : ~ (y < x)
  BY <1>1, <1>2
<1> QED
  BY <1>3

-----------------------------------------------------------------------------
(* Powers of two.                                                           *)

\* The first n of them.
Doubles(f, n) ==
  /\ f \in [0 .. n -> Nat \ {0}]
  /\ f[0] = 1
  /\ \A k \in 1 .. n : f[k] = 2 * f[k - 1]

LEMMA DoublesExist == \A n \in Nat : \E f : Doubles(f, n)
<1> DEFINE S == {n \in Nat : ~ \E f : Doubles(f, n)}
<1> SUFFICES ASSUME S # {} PROVE FALSE
  OBVIOUS
<1>1. PICK n \in S : \A m \in S : n <= m
  <2>1. S \in SUBSET Nat
    OBVIOUS
  <2> HIDE DEF S
  <2> QED
    BY <2>1, LeastNumber
<1>2. CASE n = 0
  <2>1. Doubles([k \in 0 .. 0 |-> 1], 0)
    BY DEF Doubles
  <2> QED
    BY <1>1, <1>2, <2>1
<1>3. CASE n # 0
  <2>1. n \in Nat /\ n - 1 \in Nat /\ ~ (n <= n - 1)
    BY <1>1, <1>3
  <2>2. PICK f : Doubles(f, n - 1)
    BY <1>1, <2>1
  <2> DEFINE g == [k \in 0 .. n |-> IF k = n THEN 2 * f[n - 1] ELSE f[k]]
  <2>3. f[n - 1] \in Nat \ {0} /\ \A k \in 0 .. n - 1 : f[k] \in Nat \ {0}
    BY <2>1, <2>2 DEF Doubles
  <2>4. g \in [0 .. n -> Nat \ {0}]
    BY <2>1, <2>3
  <2>5. g[0] = 1
    BY <1>3, <2>1, <2>2 DEF Doubles
  <2>6. ASSUME NEW k \in 1 .. n PROVE g[k] = 2 * g[k - 1]
    BY <2>1, <2>2 DEF Doubles
  <2>7. Doubles(g, n)
    BY <2>4, <2>5, <2>6 DEF Doubles
  <2> QED
    BY <1>1, <2>7
<1> QED
  BY <1>2, <1>3

LEMMA DoublesAgree ==
  ASSUME NEW n \in Nat, NEW m \in Nat, NEW f, NEW g, Doubles(f, n), Doubles(g,
           m),
         NEW l \in Nat, l <= n, l <= m
  PROVE  f[l] = g[l]
<1> DEFINE S == {k \in Nat : k <= n /\ k <= m /\ f[k] # g[k]}
<1> SUFFICES ASSUME S # {} PROVE FALSE
  OBVIOUS
<1>1. PICK k \in S : \A j \in S : k <= j
  <2>1. S \in SUBSET Nat
    OBVIOUS
  <2> HIDE DEF S
  <2> QED
    BY <2>1, LeastNumber
<1>2. k # 0
  BY <1>1 DEF Doubles
<1>3. /\ k - 1 \in Nat /\ k - 1 <= n /\ k - 1 <= m /\ ~ (k <= k - 1)
      /\ k \in 1 .. n /\ k \in 1 .. m
  BY <1>1, <1>2
<1>4. f[k - 1] = g[k - 1]
  BY <1>1, <1>3
<1> QED
  BY <1>1, <1>3, <1>4 DEF Doubles

LEMMA Pow2Is == Pow2 = [n \in Nat |-> IF n = 0 THEN 1 ELSE 2 * Pow2[n - 1]]
<1> DEFINE F == [n \in Nat |-> (CHOOSE f : Doubles(f, n))[n]]
<1>1. ASSUME NEW n \in Nat, NEW f, Doubles(f, n), NEW m \in Nat, m <= n
      PROVE  F[m] = f[m]
  <2>1. Doubles(CHOOSE g : Doubles(g, m), m)
    BY DoublesExist
  <2> QED
    BY <1>1, <2>1, DoublesAgree
<1>2. ASSUME NEW n \in Nat
      PROVE  F[n] = IF n = 0 THEN 1 ELSE 2 * F[n - 1]
  <2>1. PICK f : Doubles(f, n)
    BY DoublesExist
  <2>2. F[n] = f[n]
    BY <1>1, <2>1
  <2>3. CASE n = 0
    BY <2>1, <2>2, <2>3 DEF Doubles
  <2>4. CASE n # 0
    <3>1. n - 1 \in Nat /\ n - 1 <= n /\ n \in 1 .. n
      BY <2>4
    <3>2. F[n - 1] = f[n - 1]
      BY <1>1, <2>1, <3>1
    <3>3. f[n] = 2 * f[n - 1]
      BY <2>1, <3>1 DEF Doubles
    <3> QED
      BY <2>2, <2>4, <3>2, <3>3
  <2> QED
    BY <2>3, <2>4
<1>3. F = [n \in Nat |-> IF n = 0 THEN 1 ELSE 2 * F[n - 1]]
  <2>1. F = [n \in Nat |-> F[n]]
    OBVIOUS
  <2> HIDE DEF F
  <2> QED
    BY <1>2, <2>1
<1> HIDE DEF F
<1> QED
  BY <1>3 DEF Pow2

LEMMA Pow2Steps == Pow2[0] = 1 /\ \A n \in Nat : Pow2[n + 1] = 2 * Pow2[n]
<1>1. Pow2[0] = 1
  BY Pow2Is
<1>2. ASSUME NEW n \in Nat PROVE Pow2[n + 1] = 2 * Pow2[n]
  <2>1. n + 1 \in Nat /\ n + 1 # 0 /\ (n + 1) - 1 = n
    OBVIOUS
  <2> QED
    BY <2>1, Pow2Is
<1> QED
  BY <1>1, <1>2

LEMMA Pow2Types == \A n \in Nat : Pow2[n] \in Nat \ {0}
<1> DEFINE S == {n \in Nat : Pow2[n] \notin Nat \ {0}}
<1> SUFFICES ASSUME S # {} PROVE FALSE
  OBVIOUS
<1>1. PICK n \in S : \A m \in S : n <= m
  <2>1. S \in SUBSET Nat
    OBVIOUS
  <2> HIDE DEF S
  <2> QED
    BY <2>1, LeastNumber
<1>2. n # 0
  BY <1>1, Pow2Steps
<1>3. n - 1 \in Nat /\ ~ (n <= n - 1) /\ (n - 1) + 1 = n
  BY <1>1, <1>2
<1>4. Pow2[n - 1] \in Nat \ {0}
  BY <1>1, <1>3
<1>5. Pow2[n] = 2 * Pow2[n - 1]
  BY <1>3, Pow2Steps
<1> QED
  BY <1>1, <1>4, <1>5

-----------------------------------------------------------------------------
(* Quotients and remainders.                                                *)

LEMMA Division ==
  ASSUME NEW n \in Nat, NEW b \in Nat \ {0}
  PROVE  /\ n \div b \in Nat /\ n % b \in 0 .. b - 1 /\ n % b \in Nat
         /\ n = b * (n \div b) + (n % b)
<1>1. n \div b \in Nat /\ n % b \in 0 .. b - 1 /\ n % b \in Nat
  OBVIOUS
<1>2. \A q, r \in Nat : n \div b = q /\ n % b = r => n = b * q + r
  OBVIOUS
<1> DEFINE q == n \div b  r == n % b
<1>3. q \in Nat /\ r \in Nat /\ n \div b = q /\ n % b = r
  BY <1>1
<1> HIDE DEF q, r
<1>4. n = b * q + r
  BY <1>2, <1>3
<1> QED
  BY <1>1, <1>4 DEF q, r

LEMMA ProductTypes == \A a, b \in Nat : a * b \in Nat
  OBVIOUS

LEMMA ProductOrder ==
  ASSUME NEW a \in Nat, NEW b \in Nat, NEW c \in Nat, a <= b
  PROVE  c * a <= c * b
<1>1. PICK k \in Nat : b = a + k
  <2>1. b - a \in Nat /\ b = a + (b - a)
    OBVIOUS
  <2> QED
    BY <2>1
<1>2. c * b = c * a + c * k /\ c * a \in Nat /\ c * k \in Nat
  BY <1>1
<1> QED
  BY <1>2

\* The quotient is the only one with a remainder below the divisor.
LEMMA QuotientOrder ==
  ASSUME NEW b \in Nat \ {0}, NEW p \in Nat, NEW q \in Nat,
         NEW r \in 0 .. b - 1, NEW s \in 0 .. b - 1, b * p + r <= b * q + s
  PROVE  p <= q
<1> SUFFICES ASSUME p > q PROVE FALSE
  OBVIOUS
<1>1. b * (q + 1) <= b * p
  BY ProductOrder
<1>2. b * (q + 1) = b * q + b /\ b * q \in Nat /\ b * p \in Nat
  OBVIOUS
<1> DEFINE x == b * q  y == b * p  z == b * (q + 1)
<1>3. /\ z <= y /\ z = x + b /\ x \in Nat /\ y \in Nat /\ y + r <= x + s
      /\ r \in Nat /\ s \in Nat /\ s < b /\ b \in Nat
  BY <1>1, <1>2
<1> HIDE DEF x, y, z
<1> QED
  BY <1>3

LEMMA DivisionIs ==
  ASSUME NEW n \in Nat, NEW b \in Nat \ {0}, NEW q \in Nat,
           NEW r \in 0 .. b - 1,
         n = b * q + r
  PROVE  n \div b = q /\ n % b = r
<1> DEFINE p == n \div b  s == n % b
<1>1. p \in Nat /\ s \in 0 .. b - 1 /\ n = b * p + s
  BY Division
<1> HIDE DEF p, s
<1>2. b * p \in Nat /\ b * q \in Nat /\ r \in Nat /\ s \in Nat
  BY <1>1
<1>3. b * p + s <= b * q + r /\ b * q + r <= b * p + s
  BY <1>1, <1>2
<1>4. p <= q /\ q <= p
  BY <1>1, <1>3, QuotientOrder
<1>5. p = q
  BY <1>1, <1>4
<1>6. s = r
  BY <1>1, <1>2, <1>5
<1> QED
  BY <1>5, <1>6 DEF p, s

LEMMA DivisionOrder ==
  ASSUME NEW n \in Nat, NEW m \in Nat, n <= m, NEW b \in Nat \ {0}
  PROVE  n \div b <= m \div b
<1> DEFINE p == n \div b  s == n % b  q == m \div b  t == m % b
<1>1. /\ p \in Nat /\ s \in 0 .. b - 1 /\ n = b * p + s
      /\ q \in Nat /\ t \in 0 .. b - 1 /\ m = b * q + t
  BY Division
<1> HIDE DEF p, s, q, t
<1>2. b * p + s <= b * q + t
  BY <1>1
<1>3. p <= q
  BY <1>1, <1>2, QuotientOrder
<1> QED
  BY <1>3 DEF p, q

LEMMA DivisionDown ==
  ASSUME NEW n \in Nat, NEW b \in Nat \ {0}
  PROVE  b * (n \div b) <= n /\ n \div b <= n
<1> DEFINE p == n \div b  s == n % b
<1>1. p \in Nat /\ s \in Nat /\ n = b * p + s
  BY Division
<1> HIDE DEF p, s
<1>2. b * p \in Nat /\ b * p <= n
  BY <1>1
<1>3. p * 1 <= p * b /\ p * b = b * p
  BY <1>1, ProductOrder
<1> QED
  BY <1>1, <1>2, <1>3 DEF p

LEMMA SmallDivision ==
  ASSUME NEW n \in Nat, NEW b \in Nat \ {0}, n < b
  PROVE  n \div b = 0 /\ n % b = n
<1>1. 0 \in Nat /\ n \in 0 .. b - 1
  OBVIOUS
<1>2. b * 0 = 0
  OBVIOUS
<1>3. n = b * 0 + n
  BY <1>2
<1> QED
  BY <1>1, <1>3, DivisionIs
==============================================================================
