---------------------------- MODULE NumberLemmas ----------------------------
(***************************************************************************)
(* Lemmas about numbers that the proofs of the components share: the       *)
(* remainders that model the unsigned arithmetic of C++, induction, and    *)
(* functions defined by recursion.                                         *)
(***************************************************************************)
EXTENDS Integers, WellFoundedInduction, TLAPS

LEMMA Division ==
  ASSUME NEW a \in Int, NEW m \in Nat \ {0}
  PROVE  /\ a % m \in 0..(m - 1) /\ a \div m \in Int
         /\ a = m * (a \div m) + (a % m)
OBVIOUS

LEMMA RemainderUnique ==
  ASSUME NEW m \in Nat \ {0}, NEW q \in Int, NEW p \in Int,
         NEW r \in 0..(m - 1), NEW s \in 0..(m - 1), m * q + r = m * p + s
  PROVE  r = s
<1>1. CASE q = p
  BY <1>1
<1>2. CASE q - p >= 1
  <2>1. m * (q - p) >= m
    BY <1>2
  <2>2. m * (q - p) = m * q - m * p
    OBVIOUS
  <2> QED
    BY <2>1, <2>2
<1>3. CASE p - q >= 1
  <2>1. m * (p - q) >= m
    BY <1>3
  <2>2. m * (p - q) = m * p - m * q
    OBVIOUS
  <2> QED
    BY <2>1, <2>2
<1> QED
  BY <1>1, <1>2, <1>3

(* Adding the range of an unsigned type changes nothing.                   *)
LEMMA WrapAround ==
  ASSUME NEW a \in Int, NEW m \in Nat \ {0}
  PROVE  (a + m) % m = a % m
<1> DEFINE q == (a + m) \div m
           p == a \div m
           r == (a + m) % m
           s == a % m
<1>1. r \in 0..(m - 1) /\ q \in Int /\ a + m = m * q + r
  BY Division
<1>2. s \in 0..(m - 1) /\ p \in Int /\ a = m * p + s
  BY Division
<1> HIDE DEF q, p, r, s
<1>3. p + 1 \in Int /\ m * (p + 1) = m * p + m
  BY <1>2
<1>4. m * q + r = m * (p + 1) + s
  <2> DEFINE x == m * q
             y == m * p
             z == m * (p + 1)
  <2>1. x \in Int /\ y \in Int /\ z \in Int
    BY <1>1, <1>2, <1>3
  <2>2. a + m = x + r /\ a = y + s /\ z = y + m
    BY <1>1, <1>2, <1>3
  <2> HIDE DEF x, y, z
  <2>3. x + r = z + s
    BY <1>1, <1>2, <2>1, <2>2
  <2> QED
    BY <2>3 DEF x, z
<1>5. r = s
  BY <1>1, <1>2, <1>3, <1>4, RemainderUnique
<1> QED
  BY <1>5 DEF r, s

(* What an unsigned type holds is not changed by the conversion to it.     *)
LEMMA SmallRemainder ==
  ASSUME NEW m \in Nat \ {0}, NEW n \in 0..(m - 1)
  PROVE  n % m = n
OBVIOUS

LEMMA MinusOne ==
  ASSUME NEW m \in Nat \ {0}
  PROVE  (-1) % m = m - 1
<1>1. ((-1) + m) % m = (-1) % m
  <2>1. -1 \in Int
    OBVIOUS
  <2> QED
    BY <2>1, WrapAround
<1>2. (-1) + m = m - 1 /\ m - 1 \in 0..(m - 1)
  OBVIOUS
<1>3. (m - 1) % m = m - 1
  BY <1>2, SmallRemainder
<1> QED
  BY <1>1, <1>2, <1>3

-----------------------------------------------------------------------------
(* Induction without an operator as a parameter.                           *)

LEMMA LeastElement ==
  ASSUME NEW T, T \subseteq Nat, T # {}
  PROVE  \E x \in T : \A y \in T : x <= y
<1> DEFINE R == OpToRel(<, Nat)
<1>1. \A x, y \in Nat : <<y, x>> \in R <=> y < x
  BY DEF OpToRel
<1>2. PICK x \in T : \A y \in T : <<y, x>> \notin R
  BY NatLessThanWellFounded, WFMin
<1> HIDE DEF R
<1>3. \A y, z \in Nat : y <= z \/ z < y
  OBVIOUS
<1> QED
  BY <1>1, <1>2, <1>3, Zenon

LEMMA Induction ==
  ASSUME NEW S, 0 \in S, \A n \in Nat : n \in S => n + 1 \in S
  PROVE  Nat \subseteq S
<1> SUFFICES ASSUME Nat \ S # {} PROVE FALSE
  OBVIOUS
<1>1. PICK x \in Nat \ S : \A y \in Nat \ S : x <= y
  BY LeastElement
<1>2. x # 0 /\ x - 1 \in Nat /\ x - 1 \in S
  BY <1>1
<1> QED
  BY <1>1, <1>2

(* A function may be defined by recursion over an interval.                *)
Recurses(f, n, x, G) == f[0] = x /\ \A i \in 1..n : f[i] = G[i][f[i - 1]]

LEMMA Recursion ==
  ASSUME NEW n \in Nat, NEW X, NEW x \in X, NEW G \in [1..n -> [X -> X]]
  PROVE  \E f \in [0..n -> X] : Recurses(f, n, x, G)
<1> DEFINE S == {m \in Nat : m <= n => \E f \in [0..m -> X] :
                                f[0] = x /\ \A i \in 1..m : f[i] = G[i][f[i - 1]]}
<1>1. 0 \in S
  <2> DEFINE f == [i \in 0..0 |-> x]
  <2>1. f \in [0..0 -> X] /\ f[0] = x /\ \A i \in 1..0 : f[i] = G[i][f[i - 1]]
    OBVIOUS
  <2> HIDE DEF f
  <2> QED
    BY <2>1
<1>2. ASSUME NEW m \in Nat, m \in S PROVE m + 1 \in S
  <2> SUFFICES ASSUME m + 1 <= n
               PROVE  \E g \in [0..(m + 1) -> X] :
                        g[0] = x /\ \A i \in 1..(m + 1) : g[i] = G[i][g[i - 1]]
    OBVIOUS
  <2>1. PICK f \in [0..m -> X] : f[0] = x /\ \A i \in 1..m : f[i] = G[i][f[i - 1]]
    BY <1>2
  <2> DEFINE last == G[m + 1][f[m]]
             g == [i \in 0..(m + 1) |-> IF i = m + 1 THEN last ELSE f[i]]
  <2>2. f[m] \in X /\ m + 1 \in 1..n
    BY <2>1
  <2>3. last \in X
    BY <2>2
  <2> HIDE DEF last
  <2>4. g \in [0..(m + 1) -> X]
    BY <2>1, <2>3
  <2>5. g[0] = x
    BY <2>1
  <2>6. ASSUME NEW i \in 1..(m + 1) PROVE g[i] = G[i][g[i - 1]]
    <3>1. CASE i = m + 1
      <4>1. g[i] = last /\ g[i - 1] = f[m]
        BY <3>1
      <4> QED
        BY <3>1, <4>1 DEF last
    <3>2. CASE i \in 1..m
      <4>1. g[i] = f[i] /\ g[i - 1] = f[i - 1]
        BY <3>2
      <4> QED
        BY <2>1, <3>2, <4>1
    <3> QED
      BY <3>1, <3>2
  <2> HIDE DEF g
  <2> QED
    BY <2>4, <2>5, <2>6
<1>3. Nat \subseteq S
  <2> HIDE DEF S
  <2> QED
    BY <1>1, <1>2, Induction
<1>4. \E f \in [0..n -> X] : f[0] = x /\ \A i \in 1..n : f[i] = G[i][f[i - 1]]
  BY <1>3
<1> QED
  BY <1>4 DEF Recurses
=============================================================================
