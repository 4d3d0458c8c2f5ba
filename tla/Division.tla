------------------------------ MODULE Division -------------------------------
(***************************************************************************)
(* Integer division, for the proofs about block sizes and dilated times.   *)
(***************************************************************************)
EXTENDS Integers, TLAPS

\* Quotient and remainder.
LEMMA DivMod ==
    ASSUME NEW x \in Nat, NEW d \in Nat \ {0}
    PROVE  /\ x \div d \in Nat
           /\ x % d \in 0..(d - 1)
           /\ x = d * (x \div d) + (x % d)
  BY Z3

\* The next multiple is larger.
LEMMA DivBound ==
    ASSUME NEW x \in Nat, NEW d \in Nat \ {0}
    PROVE  x \div d \in Nat /\ x < d * (x \div d) + d
<1>1. x \div d \in Nat /\ x % d \in 0..(d - 1) /\ x = d * (x \div d) + (x % d)
  BY DivMod
<1>2. d * (x \div d) \in Nat
  BY <1>1, Z3
<1> QED BY <1>1, <1>2

\* A quotient is known by the interval its product lies in.
LEMMA DivUnique ==
    ASSUME NEW x \in Nat, NEW d \in Nat \ {0}, NEW q \in Nat,
           d * q <= x, x < d * q + d
    PROVE  x \div d = q
<1> DEFINE p == x \div d
<1>1. p \in Nat /\ d * p <= x /\ x < d * p + d
  BY DivMod
<1>2. CASE p < q
  <2>1. q - p \in Nat /\ q - p >= 1
    BY <1>1, <1>2
  <2>2. d * (q - p) >= d
    BY <2>1, Z3
  <2>3. d * q = d * p + d * (q - p)
    BY <1>1, Z3
  <2> QED BY <1>1, <2>2, <2>3
<1>3. CASE q < p
  <2>1. p - q \in Nat /\ p - q >= 1
    BY <1>1, <1>3
  <2>2. d * (p - q) >= d
    BY <2>1, Z3
  <2>3. d * p = d * q + d * (p - q)
    BY <1>1, Z3
  <2> QED BY <1>1, <2>2, <2>3
<1> QED BY <1>1, <1>2, <1>3

\* Multiples of d are closed under addition and subtraction.
LEMMA ModZero ==
    ASSUME NEW d \in Nat \ {0}, NEW q \in Nat
    PROVE  d * q \in Nat /\ (d * q) % d = 0
<1>1. d * q \in Nat
  BY Z3
<1>2. (d * q) \div d = q
  BY <1>1, DivUnique
<1>3. d * q = d * ((d * q) \div d) + ((d * q) % d)
  BY <1>1, DivMod
<1>4. (d * q) % d \in Nat
  BY <1>1, DivMod
<1> QED BY <1>1, <1>2, <1>3, <1>4

LEMMA ModSum ==
    ASSUME NEW d \in Nat \ {0}, NEW x \in Nat, NEW y \in Nat,
           x % d = 0, y % d = 0
    PROVE  (x + y) % d = 0
<1> DEFINE p == x \div d
           q == y \div d
<1>1. p \in Nat /\ x = d * p
  BY DivMod
<1>2. q \in Nat /\ y = d * q
  BY DivMod
<1>3. x + y = d * (p + q)
  BY <1>1, <1>2, Z3
<1>4. (d * (p + q)) % d = 0
  BY <1>1, <1>2, ModZero
<1> QED BY <1>3, <1>4
=============================================================================
