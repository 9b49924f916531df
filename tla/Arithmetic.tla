----------------------------- MODULE Arithmetic -----------------------------
(***************************************************************************)
(* Facts about quotients and remainders for divisors that are constants of *)
(* a model, which the proofs about address registers and counters use.     *)
(***************************************************************************)
EXTENDS Integers, TLAPS

\* Division with remainder, as the bit fields of a register are taken out.
LEMMA DivMod ==
    ASSUME NEW n \in Nat, NEW d \in Nat \ {0}
    PROVE  /\ n % d \in 0 .. d - 1
           /\ n \div d \in Nat
           /\ n = d * (n \div d) + (n % d)
BY SMT

\* Products keep the order of their factors, with room for a remainder.
LEMMA ProductGap ==
    ASSUME NEW d \in Nat \ {0}, NEW p \in Nat, NEW s \in Nat, p < s
    PROVE  d * p + d <= d * s
<1>1. d * s = d * p + d * (s - p)
  OBVIOUS
<1>2. s - p >= 1 /\ s - p \in Nat
  OBVIOUS
<1>3. d * (s - p) >= d
  BY <1>2
<1> QED
  BY <1>1, <1>3

\* Quotient and remainder are determined by their equation.
LEMMA DivModUnique ==
    ASSUME NEW n \in Nat, NEW d \in Nat \ {0}, NEW q \in Nat, NEW r \in 0 .. d - 1,
           n = d * q + r
    PROVE  n % d = r /\ n \div d = q
<1>1. n = d * (n \div d) + (n % d) /\ n % d \in 0 .. d - 1 /\ n \div d \in Nat
  BY DivMod
<1>2. ~(q < n \div d)
  BY <1>1, ProductGap
<1>3. ~(n \div d < q)
  BY <1>1, ProductGap
<1> QED
  BY <1>1, <1>2, <1>3

\* A counter that wraps: one step further.
LEMMA ModStep ==
    ASSUME NEW n \in Nat, NEW d \in Nat \ {0}
    PROVE  (n + 1) % d = IF n % d = d - 1 THEN 0 ELSE (n % d) + 1
<1> DEFINE q == n \div d
           r == n % d
<1>1. n = d * q + r /\ r \in 0 .. d - 1 /\ q \in Nat
  BY DivMod
<1>2. n + 1 \in Nat /\ q + 1 \in Nat /\ 0 \in 0 .. d - 1
  BY <1>1
<1> HIDE DEF q, r
<1>3. CASE r = d - 1
  <2>1. n + 1 = d * (q + 1) + 0
    BY <1>1, <1>3
  <2>2. (n + 1) % d = 0
    BY <2>1, <1>2, DivModUnique
  <2> QED
    BY <2>2, <1>3 DEF r
<1>4. CASE r # d - 1
  <2>1. n + 1 = d * q + (r + 1) /\ r + 1 \in 0 .. d - 1
    BY <1>1, <1>4
  <2>2. (n + 1) % d = r + 1
    BY <2>1, <1>1, <1>2, DivModUnique
  <2> QED
    BY <2>2, <1>4 DEF r
<1> QED
  BY <1>3, <1>4
=============================================================================
