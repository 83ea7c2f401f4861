---------------------------- MODULE NumberLemmas ----------------------------
(***************************************************************************)
(* Least and greatest numbers of sets, which the proofs about sequences do  *)
(* their inductions with.                                                   *)
(***************************************************************************)
EXTENDS Integers, WellFoundedInduction, TLAPS

(* The least-number principle.                                              *)
LEMMA LeastNumber ==
    ASSUME NEW T, T \subseteq Nat, T # {}
    PROVE  \E x \in T : \A y \in T : x <= y
<1>1. \E x \in T : \A y \in T : ~ (<<y, x>> \in OpToRel(<, Nat))
  BY NatLessThanWellFounded, WFMin, Zenon
<1>2. OpToRel(<, Nat) = {ss \in Nat \X Nat : ss[1] < ss[2]}
  BY Zenon DEF OpToRel
<1>3. PICK x \in T : \A y \in T : ~ (<<y, x>> \in {ss \in Nat \X Nat : ss[1] < ss[2]})
  BY <1>1, <1>2, Zenon
<1>4. \A y \in T : ~(y < x)
  BY <1>3
<1> QED
  BY <1>4

(* Induction up to a bound: a set that has 0, and each number whose         *)
(* predecessor it has, has them all.                                        *)
LEMMA InductionUpTo ==
    ASSUME NEW n \in Nat, NEW T, 0 \in T, \A i \in 1..n : i - 1 \in T => i \in T
    PROVE  0..n \subseteq T
<1> DEFINE Bad == (0..n) \ T
<1>1. ASSUME Bad # {} PROVE FALSE
  <2>1. PICK x \in Bad : \A y \in Bad : x <= y
    <3>1. Bad \subseteq Nat
      OBVIOUS
    <3> QED
      BY <1>1, <3>1, LeastNumber
  <2>2. x \in 1..n /\ x - 1 \in 0..n /\ ~ (x <= x - 1)
    BY <2>1
  <2> QED
    BY <2>1, <2>2
<1> QED
  BY <1>1

(* A set of numbers up to a bound has a greatest.                           *)
LEMMA GreatestNumber ==
    ASSUME NEW n \in Nat, NEW T, T \subseteq 0..n, T # {}
    PROVE  \E x \in T : \A y \in T : y <= x
<1> DEFINE D == {n - y : y \in T}
<1>1. D \subseteq Nat
  <2>1. \A y \in T : y \in 0..n /\ n - y \in Nat
    OBVIOUS
  <2> QED
    BY <2>1
<1>2. D # {}
  OBVIOUS
<1>3. PICK d \in D : \A e \in D : d <= e
  <2> HIDE DEF D
  <2> QED
    BY <1>1, <1>2, LeastNumber
<1>4. PICK x \in T : d = n - x
  OBVIOUS
<1>5. \A y \in T : n - x <= n - y
  BY <1>3, <1>4
<1> QED
  BY <1>5
=============================================================================
