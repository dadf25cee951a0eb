---------------------------- MODULE NumberFacts -----------------------------
(***************************************************************************)
(* A fact about numbers that proofs of several components need.            *)
(***************************************************************************)
EXTENDS Naturals, WellFoundedInduction, TLAPS

(* A bounded set of numbers that is not empty has a largest one.           *)
LEMMA LargestExists ==
  ASSUME NEW S \in SUBSET Nat, S # {}, NEW b \in Nat, \A x \in S : x <= b
  PROVE  \E x \in S : \A y \in S : y <= x
<1> DEFINE less == OpToRel(<, Nat)
           T == {n \in Nat : \E x \in S : x + n = b}
<1>1. T \subseteq Nat /\ T # {}
  <2>1. PICK x \in S : x <= b
    OBVIOUS
  <2>2. b - x \in Nat /\ x + (b - x) = b
    BY <2>1
  <2>3. b - x \in T
    BY <2>2
  <2> QED  BY <2>3
<1>2. \E x \in T : \A y \in T : ~ (<<y, x>> \in less)
  <2> HIDE DEF T
  <2> QED  BY <1>1, NatLessThanWellFounded, WFMin
<1>3. PICK t \in T : \A y \in T : ~ (<<y, t>> \in less)
  BY <1>2
<1>4. PICK x \in S : x + t = b
  OBVIOUS
<1>5. \A y \in T : ~ (y < t)
  BY <1>3, <1>1 DEF OpToRel
<1>6. ASSUME NEW y \in S  PROVE  y <= x
  <2>1. y <= b /\ y \in Nat /\ x \in Nat /\ t \in Nat
    OBVIOUS
  <2>2. b - y \in T /\ b - y \in Nat
    BY <2>1
  <2> QED  BY <1>5, <1>4, <2>1, <2>2
<1> QED  BY <1>6

=============================================================================
