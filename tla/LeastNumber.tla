----------------------------- MODULE LeastNumber -----------------------------
(***************************************************************************)
(* The least-number principle and its consequences for bounded sets of     *)
(* integers.  Arguments by induction in the other proof modules are made   *)
(* by taking a least counterexample.                                       *)
(***************************************************************************)
EXTENDS Integers, WellFoundedInduction, TLAPS

LtRel == {p \in Nat \X Nat : p[1] < p[2]}

(* The order of the natural numbers is well-founded. *)
LEMMA LtRelWellFounded == IsWellFoundedOn(LtRel, Nat)
<1>1. OpToRel(<, Nat) = LtRel
  BY DEF OpToRel, LtRel
<1>2. QED
  BY <1>1, NatLessThanWellFounded, Zenon

(* Every non-empty set of natural numbers has a least element. *)
THEOREM LeastNatural ==
  ASSUME NEW T, T \subseteq Nat, T # {}
  PROVE  \E m \in T : \A x \in T : m <= x
<1>1. PICK m \in T : \A y \in T : ~ (<<y, m>> \in LtRel)
  BY LtRelWellFounded, WFMin, Zenon
<1>2. ASSUME NEW x \in T
      PROVE  m <= x
  <2>1. ~ (<<x, m>> \in LtRel)
    BY <1>1, Zenon
  <2>2. <<x, m>> \in Nat \X Nat /\ <<x, m>>[1] = x /\ <<x, m>>[2] = m
    BY T \subseteq Nat
  <2>3. ~ (x < m)
    BY <2>1, <2>2 DEF LtRel
  <2>4. QED
    BY <2>3
<1>3. QED
  BY <1>2

(* A non-empty set of integers between two bounds has a least element. *)
LEMMA LeastInteger ==
  ASSUME NEW lo \in Int, NEW hi \in Int,
         NEW S, S \subseteq lo .. hi, S # {}
  PROVE  \E m \in S : \A x \in S : m <= x
<1> DEFINE T == {n \in Nat : lo + n \in S}
<1>1. T # {}
  <2>1. PICK x : x \in S
    OBVIOUS
  <2>2. x - lo \in Nat /\ lo + (x - lo) = x
    BY <2>1
  <2>3. QED
    BY <2>1, <2>2
<1>2. PICK n \in T : \A k \in T : n <= k
  <2> HIDE DEF T
  <2>1. T \subseteq Nat
    BY DEF T
  <2>2. QED
    BY <1>1, <2>1, LeastNatural
<1>3. ASSUME NEW x \in S
      PROVE  lo + n <= x
  <2>1. x - lo \in Nat /\ lo + (x - lo) = x
    OBVIOUS
  <2>2. x - lo \in T
    BY <2>1
  <2>3. QED
    BY <1>2, <2>1, <2>2
<1>4. QED
  BY <1>2, <1>3

(* A non-empty set of integers between two bounds has a greatest element. *)
LEMMA GreatestInteger ==
  ASSUME NEW lo \in Int, NEW hi \in Int,
         NEW S, S \subseteq lo .. hi, S # {}
  PROVE  \E m \in S : \A x \in S : x <= m
<1> DEFINE T == {n \in (-hi) .. (-lo) : -n \in S}
<1>1. \A x \in S : -x \in T
  OBVIOUS
<1>2. T \subseteq (-hi) .. (-lo) /\ T # {}
  BY <1>1
<1>3. PICK n \in T : \A k \in T : n <= k
  <2> HIDE DEF T
  <2>1. -hi \in Int /\ -lo \in Int
    OBVIOUS
  <2>2. QED
    BY <1>2, <2>1, LeastInteger
<1>4. \A x \in S : x <= -n
  BY <1>1, <1>3
<1>5. QED
  BY <1>3, <1>4

=============================================================================
