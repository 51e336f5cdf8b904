---------------------------- MODULE LeastElement ----------------------------
(***************************************************************************)
(* The least-number principle for a set of numbers, from the library's     *)
(* theorems about well-founded relations.  The proofs of this project use  *)
(* it where a proof on paper would go by induction: the provers cannot     *)
(* instantiate a theorem that takes a predicate, but they can a set.       *)
(***************************************************************************)
EXTENDS Naturals, WellFoundedInduction, TLAPS

(* A set of numbers with a member has a least one.                         *)
LEMMA LeastNumber ==
  ASSUME NEW S, S \subseteq Nat, S # {}
  PROVE  \E m \in S : \A k \in S : m <= k
<1>1. PICK R : IsWellFoundedOn(R, Nat) /\ R = {p \in Nat \X Nat : p[1] < p[2]}
  BY NatLessThanWellFounded DEF OpToRel
<1>2. PICK m \in S : \A k \in S : ~(<<k, m>> \in R)
  BY <1>1, WFMin
<1>3. ASSUME NEW k \in S PROVE m <= k
  <2>1. k \in Nat /\ m \in Nat
    OBVIOUS
  <2>2. k < m => <<k, m>> \in R
    BY <1>1, <2>1
  <2>3. QED BY <1>2, <2>1, <2>2
<1>4. QED BY <1>3
=============================================================================
