---------------------------- MODULE LeastNumbers ----------------------------
(***************************************************************************)
(* A set of natural numbers has a least one.  The proofs about data that   *)
(* would need an induction take a least counterexample instead.            *)
(***************************************************************************)
EXTENDS Naturals, WellFoundedInduction, TLAPS

LessWellFounded ==
  IsWellFoundedOn({ss \in Nat \X Nat : ss[1] < ss[2]}, Nat)

LEMMA LessIsWellFounded == LessWellFounded
  BY NatLessThanWellFounded DEF LessWellFounded, OpToRel

LEMMA LeastNumber ==
  ASSUME NEW T \in SUBSET Nat, T # {}
  PROVE  \E x \in T : \A y \in T : x <= y
  <1> DEFINE R == {ss \in Nat \X Nat : ss[1] < ss[2]}
  <1>1. PICK x \in T : \A y \in T : ~ (<<y, x>> \in R)
    <2>1. IsWellFoundedOn(R, Nat)
      BY LessIsWellFounded DEF LessWellFounded
    <2>2. QED
      BY <2>1, WFMin
  <1>2. \A y \in T : ~ (y < x)
    BY <1>1
  <1>3. QED
    BY <1>2
=============================================================================
