------------------------------- MODULE Numbers -------------------------------
(* Least and greatest elements of sets of numbers, for the proofs. *)
EXTENDS Integers, WellFoundedInduction, TLAPS

Less == {ss \in Nat \X Nat : ss[1] < ss[2]}

LEMMA LessWellFounded == IsWellFoundedOn(Less, Nat)
  BY NatLessThanWellFounded DEF OpToRel, Less

(* Every set of numbers has a least element. *)
LEMMA LeastExists ==
  ASSUME NEW S \in SUBSET Nat, S # {}
  PROVE  \E x \in S : \A y \in S : x <= y
<1>1. PICK x \in S : \A y \in S : <<y, x>> \notin Less
  BY LessWellFounded, WFMin
<1>2. \A y \in S : ~ (y < x)
  BY <1>1 DEF Less
<1> QED BY <1>2

(* A bounded one has a greatest. *)
LEMMA GreatestExists ==
  ASSUME NEW n \in Nat, NEW S \in SUBSET (0..n), S # {}
  PROVE  \E x \in S : \A y \in S : x >= y
<1> DEFINE T == {n - x : x \in S}
<1>1. T \in SUBSET Nat
  OBVIOUS
<1>2. T # {}
  <2>1. PICK x \in S : TRUE
    OBVIOUS
  <2> QED BY <2>1
<1>3. PICK t \in T : \A u \in T : t <= u
  BY <1>1, <1>2, LeastExists
<1>4. PICK x \in S : t = n - x
  OBVIOUS
<1>5. \A y \in S : n - x <= n - y
  BY <1>3, <1>4
<1> QED BY <1>5

=============================================================================
