---------------------------- MODULE CountingFacts ----------------------------
(***************************************************************************)
(* Facts about counts that the proofs of several components need.  An op   *)
(* counter of the SDK is the cardinality of the set of threads between     *)
(* their add and their sub, and the theorems on finite sets say how that   *)
(* changes when one thread enters or leaves.                               *)
(***************************************************************************)
EXTENDS Integers, FiniteSetTheorems, WellFoundedInduction, TLAPS

\* The cardinalities of the subsets of a finite set, with one member more or less.
LEMMA Cardinalities ==
  ASSUME NEW T, IsFiniteSet(T)
  PROVE  /\ Cardinality(T) \in Nat /\ Cardinality({}) = 0
         /\ \A S \in SUBSET T :
              /\ Cardinality(S) \in 0..Cardinality(T)
              /\ Cardinality(S) = 0 <=> S = {}
              /\ \A t \in T \ S : Cardinality(S \cup {t}) = Cardinality(S) + 1
              /\ \A t \in S : Cardinality(S \ {t}) = Cardinality(S) - 1
<1>1. Cardinality(T) \in Nat /\ Cardinality({}) = 0
  BY FS_CardinalityType, FS_EmptySet
<1>2. ASSUME NEW S \in SUBSET T
      PROVE  /\ Cardinality(S) \in 0..Cardinality(T)
             /\ Cardinality(S) = 0 <=> S = {}
             /\ \A t \in T \ S : Cardinality(S \cup {t}) = Cardinality(S) + 1
             /\ \A t \in S : Cardinality(S \ {t}) = Cardinality(S) - 1
  <2>1. IsFiniteSet(S) /\ Cardinality(S) \in Nat /\ Cardinality(S) <= Cardinality(T)
    BY FS_Subset, FS_CardinalityType
  <2>2. Cardinality(S) = 0 <=> S = {}
    BY <2>1, FS_EmptySet
  <2>3. \A t \in T \ S : Cardinality(S \cup {t}) = Cardinality(S) + 1
    BY <2>1, FS_AddElement
  <2>4. \A t \in S : Cardinality(S \ {t}) = Cardinality(S) - 1
    BY <2>1, FS_RemoveElement
  <2> QED
    BY <1>1, <2>1, <2>2, <2>3, <2>4
<1> QED
  BY <1>1, <1>2

\* A set without two different members has none or one.
LEMMA AtMostOne ==
  ASSUME NEW S, \A t, u \in S : t = u
  PROVE  Cardinality(S) = IF S = {} THEN 0 ELSE 1
<1>1. CASE S = {}
  BY <1>1, FS_EmptySet
<1>2. CASE S # {}
  <2>1. PICK t \in S : S = {t}
    BY <1>2
  <2> QED
    BY <2>1, FS_Singleton
<1> QED
  BY <1>1, <1>2

\* A set of naturals that is not empty has a least element.
LEMMA LeastNatural ==
  ASSUME NEW T \in SUBSET Nat, T # {}
  PROVE  \E x \in T : \A y \in T : x <= y
<1> DEFINE R == {ss \in Nat \X Nat : ss[1] < ss[2]}
<1>1. IsWellFoundedOn(R, Nat)
  BY NatLessThanWellFounded DEF OpToRel
<1>2. PICK x \in T : \A y \in T : ~(<<y, x>> \in R)
  <2> HIDE DEF R
  <2> QED
    BY <1>1, WFMin
<1>3. ASSUME NEW y \in T PROVE x <= y
  <2>1. x \in Nat /\ y \in Nat /\ ~(<<y, x>> \in R)
    BY <1>2
  <2> QED
    BY <2>1
<1> QED
  BY <1>3
=============================================================================
