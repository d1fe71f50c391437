-------------------------- MODULE CardinalityFacts --------------------------
(***************************************************************************)
(* What the proofs need to know of counting: how the cardinality of a set  *)
(* follows the one element that enters or leaves it.                       *)
(***************************************************************************)
EXTENDS Integers, FiniteSetTheorems, TLAPS

In(x, S) == IF x \in S THEN 1 ELSE 0

(* A set that changes in one element only.                                 *)
LEMMA OneElement ==
  ASSUME NEW S, NEW T, NEW x, IsFiniteSet(S), S \ {x} = T \ {x}
  PROVE  /\ IsFiniteSet(T)
         /\ Cardinality(S) \in Nat
         /\ Cardinality(T) = Cardinality(S) + In(x, T) - In(x, S)
<1>1. IsFiniteSet(S \ {x}) /\ Cardinality(S \ {x}) \in Nat
  BY FS_Subset, FS_CardinalityType
<1>2. ASSUME NEW R, R \ {x} = S \ {x}
      PROVE  IsFiniteSet(R) /\ Cardinality(R) = Cardinality(S \ {x}) + In(x, R)
  <2>1. CASE x \in R
    <3>1. R = (S \ {x}) \cup {x}
      BY <1>2, <2>1
    <3> QED BY <1>1, <2>1, <3>1, FS_AddElement DEF In
  <2>2. CASE x \notin R
    <3>1. R = S \ {x}
      BY <1>2, <2>2
    <3> QED BY <1>1, <2>2, <3>1 DEF In
  <2> QED BY <2>1, <2>2
<1>3. IsFiniteSet(S) /\ Cardinality(S) = Cardinality(S \ {x}) + In(x, S)
  BY <1>2
<1>4. IsFiniteSet(T) /\ Cardinality(T) = Cardinality(S \ {x}) + In(x, T)
  BY <1>2
<1> QED BY <1>1, <1>3, <1>4 DEF In

(* Among sets of finitely many things one has no other within it.          *)
LEMMA SmallestSet ==
  ASSUME NEW S, IsFiniteSet(S), NEW F, \A X \in F : X \subseteq S, F # {}
  PROVE  \E X \in F : \A Y \in F : Y \subseteq X => Y = X
<1>1. IsWellFoundedOn(StrictSubsetOrdering(S), SUBSET S)
  BY FS_StrictSubsetOrderingWellFounded, FS_FiniteSubsetsOfFinite
<1>2. F \subseteq SUBSET S
  OBVIOUS
<1>3. PICK X \in F : \A Y \in F : <<Y, X>> \notin StrictSubsetOrdering(S)
  BY <1>1, <1>2, WFMin
<1> QED BY <1>2, <1>3 DEF StrictSubsetOrdering

(* Of finitely many things with a rank one comes first, the greater number *)
(* of those with the same.                                                 *)
Outranks(rank, c, p) == rank[c] > rank[p] \/ (rank[c] = rank[p] /\ c > p)
LEMMA FirstInRank ==
  ASSUME NEW S \in SUBSET Int, IsFiniteSet(S), S # {}, NEW rank, \A p \in S : rank[p] \in Int
  PROVE  \E p \in S : \A c \in S : ~Outranks(rank, c, p)
<1> DEFINE Above(p) == {c \in S : Outranks(rank, c, p)}
           F == {Above(p) : p \in S}
<1>1. PICK p \in S : \A q \in S : Above(q) \subseteq Above(p) => Above(q) = Above(p)
  <2>1. (\A X \in F : X \subseteq S) /\ F # {}
    OBVIOUS
  <2> HIDE DEF F
  <2>2. PICK X \in F : \A Y \in F : Y \subseteq X => Y = X
    BY <2>1, SmallestSet
  <2>3. /\ \A q \in S : Above(q) \in F
        /\ \E q \in S : X = Above(q)
    BY DEF F
  <2> HIDE DEF Above
  <2> QED BY <2>2, <2>3
<1>2. ASSUME NEW c \in S, Outranks(rank, c, p) PROVE FALSE
  <2>1. ASSUME NEW d \in Above(c) PROVE d \in Above(p)
    <3>1. d \in S /\ {c, d, p} \subseteq Int /\ {rank[c], rank[d], rank[p]} \subseteq Int
      OBVIOUS
    <3>2. Outranks(rank, d, c)
      OBVIOUS
    <3>3. Outranks(rank, d, p)
      BY <1>2, <3>1, <3>2 DEF Outranks
    <3> QED BY <3>1, <3>3
  <2>2. c \in Above(p) /\ c \notin Above(c)
    BY <1>2 DEF Outranks
  <2> QED BY <1>1, <2>1, <2>2
<1> QED BY <1>2
=============================================================================
