--------------------------- MODULE IterationFacts ---------------------------
(***************************************************************************)
(* Minima, induction over the numbers up to a bound, and the existence of  *)
(* what a loop records, for the proofs about the loops of the C code.  A   *)
(* property is given as the set of the numbers that have it.               *)
(***************************************************************************)
EXTENDS Integers, FiniteSetsExt, WellFoundedInduction, TLAPS

\* A non-empty set of natural numbers has a minimum.
LEMMA MinFacts ==
    ASSUME NEW S \in SUBSET Nat, S # {}
    PROVE  Min(S) \in S /\ \A x \in S : Min(S) <= x
<1>1. PICK m \in S : \A x \in S : << x, m >> \notin OpToRel(<, Nat)
  BY WFMin, NatLessThanWellFounded, Zenon
<1>2. \A x \in S : ~ x < m
  BY <1>1, Zenon DEF OpToRel
<1>3. \A x \in S : m <= x
  BY <1>2
<1> QED
  BY <1>3 DEF Min

\* Induction up to K, for the set P of the numbers with a property.
LEMMA InductUpTo ==
    ASSUME NEW K \in Nat, NEW P, 0 \in P, \A k \in 1 .. K : k - 1 \in P => k \in P
    PROVE  \A k \in 0 .. K : k \in P
<1> SUFFICES ASSUME NEW k0 \in 0 .. K, k0 \notin P PROVE FALSE
  OBVIOUS
<1> DEFINE S == { k \in 0 .. K : k \notin P }
           m == Min(S)
<1>1. m \in S /\ \A x \in S : m <= x
  <2>1. S \in SUBSET Nat /\ S # {}
    OBVIOUS
  <2> QED
    BY <2>1, MinFacts
<1> HIDE DEF m
<1>2. m \in 1 .. K /\ m - 1 \in 0 .. K /\ m \notin P
  BY <1>1
<1>3. m - 1 \in P
  BY <1>1, <1>2
<1> QED
  BY <1>2, <1>3

\* Complete induction.
LEMMA InductBelow ==
    ASSUME NEW P, \A k \in Nat : (\A j \in Nat : j < k => j \in P) => k \in P
    PROVE  \A k \in Nat : k \in P
<1> SUFFICES ASSUME NEW k0 \in Nat, k0 \notin P PROVE FALSE
  OBVIOUS
<1> DEFINE S == { k \in Nat : k \notin P }
           m == Min(S)
<1>1. m \in S /\ \A x \in S : m <= x
  <2>1. S \in SUBSET Nat /\ S # {}
    OBVIOUS
  <2> QED
    BY <2>1, MinFacts
<1> HIDE DEF m
<1>2. \A j \in Nat : j < m => j \in P
  BY <1>1
<1> QED
  BY <1>1, <1>2

\* f records what the steps G[1], .., G[K] make of b, one after the other.
Iterates(K, b, G, f) == f[0] = b /\ \A k \in 1 .. K : f[k] = G[k][f[k - 1]]

\* Steps can be iterated.
LEMMA IterationExists ==
    ASSUME NEW K \in Nat, NEW R, NEW b \in R, NEW G \in [1 .. K -> [R -> R]]
    PROVE  \E f \in [0 .. K -> R] : Iterates(K, b, G, f)
<1> DEFINE P == { k \in 0 .. K : \E f \in [0 .. K -> R] : Iterates(k, b, G, f) }
<1>1. 0 \in P
  <2> DEFINE h == [ j \in 0 .. K |-> b ]
  <2>1. h \in [0 .. K -> R] /\ Iterates(0, b, G, h)
    BY DEF Iterates
  <2> HIDE DEF h
  <2> QED
    BY <2>1
<1>2. ASSUME NEW k \in 1 .. K, k - 1 \in P PROVE k \in P
  <2>1. PICK f \in [0 .. K -> R] : Iterates(k - 1, b, G, f)
    BY <1>2
  <2> DEFINE h == [ f EXCEPT ![k] = G[k][f[k - 1]] ]
  <2>2. h \in [0 .. K -> R]
    OBVIOUS
  <2>3. h[k] = G[k][f[k - 1]] /\ \A j \in 0 .. k - 1 : h[j] = f[j]
    OBVIOUS
  <2> HIDE DEF h
  <2>4. Iterates(k, b, G, h)
    BY <2>1, <2>3 DEF Iterates
  <2> QED
    BY <2>2, <2>4
<1> HIDE DEF P
<1>3. \A k \in 0 .. K : k \in P
  BY <1>1, <1>2, InductUpTo
<1>4. K \in P
  BY <1>3
<1> QED
  BY <1>4 DEF P

\* The recursive definition of such a record.
Recursion(K, b, G, f) == f = [ k \in 0 .. K |-> IF k = 0 THEN b ELSE G[k][f[k - 1]] ]

\* So there is a function with that definition.
LEMMA RecursionExists ==
    ASSUME NEW K \in Nat, NEW R, NEW b \in R, NEW G \in [1 .. K -> [R -> R]]
    PROVE  \E f \in [0 .. K -> R] : Recursion(K, b, G, f)
<1>1. PICK f \in [0 .. K -> R] : Iterates(K, b, G, f)
  BY IterationExists
<1> DEFINE h == [ k \in 0 .. K |-> IF k = 0 THEN b ELSE G[k][f[k - 1]] ]
<1>2. \A k \in 0 .. K : f[k] = h[k]
  BY <1>1 DEF Iterates
<1>3. DOMAIN h = 0 .. K /\ h \in [0 .. K -> R]
  BY <1>2
<1> HIDE DEF h
<1>4. f = h
  BY <1>2, <1>3
<1> QED
  BY <1>4 DEF h, Recursion
=============================================================================
