-------------------- MODULE PredecessorRelation_proofs --------------------
(***************************************************************************)
(* What the predecessor relation of ITSModel::getPredRel computes, for     *)
(* every system, every envelope and every potential set.                   *)
(***************************************************************************)
EXTENDS PredecessorRelation, WellFoundedInduction, SequenceTheorems,
        FiniteSetTheorems, TLAPS

(***************************************************************************)
(* Numbers: what the other proofs need for the recursive functions their   *)
(* reference definitions are.                                              *)
(***************************************************************************)

(* A set of numbers that is not empty has a least one.                     *)
LEMMA LeastNumber ==
  ASSUME NEW T \in SUBSET Nat, T # {}
  PROVE  \E x \in T : \A y \in T : x <= y
<1>1. PICK x \in T : \A y \in T : <<y, x>> \notin OpToRel(<, Nat)
  BY NatLessThanWellFounded, WFMin, Zenon
<1>2. ASSUME NEW y \in T
      PROVE  x <= y
  <2>1. <<y, x>> \in Nat \X Nat /\ ~(y < x)
    BY <1>1 DEF OpToRel
  <2>. QED
    BY <2>1
<1>. QED
  BY <1>2

(* Induction, over the set of numbers that have a property.                *)
LEMMA Induction ==
  ASSUME NEW T \in SUBSET Nat, 0 \in T, \A n \in T : n + 1 \in T
  PROVE  T = Nat
<1> SUFFICES ASSUME T # Nat
             PROVE  FALSE
  OBVIOUS
<1>1. PICK x \in Nat \ T : \A y \in Nat \ T : x <= y
  BY LeastNumber
<1>2. x # 0 /\ x - 1 \in Nat
  BY <1>1
<1>3. x - 1 \in T
  BY <1>1, <1>2
<1>4. (x - 1) + 1 \in T
  BY <1>3
<1>. QED
  BY <1>1, <1>2, <1>4

(* A recursive function from the numbers exists: it is the union of those  *)
(* defined up to a number.                                                 *)
HasRecursion(D, a, F) ==
  \E f \in [Nat -> D] : f[0] = a /\ \A n \in Nat : f[n + 1] = F[n + 1][f[n]]

LEMMA Recursion ==
  ASSUME NEW D, NEW a \in D, NEW F \in [Nat -> [D -> D]]
  PROVE  HasRecursion(D, a, F)
<1>0. a \in D /\ F \in [Nat -> [D -> D]]
  OBVIOUS
<1> DEFINE Upto(n) == {g \in [0 .. n -> D] :
                         g[0] = a /\ \A m \in 0 .. n - 1 : g[m + 1] = F[m + 1][g[m]]}
           T == {n \in Nat : Upto(n) # {}}
<1>1. T = Nat
  <2>1. 0 \in T
    <3>1. [m \in 0 .. 0 |-> a] \in Upto(0)
      BY <1>0
    <3>. QED
      BY <3>1
  <2>2. ASSUME NEW n \in T
        PROVE  n + 1 \in T
    <3>1. PICK g : g \in Upto(n)
      OBVIOUS
    <3> DEFINE h == [m \in 0 .. n + 1 |-> IF m = n + 1 THEN F[n + 1][g[n]] ELSE g[m]]
    <3>2. h \in [0 .. n + 1 -> D] /\ h[0] = a
      BY <1>0, <3>1
    <3>3. ASSUME NEW m \in 0 .. (n + 1) - 1
          PROVE  h[m + 1] = F[m + 1][h[m]]
      <4>1. CASE m = n
        BY <4>1
      <4>2. CASE m # n
        BY <3>1, <4>2
      <4>. QED
        BY <4>1, <4>2
    <3>4. h \in Upto(n + 1)
      BY <3>2, <3>3
    <3> HIDE DEF h, Upto
    <3>. QED
      BY <3>4
  <2>3. T \in SUBSET Nat
    OBVIOUS
  <2> HIDE DEF T
  <2>. QED
    BY <2>1, <2>2, <2>3, Induction
<1>2. ASSUME NEW n \in Nat, NEW k \in Nat, NEW g \in Upto(n), NEW h \in Upto(k),
             NEW m \in Nat, m <= n, m <= k
      PROVE  g[m] = h[m]
  <2> DEFINE S == {i \in Nat : i <= n /\ i <= k => g[i] = h[i]}
  <2>1. S \in SUBSET Nat /\ 0 \in S
    OBVIOUS
  <2>2. \A i \in S : i + 1 \in S
    OBVIOUS
  <2> HIDE DEF S
  <2>3. S = Nat
    BY <2>1, <2>2, Induction
  <2>. QED
    BY <2>3, <1>2 DEF S
<1> DEFINE u == [n \in Nat |-> CHOOSE g \in Upto(n) : TRUE]
           f == [n \in Nat |-> u[n][n]]
<1>3. \A n \in Nat : u[n] \in Upto(n)
  BY <1>1
<1> HIDE DEF u
<1>4. ASSUME NEW n \in Nat
      PROVE  u[n] \in [0 .. n -> D] /\ u[n][0] = a /\ u[n][n] \in D
  BY <1>3
<1>5. f \in [Nat -> D] /\ f[0] = a
  BY <1>4
<1>6. ASSUME NEW n \in Nat
      PROVE  f[n + 1] = F[n + 1][f[n]]
  <2>1. u[n] \in Upto(n) /\ u[n + 1] \in Upto(n + 1)
    BY <1>3
  <2>2. u[n + 1][n + 1] = F[n + 1][u[n + 1][n]]
    BY <2>1
  <2>3. u[n + 1][n] = u[n][n]
    <3> HIDE DEF Upto
    <3>. QED
      BY <2>1, <1>2
  <2>. QED
    BY <2>2, <2>3
<1>. QED
  BY <1>5, <1>6 DEF HasRecursion

LEMMA SetRecursion ==
  ASSUME NEW a \in SUBSET States,
         NEW F \in [Nat -> [SUBSET States -> SUBSET States]]
  PROVE  \E f \in [Nat -> SUBSET States] :
            f[0] = a /\ \A n \in Nat : f[n + 1] = F[n + 1][f[n]]
<1>1. HasRecursion(SUBSET States, a, F)
  BY Recursion
<1>. QED
  BY <1>1 DEF HasRecursion

(***************************************************************************)
(* Fixpoints and walks.                                                    *)
(***************************************************************************)

(* The fixpoint of a relation is a set of states that holds the start.     *)
LEMMA FixpointTyped ==
  ASSUME NEW h, NEW S
  PROVE  Fixpoint(h, S) \in SUBSET States
BY DEF Fixpoint

LEMMA FixpointContains ==
  ASSUME NEW h, NEW S \in SUBSET States
  PROVE  S \subseteq Fixpoint(h, S)
BY DEF Fixpoint

(* The fixpoint is in every closed set that holds the start.               *)
LEMMA FixpointLeast ==
  ASSUME NEW h, NEW S, NEW X \in SUBSET States, S \subseteq X, Closed(h, X)
  PROVE  Fixpoint(h, S) \subseteq X
BY DEF Fixpoint

LEMMA FixpointClosed ==
  ASSUME NEW h, NEW S
  PROVE  Closed(h, Fixpoint(h, S))
<1> SUFFICES ASSUME NEW s \in Fixpoint(h, S), NEW t \in States, <<s, t>> \in h,
                    NEW X \in SUBSET States, S \subseteq X, Closed(h, X)
             PROVE  t \in X
  BY DEF Closed, Post, Fixpoint
<1>1. s \in X
  BY DEF Fixpoint
<1>. QED
  BY <1>1 DEF Closed, Post

(* A fixpoint from some of the states of a fixpoint stays in it.           *)
LEMMA FixpointWithin ==
  ASSUME NEW h, NEW S, NEW T, T \subseteq Fixpoint(h, S)
  PROVE  Fixpoint(h, T) \subseteq Fixpoint(h, S)
BY FixpointTyped, FixpointClosed, FixpointLeast

(* The sets of states that lead to S in at most n steps of h by states of  *)
(* R, and what this recursive function is.                                 *)
BackwardWalk(h, R, S) ==
  LET walk[n \in Nat] == IF n = 0 THEN S
                         ELSE walk[n - 1] \cup (Pre(h, walk[n - 1]) \cap R)
  IN  walk

LEMMA BackwardWalkUnfolds ==
  ASSUME NEW h, NEW R, NEW S \in SUBSET States
  PROVE  /\ BackwardWalk(h, R, S) \in [Nat -> SUBSET States]
         /\ BackwardWalk(h, R, S)[0] = S
         /\ \A n \in Nat :
              BackwardWalk(h, R, S)[n + 1]
                = BackwardWalk(h, R, S)[n] \cup (Pre(h, BackwardWalk(h, R, S)[n]) \cap R)
<1> DEFINE G(X) == X \cup (Pre(h, X) \cap R)
           F == [n \in Nat |-> [X \in SUBSET States |-> G(X)]]
           walk == BackwardWalk(h, R, S)
<1>1. \A X \in SUBSET States : G(X) \in SUBSET States
  BY DEF Pre
<1>2. \E f : f = [n \in Nat |-> IF n = 0 THEN S ELSE G(f[n - 1])]
  <2>1. F \in [Nat -> [SUBSET States -> SUBSET States]]
    BY <1>1
  <2>2. \A n \in Nat : \A X \in SUBSET States : F[n][X] = G(X)
    OBVIOUS
  <2> HIDE DEF F, G
  <2>3. PICK f \in [Nat -> SUBSET States] :
          f[0] = S /\ \A n \in Nat : f[n + 1] = F[n + 1][f[n]]
    BY <2>1, SetRecursion
  <2>4. ASSUME NEW n \in Nat, n # 0
        PROVE  f[n] = G(f[n - 1])
    <3>1. n - 1 \in Nat /\ (n - 1) + 1 = n
      BY <2>4
    <3>. QED
      BY <2>2, <2>3, <3>1
  <2>5. f = [n \in Nat |-> IF n = 0 THEN S ELSE G(f[n - 1])]
    BY <2>3, <2>4
  <2>. QED
    BY <2>5
<1>3. walk = [n \in Nat |-> IF n = 0 THEN S ELSE G(walk[n - 1])]
  BY <1>2 DEF BackwardWalk
<1> HIDE DEF G, walk
<1>4. walk[0] = S /\ \A n \in Nat : walk[n + 1] = G(walk[n])
  BY <1>3
<1> DEFINE T == {n \in Nat : walk[n] \in SUBSET States}
<1>5. T \in SUBSET Nat /\ 0 \in T /\ \A n \in T : n + 1 \in T
  BY <1>1, <1>4
<1>6. T = Nat
  <2> HIDE DEF T
  <2>. QED
    BY <1>5, Induction
<1>7. walk \in [Nat -> SUBSET States]
  BY <1>3, <1>6
<1>. QED
  BY <1>4, <1>7 DEF G, walk

(* The walk grows, in R if it starts there; when a step adds nothing, no   *)
(* later one does.                                                         *)
LEMMA BackwardWalkGrows ==
  ASSUME NEW h, NEW R, NEW S \in SUBSET States,
         NEW m \in Nat, NEW n \in Nat, m <= n
  PROVE  BackwardWalk(h, R, S)[m] \subseteq BackwardWalk(h, R, S)[n]
<1> DEFINE walk == BackwardWalk(h, R, S)
           T == {k \in Nat : walk[m] \subseteq walk[m + k]}
<1>1. \A k \in Nat : walk[k] \subseteq walk[k + 1]
  BY BackwardWalkUnfolds
<1> HIDE DEF walk
<1>2. T \in SUBSET Nat /\ 0 \in T
  OBVIOUS
<1>3. ASSUME NEW k \in T
      PROVE  k + 1 \in T
  <2>1. m + k \in Nat /\ m + (k + 1) = (m + k) + 1
    OBVIOUS
  <2>2. walk[m + k] \subseteq walk[(m + k) + 1]
    BY <1>1, <2>1
  <2>3. walk[m] \subseteq walk[m + k]
    OBVIOUS
  <2>. QED
    BY <2>1, <2>2, <2>3
<1>4. T = Nat
  <2> HIDE DEF T
  <2>. QED
    BY <1>2, <1>3, Induction
<1>5. n - m \in Nat /\ m + (n - m) = n
  OBVIOUS
<1>6. n - m \in T
  BY <1>4, <1>5
<1>. QED
  BY <1>5, <1>6 DEF walk

LEMMA BackwardWalkStays ==
  ASSUME NEW h, NEW R, NEW S \in SUBSET States, S \subseteq R, NEW n \in Nat
  PROVE  BackwardWalk(h, R, S)[n] \subseteq R
<1> DEFINE walk == BackwardWalk(h, R, S)
           T == {k \in Nat : walk[k] \subseteq R}
<1>1. walk[0] = S /\ \A k \in Nat : walk[k + 1] = walk[k] \cup (Pre(h, walk[k]) \cap R)
  BY BackwardWalkUnfolds
<1> HIDE DEF walk
<1>2. T \in SUBSET Nat /\ 0 \in T
  BY <1>1
<1>3. ASSUME NEW k \in T
      PROVE  k + 1 \in T
  <2>1. k \in Nat /\ k + 1 \in Nat /\ walk[k] \subseteq R
    OBVIOUS
  <2>. QED
    BY <1>1, <2>1
<1>4. T = Nat
  <2> HIDE DEF T
  <2>. QED
    BY <1>2, <1>3, Induction
<1>. QED
  BY <1>4 DEF walk

LEMMA BackwardWalkStops ==
  ASSUME NEW h, NEW R, NEW S \in SUBSET States,
         NEW k \in Nat, BackwardWalk(h, R, S)[k + 1] = BackwardWalk(h, R, S)[k],
         NEW m \in Nat, k <= m
  PROVE  BackwardWalk(h, R, S)[m] = BackwardWalk(h, R, S)[k]
<1> DEFINE walk == BackwardWalk(h, R, S)
           T == {i \in Nat : k <= i => walk[i] = walk[k]}
<1>1. \A i \in Nat : walk[i + 1] = walk[i] \cup (Pre(h, walk[i]) \cap R)
  BY BackwardWalkUnfolds
<1>2. walk[k + 1] = walk[k]
  OBVIOUS
<1> HIDE DEF walk
<1>3. T \in SUBSET Nat /\ 0 \in T
  OBVIOUS
<1>4. ASSUME NEW i \in T
      PROVE  i + 1 \in T
  <2>1. CASE k <= i
    <3>1. walk[i] = walk[k] /\ i \in Nat
      BY <2>1
    <3>2. walk[i + 1] = walk[k] \cup (Pre(h, walk[k]) \cap R)
      BY <1>1, <3>1
    <3>3. walk[i + 1] = walk[k]
      BY <1>1, <1>2, <3>2
    <3>. QED
      BY <3>1, <3>3
  <2>2. CASE ~(k <= i)
    <3>1. k <= i + 1 => i + 1 = k
      BY <2>2
    <3>. QED
      BY <3>1
  <2>. QED
    BY <2>1, <2>2
<1>5. T = Nat
  <2> HIDE DEF T
  <2>. QED
    BY <1>3, <1>4, Induction
<1>. QED
  BY <1>5 DEF walk

(* So it grows for as many steps as there are states at most.              *)
LEMMA BackwardWalkDepth ==
  ASSUME NEW h, NEW R, NEW S \in SUBSET States,
         NEW d \in Nat, BackwardWalk(h, R, S)[d + 1] # BackwardWalk(h, R, S)[d]
  PROVE  d + 1 <= Cardinality(States)
<1> DEFINE walk == BackwardWalk(h, R, S)
           T == {k \in Nat : k <= d + 1 => k <= Cardinality(walk[k])}
<1>1. ASSUME NEW k \in Nat
      PROVE  /\ walk[k] \in SUBSET States /\ walk[k] \subseteq walk[k + 1]
             /\ k <= d => walk[k + 1] # walk[k]
  <2>1. walk[k] \in SUBSET States /\ walk[k] \subseteq walk[k + 1]
    BY BackwardWalkUnfolds
  <2>2. ASSUME k <= d, walk[k + 1] = walk[k]
        PROVE  FALSE
    <3>1. walk[d] = walk[k]
      BY <2>2, BackwardWalkStops
    <3>2. walk[d + 1] = walk[k]
      BY <2>2, BackwardWalkStops
    <3>. QED
      BY <3>1, <3>2
  <2>. QED
    BY <2>1, <2>2
<1> HIDE DEF walk
<1>2. ASSUME NEW k \in Nat
      PROVE  /\ Cardinality(walk[k]) \in Nat /\ Cardinality(walk[k]) <= Cardinality(States)
             /\ k <= d => Cardinality(walk[k]) < Cardinality(walk[k + 1])
  <2>1. /\ IsFiniteSet(walk[k]) /\ Cardinality(walk[k]) <= Cardinality(States)
        /\ IsFiniteSet(walk[k + 1])
    BY <1>1, StatesFinite, FS_Subset
  <2>2. Cardinality(walk[k]) \in Nat /\ Cardinality(walk[k + 1]) \in Nat
    BY <2>1, FS_CardinalityType
  <2>3. ASSUME k <= d
        PROVE  /\ Cardinality(walk[k]) <= Cardinality(walk[k + 1])
               /\ Cardinality(walk[k + 1]) # Cardinality(walk[k])
    <3>1. walk[k] \in SUBSET walk[k + 1] /\ walk[k + 1] # walk[k]
      BY <1>1, <2>3
    <3>. QED
      BY <2>1, <3>1, FS_Subset
  <2>. QED
    BY <2>1, <2>2, <2>3
<1>3. T \in SUBSET Nat /\ 0 \in T
  BY <1>2
<1>4. ASSUME NEW k \in T
      PROVE  k + 1 \in T
  <2>1. ASSUME k + 1 <= d + 1
        PROVE  k + 1 <= Cardinality(walk[k + 1])
    <3>1. k \in Nat /\ k <= d /\ k <= Cardinality(walk[k])
      BY <2>1
    <3>2. Cardinality(walk[k]) \in Nat /\ Cardinality(walk[k + 1]) \in Nat
      BY <1>2, <3>1
    <3>3. Cardinality(walk[k]) < Cardinality(walk[k + 1])
      BY <1>2, <3>1
    <3>. QED
      BY <3>1, <3>2, <3>3
  <2>. QED
    BY <2>1
<1>5. T = Nat
  <2> HIDE DEF T
  <2>. QED
    BY <1>3, <1>4, Induction
<1>6. d + 1 <= Cardinality(walk[d + 1])
  BY <1>5
<1>7. Cardinality(walk[d + 1]) <= Cardinality(States) /\ Cardinality(walk[d + 1]) \in Nat
  BY <1>2
<1>8. Cardinality(States) \in Nat
  BY StatesFinite, FS_CardinalityType
<1>. QED
  BY <1>6, <1>7, <1>8

(* Inside a set that h does not leave, the walks from two sets that are    *)
(* the same there are the same.                                            *)
LEMMA BackwardWalkMeets ==
  ASSUME NEW h \in Relations, NEW R, NEW A \in SUBSET States, Closed(h, A),
         NEW S \in SUBSET States, NEW S2 \in SUBSET States, S \cap A \subseteq S2,
         NEW n \in Nat
  PROVE  BackwardWalk(h, R, S)[n] \cap A \subseteq BackwardWalk(h, R, S2)[n]
<1> DEFINE walk == BackwardWalk(h, R, S)
           walk2 == BackwardWalk(h, R, S2)
           T == {k \in Nat : walk[k] \cap A \subseteq walk2[k]}
<1>1. walk[0] = S /\ \A k \in Nat : walk[k + 1] = walk[k] \cup (Pre(h, walk[k]) \cap R)
  BY BackwardWalkUnfolds
<1>2. walk2[0] = S2 /\ \A k \in Nat : walk2[k + 1] = walk2[k] \cup (Pre(h, walk2[k]) \cap R)
  BY BackwardWalkUnfolds
<1> HIDE DEF walk, walk2
<1>3. T \in SUBSET Nat /\ 0 \in T
  BY <1>1, <1>2
<1>4. ASSUME NEW k \in T
      PROVE  k + 1 \in T
  <2>1. k \in Nat /\ walk[k] \cap A \subseteq walk2[k]
    OBVIOUS
  <2>2. ASSUME NEW x \in Pre(h, walk[k]), x \in A
        PROVE  x \in Pre(h, walk2[k])
    <3>1. PICK y \in walk[k] : <<x, y>> \in h
      BY DEF Pre
    <3>2. y \in A
      BY <2>2, <3>1 DEF Closed, Post, Relations
    <3>. QED
      BY <2>1, <2>2, <3>1, <3>2 DEF Pre
  <2>. QED
    BY <1>1, <1>2, <2>1, <2>2
<1>5. T = Nat
  <2> HIDE DEF T
  <2>. QED
    BY <1>3, <1>4, Induction
<1>. QED
  BY <1>5 DEF walk, walk2

(* The same forward: the states at most n steps of h away from S by states *)
(* of R; when a step adds nothing, no later one does.                      *)
ForwardWalk(h, R, S) ==
  LET walk[n \in Nat] == IF n = 0 THEN S
                         ELSE walk[n - 1] \cup (Post(h, walk[n - 1]) \cap R)
  IN  walk

LEMMA ForwardWalkUnfolds ==
  ASSUME NEW h, NEW R, NEW S \in SUBSET States
  PROVE  /\ ForwardWalk(h, R, S) \in [Nat -> SUBSET States]
         /\ ForwardWalk(h, R, S)[0] = S
         /\ \A n \in Nat :
              ForwardWalk(h, R, S)[n + 1]
                = ForwardWalk(h, R, S)[n] \cup (Post(h, ForwardWalk(h, R, S)[n]) \cap R)
<1> DEFINE G(X) == X \cup (Post(h, X) \cap R)
           F == [n \in Nat |-> [X \in SUBSET States |-> G(X)]]
           walk == ForwardWalk(h, R, S)
<1>1. \A X \in SUBSET States : G(X) \in SUBSET States
  BY DEF Post
<1>2. \E f : f = [n \in Nat |-> IF n = 0 THEN S ELSE G(f[n - 1])]
  <2>1. F \in [Nat -> [SUBSET States -> SUBSET States]]
    BY <1>1
  <2>2. \A n \in Nat : \A X \in SUBSET States : F[n][X] = G(X)
    OBVIOUS
  <2> HIDE DEF F, G
  <2>3. PICK f \in [Nat -> SUBSET States] :
          f[0] = S /\ \A n \in Nat : f[n + 1] = F[n + 1][f[n]]
    BY <2>1, SetRecursion
  <2>4. ASSUME NEW n \in Nat, n # 0
        PROVE  f[n] = G(f[n - 1])
    <3>1. n - 1 \in Nat /\ (n - 1) + 1 = n
      BY <2>4
    <3>. QED
      BY <2>2, <2>3, <3>1
  <2>5. f = [n \in Nat |-> IF n = 0 THEN S ELSE G(f[n - 1])]
    BY <2>3, <2>4
  <2>. QED
    BY <2>5
<1>3. walk = [n \in Nat |-> IF n = 0 THEN S ELSE G(walk[n - 1])]
  BY <1>2 DEF ForwardWalk
<1> HIDE DEF G, walk
<1>4. walk[0] = S /\ \A n \in Nat : walk[n + 1] = G(walk[n])
  BY <1>3
<1> DEFINE T == {n \in Nat : walk[n] \in SUBSET States}
<1>5. T \in SUBSET Nat /\ 0 \in T /\ \A n \in T : n + 1 \in T
  BY <1>1, <1>4
<1>6. T = Nat
  <2> HIDE DEF T
  <2>. QED
    BY <1>5, Induction
<1>7. walk \in [Nat -> SUBSET States]
  BY <1>3, <1>6
<1>. QED
  BY <1>4, <1>7 DEF G, walk

LEMMA ForwardWalkStops ==
  ASSUME NEW h, NEW R, NEW S \in SUBSET States,
         NEW k \in Nat, ForwardWalk(h, R, S)[k + 1] = ForwardWalk(h, R, S)[k],
         NEW m \in Nat, k <= m
  PROVE  ForwardWalk(h, R, S)[m] = ForwardWalk(h, R, S)[k]
<1> DEFINE walk == ForwardWalk(h, R, S)
           T == {i \in Nat : k <= i => walk[i] = walk[k]}
<1>1. \A i \in Nat : walk[i + 1] = walk[i] \cup (Post(h, walk[i]) \cap R)
  BY ForwardWalkUnfolds
<1>2. walk[k + 1] = walk[k]
  OBVIOUS
<1> HIDE DEF walk
<1>3. T \in SUBSET Nat /\ 0 \in T
  OBVIOUS
<1>4. ASSUME NEW i \in T
      PROVE  i + 1 \in T
  <2>1. CASE k <= i
    <3>1. walk[i] = walk[k] /\ i \in Nat
      BY <2>1
    <3>2. walk[i + 1] = walk[k] \cup (Post(h, walk[k]) \cap R)
      BY <1>1, <3>1
    <3>3. walk[i + 1] = walk[k]
      BY <1>1, <1>2, <3>2
    <3>. QED
      BY <3>1, <3>3
  <2>2. CASE ~(k <= i)
    <3>1. k <= i + 1 => i + 1 = k
      BY <2>2
    <3>. QED
      BY <3>1
  <2>. QED
    BY <2>1, <2>2
<1>5. T = Nat
  <2> HIDE DEF T
  <2>. QED
    BY <1>3, <1>4, Induction
<1>. QED
  BY <1>5 DEF walk

(* What is reached after each transition of a sequence.                    *)
LEMMA PlaysUnfolds ==
  ASSUME NEW trans, NEW w, NEW K, NEW S \in SUBSET States
  PROVE  /\ Plays(trans, w, K, S) \in [Nat -> SUBSET States]
         /\ Plays(trans, w, K, S)[0] = S
         /\ \A n \in Nat :
              Plays(trans, w, K, S)[n + 1]
                = Post(trans[w[n + 1]], Plays(trans, w, K, S)[n]) \cap K
<1> DEFINE G(n, X) == Post(trans[w[n]], X) \cap K
           F == [n \in Nat |-> [X \in SUBSET States |-> G(n, X)]]
           play == Plays(trans, w, K, S)
<1>1. \A n \in Nat : \A X \in SUBSET States : G(n, X) \in SUBSET States
  BY DEF Post
<1>2. \E f : f = [n \in Nat |-> IF n = 0 THEN S ELSE G(n, f[n - 1])]
  <2>1. F \in [Nat -> [SUBSET States -> SUBSET States]]
    BY <1>1
  <2>2. \A n \in Nat : \A X \in SUBSET States : F[n][X] = G(n, X)
    OBVIOUS
  <2> HIDE DEF F, G
  <2>3. PICK f \in [Nat -> SUBSET States] :
          f[0] = S /\ \A n \in Nat : f[n + 1] = F[n + 1][f[n]]
    BY <2>1, SetRecursion
  <2>4. ASSUME NEW n \in Nat, n # 0
        PROVE  f[n] = G(n, f[n - 1])
    <3>1. n - 1 \in Nat /\ (n - 1) + 1 = n
      BY <2>4
    <3>. QED
      BY <2>2, <2>3, <3>1
  <2>5. f = [n \in Nat |-> IF n = 0 THEN S ELSE G(n, f[n - 1])]
    BY <2>3, <2>4
  <2>. QED
    BY <2>5
<1>3. play = [n \in Nat |-> IF n = 0 THEN S ELSE G(n, play[n - 1])]
  BY <1>2 DEF Plays
<1> HIDE DEF G, play
<1>4. play[0] = S /\ \A n \in Nat : play[n + 1] = G(n + 1, play[n])
  BY <1>3
<1> DEFINE T == {n \in Nat : play[n] \in SUBSET States}
<1>5. T \in SUBSET Nat /\ 0 \in T /\ \A n \in T : n + 1 \in T
  BY <1>1, <1>4
<1>6. T = Nat
  <2> HIDE DEF T
  <2>. QED
    BY <1>5, Induction
<1>7. play \in [Nat -> SUBSET States]
  BY <1>3, <1>6
<1>. QED
  BY <1>4, <1>7 DEF G, play

(* Layers that a sequence leads through, one after the other, are reached  *)
(* by playing it.                                                          *)
LEMMA LayersArePlayed ==
  ASSUME NEW trans, NEW w, Len(w) \in Nat, NEW K, NEW S \in SUBSET States,
         NEW layer, layer[1] \subseteq S,
         \A i \in 1 .. Len(w) :
            layer[i + 1] \subseteq Post(trans[w[i]], layer[i]) \cap K
  PROVE  layer[Len(w) + 1] \subseteq Played(trans, w, K, S)
<1> DEFINE play == Plays(trans, w, K, S)
<1>1. play[0] = S /\ \A n \in Nat : play[n + 1] = Post(trans[w[n + 1]], play[n]) \cap K
  BY ONLY S \in SUBSET States, PlaysUnfolds
<1> HIDE DEF play
<1> DEFINE T == {n \in Nat : n <= Len(w) => layer[n + 1] \subseteq play[n]}
<1>2. T \in SUBSET Nat /\ 0 \in T
  BY <1>1
<1>3. ASSUME NEW n \in T
      PROVE  n + 1 \in T
  <2> SUFFICES ASSUME n + 1 <= Len(w)
               PROVE  layer[(n + 1) + 1] \subseteq play[n + 1]
    OBVIOUS
  <2>1. layer[n + 1] \subseteq play[n] /\ n + 1 \in 1 .. Len(w) /\ n \in Nat
    OBVIOUS
  <2>2. Post(trans[w[n + 1]], layer[n + 1]) \subseteq Post(trans[w[n + 1]], play[n])
    BY <2>1 DEF Post
  <2>3. layer[(n + 1) + 1] \subseteq Post(trans[w[n + 1]], layer[n + 1]) \cap K
    BY <2>1
  <2>. QED
    BY <1>1, <2>1, <2>2, <2>3
<1>4. T = Nat
  <2> HIDE DEF T
  <2>. QED
    BY <1>2, <1>3, Induction
<1>. QED
  BY <1>4 DEF Played, play

(* A layer pushed in front of the others.                                  *)
LEMMA Pushed ==
  ASSUME NEW s \in Seq(SUBSET States), NEW S \in SUBSET States
  PROVE  /\ <<S>> \o s \in Seq(SUBSET States)
         /\ Len(<<S>> \o s) = Len(s) + 1 /\ Len(s) \in Nat
         /\ (<<S>> \o s)[1] = S
         /\ \A i \in 1 .. Len(s) : (<<S>> \o s)[i + 1] = s[i]
         /\ \A i \in 2 .. Len(s) + 1 : (<<S>> \o s)[i] = s[i - 1] /\ i - 1 \in 1 .. Len(s)
<1>1. <<S>> \in Seq(SUBSET States) /\ Len(<<S>>) = 1 /\ <<S>>[1] = S /\ Len(s) \in Nat
  OBVIOUS
<1>2. /\ <<S>> \o s \in Seq(SUBSET States)
      /\ Len(<<S>> \o s) = 1 + Len(s)
      /\ \A i \in 1 .. 1 + Len(s) :
            (<<S>> \o s)[i] = IF i <= 1 THEN <<S>>[i] ELSE s[i - 1]
  <2> DEFINE t == <<S>>
  <2>1. t \in Seq(SUBSET States) /\ Len(t) = 1
    BY <1>1
  <2> HIDE DEF t
  <2>2. /\ t \o s \in Seq(SUBSET States)
        /\ Len(t \o s) = Len(t) + Len(s)
        /\ \A i \in 1 .. Len(t) + Len(s) :
              (t \o s)[i] = IF i <= Len(t) THEN t[i] ELSE s[i - Len(t)]
    BY <2>1, ConcatProperties
  <2>. QED
    BY <2>1, <2>2 DEF t
<1>3. (<<S>> \o s)[1] = S
  BY <1>1, <1>2
<1>4. ASSUME NEW i \in 2 .. Len(s) + 1
      PROVE  (<<S>> \o s)[i] = s[i - 1] /\ i - 1 \in 1 .. Len(s)
  BY <1>1, <1>2
<1>5. ASSUME NEW i \in 1 .. Len(s)
      PROVE  (<<S>> \o s)[i + 1] = s[i]
  <2>1. i + 1 \in 2 .. Len(s) + 1 /\ (i + 1) - 1 = i
    BY <1>1
  <2>. QED
    BY <1>4, <2>1
<1>. QED
  BY <1>1, <1>2, <1>3, <1>4, <1>5

-----------------------------------------------------------------------------

(* Applying the inverse of a relation gives the predecessors that are in   *)
(* the potential set.                                                      *)
LEMMA PostInvert ==
  ASSUME NEW h \in Relations, NEW pot \in SUBSET States, NEW S \in SUBSET States
  PROVE  Post(Invert(h, pot), S) = Pre(h, S) \cap pot
<1>1. ASSUME NEW s \in States, NEW t \in States
      PROVE  <<t, s>> \in Invert(h, pot) <=> <<s, t>> \in h /\ s \in pot
  BY DEF Invert, Relations
<1>. QED
  BY <1>1 DEF Post, Pre

(* The same for a relation whose results are intersected with a set.       *)
LEMMA PostWithin ==
  ASSUME NEW h \in Relations, NEW R \in SUBSET States, NEW S \in SUBSET States
  PROVE  Post(Within(h, R), S) = Post(h, S) \cap R
BY DEF Post, Within, Relations

LEMMA PostUnion ==
  ASSUME NEW g, NEW h, NEW S
  PROVE  Post(g \cup h, S) = Post(g, S) \cup Post(h, S)
BY DEF Post

LEMMA InvertTyped ==
  ASSUME NEW h \in Relations, NEW pot
  PROVE  Invert(h, pot) \in Relations
BY DEF Invert, Relations

(* A sum of named transitions is a relation on the states.                 *)
LEMMA SumTyped ==
  ASSUME NEW trans \in Systems, NEW N \in SUBSET Names
  PROVE  UNION {trans[n] : n \in N} \in Relations
BY DEF Systems, Relations

(* What PredRel finds when the inverse is not exact and some transitions   *)
(* need no protection.                                                     *)
LEMMA PredRelSplit ==
  ASSUME NEW trans \in Systems,
         NEW reach \in SUBSET States, NEW pot \in SUBSET States,
         NEW S \in SUBSET States,
         ~IsExact(trans, reach, pot), ToAdd(trans, reach, pot) # {}
  PROVE  Post(PredRel(trans, reach, pot), S) =
           (Pre(UNION {trans[n] : n \in ToAdd(trans, reach, pot)}, S) \cap pot)
           \cup ((Pre(UNION {trans[n] : n \in ToProtect(trans, reach, pot)}, S)
                    \cap pot) \cap reach)
<1> DEFINE add == ToAdd(trans, reach, pot)
           protect == ToProtect(trans, reach, pot)
           hadd == UNION {trans[n] : n \in add}
           hprotect == UNION {trans[n] : n \in protect}
           iprotect == InvertAll(trans, protect, pot)
<1>1. add \in SUBSET Names /\ protect \in SUBSET Names
  BY DEF ToAdd, ToProtect, Live
<1>2. hadd \in Relations /\ hprotect \in Relations
  BY <1>1, SumTyped
<1>3. Post(InvertAll(trans, add, pot), S) = Pre(hadd, S) \cap pot
  BY <1>2, PostInvert DEF InvertAll
<1>4. iprotect \in Relations /\ Post(iprotect, S) = Pre(hprotect, S) \cap pot
  BY <1>2, PostInvert, InvertTyped DEF InvertAll
<1>5. Post(Within(iprotect, reach), S) = Post(iprotect, S) \cap reach
  <2> HIDE DEF iprotect
  <2>. QED
    BY <1>4, PostWithin
<1>6. Post(PredRel(trans, reach, pot), S)
        = Post(InvertAll(trans, add, pot), S) \cup Post(Within(iprotect, reach), S)
  BY PostUnion DEF PredRel
<1>. QED
  BY <1>3, <1>4, <1>5, <1>6

(* PredRel(trans, reach, pot) finds every predecessor that is in the       *)
(* envelope, whatever the set it is applied to: no transition that could   *)
(* give one is destroyed, and the intersections are with the envelope.     *)
THEOREM PredRelComplete ==
  ASSUME NEW trans \in Systems,
         NEW reach \in SUBSET States, NEW pot \in SUBSET States,
         reach \subseteq pot,
         NEW S \in SUBSET States
  PROVE  Pre(NextRel(trans), S) \cap reach \subseteq Post(PredRel(trans, reach, pot), S)
<1> DEFINE rel == Invert(NextRel(trans), pot)
           add == ToAdd(trans, reach, pot)
           protect == ToProtect(trans, reach, pot)
<1>1. NextRel(trans) \in Relations
  BY SumTyped DEF NextRel
<1>2. Post(rel, S) = Pre(NextRel(trans), S) \cap pot
  BY <1>1, PostInvert
<1>3. CASE IsExact(trans, reach, pot)
  BY <1>2, <1>3 DEF PredRel
<1>4. CASE ~IsExact(trans, reach, pot) /\ add # {}
  <2>1. add \in SUBSET Names /\ protect \in SUBSET Names
    BY DEF ToAdd, ToProtect, Live
  <2> DEFINE hadd == UNION {trans[n] : n \in add}
             hprotect == UNION {trans[n] : n \in protect}
  <2>5. Post(PredRel(trans, reach, pot), S)
          = (Pre(hadd, S) \cap pot) \cup ((Pre(hprotect, S) \cap pot) \cap reach)
    BY <1>4, PredRelSplit
  <2>6. SUFFICES ASSUME NEW s \in reach, NEW t \in S, <<s, t>> \in NextRel(trans)
                 PROVE  s \in Post(PredRel(trans, reach, pot), S)
    BY DEF Pre
  <2>7. PICK n \in Names : <<s, t>> \in trans[n]
    BY <2>6 DEF NextRel
  <2>8. n \in Live(trans, reach)
    BY <2>7 DEF Live, Post
  <2>9. n \in add \/ n \in protect
    BY <2>8 DEF ToAdd
  <2>10. s \in Pre(hadd, S) \/ s \in Pre(hprotect, S)
    BY <2>7, <2>9 DEF Pre
  <2>. QED
    BY <2>5, <2>10
<1>5. CASE ~IsExact(trans, reach, pot) /\ add = {}
  <2>1. Post(PredRel(trans, reach, pot), S) = Post(rel, S) \cap reach
    BY <1>1, <1>5, PostWithin, InvertTyped DEF PredRel
  <2>. QED
    BY <1>2, <2>1
<1>. QED
  BY <1>3, <1>4, <1>5

(* What it finds is in the potential set.                                  *)
LEMMA PredRelInPot ==
  ASSUME NEW trans \in Systems,
         NEW reach \in SUBSET States, NEW pot \in SUBSET States,
         NEW S \in SUBSET States
  PROVE  Post(PredRel(trans, reach, pot), S) \subseteq pot
<1> DEFINE rel == Invert(NextRel(trans), pot)
           add == ToAdd(trans, reach, pot)
<1>1. NextRel(trans) \in Relations
  BY SumTyped DEF NextRel
<1>2. Post(rel, S) = Pre(NextRel(trans), S) \cap pot
  BY <1>1, PostInvert
<1>3. CASE IsExact(trans, reach, pot)
  BY <1>2, <1>3 DEF PredRel
<1>4. CASE ~IsExact(trans, reach, pot) /\ add # {}
  <2> DEFINE A == Pre(UNION {trans[n] : n \in add}, S)
             B == Pre(UNION {trans[n] : n \in ToProtect(trans, reach, pot)}, S)
  <2>1. Post(PredRel(trans, reach, pot), S) = (A \cap pot) \cup ((B \cap pot) \cap reach)
    BY <1>4, PredRelSplit
  <2> HIDE DEF A, B
  <2>. QED
    BY <2>1
<1>5. CASE ~IsExact(trans, reach, pot) /\ add = {}
  <2>1. Post(PredRel(trans, reach, pot), S) = Post(rel, S) \cap reach
    BY <1>1, <1>5, PostWithin, InvertTyped DEF PredRel
  <2>. QED
    BY <1>2, <2>1
<1>. QED
  BY <1>3, <1>4, <1>5

(* Whatever the set, what it finds are predecessors by some transition.    *)
THEOREM PredRelForward ==
  ASSUME NEW trans \in Systems,
         NEW reach \in SUBSET States, NEW pot \in SUBSET States,
         NEW S \in SUBSET States
  PROVE  Post(PredRel(trans, reach, pot), S) \subseteq Pre(NextRel(trans), S)
<1> DEFINE rel == Invert(NextRel(trans), pot)
           add == ToAdd(trans, reach, pot)
           protect == ToProtect(trans, reach, pot)
           hadd == UNION {trans[n] : n \in add}
           hprotect == UNION {trans[n] : n \in protect}
<1>1. NextRel(trans) \in Relations
  BY SumTyped DEF NextRel
<1>2. Post(rel, S) = Pre(NextRel(trans), S) \cap pot
  BY <1>1, PostInvert
<1>3. CASE IsExact(trans, reach, pot)
  BY <1>2, <1>3 DEF PredRel
<1>4. CASE ~IsExact(trans, reach, pot) /\ add # {}
  <2>1. Post(PredRel(trans, reach, pot), S) \subseteq Pre(hadd, S) \cup Pre(hprotect, S)
    BY <1>4, PredRelSplit
  <2>2. add \in SUBSET Names /\ protect \in SUBSET Names
    BY DEF ToAdd, ToProtect, Live
  <2>3. Pre(hadd, S) \cup Pre(hprotect, S) \subseteq Pre(NextRel(trans), S)
    BY <2>2 DEF Pre, NextRel
  <2>. QED
    BY <2>1, <2>3
<1>5. CASE ~IsExact(trans, reach, pot) /\ add = {}
  <2>1. Post(PredRel(trans, reach, pot), S) = Post(rel, S) \cap reach
    BY <1>1, <1>5, PostWithin, InvertTyped DEF PredRel
  <2>. QED
    BY <1>2, <2>1
<1>. QED
  BY <1>3, <1>4, <1>5

(* Applied to a part of the envelope it finds nothing else: the inverse of *)
(* a transition that is added without protection cannot leave it.          *)
THEOREM PredRelSound ==
  ASSUME NEW trans \in Systems,
         NEW reach \in SUBSET States, NEW pot \in SUBSET States,
         NEW S \in SUBSET reach
  PROVE  Post(PredRel(trans, reach, pot), S) \subseteq Pre(NextRel(trans), S) \cap reach
<1> DEFINE rel == Invert(NextRel(trans), pot)
           add == ToAdd(trans, reach, pot)
           protect == ToProtect(trans, reach, pot)
<1>1. NextRel(trans) \in Relations
  BY SumTyped DEF NextRel
<1>2. \A X \in SUBSET States : Post(rel, X) = Pre(NextRel(trans), X) \cap pot
  BY <1>1, PostInvert
<1>3. CASE IsExact(trans, reach, pot)
  <2>1. Pre(NextRel(trans), reach) \cap pot \subseteq reach
    BY <1>2, <1>3 DEF IsExact
  <2>2. Pre(NextRel(trans), S) \subseteq Pre(NextRel(trans), reach)
    BY DEF Pre
  <2>. QED
    BY <1>2, <1>3, <2>1, <2>2 DEF PredRel
<1>4. CASE ~IsExact(trans, reach, pot) /\ add # {}
  <2>1. add \in SUBSET Names /\ protect \in SUBSET Names
    BY DEF ToAdd, ToProtect, Live
  <2> DEFINE hadd == UNION {trans[n] : n \in add}
             hprotect == UNION {trans[n] : n \in protect}
  <2>5. Post(PredRel(trans, reach, pot), S)
          = (Pre(hadd, S) \cap pot) \cup ((Pre(hprotect, S) \cap pot) \cap reach)
    BY <1>4, PredRelSplit
  <2>6. \A n \in add : Pre(trans[n], reach) \cap pot \subseteq reach
    <3>1. SUFFICES ASSUME NEW n \in add
                   PROVE  Pre(trans[n], reach) \cap pot \subseteq reach
      OBVIOUS
    <3>2. n \in Names /\ trans[n] \in Relations
      BY <2>1 DEF Systems
    <3>3. Post(Invert(trans[n], pot), reach) = Pre(trans[n], reach) \cap pot
      BY <3>2, PostInvert
    <3>. QED
      BY <3>3 DEF ToAdd, ToProtect
  <2>7. Pre(hadd, S) \cap pot \subseteq reach
    BY <2>6 DEF Pre
  <2>8. Pre(hadd, S) \cup Pre(hprotect, S) \subseteq Pre(NextRel(trans), S)
    BY <2>1 DEF Pre, NextRel
  <2>. QED
    BY <2>5, <2>7, <2>8
<1>5. CASE ~IsExact(trans, reach, pot) /\ add = {}
  <2>1. Post(PredRel(trans, reach, pot), S) = Post(rel, S) \cap reach
    BY <1>1, <1>5, PostWithin, InvertTyped DEF PredRel
  <2>. QED
    BY <1>2, <2>1
<1>. QED
  BY <1>3, <1>4, <1>5

(* getPredRel is exactly one step backward of the transition relation,     *)
(* constrained to stay within the envelope.                                *)
THEOREM PredRelExact ==
  ASSUME NEW trans \in Systems,
         NEW reach \in SUBSET States, NEW pot \in SUBSET States,
         reach \subseteq pot,
         NEW S \in SUBSET reach
  PROVE  Post(PredRel(trans, reach, pot), S) = Pre(NextRel(trans), S) \cap reach
BY PredRelComplete, PredRelSound
=============================================================================
