--------------------------- MODULE CtlCheck_proofs ---------------------------
(***************************************************************************)
(* What its-ctl computes is the reference semantics of CTL, for every      *)
(* model, every labelling and all formulas: backward, forward, exactly or  *)
(* not; and the deadlocks and timelocks it prints are all of them.         *)
(***************************************************************************)
EXTENDS CtlCheck, PredecessorRelation_proofs

(***************************************************************************)
(* Recursion over the formulas.                                            *)
(***************************************************************************)

(* A function that is defined from its values at arguments of lower rank   *)
(* exists: the equation is iterated, and the value at an argument does not *)
(* change any more after as many turns as its rank.                        *)
HasFixedPoint(D, V, B) == \E s \in [D -> V] : s = B[s]

IsContractive(D, V, rank, B) ==
  \A g, h \in [D -> V] : \A d \in D :
    (\A e \in D : rank[e] < rank[d] => g[e] = h[e]) => B[g][d] = B[h][d]

LEMMA RankedRecursion ==
  ASSUME NEW D, NEW V, NEW v \in V, NEW rank \in [D -> Nat],
         NEW B \in [[D -> V] -> [D -> V]], IsContractive(D, V, rank, B)
  PROVE  HasFixedPoint(D, V, B)
<1> DEFINE S == [D -> V]
           F == [n \in Nat |-> B]
           a == [d \in D |-> v]
<1>1. a \in S /\ F \in [Nat -> [S -> S]]
  OBVIOUS
<1>2. HasRecursion(S, a, F)
  BY ONLY <1>1, Recursion
<1>3. PICK x \in [Nat -> S] : x[0] = a /\ \A n \in Nat : x[n + 1] = B[x[n]]
  BY <1>2 DEF HasRecursion
<1> DEFINE T == {n \in Nat : \A d \in D : rank[d] < n => x[n + 1][d] = x[n][d]}
<1>4. T = Nat
  <2>1. 0 \in T
    OBVIOUS
  <2>2. ASSUME NEW n \in T
        PROVE  n + 1 \in T
    <3>1. ASSUME NEW d \in D, rank[d] < n + 1
          PROVE  x[(n + 1) + 1][d] = x[n + 1][d]
      <4>1. \A e \in D : rank[e] < rank[d] => x[n + 1][e] = x[n][e]
        BY <3>1
      <4>2. x[n + 1] \in S /\ x[n] \in S
        BY <1>3
      <4>3. B[x[n + 1]][d] = B[x[n]][d]
        BY <4>1, <4>2 DEF IsContractive
      <4>4. n \in Nat /\ n + 1 \in Nat
        OBVIOUS
      <4>5. x[(n + 1) + 1] = B[x[n + 1]] /\ x[n + 1] = B[x[n]]
        BY <4>4, <1>3
      <4>. QED
        BY <4>3, <4>5
    <3>. QED
      BY <3>1
  <2>3. T \in SUBSET Nat
    OBVIOUS
  <2> HIDE DEF T
  <2>. QED
    BY <2>1, <2>2, <2>3, Induction
<1>5. ASSUME NEW d \in D
      PROVE  \A n \in Nat : rank[d] < n => x[n][d] = x[rank[d] + 1][d]
  <2> DEFINE U == {k \in Nat : x[(rank[d] + 1) + k][d] = x[rank[d] + 1][d]}
  <2>1. 0 \in U
    OBVIOUS
  <2>2. ASSUME NEW k \in U
        PROVE  k + 1 \in U
    <3>1. (rank[d] + 1) + k \in Nat /\ rank[d] < (rank[d] + 1) + k
      OBVIOUS
    <3>2. (rank[d] + 1) + k \in T
      BY <1>4, <3>1
    <3>3. x[((rank[d] + 1) + k) + 1][d] = x[(rank[d] + 1) + k][d]
      BY <3>1, <3>2
    <3>4. ((rank[d] + 1) + k) + 1 = (rank[d] + 1) + (k + 1) /\ k + 1 \in Nat
      OBVIOUS
    <3>. QED
      BY <3>3, <3>4
  <2>3. U \in SUBSET Nat
    OBVIOUS
  <2> HIDE DEF U
  <2>4. U = Nat
    BY <2>1, <2>2, <2>3, Induction
  <2> USE DEF U
  <2>5. ASSUME NEW n \in Nat, rank[d] < n
        PROVE  x[n][d] = x[rank[d] + 1][d]
    <3>1. n - (rank[d] + 1) \in U /\ (rank[d] + 1) + (n - (rank[d] + 1)) = n
      BY <2>4, <2>5
    <3>. QED
      BY <3>1
  <2>. QED
    BY <2>5
<1> DEFINE s == [d \in D |-> x[rank[d] + 1][d]]
<1>6. s \in S
  BY <1>3
<1>7. ASSUME NEW d \in D
      PROVE  s[d] = B[s][d]
  <2>1. x[rank[d]] \in S /\ rank[d] \in Nat
    BY <1>3
  <2>2. \A e \in D : rank[e] < rank[d] => s[e] = x[rank[d]][e]
    BY <1>5
  <2>3. B[s][d] = B[x[rank[d]]][d]
    BY <2>1, <2>2, <1>6 DEF IsContractive
  <2>. QED
    BY <2>3, <1>3
<1>8. B[s] \in S
  BY <1>6
<1> HIDE DEF s
<1>9. s = B[s]
  BY <1>6, <1>7, <1>8
<1>. QED
  BY <1>6, <1>9 DEF HasFixedPoint

(***************************************************************************)
(* The formulas: all those that can be formed from the propositions in a   *)
(* finite number of steps.  TLC is given a set that it only asks whether   *)
(* values are in; here the set is what the code can build, a type and      *)
(* children that were built before it.                                     *)
(***************************************************************************)
Formed(S) ==
  {True, False, Start} \cup {Id(ap) : ap \in Props}
    \cup {<<op, f>> : op \in Unary \ {"CMP"}, f \in S}
    \cup {Cmp(f, c) : f \in S, c \in {0, 1}}
    \cup {<<op, f, g>> : op \in Binary, f \in S, g \in S}

Lower(height, f) == {g \in Forms : height[g] < height[f]}

IsHeight(height) ==
  height \in [Forms -> Nat] /\ \A f \in Forms : f \in Formed(Lower(height, f))

FormsAreAll == Formed(Forms) \subseteq Forms /\ \E height : IsHeight(height)

Height == CHOOSE height : IsHeight(height)

(* The heights exist.                                                      *)
LEMMA HeightTyped ==
  ASSUME FormsAreAll
  PROVE  IsHeight(Height)
BY DEF FormsAreAll, Height

(* What a formula is made of.                                              *)
HasChild(f, g) == g \in Forms /\ Height[g] \in Nat /\ Height[g] < Height[f]

(* A formula has the form that its type says.                              *)
LEMMA FormShape ==
  ASSUME FormsAreAll, NEW f \in Forms
  PROVE  /\ Height[f] \in Nat
         /\ \/ f[1] \in Leaves /\ f \in {True, False, Start} \cup {Id(ap) : ap \in Props}
            \/ f[1] \in Unary \ {"CMP"} /\ HasChild(f, f[2]) /\ f = <<f[1], f[2]>>
            \/ f[1] = "CMP" /\ HasChild(f, f[2]) /\ f[3] \in {0, 1} /\ f = Cmp(f[2], f[3])
            \/ /\ f[1] \in Binary /\ HasChild(f, f[2]) /\ HasChild(f, f[3])
               /\ f = <<f[1], f[2], f[3]>>
<1>1. Height \in [Forms -> Nat] /\ f \in Formed(Lower(Height, f))
  BY HeightTyped DEF IsHeight
<1>2. CASE f \in {True, False, Start} \cup {Id(ap) : ap \in Props}
  BY <1>1, <1>2 DEF True, False, Start, Id, Leaves
<1>3. CASE \E op \in Unary \ {"CMP"} : \E g \in Lower(Height, f) : f = <<op, g>>
  BY <1>1, <1>3 DEF Lower, HasChild
<1>4. CASE \E g \in Lower(Height, f) : \E c \in {0, 1} : f = Cmp(g, c)
  BY <1>1, <1>4 DEF Lower, HasChild, Cmp
<1>5. CASE \E op \in Binary : \E g, h \in Lower(Height, f) : f = <<op, g, h>>
  BY <1>1, <1>5 DEF Lower, HasChild
<1>. QED
  BY <1>1, <1>2, <1>3, <1>4, <1>5 DEF Formed

(* The children that the functions on formulas ask for.                    *)
LEMMA Children ==
  ASSUME FormsAreAll, NEW f \in Forms
  PROVE  /\ f[1] \in Unary \cup Binary => HasChild(f, f[2])
         /\ f[1] \in Binary => HasChild(f, f[3])
         /\ f[1] = "ID" => f[2] \in Props
         /\ f[1] = "CMP" => f[3] \in {0, 1}
         /\ f[1] \in Leaves \cup Unary \cup Binary
<1>1. f \in {True, False, Start} \cup {Id(ap) : ap \in Props} /\ f[1] = "ID" => f[2] \in Props
  BY DEF True, False, Start, Id
<1>. QED
  BY <1>1, FormShape DEF Leaves, Unary, Binary

(* Induction on the height.                                                *)
LEMMA FormInduction ==
  ASSUME FormsAreAll, NEW S \in SUBSET Forms,
         \A f \in Forms : (\A g \in Forms : HasChild(f, g) => g \in S) => f \in S
  PROVE  S = Forms
<1> SUFFICES ASSUME S # Forms
             PROVE  FALSE
  OBVIOUS
<1>1. Height \in [Forms -> Nat]
  BY HeightTyped DEF IsHeight
<1> DEFINE T == {Height[f] : f \in Forms \ S}
<1>2. T \in SUBSET Nat /\ T # {}
  BY <1>1
<1>3. PICK n \in T : \A m \in T : n <= m
  BY <1>2, LeastNumber
<1>4. PICK f \in Forms \ S : n = Height[f]
  BY <1>3
<1>5. ASSUME NEW g \in Forms, HasChild(f, g)
      PROVE  g \in S
  <2>1. Height[g] \in Nat /\ Height[f] \in Nat /\ Height[g] < Height[f]
    BY <1>1, <1>4, <1>5 DEF HasChild
  <2>2. g \notin S => Height[g] \in T
    OBVIOUS
  <2>. QED
    BY <2>1, <2>2, <1>2, <1>3, <1>4
<1>. QED
  BY <1>4, <1>5

(* What can be formed is a formula.                                        *)
LEMMA FormsClosed ==
  ASSUME FormsAreAll
  PROVE  /\ True \in Forms /\ False \in Forms /\ Start \in Forms
         /\ \A f \in Forms : /\ Not(f) \in Forms /\ EX(f) \in Forms /\ EG(f) \in Forms
                              /\ <<"EY", f>> \in Forms
                              /\ \A c \in {0, 1} : Cmp(f, c) \in Forms
         /\ \A f, g \in Forms : /\ And(f, g) \in Forms /\ Or(f, g) \in Forms
                                 /\ Then(f, g) \in Forms /\ EU(f, g) \in Forms
                                 /\ <<"FWDU", f, g>> \in Forms /\ <<"FWDG", f, g>> \in Forms
<1>1. Formed(Forms) \subseteq Forms
  BY DEF FormsAreAll
<1>2. True \in Forms /\ False \in Forms /\ Start \in Forms
  BY <1>1 DEF Formed
<1>3. \A op \in Unary \ {"CMP"} : \A f \in Forms : <<op, f>> \in Forms
  BY <1>1 DEF Formed
<1>4. \A f \in Forms : \A c \in {0, 1} : Cmp(f, c) \in Forms
  BY <1>1 DEF Formed
<1>5. \A op \in Binary : \A f, g \in Forms : <<op, f, g>> \in Forms
  BY <1>1 DEF Formed
<1>6. {"NOT", "EX", "EG", "EY"} \subseteq Unary \ {"CMP"}
  BY DEF Unary
<1>7. {"AND", "OR", "THEN", "EU", "FWDU", "FWDG"} \subseteq Binary
  BY DEF Binary
<1>. QED
  BY <1>2, <1>3, <1>4, <1>5, <1>6, <1>7 DEF Not, EX, EG, And, Or, Then, EU

-----------------------------------------------------------------------------
(* The recursive functions on formulas satisfy their equations.            *)
QuantifierFreeIs(f) ==
  \/ f[1] \in {"ID", "TRUE", "FALSE"}
  \/ f[1] = "NOT" /\ QuantifierFree[f[2]]
  \/ f[1] \in {"AND", "OR", "THEN"} /\ QuantifierFree[f[2]] /\ QuantifierFree[f[3]]

(* QuantifierFree is the function its equation defines.                    *)
LEMMA QuantifierFreeUnfolds ==
  ASSUME FormsAreAll
  PROVE  /\ QuantifierFree \in [Forms -> BOOLEAN]
         /\ \A f \in Forms : QuantifierFree[f] <=> QuantifierFreeIs(f)
<1> DEFINE V == [Forms -> BOOLEAN]
           body(g, f) == \/ f[1] \in {"ID", "TRUE", "FALSE"}
                         \/ f[1] = "NOT" /\ g[f[2]]
                         \/ f[1] \in {"AND", "OR", "THEN"} /\ g[f[2]] /\ g[f[3]]
           B == [g \in V |-> [f \in Forms |-> body(g, f)]]
<1>1. Height \in [Forms -> Nat]
  BY HeightTyped DEF IsHeight
<1>2. B \in [V -> V]
  OBVIOUS
<1>3. IsContractive(Forms, BOOLEAN, Height, B)
  <2> SUFFICES ASSUME NEW g \in V, NEW h \in V, NEW f \in Forms,
                      \A e \in Forms : Height[e] < Height[f] => g[e] = h[e]
               PROVE  body(g, f) = body(h, f)
    BY DEF IsContractive
  <2>1. f[1] \in Unary \cup Binary => g[f[2]] = h[f[2]]
    BY Children DEF HasChild
  <2>2. f[1] \in Binary => g[f[3]] = h[f[3]]
    BY Children DEF HasChild
  <2>. QED
    BY <2>1, <2>2 DEF Unary, Binary
<1>4. HasFixedPoint(Forms, BOOLEAN, B)
  BY <1>1, <1>2, <1>3, RankedRecursion
<1>5. \E g : g = [f \in Forms |-> body(g, f)]
  BY <1>4 DEF HasFixedPoint
<1>6. QuantifierFree = [f \in Forms |-> body(QuantifierFree, f)]
  BY <1>5 DEF QuantifierFree
<1>. QED
  BY <1>6 DEF QuantifierFreeIs

(***************************************************************************)
(* Iterations on sets of states: those of the reference semantics reach    *)
(* their limit within as many steps as there are states.                   *)
(***************************************************************************)
IsMonotone(G) == \A X, Y \in SUBSET States : X \subseteq Y => G[X] \subseteq G[Y]

IsIteration(walk, b, G) ==
  walk \in [Nat -> SUBSET States] /\ walk[0] = b /\ \A n \in Nat : walk[n + 1] = G[walk[n]]

(* Each turn of a monotone iteration that starts below its image adds to   *)
(* the one before.                                                         *)
LEMMA IterationGrows ==
  ASSUME NEW b \in SUBSET States, NEW G \in [SUBSET States -> SUBSET States],
         IsMonotone(G), b \subseteq G[b], NEW walk, IsIteration(walk, b, G)
  PROVE  \A n \in Nat : walk[n] \in SUBSET States /\ walk[n] \subseteq walk[n + 1]
<1> DEFINE T == {n \in Nat : walk[n] \subseteq walk[n + 1]}
<1>1. walk \in [Nat -> SUBSET States] /\ \A n \in Nat : walk[n + 1] = G[walk[n]]
  BY DEF IsIteration
<1>2. T \in SUBSET Nat /\ 0 \in T
  BY DEF IsIteration
<1>3. ASSUME NEW n \in T
      PROVE  n + 1 \in T
  <2>1. n \in Nat /\ n + 1 \in Nat /\ walk[n] \subseteq walk[n + 1]
    OBVIOUS
  <2>2. G[walk[n]] \subseteq G[walk[n + 1]]
    BY <2>1, <1>1 DEF IsMonotone
  <2>3. walk[n + 1] = G[walk[n]] /\ walk[(n + 1) + 1] = G[walk[n + 1]]
    BY <2>1, <1>1
  <2>. QED
    BY <2>1, <2>2, <2>3
<1>4. T = Nat
  <2> HIDE DEF T
  <2>. QED
    BY <1>2, <1>3, Induction
<1>. QED
  BY <1>1, <1>4

(* When a step adds nothing, no later one does; so that each of the steps  *)
(* before one that adds something adds a state at least.                   *)
LEMMA IterationStops ==
  ASSUME NEW b \in SUBSET States, NEW G \in [SUBSET States -> SUBSET States],
         NEW walk, IsIteration(walk, b, G),
         NEW k \in Nat, walk[k + 1] = walk[k], NEW m \in Nat, k <= m
  PROVE  walk[m + 1] = walk[m]
<1> DEFINE T == {i \in Nat : k <= i => walk[i + 1] = walk[i]}
<1>1. \A n \in Nat : walk[n + 1] = G[walk[n]]
  BY DEF IsIteration
<1>2. T \in SUBSET Nat /\ 0 \in T
  OBVIOUS
<1>3. ASSUME NEW i \in T
      PROVE  i + 1 \in T
  <2>1. i \in Nat /\ i + 1 \in Nat
    OBVIOUS
  <2>2. CASE k <= i
    <3>1. walk[i + 1] = walk[i]
      BY <2>2
    <3>2. walk[(i + 1) + 1] = G[walk[i + 1]] /\ walk[i + 1] = G[walk[i]]
      BY <2>1, <1>1
    <3>3. walk[(i + 1) + 1] = walk[i + 1]
      BY <3>1, <3>2
    <3>. QED
      BY <2>1, <3>3
  <2>3. CASE ~(k <= i)
    <3>1. k <= i + 1 => i + 1 = k
      BY <2>3
    <3>. QED
      BY <2>1, <3>1
  <2>. QED
    BY <2>2, <2>3
<1>4. T = Nat
  <2> HIDE DEF T
  <2>. QED
    BY <1>2, <1>3, Induction
<1>. QED
  BY <1>4

(* After as many turns as there are states nothing is added any more.      *)
LEMMA IterationSaturates ==
  ASSUME NEW b \in SUBSET States, NEW G \in [SUBSET States -> SUBSET States],
         IsMonotone(G), b \subseteq G[b], NEW walk, IsIteration(walk, b, G)
  PROVE  G[walk[Bound]] = walk[Bound]
<1> DEFINE T == {k \in Nat : k <= Bound + 1 => k <= Cardinality(walk[k])}
<1>0. Bound \in Nat /\ Bound = Cardinality(States)
  BY StatesFinite, FS_CardinalityType DEF Bound
<1>1. walk[Bound + 1] = G[walk[Bound]]
  BY <1>0 DEF IsIteration
<1> SUFFICES ASSUME walk[Bound + 1] # walk[Bound]
             PROVE  FALSE
  BY <1>1
<1>2. ASSUME NEW k \in Nat
      PROVE  /\ Cardinality(walk[k]) \in Nat /\ Cardinality(walk[k]) <= Bound
             /\ k <= Bound => Cardinality(walk[k]) < Cardinality(walk[k + 1])
  <2>1. /\ walk[k] \in SUBSET States /\ walk[k + 1] \in SUBSET States
        /\ walk[k] \subseteq walk[k + 1]
    <3>1. \A n \in Nat : walk[n] \in SUBSET States /\ walk[n] \subseteq walk[n + 1]
      BY IterationGrows
    <3>2. k + 1 \in Nat
      OBVIOUS
    <3>. QED
      BY <3>1, <3>2
  <2>2. IsFiniteSet(walk[k]) /\ IsFiniteSet(walk[k + 1]) /\ Cardinality(walk[k]) <= Bound
    BY <1>0, <2>1, StatesFinite, FS_Subset
  <2>3. Cardinality(walk[k]) \in Nat /\ Cardinality(walk[k + 1]) \in Nat
    BY <2>2, FS_CardinalityType
  <2>4. k <= Bound => walk[k + 1] # walk[k]
    BY <1>0, IterationStops
  <2>5. ASSUME k <= Bound
        PROVE  /\ Cardinality(walk[k]) <= Cardinality(walk[k + 1])
               /\ Cardinality(walk[k]) # Cardinality(walk[k + 1])
    <3>1. walk[k] \in SUBSET walk[k + 1] /\ walk[k] # walk[k + 1]
      BY <2>1, <2>4, <2>5
    <3>. QED
      BY <2>2, <3>1, FS_Subset
  <2>. QED
    BY <2>2, <2>3, <2>5
<1>3. T \in SUBSET Nat /\ 0 \in T
  BY <1>2
<1>4. ASSUME NEW k \in T
      PROVE  k + 1 \in T
  <2>1. ASSUME k + 1 <= Bound + 1
        PROVE  k + 1 <= Cardinality(walk[k + 1])
    <3>1. k \in Nat /\ k <= Bound /\ k <= Cardinality(walk[k])
      BY <1>0, <2>1
    <3>2. Cardinality(walk[k]) \in Nat /\ Cardinality(walk[k + 1]) \in Nat
      BY <1>2, <3>1
    <3>3. Cardinality(walk[k]) < Cardinality(walk[k + 1])
      BY <1>2, <3>1
    <3>. QED
      BY <3>1, <3>2, <3>3
  <2>. QED
    BY <2>1
<1>5. T = Nat
  <2> HIDE DEF T
  <2>. QED
    BY <1>3, <1>4, Induction
<1>6. Bound + 1 <= Cardinality(walk[Bound + 1])
  BY <1>0, <1>5
<1>. QED
  BY <1>0, <1>2, <1>6

(* The limit of a growing iteration is the least fixed point, that of a    *)
(* shrinking one the greatest.                                             *)
LEMMA LeastFixedPoint ==
  ASSUME NEW b \in SUBSET States, NEW G \in [SUBSET States -> SUBSET States],
         IsMonotone(G), b \subseteq G[b], NEW walk, IsIteration(walk, b, G)
  PROVE  /\ walk[Bound] \in SUBSET States /\ G[walk[Bound]] = walk[Bound]
         /\ \A X \in SUBSET States :
               b \subseteq X /\ G[X] \subseteq X => walk[Bound] \subseteq X
<1>0. Bound \in Nat
  BY StatesFinite, FS_CardinalityType DEF Bound
<1>1. ASSUME NEW X \in SUBSET States, b \subseteq X, G[X] \subseteq X
      PROVE  walk[Bound] \subseteq X
  <2> DEFINE T == {n \in Nat : walk[n] \subseteq X}
  <2>1. T \in SUBSET Nat /\ 0 \in T
    BY <1>1 DEF IsIteration
  <2>2. ASSUME NEW n \in T
        PROVE  n + 1 \in T
    <3>1. n \in Nat /\ walk[n] \in SUBSET States /\ walk[n] \subseteq X
      BY DEF IsIteration
    <3>2. G[walk[n]] \subseteq G[X] /\ walk[n + 1] = G[walk[n]]
      BY <3>1 DEF IsMonotone, IsIteration
    <3>. QED
      BY <3>1, <3>2, <1>1
  <2>3. T = Nat
    <3> HIDE DEF T
    <3>. QED
      BY <2>1, <2>2, Induction
  <2>. QED
    BY <1>0, <2>3
<1>. QED
  BY <1>0, <1>1, IterationSaturates DEF IsIteration

(* The same from above, with complements.                                  *)
LEMMA GreatestFixedPoint ==
  ASSUME NEW b \in SUBSET States, NEW G \in [SUBSET States -> SUBSET States],
         IsMonotone(G), G[b] \subseteq b, NEW walk, IsIteration(walk, b, G)
  PROVE  /\ walk[Bound] \in SUBSET States /\ G[walk[Bound]] = walk[Bound]
         /\ \A X \in SUBSET States :
               X \subseteq b /\ X \subseteq G[X] => X \subseteq walk[Bound]
<1> DEFINE c == States \ b
           H == [X \in SUBSET States |-> States \ G[States \ X]]
           cowalk == [n \in Nat |-> States \ walk[n]]
<1>0. Bound \in Nat /\ walk \in [Nat -> SUBSET States]
  BY StatesFinite, FS_CardinalityType DEF Bound, IsIteration
<1>1. c \in SUBSET States /\ H \in [SUBSET States -> SUBSET States]
  OBVIOUS
<1>2. IsMonotone(H)
  <2> SUFFICES ASSUME NEW X \in SUBSET States, NEW Y \in SUBSET States, X \subseteq Y
               PROVE  H[X] \subseteq H[Y]
    BY DEF IsMonotone
  <2>1. G[States \ Y] \subseteq G[States \ X]
    BY DEF IsMonotone
  <2>. QED
    BY <2>1
<1>3. c \subseteq H[c]
  <2>1. States \ c = b
    OBVIOUS
  <2>. QED
    BY <1>1, <2>1
<1>4. IsIteration(cowalk, c, H)
  <2>1. cowalk \in [Nat -> SUBSET States] /\ cowalk[0] = c
    BY <1>0 DEF IsIteration
  <2>2. ASSUME NEW n \in Nat
        PROVE  cowalk[n + 1] = H[cowalk[n]]
    <3>1. walk[n] \in SUBSET States /\ walk[n + 1] = G[walk[n]]
      BY <1>0 DEF IsIteration
    <3>2. States \ cowalk[n] = walk[n] /\ cowalk[n] \in SUBSET States
      BY <3>1
    <3>3. cowalk[n + 1] = States \ walk[n + 1]
      OBVIOUS
    <3> HIDE DEF cowalk
    <3>4. H[cowalk[n]] = States \ G[walk[n]]
      BY <3>2
    <3>. QED
      BY <3>1, <3>3, <3>4
  <2>. QED
    BY <2>1, <2>2 DEF IsIteration
<1>a. cowalk[Bound] = States \ walk[Bound] /\ walk[Bound] \in SUBSET States
  BY <1>0
<1> HIDE DEF c, H, cowalk
<1>5. /\ cowalk[Bound] \in SUBSET States /\ H[cowalk[Bound]] = cowalk[Bound]
      /\ \A X \in SUBSET States :
            c \subseteq X /\ H[X] \subseteq X => cowalk[Bound] \subseteq X
  BY <1>1, <1>2, <1>3, <1>4, LeastFixedPoint
<1>6. walk[Bound] \in SUBSET States /\ walk[Bound] = States \ cowalk[Bound]
  BY <1>a
<1>7. G[walk[Bound]] = walk[Bound]
  <2>1. H[cowalk[Bound]] = States \ G[walk[Bound]] /\ G[walk[Bound]] \in SUBSET States
    BY <1>5, <1>6 DEF H
  <2>. QED
    BY <1>5, <1>6, <2>1
<1>8. ASSUME NEW X \in SUBSET States, X \subseteq b, X \subseteq G[X]
      PROVE  X \subseteq walk[Bound]
  <2>1. States \ X \in SUBSET States /\ c \subseteq States \ X
    BY <1>8 DEF c
  <2>2. States \ (States \ X) = X
    OBVIOUS
  <2>3. H[States \ X] \subseteq States \ X
    BY <1>8, <2>1, <2>2 DEF H
  <2>4. cowalk[Bound] \subseteq States \ X
    BY <1>5, <2>1, <2>3
  <2>. QED
    BY <1>6, <2>4
<1>. QED
  BY <1>6, <1>7, <1>8

(* The recursive function that an iteration is exists.                     *)
LEMMA IterationUnfolds ==
  ASSUME NEW b \in SUBSET States, NEW G \in [SUBSET States -> SUBSET States]
  PROVE  \E f \in [Nat -> SUBSET States] :
            f = [n \in Nat |-> IF n = 0 THEN b ELSE G[f[n - 1]]]
<1> DEFINE F == [n \in Nat |-> G]
<1>1. F \in [Nat -> [SUBSET States -> SUBSET States]]
  OBVIOUS
<1>2. PICK f \in [Nat -> SUBSET States] : f[0] = b /\ \A n \in Nat : f[n + 1] = F[n + 1][f[n]]
  <2> HIDE DEF F
  <2>. QED
    BY <1>1, SetRecursion
<1>3. ASSUME NEW n \in Nat, n # 0
      PROVE  f[n] = G[f[n - 1]]
  <2>1. n - 1 \in Nat /\ (n - 1) + 1 = n
    BY <1>3
  <2>2. f[(n - 1) + 1] = F[(n - 1) + 1][f[n - 1]]
    BY <1>2, <2>1
  <2>. QED
    BY <2>1, <2>2
<1>4. f = [n \in Nat |-> IF n = 0 THEN b ELSE G[f[n - 1]]]
  BY <1>2, <1>3
<1>. QED
  BY <1>4

(***************************************************************************)
(* The reference semantics as fixed points.                                *)
(***************************************************************************)
UntilStep(a, b, X) == b \cup (a \cap Pre(next, X))

SureStep(a, b, X) == b \cup {s \in a : After(s) # {} /\ After(s) \subseteq X}

LongerStep(a, X) == {s \in a : After(s) = {} \/ After(s) \cap X # {}}

(* E a U b: the least set with the states of b, and those of a before it.  *)
UntilWalk(a, b) ==
  LET walk[n \in Nat] == IF n = 0 THEN b ELSE b \cup (a \cap Pre(next, walk[n - 1]))
  IN  walk

(* Until(a, b) is the least solution of its equation.                      *)
LEMMA UntilIs ==
  ASSUME NEW a \in SUBSET States, NEW b \in SUBSET States
  PROVE  /\ Until(a, b) \in SUBSET States /\ Until(a, b) = UntilStep(a, b, Until(a, b))
         /\ \A X \in SUBSET States :
               UntilStep(a, b, X) \subseteq X => Until(a, b) \subseteq X
<1> DEFINE G == [X \in SUBSET States |-> UntilStep(a, b, X)]
           walk == UntilWalk(a, b)
<1>1. \A X : UntilStep(a, b, X) \in SUBSET States
  BY DEF UntilStep
<1>2. G \in [SUBSET States -> SUBSET States]
  BY <1>1
<1>3. IsMonotone(G)
  <2> SUFFICES ASSUME NEW X \in SUBSET States, NEW Y \in SUBSET States, X \subseteq Y
               PROVE  UntilStep(a, b, X) \subseteq UntilStep(a, b, Y)
    BY DEF IsMonotone
  <2>. QED
    BY DEF UntilStep, Pre
<1>4. \E f : f = [n \in Nat |-> IF n = 0 THEN b ELSE UntilStep(a, b, f[n - 1])]
  <2>1. PICK f \in [Nat -> SUBSET States] : f = [n \in Nat |-> IF n = 0 THEN b ELSE G[f[n - 1]]]
    <3> HIDE DEF G
    <3>. QED
      BY <1>2, IterationUnfolds
  <2>2. ASSUME NEW n \in Nat, n # 0
        PROVE  G[f[n - 1]] = UntilStep(a, b, f[n - 1])
    <3>1. n - 1 \in Nat
      BY <2>2
    <3>2. f[n - 1] \in SUBSET States
      BY <3>1
    <3>. QED
      BY <3>2
  <2>3. f = [n \in Nat |-> IF n = 0 THEN b ELSE UntilStep(a, b, f[n - 1])]
    <3> HIDE DEF G
    <3>. QED
      BY <2>1, <2>2
  <2>. QED
    BY <2>3
<1>5. walk = [n \in Nat |-> IF n = 0 THEN b ELSE UntilStep(a, b, walk[n - 1])]
  BY <1>4, Zenon DEF UntilWalk, UntilStep
<1> HIDE DEF walk
<1>6. walk \in [Nat -> SUBSET States] /\ walk[0] = b
  BY <1>1, <1>5
<1>7. ASSUME NEW n \in Nat
      PROVE  walk[n + 1] = G[walk[n]]
  <2>1. walk[n + 1] = UntilStep(a, b, walk[n])
    BY <1>5
  <2>. QED
    BY <1>6, <2>1
<1>8. IsIteration(walk, b, G)
  BY <1>6, <1>7 DEF IsIteration
<1>9. Until(a, b) = walk[Bound]
  BY DEF Until, walk, UntilWalk
<1>10. b \subseteq G[b]
  BY DEF UntilStep
<1>11. /\ walk[Bound] \in SUBSET States /\ G[walk[Bound]] = walk[Bound]
       /\ \A X \in SUBSET States :
             b \subseteq X /\ G[X] \subseteq X => walk[Bound] \subseteq X
  <2> HIDE DEF G
  <2>. QED
    BY <1>2, <1>3, <1>8, <1>10, LeastFixedPoint
<1>12. \A X \in SUBSET States : UntilStep(a, b, X) \subseteq X => b \subseteq X
  BY DEF UntilStep
<1>. QED
  BY <1>9, <1>11, <1>12

(* A a U b: the least set with the states of b, and those of a after which *)
(* there are only states of it.                                            *)
AlwaysUntilWalk(a, b) ==
  LET walk[n \in Nat] ==
        IF n = 0 THEN b
        ELSE LET sure == walk[n - 1]
             IN  b \cup {s \in a : After(s) # {} /\ After(s) \subseteq sure}
  IN  walk

(* AlwaysUntil(a, b) is the least solution of its equation.                *)
LEMMA AlwaysUntilIs ==
  ASSUME NEW a \in SUBSET States, NEW b \in SUBSET States
  PROVE  /\ AlwaysUntil(a, b) \in SUBSET States
         /\ AlwaysUntil(a, b) = SureStep(a, b, AlwaysUntil(a, b))
         /\ \A X \in SUBSET States :
               SureStep(a, b, X) \subseteq X => AlwaysUntil(a, b) \subseteq X
<1> DEFINE G == [X \in SUBSET States |-> SureStep(a, b, X)]
           walk == AlwaysUntilWalk(a, b)
<1>1. \A X : SureStep(a, b, X) \in SUBSET States
  BY DEF SureStep
<1>2. G \in [SUBSET States -> SUBSET States]
  BY <1>1
<1>3. IsMonotone(G)
  <2> SUFFICES ASSUME NEW X \in SUBSET States, NEW Y \in SUBSET States, X \subseteq Y
               PROVE  SureStep(a, b, X) \subseteq SureStep(a, b, Y)
    BY DEF IsMonotone
  <2>. QED
    BY DEF SureStep, Pre
<1>4. \E f : f = [n \in Nat |-> IF n = 0 THEN b ELSE SureStep(a, b, f[n - 1])]
  <2>1. PICK f \in [Nat -> SUBSET States] : f = [n \in Nat |-> IF n = 0 THEN b ELSE G[f[n - 1]]]
    <3> HIDE DEF G
    <3>. QED
      BY <1>2, IterationUnfolds
  <2>2. ASSUME NEW n \in Nat, n # 0
        PROVE  G[f[n - 1]] = SureStep(a, b, f[n - 1])
    <3>1. n - 1 \in Nat
      BY <2>2
    <3>2. f[n - 1] \in SUBSET States
      BY <3>1
    <3>. QED
      BY <3>2
  <2>3. f = [n \in Nat |-> IF n = 0 THEN b ELSE SureStep(a, b, f[n - 1])]
    <3> HIDE DEF G
    <3>. QED
      BY <2>1, <2>2
  <2>. QED
    BY <2>3
<1>5. walk = [n \in Nat |-> IF n = 0 THEN b ELSE SureStep(a, b, walk[n - 1])]
  BY <1>4, Zenon DEF AlwaysUntilWalk, SureStep
<1> HIDE DEF walk
<1>6. walk \in [Nat -> SUBSET States] /\ walk[0] = b
  BY <1>1, <1>5
<1>7. ASSUME NEW n \in Nat
      PROVE  walk[n + 1] = G[walk[n]]
  <2>1. walk[n + 1] = SureStep(a, b, walk[n])
    BY <1>5
  <2>. QED
    BY <1>6, <2>1
<1>8. IsIteration(walk, b, G)
  BY <1>6, <1>7 DEF IsIteration
<1>9. AlwaysUntil(a, b) = walk[Bound]
  BY DEF AlwaysUntil, walk, AlwaysUntilWalk
<1>10. b \subseteq G[b]
  BY DEF SureStep
<1>11. /\ walk[Bound] \in SUBSET States /\ G[walk[Bound]] = walk[Bound]
       /\ \A X \in SUBSET States :
             b \subseteq X /\ G[X] \subseteq X => walk[Bound] \subseteq X
  <2> HIDE DEF G
  <2>. QED
    BY <1>2, <1>3, <1>8, <1>10, LeastFixedPoint
<1>12. \A X \in SUBSET States : SureStep(a, b, X) \subseteq X => b \subseteq X
  BY DEF SureStep
<1>. QED
  BY <1>9, <1>11, <1>12

(* EG a: the greatest set of states of a that end or go on in it.          *)
GloballyWalk(a) ==
  LET walk[n \in Nat] ==
        IF n = 0 THEN a
        ELSE LET longer == walk[n - 1]
             IN  {s \in a : After(s) = {} \/ After(s) \cap longer # {}}
  IN  walk

(* Globally(a) is the greatest solution of its equation.                   *)
LEMMA GloballyIs ==
  ASSUME NEW a \in SUBSET States
  PROVE  /\ Globally(a) \in SUBSET States /\ Globally(a) = LongerStep(a, Globally(a))
         /\ \A X \in SUBSET States :
               X \subseteq LongerStep(a, X) => X \subseteq Globally(a)
<1> DEFINE G == [X \in SUBSET States |-> LongerStep(a, X)]
           walk == GloballyWalk(a)
<1>1. \A X : LongerStep(a, X) \in SUBSET States
  BY DEF LongerStep
<1>2. G \in [SUBSET States -> SUBSET States]
  BY <1>1
<1>3. IsMonotone(G)
  <2> SUFFICES ASSUME NEW X \in SUBSET States, NEW Y \in SUBSET States, X \subseteq Y
               PROVE  LongerStep(a, X) \subseteq LongerStep(a, Y)
    BY DEF IsMonotone
  <2>. QED
    BY DEF LongerStep, Pre
<1>4. \E f : f = [n \in Nat |-> IF n = 0 THEN a ELSE LongerStep(a, f[n - 1])]
  <2>1. PICK f \in [Nat -> SUBSET States] : f = [n \in Nat |-> IF n = 0 THEN a ELSE G[f[n - 1]]]
    <3> HIDE DEF G
    <3>. QED
      BY <1>2, IterationUnfolds
  <2>2. ASSUME NEW n \in Nat, n # 0
        PROVE  G[f[n - 1]] = LongerStep(a, f[n - 1])
    <3>1. n - 1 \in Nat
      BY <2>2
    <3>2. f[n - 1] \in SUBSET States
      BY <3>1
    <3>. QED
      BY <3>2
  <2>3. f = [n \in Nat |-> IF n = 0 THEN a ELSE LongerStep(a, f[n - 1])]
    <3> HIDE DEF G
    <3>. QED
      BY <2>1, <2>2
  <2>. QED
    BY <2>3
<1>5. walk = [n \in Nat |-> IF n = 0 THEN a ELSE LongerStep(a, walk[n - 1])]
  BY <1>4, Zenon DEF GloballyWalk, LongerStep
<1> HIDE DEF walk
<1>6. walk \in [Nat -> SUBSET States] /\ walk[0] = a
  BY <1>1, <1>5
<1>7. ASSUME NEW n \in Nat
      PROVE  walk[n + 1] = G[walk[n]]
  <2>1. walk[n + 1] = LongerStep(a, walk[n])
    BY <1>5
  <2>. QED
    BY <1>6, <2>1
<1>8. IsIteration(walk, a, G)
  BY <1>6, <1>7 DEF IsIteration
<1>9. Globally(a) = walk[Bound]
  BY DEF Globally, walk, GloballyWalk
<1>10. G[a] \subseteq a
  BY DEF LongerStep
<1>11. /\ walk[Bound] \in SUBSET States /\ G[walk[Bound]] = walk[Bound]
       /\ \A X \in SUBSET States :
             X \subseteq a /\ X \subseteq G[X] => X \subseteq walk[Bound]
  <2> HIDE DEF G
  <2>. QED
    BY <1>2, <1>3, <1>8, <1>10, GreatestFixedPoint
<1>12. \A X \in SUBSET States : X \subseteq LongerStep(a, X) => X \subseteq a
  BY DEF LongerStep
<1>. QED
  BY <1>9, <1>11, <1>12

(***************************************************************************)
(* The fixed points of the checker.                                        *)
(***************************************************************************)

(* What the checker keeps: all the reachable states, the steps from them   *)
(* and to them, those without a step, and whether there is a cycle.        *)
Kept ==
  /\ reachable \in SUBSET States /\ next \in Relations
  /\ InitialState \in SUBSET reachable /\ InitialState # {}
  /\ Closed(next, reachable)
  /\ \A S \in SUBSET States : InitialState \subseteq S /\ Closed(next, S) => reachable \subseteq S
  /\ \A S \in SUBSET reachable : Post(predRel_, S) = Pre(next, S) \cap reachable
  /\ deadlocks_ = {s \in reachable : After(s) = {}}
  /\ scc_ <=> \E X \in SUBSET reachable : X # {} /\ X \subseteq Post(next, X)

(* The successors of a reachable state are reachable.                      *)
LEMMA AfterIs ==
  ASSUME Kept, NEW s \in reachable
  PROVE  /\ After(s) \in SUBSET reachable
         /\ \A t : t \in After(s) <=> t \in reachable /\ <<s, t>> \in next
<1>1. \A t : t \in After(s) <=> t \in States /\ <<s, t>> \in next
  BY DEF After, Post
<1>2. \A t \in States : <<s, t>> \in next => t \in reachable
  BY DEF Kept, Closed, Post
<1>. QED
  BY <1>1, <1>2 DEF Kept

(* The predecessor relation that is kept gives the reachable predecessors. *)
LEMMA BeforeIs ==
  ASSUME Kept, NEW X \in SUBSET reachable
  PROVE  /\ Post(predRel_, X) = {s \in reachable : After(s) \cap X # {}}
         /\ Post(predRel_, X) \in SUBSET reachable
         /\ Pre(next, X) \cap reachable = {s \in reachable : After(s) \cap X # {}}
<1>1. Post(predRel_, X) = Pre(next, X) \cap reachable
  BY DEF Kept
<1>2. ASSUME NEW s \in reachable
      PROVE  s \in Pre(next, X) <=> After(s) \cap X # {}
  BY AfterIs DEF Pre, Kept
<1>. QED
  BY <1>1, <1>2

(* A step inside a guard, for sets of reachable states.                    *)
LEMMA GuardedBefore ==
  ASSUME Kept, NEW a \in SUBSET reachable, NEW guard, guard \cap reachable = a,
         NEW X \in SUBSET reachable
  PROVE  Post(Within(predRel_, guard), X) = {s \in a : After(s) \cap X # {}}
<1>1. Post(Within(predRel_, guard), X) = Post(predRel_, X) \cap guard
  BY DEF Post, Within
<1>. QED
  BY <1>1, BeforeIs

(* A set of which each state has a successor in it holds one of which each *)
(* state has a predecessor in it: take the smallest.                       *)
IsFed(e, X) == X # {} /\ \A t \in X : \E s \in X : <<s, t>> \in e
Feeds(e, X) == X # {} /\ \A s \in X : \E t \in X : <<s, t>> \in e

LEMMA FeedingIsFed ==
  ASSUME NEW e, NEW Y \in SUBSET States, Feeds(e, Y)
  PROVE  \E Z \in SUBSET Y : IsFed(e, Z)
<1> DEFINE C == {Z \in SUBSET Y : Feeds(e, Z)}
           T == {Cardinality(Z) : Z \in C}
<1>1. ASSUME NEW Z \in SUBSET Y
      PROVE  IsFiniteSet(Z) /\ Cardinality(Z) \in Nat
  BY StatesFinite, FS_Subset, FS_CardinalityType
<1>2. T \in SUBSET Nat /\ T # {}
  BY <1>1
<1>3. PICK n \in T : \A m \in T : n <= m
  BY <1>2, LeastNumber
<1>4. PICK Z \in C : n = Cardinality(Z)
  BY <1>3
<1>5. ASSUME NEW z \in Z, \A s \in Z : <<s, z>> \notin e
      PROVE  FALSE
  <2>1. Z \ {z} \in C
    <3>1. Z \in SUBSET Y /\ \A s \in Z : \E t \in Z : <<s, t>> \in e
      BY <1>4 DEF Feeds
    <3>2. \A s \in Z : \E t \in Z \ {z} : <<s, t>> \in e
      BY <1>5, <3>1
    <3>. QED
      BY <3>1, <3>2 DEF Feeds
  <2>2. Cardinality(Z \ {z}) = Cardinality(Z) - 1 /\ Cardinality(Z) \in Nat
    BY <1>1, <1>4, <1>5, FS_RemoveElement
  <2>3. n <= Cardinality(Z \ {z})
    BY <1>3, <2>1
  <2>. QED
    BY <1>4, <2>2, <2>3
<1>6. IsFed(e, Z)
  BY <1>4, <1>5 DEF IsFed, Feeds
<1>. QED
  BY <1>4, <1>6

(* A set of which each state has a predecessor in it holds one of which    *)
(* each state has a successor in it.                                       *)
LEMMA FedFeeds ==
  ASSUME NEW e, NEW Y \in SUBSET States, IsFed(e, Y)
  PROVE  \E Z \in SUBSET Y : Feeds(e, Z)
<1> DEFINE inv == {<<q[2], q[1]>> : q \in {p \in States \X States : p \in e}}
<1>1. \A s, t \in States : <<t, s>> \in inv <=> <<s, t>> \in e
  OBVIOUS
<1> HIDE DEF inv
<1>2. Feeds(inv, Y)
  BY <1>1 DEF Feeds, IsFed
<1>3. PICK Z \in SUBSET Y : IsFed(inv, Z)
  BY <1>2, FeedingIsFed
<1>4. Feeds(e, Z)
  BY <1>1, <1>3 DEF Feeds, IsFed
<1>. QED
  BY <1>4

(* EU.                                                                     *)
LEMMA EUStatesAreUntil ==
  ASSUME Kept, NEW a \in SUBSET reachable, NEW guard, guard \cap reachable = a,
         NEW b \in SUBSET reachable
  PROVE  EUStates(guard, b) = Until(a, b) /\ Until(a, b) \in SUBSET reachable
<1> DEFINE h == Within(predRel_, guard)
           u == Until(a, b)
           fix == Fixpoint(h, b)
<1>0. reachable \in SUBSET States /\ a \in SUBSET States /\ b \in SUBSET States
  BY DEF Kept
<1>1. /\ u \in SUBSET States /\ u = UntilStep(a, b, u)
      /\ \A X \in SUBSET States : UntilStep(a, b, X) \subseteq X => u \subseteq X
  BY <1>0, UntilIs
<1>2. u \in SUBSET reachable
  BY <1>1 DEF UntilStep
<1>3. ASSUME NEW X \in SUBSET reachable
      PROVE  UntilStep(a, b, X) = b \cup Post(h, X)
  BY BeforeIs, GuardedBefore DEF UntilStep
<1>4. fix \subseteq u
  <2>1. b \subseteq u /\ Post(h, u) \subseteq u
    BY <1>1, <1>2, <1>3
  <2>. QED
    BY <1>1, <2>1, FixpointLeast DEF Closed
<1>5. u \subseteq fix
  <2>1. fix \in SUBSET reachable /\ b \subseteq fix /\ Post(h, fix) \subseteq fix
    BY <1>0, <1>2, <1>4, FixpointContains, FixpointClosed DEF Closed
  <2>2. UntilStep(a, b, fix) \subseteq fix
    BY <2>1, <1>3
  <2>. QED
    BY <1>0, <1>1, <2>1, <2>2
<1>. QED
  BY <1>2, <1>4, <1>5 DEF EUStates

(* EG.                                                                     *)
LEMMA NoCycleNoFeed ==
  ASSUME Kept, ~scc_, NEW Y \in SUBSET reachable,
         \A s \in Y : After(s) \cap Y # {}
  PROVE  Y = {}
<1> SUFFICES ASSUME Y # {}
             PROVE  FALSE
  OBVIOUS
<1>1. Feeds(next, Y)
  BY AfterIs DEF Feeds
<1>2. PICK Z \in SUBSET Y : IsFed(next, Z)
  BY <1>1, FeedingIsFed DEF Kept
<1>3. Z \in SUBSET reachable /\ Z # {} /\ Z \subseteq Post(next, Z)
  BY <1>2 DEF IsFed, Post, Kept
<1>. QED
  BY <1>3 DEF Kept

(* EG: a path that stays in a ends, or it comes to a cycle.                *)
LEMMA EGStatesAreGlobally ==
  ASSUME Kept, NEW a \in SUBSET reachable, NEW guard, guard \cap reachable = a
  PROVE  EGStates(guard, a) = Globally(a) /\ Globally(a) \in SUBSET reachable
<1> DEFINE h == Within(predRel_, guard)
           g == Globally(a)
           dead0 == deadlocks_ \cap a
           toDead == Fixpoint(h, dead0)
           loops == GreatestFixpoint(h, a)
           Y == g \ toDead
<1>0. reachable \in SUBSET States /\ a \in SUBSET States /\ dead0 \in SUBSET States
  BY DEF Kept
<1>1. /\ g \in SUBSET States /\ g = LongerStep(a, g)
      /\ \A X \in SUBSET States : X \subseteq LongerStep(a, X) => X \subseteq g
  BY <1>0, GloballyIs
<1>2. g \in SUBSET reachable
  BY <1>1 DEF LongerStep
<1>3. ASSUME NEW X \in SUBSET reachable
      PROVE  LongerStep(a, X) = dead0 \cup Post(h, X)
  <2>1. dead0 = {s \in a : After(s) = {}}
    BY DEF Kept
  <2>. QED
    BY <2>1, GuardedBefore DEF LongerStep
<1>4. toDead \subseteq g
  <2>1. dead0 \subseteq g /\ Post(h, g) \subseteq g
    BY <1>1, <1>2, <1>3
  <2>. QED
    BY <1>1, <2>1, FixpointLeast DEF Closed
<1>5. loops \subseteq g
  <2> SUFFICES ASSUME NEW X \in SUBSET a, X \subseteq Post(h, X)
               PROVE  X \subseteq g
    BY DEF GreatestFixpoint
  <2>1. X \in SUBSET reachable /\ X \in SUBSET States
    BY <1>0
  <2>. QED
    BY <2>1, <1>1, <1>3
<1>6. toDead \in SUBSET reachable /\ dead0 \subseteq toDead /\ Post(h, toDead) \subseteq toDead
  BY <1>0, <1>2, <1>4, FixpointContains, FixpointClosed DEF Closed
<1>7. Y \in SUBSET a /\ \A s \in Y : After(s) \cap Y # {}
  <2>1. Y \in SUBSET a
    BY <1>1 DEF LongerStep
  <2>2. ASSUME NEW s \in Y
        PROVE  After(s) \cap Y # {}
    <3>1. s \in dead0 \/ s \in Post(h, g)
      BY <1>1, <1>2, <1>3
    <3>2. s \notin dead0
      BY <1>6
    <3>3. s \in a /\ After(s) \cap g # {}
      BY <3>1, <3>2, <1>2, GuardedBefore
    <3>4. After(s) \cap toDead = {}
      BY <3>3, <1>6, GuardedBefore
    <3>. QED
      BY <3>3, <3>4
  <2>. QED
    BY <2>1, <2>2
<1>8. Y \subseteq loops
  <2>1. Y \subseteq Post(h, Y)
    <3>1. Y \in SUBSET reachable
      BY <1>7
    <3> HIDE DEF Y
    <3>2. Post(h, Y) = {s \in a : After(s) \cap Y # {}}
      BY <3>1, GuardedBefore
    <3>. QED
      BY <1>7, <3>2
  <2>. QED
    BY <1>7, <2>1 DEF GreatestFixpoint
<1>9. CASE scc_
  BY <1>4, <1>5, <1>8, <1>9, <1>2 DEF EGStates
<1>10. CASE ~scc_
  <2>1. Y = {}
    BY <1>7, <1>10, NoCycleNoFeed
  <2>. QED
    BY <2>1, <1>4, <1>10, <1>2 DEF EGStates
<1>. QED
  BY <1>9, <1>10

(* EG, when its existence is enough.                                       *)
LEMMA SomeEGIsEnough ==
  ASSUME Kept, NEW a \in SUBSET reachable
  PROVE  SomeEG(a) \subseteq Globally(a) /\ (Globally(a) # {} => SomeEG(a) # {})
<1> DEFINE g == Globally(a)
           dead0 == deadlocks_ \cap a
           loops == GreatestFixpoint(predRel_, a)
<1>0. reachable \in SUBSET States /\ a \in SUBSET States /\ dead0 = {s \in a : After(s) = {}}
  BY DEF Kept
<1>1. /\ g \in SUBSET States /\ g = LongerStep(a, g)
      /\ \A X \in SUBSET States : X \subseteq LongerStep(a, X) => X \subseteq g
  BY <1>0, GloballyIs
<1>2. dead0 \subseteq g
  BY <1>0, <1>1 DEF LongerStep
<1>3. loops \subseteq g
  <2> SUFFICES ASSUME NEW X \in SUBSET a, X \subseteq Post(predRel_, X)
               PROVE  X \subseteq g
    BY DEF GreatestFixpoint
  <2>1. X \in SUBSET reachable /\ X \in SUBSET States
    BY <1>0
  <2>2. X \subseteq LongerStep(a, X)
    BY <2>1, BeforeIs DEF LongerStep
  <2>. QED
    BY <2>1, <2>2, <1>1
<1>4. ASSUME dead0 = {}
      PROVE  g \subseteq loops
  <2>1. g \in SUBSET a /\ \A s \in g : After(s) \cap g # {}
    BY <1>0, <1>1, <1>4 DEF LongerStep
  <2>2. g \in SUBSET reachable
    BY <2>1
  <2> HIDE DEF g
  <2>3. g \subseteq Post(predRel_, g)
    BY <2>1, <2>2, BeforeIs
  <2>. QED
    BY <2>1, <2>3 DEF GreatestFixpoint
<1>5. g \subseteq a
  BY <1>1 DEF LongerStep
<1>. QED
  BY <1>2, <1>3, <1>4, <1>5 DEF SomeEG

(* The states reached forward through states of a are those from which b   *)
(* is reached backward, when one looks for b among them.                   *)
LEMMA FwdUMeetsUntil ==
  ASSUME Kept, NEW r \in SUBSET reachable,
         NEW a \in SUBSET reachable, NEW guard, guard \cap reachable = a
  PROVE  /\ FwdUStates(r, guard) \in SUBSET reachable
         /\ \A b \in SUBSET reachable :
               FwdUStates(r, guard) \cap b # {} <=> r \cap Until(a, b) # {}
<1> DEFINE h == {e \in next : e[1] \in guard}
           fwd == Fixpoint(h, r)
<1>0. /\ reachable \in SUBSET States /\ a \in SUBSET States /\ r \in SUBSET States
      /\ FwdUStates(r, guard) = fwd
  BY DEF Kept, FwdUStates
<1>1. ASSUME NEW X \in SUBSET States
      PROVE  Closed(h, X) <=> \A s \in X \cap guard : \A t \in States : <<s, t>> \in next => t \in X
  BY DEF Closed, Post
<1>2. /\ fwd \in SUBSET States /\ r \subseteq fwd /\ Closed(h, fwd)
      /\ \A X \in SUBSET States : r \subseteq X /\ Closed(h, X) => fwd \subseteq X
  BY <1>0, FixpointTyped, FixpointContains, FixpointClosed, FixpointLeast
<1> HIDE DEF fwd, h
<1>3. fwd \subseteq reachable
  <2>1. Closed(h, reachable)
    BY <1>0, <1>1 DEF Kept, Closed, Post
  <2>. QED
    BY <1>0, <1>2, <2>1
<1>4. ASSUME NEW b \in SUBSET reachable
      PROVE  fwd \cap b # {} <=> r \cap Until(a, b) # {}
  <2> DEFINE u == Until(a, b)
  <2>1. /\ u \in SUBSET States /\ u = UntilStep(a, b, u)
        /\ \A X \in SUBSET States : UntilStep(a, b, X) \subseteq X => u \subseteq X
    BY <1>0, UntilIs
  <2> HIDE DEF u
  <2>2. b \subseteq u /\ \A s \in a : \A t \in u : <<s, t>> \in next => s \in u
    BY <1>0, <2>1 DEF UntilStep, Pre
  <2>3. ASSUME r \cap u = {}
        PROVE  fwd \cap b = {}
    <3> DEFINE X == reachable \ u
    <3>1. X \in SUBSET States /\ r \subseteq X
      BY <1>0, <2>3
    <3>2. ASSUME NEW s \in X \cap guard, NEW t \in States, <<s, t>> \in next
          PROVE  t \in X
      <4>1. s \in reachable /\ s \in a /\ s \notin u
        OBVIOUS
      <4>2. t \in reachable
        BY <3>2, <4>1 DEF Kept, Closed, Post
      <4>3. t \notin u
        BY <2>2, <3>2, <4>1
      <4>. QED
        BY <4>2, <4>3
    <3> HIDE DEF X
    <3>3. fwd \subseteq X
      BY <1>1, <1>2, <3>1, <3>2
    <3>. QED
      BY <3>3, <2>2 DEF X
  <2>4. ASSUME fwd \cap b = {}
        PROVE  r \cap u = {}
    <3> DEFINE X == States \ fwd
    <3>1. X \in SUBSET States /\ b \subseteq X
      BY <1>0, <2>4
    <3>2. \A s \in a : \A t \in X : <<s, t>> \in next => s \in X
      BY <1>0, <1>1, <1>2
    <3>3. UntilStep(a, b, X) \subseteq X
      BY <3>1, <3>2 DEF UntilStep, Pre
    <3>. QED
      BY <2>1, <3>1, <3>3, <1>2
  <2>. QED
    BY <2>3, <2>4 DEF u
<1>. QED
  BY <1>0, <1>3, <1>4

(* FwdU(Init, true) is not computed: it is the set of reachable states.    *)
LEMMA FwdUFromStart ==
  ASSUME Kept
  PROVE  FwdUStates(InitialState, States) = reachable
<1> DEFINE h == {e \in next : e[1] \in States}
           fwd == Fixpoint(h, InitialState)
<1>1. h = next
  BY DEF Kept, Relations
<1>2. InitialState \in SUBSET States
  BY DEF Kept
<1>3. InitialState \subseteq fwd /\ fwd \in SUBSET States /\ Closed(h, fwd)
  BY <1>2, FixpointTyped, FixpointContains, FixpointClosed
<1>4. reachable \subseteq fwd
  BY <1>1, <1>3 DEF Kept
<1>5. fwd \subseteq reachable
  BY <1>1, FixpointLeast DEF Kept
<1>. QED
  BY <1>4, <1>5 DEF FwdUStates

(* FwdG(l, a) has states exactly when some state of l satisfies EG a.      *)
LEMMA FwdGMeetsGlobally ==
  ASSUME Kept, NEW r \in SUBSET reachable,
         NEW a \in SUBSET reachable, NEW guard, guard \cap reachable = a
  PROVE  /\ FwdGStates(r, a, guard) \in SUBSET reachable
         /\ FwdGStates(r, a, guard) # {} <=> r \cap Globally(a) # {}
<1> DEFINE h == Within(next, guard)
           pq == Fixpoint(h, r \cap a)
           g == Globally(a)
<1>0. reachable \in SUBSET States /\ a \in SUBSET States /\ r \cap a \in SUBSET States
  BY DEF Kept
<1>1. ASSUME NEW X \in SUBSET reachable
      PROVE  Closed(h, X) <=> \A s \in X : \A t \in After(s) \cap a : t \in X
  <2>1. Closed(h, X) <=> \A s \in X : \A t \in States : <<s, t>> \in next /\ t \in guard => t \in X
    BY DEF Closed, Post, Within
  <2>2. ASSUME NEW s \in X, NEW t
        PROVE  t \in States /\ <<s, t>> \in next /\ t \in guard <=> t \in After(s) \cap a
    BY <1>0, AfterIs DEF Kept, Closed, Post
  <2>. QED
    BY <2>1, <2>2
<1>2. /\ pq \in SUBSET States /\ r \cap a \subseteq pq /\ Closed(h, pq)
      /\ \A X \in SUBSET States : r \cap a \subseteq X /\ Closed(h, X) => pq \subseteq X
  BY <1>0, FixpointTyped, FixpointContains, FixpointClosed, FixpointLeast
<1>3. /\ g \in SUBSET States /\ g = LongerStep(a, g)
      /\ \A X \in SUBSET States : X \subseteq LongerStep(a, X) => X \subseteq g
  BY <1>0, GloballyIs
<1>f. FwdGStates(r, a, guard) = IF ~scc_ THEN deadlocks_ \cap a \cap pq
                                ELSE GreatestFixpoint(next, pq) \cup (deadlocks_ \cap pq)
  BY DEF FwdGStates
<1> HIDE DEF pq, g, h
<1>4. pq \in SUBSET a
  <2>1. a \in SUBSET reachable /\ \A s \in a : \A t \in After(s) \cap a : t \in a
    OBVIOUS
  <2>2. Closed(h, a)
    BY <2>1, <1>1
  <2>. QED
    BY <1>0, <1>2, <2>2
<1>5. deadlocks_ = {s \in reachable : After(s) = {}}
  BY DEF Kept
<1>6. ASSUME r \cap g # {}
      PROVE  FwdGStates(r, a, guard) # {}
  <2> DEFINE Y == pq \cap g
  <2>1. Y # {} /\ Y \in SUBSET reachable /\ Y \in SUBSET pq
    BY <1>2, <1>3, <1>4, <1>6 DEF LongerStep
  <2>2. ASSUME deadlocks_ \cap pq = {}, NEW s \in Y
        PROVE  After(s) \cap Y # {}
    <3>1. After(s) # {}
      BY <1>4, <1>5, <2>2
    <3>2. PICK t \in After(s) : t \in g
      BY <1>3, <3>1 DEF LongerStep
    <3>3. t \in a
      BY <1>3, <3>2 DEF LongerStep
    <3>4. pq \in SUBSET reachable
      BY <1>4
    <3>5. t \in pq
      BY <1>1, <1>2, <3>2, <3>3, <3>4
    <3>. QED
      BY <3>2, <3>5
  <2> HIDE DEF Y
  <2>3. ASSUME deadlocks_ \cap pq = {}
        PROVE  scc_ /\ GreatestFixpoint(next, pq) # {}
    <3>1. scc_
      BY <2>1, <2>2, <2>3, NoCycleNoFeed
    <3>2. Feeds(next, Y)
      BY <2>1, <2>2, <2>3, AfterIs DEF Feeds
    <3>3. PICK Z \in SUBSET Y : IsFed(next, Z)
      BY <1>0, <2>1, <3>2, FeedingIsFed
    <3>4. Z \subseteq Post(next, Z) /\ Z # {}
      BY <3>3, <2>1, <1>0 DEF IsFed, Post
    <3>5. Z \in SUBSET pq
      BY <2>1
    <3>. QED
      BY <3>1, <3>4, <3>5 DEF GreatestFixpoint
  <2>. QED
    BY <1>f, <1>4, <2>3
<1>7. ASSUME r \cap g = {}
      PROVE  FwdGStates(r, a, guard) = {}
  <2> DEFINE X == a \ g
  <2>1. X \in SUBSET reachable /\ r \cap a \subseteq X
    BY <1>7
  <2>2. \A s \in X : \A t \in After(s) \cap a : t \in X
    BY <1>3 DEF LongerStep
  <2> HIDE DEF X
  <2>3. pq \subseteq X
    BY <1>0, <1>1, <1>2, <2>1, <2>2
  <2>4. pq \cap g = {}
    BY <2>3 DEF X
  <2>5. deadlocks_ \cap pq = {}
    BY <1>3, <1>4, <1>5, <2>4 DEF LongerStep
  <2>6. ASSUME NEW Z \in SUBSET pq, Z \subseteq Post(next, Z)
        PROVE  Z = {}
    <3> SUFFICES ASSUME Z # {}
                 PROVE  FALSE
      OBVIOUS
    <3>1. IsFed(next, Z)
      BY <2>6 DEF IsFed, Post
    <3>2. PICK W \in SUBSET Z : Feeds(next, W)
      BY <1>0, <1>4, <3>1, FedFeeds
    <3>3. W \in SUBSET reachable /\ W \in SUBSET a /\ W \in SUBSET States
      BY <1>0, <1>4
    <3>4. W \subseteq LongerStep(a, W)
      BY <3>2, <3>3, AfterIs DEF LongerStep, Feeds
    <3>5. W \subseteq g
      BY <1>3, <3>3, <3>4
    <3>. QED
      BY <2>4, <3>2, <3>5 DEF Feeds
  <2>. QED
    BY <1>f, <2>5, <2>6 DEF GreatestFixpoint
<1>8. FwdGStates(r, a, guard) \in SUBSET reachable
  BY <1>f, <1>4 DEF GreatestFixpoint
<1>. QED
  BY <1>6, <1>7, <1>8 DEF g

(* A function on formulas that is defined from its values at the children. *)
LEMMA FormRecursion ==
  ASSUME FormsAreAll, NEW V, NEW v \in V,
         NEW B \in [[Forms -> V] -> [Forms -> V]],
         \A g, h \in [Forms -> V] : \A f \in Forms :
            (\A e \in Forms : HasChild(f, e) => g[e] = h[e]) => B[g][f] = B[h][f]
  PROVE  \E g \in [Forms -> V] : g = B[g]
<1>1. Height \in [Forms -> Nat]
  BY HeightTyped DEF IsHeight
<1>2. IsContractive(Forms, V, Height, B)
  <2> SUFFICES ASSUME NEW g \in [Forms -> V], NEW h \in [Forms -> V], NEW f \in Forms,
                      \A e \in Forms : Height[e] < Height[f] => g[e] = h[e]
               PROVE  B[g][f] = B[h][f]
    BY DEF IsContractive
  <2>1. \A e \in Forms : HasChild(f, e) => g[e] = h[e]
    BY DEF HasChild
  <2>. QED
    BY <2>1
<1>3. HasFixedPoint(Forms, V, B)
  BY <1>1, <1>2, RankedRecursion
<1>. QED
  BY <1>3 DEF HasFixedPoint

SubformulasOf(sub, f) ==
  {f} \cup (IF f[1] \in Leaves THEN {} ELSE sub[f[2]])
      \cup (IF f[1] \in Binary THEN sub[f[3]] ELSE {})

(* Subformulas is the function its equation defines.                       *)
LEMMA SubformulasUnfolds ==
  ASSUME FormsAreAll
  PROVE  /\ Subformulas \in [Forms -> SUBSET Forms]
         /\ \A f \in Forms : Subformulas[f] = SubformulasOf(Subformulas, f)
<1> DEFINE V == [Forms -> SUBSET Forms]
           B == [g \in V |-> [f \in Forms |-> SubformulasOf(g, f)]]
<1>1. {} \in SUBSET Forms
  BY FormsClosed
<1>2. ASSUME NEW f \in Forms
      PROVE  /\ f[1] \notin Leaves => HasChild(f, f[2])
             /\ f[1] \in Binary => HasChild(f, f[3])
  BY Children
<1>3. ASSUME NEW g, NEW f \in Forms, \A e \in Forms : HasChild(f, e) => g[e] \in SUBSET Forms
      PROVE  SubformulasOf(g, f) \in SUBSET Forms
  <2>1. /\ f[1] \notin Leaves => f[2] \in Forms /\ g[f[2]] \in SUBSET Forms
        /\ f[1] \in Binary => f[3] \in Forms /\ g[f[3]] \in SUBSET Forms
    BY <1>2, <1>3 DEF HasChild
  <2>. QED
    BY <2>1 DEF SubformulasOf, Leaves, Binary
<1>4. B \in [V -> V]
  BY <1>3
<1>5. ASSUME NEW g \in V, NEW h \in V, NEW f \in Forms,
             \A e \in Forms : HasChild(f, e) => g[e] = h[e]
      PROVE  B[g][f] = B[h][f]
  <2>1. /\ f[1] \notin Leaves => g[f[2]] = h[f[2]]
        /\ f[1] \in Binary => g[f[3]] = h[f[3]]
    BY <1>2, <1>5 DEF HasChild
  <2>2. SubformulasOf(g, f) = SubformulasOf(h, f)
    BY <2>1 DEF SubformulasOf, Leaves, Binary
  <2>. QED
    BY <2>2
<1>6. PICK r \in V : r = B[r]
  <2> HIDE DEF B
  <2>. QED
    BY <1>1, <1>4, <1>5, FormRecursion
<1>7. r = [f \in Forms |-> SubformulasOf(r, f)]
  BY <1>6
<1>8. \E s : s = [f \in Forms |-> SubformulasOf(s, f)]
  BY <1>7
<1>9. Subformulas = [f \in Forms |-> SubformulasOf(Subformulas, f)]
  BY <1>8, Zenon DEF Subformulas, SubformulasOf
<1> DEFINE T == {f \in Forms : Subformulas[f] \in SUBSET Forms}
<1>10. ASSUME NEW f \in Forms, \A e \in Forms : HasChild(f, e) => e \in T
       PROVE  f \in T
  <2>1. SubformulasOf(Subformulas, f) \in SUBSET Forms
    BY <1>3, <1>10
  <2>. QED
    BY <1>9, <2>1
<1>11. T = Forms
  <2>1. T \in SUBSET Forms
    OBVIOUS
  <2> HIDE DEF T
  <2>. QED
    BY <1>10, <2>1, FormInduction
<1>. QED
  BY <1>9, <1>11

ExistentialOf(ex, f) ==
  LET g == ex[f[2]]
      h == ex[f[3]]
  IN  CASE f[1] = "EF" -> EU(True, g)
        [] f[1] = "AX" -> Not(EX(Not(g)))
        [] f[1] = "AG" -> Not(EU(True, Not(g)))
        [] f[1] = "AF" -> Not(EG(Not(g)))
        [] f[1] = "AU" -> Not(NotUntil(g, h))
        [] f[1] \in {"NOT", "EX", "EG"} -> <<f[1], g>>
        [] f[1] \in {"AND", "OR", "THEN", "EU"} -> <<f[1], g, h>>
        [] OTHER -> f

(* Existential is the function its equation defines.                       *)
LEMMA ExistentialUnfolds ==
  ASSUME FormsAreAll
  PROVE  /\ Existential \in [Forms -> Forms]
         /\ \A f \in Forms : Existential[f] = ExistentialOf(Existential, f)
<1> DEFINE V == [Forms -> Forms]
           B == [g \in V |-> [f \in Forms |-> ExistentialOf(g, f)]]
<1>1. True \in Forms
  BY FormsClosed
<1>2. ASSUME NEW f \in Forms
      PROVE  /\ f[1] \notin Leaves => HasChild(f, f[2])
             /\ f[1] \in Binary => HasChild(f, f[3])
  BY Children
<1>3. ASSUME NEW g, NEW f \in Forms, \A e \in Forms : HasChild(f, e) => g[e] \in Forms
      PROVE  ExistentialOf(g, f) \in Forms
  <2>1. /\ f[1] \notin Leaves => f[2] \in Forms /\ g[f[2]] \in Forms
        /\ f[1] \in Binary => f[3] \in Forms /\ g[f[3]] \in Forms
    BY <1>2, <1>3 DEF HasChild
  <2>. QED
    BY <2>1, FormsClosed DEF ExistentialOf, Leaves, Binary, NotUntil, Not, EX, EG, And, Or, Then, EU
<1>4. B \in [V -> V]
  BY <1>3
<1>5. ASSUME NEW g \in V, NEW h \in V, NEW f \in Forms,
             \A e \in Forms : HasChild(f, e) => g[e] = h[e]
      PROVE  B[g][f] = B[h][f]
  <2>1. /\ f[1] \notin Leaves => g[f[2]] = h[f[2]]
        /\ f[1] \in Binary => g[f[3]] = h[f[3]]
    BY <1>2, <1>5 DEF HasChild
  <2>2. ExistentialOf(g, f) = ExistentialOf(h, f)
    BY <2>1 DEF ExistentialOf, Leaves, Binary
  <2>. QED
    BY <2>2
<1>6. PICK r \in V : r = B[r]
  <2> HIDE DEF B
  <2>. QED
    BY <1>1, <1>4, <1>5, FormRecursion
<1>7. r = [f \in Forms |-> ExistentialOf(r, f)]
  BY <1>6
<1>8. \E s : s = [f \in Forms |-> ExistentialOf(s, f)]
  BY <1>7
<1>9. Existential = [f \in Forms |-> ExistentialOf(Existential, f)]
  BY <1>8, Zenon DEF Existential, ExistentialOf
<1> DEFINE T == {f \in Forms : Existential[f] \in Forms}
<1>10. ASSUME NEW f \in Forms, \A e \in Forms : HasChild(f, e) => e \in T
       PROVE  f \in T
  <2>1. ExistentialOf(Existential, f) \in Forms
    BY <1>3, <1>10
  <2>. QED
    BY <1>9, <2>1
<1>11. T = Forms
  <2>1. T \in SUBSET Forms
    OBVIOUS
  <2> HIDE DEF T
  <2>. QED
    BY <1>10, <2>1, FormInduction
<1>. QED
  BY <1>9, <1>11

SelectedOf(sel, f) ==
  CASE f[1] = "ID"    -> Label[f[2]]
    [] f[1] = "FALSE" -> {}
    [] f[1] = "NOT"   -> States \ sel[f[2]]
    [] f[1] = "AND"   -> sel[f[2]] \cap sel[f[3]]
    [] f[1] = "OR"    -> sel[f[2]] \cup sel[f[3]]
    [] f[1] = "THEN"  -> (States \ sel[f[2]]) \cup sel[f[3]]
    [] OTHER          -> States

(* Selected is the function its equation defines.                          *)
LEMMA SelectedUnfolds ==
  ASSUME FormsAreAll
  PROVE  /\ Selected \in [Forms -> SUBSET States]
         /\ \A f \in Forms : Selected[f] = SelectedOf(Selected, f)
<1> DEFINE V == [Forms -> SUBSET States]
           B == [g \in V |-> [f \in Forms |-> SelectedOf(g, f)]]
<1>1. {} \in SUBSET States
  BY FormsClosed
<1>2. ASSUME NEW f \in Forms
      PROVE  /\ f[1] \notin Leaves => HasChild(f, f[2])
             /\ f[1] \in Binary => HasChild(f, f[3])
  BY Children
<1>3. ASSUME NEW g, NEW f \in Forms, \A e \in Forms : HasChild(f, e) => g[e] \in SUBSET States
      PROVE  SelectedOf(g, f) \in SUBSET States
  <2>1. /\ f[1] \notin Leaves => f[2] \in Forms /\ g[f[2]] \in SUBSET States
        /\ f[1] \in Binary => f[3] \in Forms /\ g[f[3]] \in SUBSET States
    BY <1>2, <1>3 DEF HasChild
  <2>. QED
    BY <2>1, Children, LabelsAreTyped DEF SelectedOf, Leaves, Binary
<1>4. B \in [V -> V]
  BY <1>3
<1>5. ASSUME NEW g \in V, NEW h \in V, NEW f \in Forms,
             \A e \in Forms : HasChild(f, e) => g[e] = h[e]
      PROVE  B[g][f] = B[h][f]
  <2>1. /\ f[1] \notin Leaves => g[f[2]] = h[f[2]]
        /\ f[1] \in Binary => g[f[3]] = h[f[3]]
    BY <1>2, <1>5 DEF HasChild
  <2>2. SelectedOf(g, f) = SelectedOf(h, f)
    BY <2>1 DEF SelectedOf, Leaves, Binary
  <2>. QED
    BY <2>2
<1>6. PICK r \in V : r = B[r]
  <2> HIDE DEF B
  <2>. QED
    BY <1>1, <1>4, <1>5, FormRecursion
<1>7. r = [f \in Forms |-> SelectedOf(r, f)]
  BY <1>6
<1>8. \E s : s = [f \in Forms |-> SelectedOf(s, f)]
  BY <1>7
<1>9. Selected = [f \in Forms |-> SelectedOf(Selected, f)]
  BY <1>8 DEF Selected, SelectedOf
<1> DEFINE T == {f \in Forms : Selected[f] \in SUBSET States}
<1>10. ASSUME NEW f \in Forms, \A e \in Forms : HasChild(f, e) => e \in T
       PROVE  f \in T
  <2>1. SelectedOf(Selected, f) \in SUBSET States
    BY <1>3, <1>10
  <2>. QED
    BY <1>9, <2>1
<1>11. T = Forms
  <2>1. T \in SUBSET Forms
    OBVIOUS
  <2> HIDE DEF T
  <2>. QED
    BY <1>10, <2>1, FormInduction
<1>. QED
  BY <1>9, <1>11

(* The temporal operators give sets of reachable states.                   *)
LEMMA TemporalTyped ==
  ASSUME reachable \in SUBSET States, NEW a \in SUBSET reachable, NEW b \in SUBSET reachable
  PROVE  /\ Until(a, b) \in SUBSET reachable /\ AlwaysUntil(a, b) \in SUBSET reachable
         /\ Globally(a) \in SUBSET reachable
<1>1. a \in SUBSET States /\ b \in SUBSET States
  OBVIOUS
<1>2. Until(a, b) = UntilStep(a, b, Until(a, b))
  BY <1>1, UntilIs
<1>3. AlwaysUntil(a, b) = SureStep(a, b, AlwaysUntil(a, b))
  BY <1>1, AlwaysUntilIs
<1>4. Globally(a) = LongerStep(a, Globally(a))
  BY <1>1, GloballyIs
<1>5. \A X : UntilStep(a, b, X) \in SUBSET reachable /\ SureStep(a, b, X) \in SUBSET reachable
  BY DEF UntilStep, SureStep
<1>6. \A X : LongerStep(a, X) \in SUBSET reachable
  BY DEF LongerStep
<1>. QED
  BY <1>2, <1>3, <1>4, <1>5, <1>6

SatOf(sat, f) ==
  LET g == sat[f[2]]
      h == sat[f[3]]
  IN  CASE f[1] = "ID"    -> Label[f[2]] \cap reachable
        [] f[1] = "FALSE" -> {}
        [] f[1] = "NOT"   -> reachable \ g
        [] f[1] = "AND"   -> g \cap h
        [] f[1] = "OR"    -> g \cup h
        [] f[1] = "THEN"  -> (reachable \ g) \cup h
        [] f[1] = "EX"    -> {s \in reachable : After(s) \cap g # {}}
        [] f[1] = "AX"    -> {s \in reachable : After(s) \subseteq g}
        [] f[1] = "EF"    -> Until(reachable, g)
        [] f[1] = "AG"    -> reachable \ Until(reachable, reachable \ g)
        [] f[1] = "EG"    -> Globally(g)
        [] f[1] = "AF"    -> AlwaysUntil(reachable, g)
        [] f[1] = "EU"    -> Until(g, h)
        [] f[1] = "AU"    -> AlwaysUntil(g, h)
        [] OTHER          -> reachable

(* Sat, the reference semantics, is the function its equation defines.     *)
LEMMA SatUnfolds ==
  ASSUME FormsAreAll, Kept
  PROVE  /\ Sat \in [Forms -> SUBSET reachable]
         /\ \A f \in Forms : Sat[f] = SatOf(Sat, f)
<1> DEFINE V == [Forms -> SUBSET reachable]
           B == [g \in V |-> [f \in Forms |-> SatOf(g, f)]]
<1>1. {} \in SUBSET reachable
  BY FormsClosed
<1>2. ASSUME NEW f \in Forms
      PROVE  /\ f[1] \notin Leaves => HasChild(f, f[2])
             /\ f[1] \in Binary => HasChild(f, f[3])
  BY Children
<1>3. ASSUME NEW g, NEW f \in Forms, \A e \in Forms : HasChild(f, e) => g[e] \in SUBSET reachable
      PROVE  SatOf(g, f) \in SUBSET reachable
  <2>1. /\ f[1] \notin Leaves => f[2] \in Forms /\ g[f[2]] \in SUBSET reachable
        /\ f[1] \in Binary => f[3] \in Forms /\ g[f[3]] \in SUBSET reachable
    BY <1>2, <1>3 DEF HasChild
  <2>2. reachable \in SUBSET States /\ reachable \ g[f[2]] \in SUBSET reachable
    BY DEF Kept
  <2>3. f[1] \notin Leaves =>
          /\ Until(reachable, g[f[2]]) \in SUBSET reachable
          /\ Until(reachable, reachable \ g[f[2]]) \in SUBSET reachable
          /\ Globally(g[f[2]]) \in SUBSET reachable
          /\ AlwaysUntil(reachable, g[f[2]]) \in SUBSET reachable
    BY <2>1, <2>2, TemporalTyped
  <2>4. f[1] \in Binary =>
          /\ Until(g[f[2]], g[f[3]]) \in SUBSET reachable
          /\ AlwaysUntil(g[f[2]], g[f[3]]) \in SUBSET reachable
    <3>1. f[1] \in Binary => f[1] \notin Leaves
      BY DEF Binary, Leaves
    <3>. QED
      BY <2>1, <2>2, <3>1, TemporalTyped
  <2>. QED
    BY <2>1, <2>3, <2>4 DEF SatOf, Leaves, Binary
<1>4. B \in [V -> V]
  BY <1>3
<1>5. ASSUME NEW g \in V, NEW h \in V, NEW f \in Forms,
             \A e \in Forms : HasChild(f, e) => g[e] = h[e]
      PROVE  B[g][f] = B[h][f]
  <2>1. /\ f[1] \notin Leaves => g[f[2]] = h[f[2]]
        /\ f[1] \in Binary => g[f[3]] = h[f[3]]
    BY <1>2, <1>5 DEF HasChild
  <2>2. SatOf(g, f) = SatOf(h, f)
    BY <2>1 DEF SatOf, Leaves, Binary
  <2>. QED
    BY <2>2
<1>6. PICK r \in V : r = B[r]
  <2> HIDE DEF B
  <2>. QED
    BY <1>1, <1>4, <1>5, FormRecursion
<1>7. r = [f \in Forms |-> SatOf(r, f)]
  BY <1>6
<1>8. \E s : s = [f \in Forms |-> SatOf(s, f)]
  BY <1>7
<1>9. Sat = [f \in Forms |-> SatOf(Sat, f)]
  BY <1>8, Zenon DEF Sat, SatOf
<1> DEFINE T == {f \in Forms : Sat[f] \in SUBSET reachable}
<1>10. ASSUME NEW f \in Forms, \A e \in Forms : HasChild(f, e) => e \in T
       PROVE  f \in T
  <2>1. SatOf(Sat, f) \in SUBSET reachable
    BY <1>3, <1>10
  <2>. QED
    BY <1>9, <2>1
<1>11. T = Forms
  <2>1. T \in SUBSET Forms
    OBVIOUS
  <2> HIDE DEF T
  <2>. QED
    BY <1>10, <2>1, FormInduction
<1>. QED
  BY <1>9, <1>11

VerifyOf(verify, call) ==
  LET f == call[1]
      exact == call[2]
      left == ChildStates(verify, f[2])
      right == ChildStates(verify, f[3])
  IN  CASE f[1] = "INIT" -> InitialState
        [] f[1] = "NOT"  -> IF f[2][1] = "NOT" THEN verify[<<f[2][2], exact>>]
                            ELSE reachable \ left
        [] f[1] = "AND"  -> AndStates(f, left, verify[<<f[3], TRUE>>])
        [] f[1] = "OR"   -> IF exact THEN left \cup right
                            ELSE SomeOr(f, Some(verify, f[2]), Some(verify, f[3]))
        [] f[1] = "THEN" -> (reachable \ left) \cup right
        [] f[1] = "CMP"  -> CmpStates(f, verify[<<f[2], FALSE>>])
        [] f[1] = "EX"   -> Post(predRel_, left)
        [] f[1] = "EY"   -> Post(next, left)
        [] f[1] = "EU"   -> IF exact THEN EUStates(Guard(f[2], left), right)
                            ELSE Some(verify, f[3])
        [] f[1] = "EG"   -> IF exact THEN EGStates(Guard(f[2], left), left) ELSE SomeEG(left)
        [] f[1] = "FWDU" -> IF f[2] = Start /\ f[3] = True THEN reachable
                            ELSE FwdUStates(left, Guard(f[3], right))
        [] f[1] = "FWDG" -> FwdGStates(left, right, Guard(f[3], right))
        [] OTHER         -> Selected[f] \cap reachable

Found == SUBSET (States \cup One)

(* Verify is the function that getStateVerifying computes.                 *)
LEMMA VerifyUnfolds ==
  ASSUME FormsAreAll, Kept
  PROVE  \A call \in Forms \X BOOLEAN : Verify[call] = VerifyOf(Verify, call)
<1> DEFINE D == Forms \X BOOLEAN
           V == [D -> Found]
           rank == [call \in D |-> Height[call[1]]]
           B == [g \in V |-> [call \in D |-> VerifyOf(g, call)]]
<1>1. rank \in [D -> Nat]
  BY HeightTyped DEF IsHeight
<1>2. ASSUME NEW f \in Forms
      PROVE  /\ f[1] \notin Leaves => HasChild(f, f[2])
             /\ f[1] \in Binary => HasChild(f, f[3])
             /\ f[1] = "NOT" /\ f[2][1] = "NOT" => HasChild(f, f[2][2])
  <2>1. /\ f[1] \notin Leaves => HasChild(f, f[2])
        /\ f[1] \in Binary => HasChild(f, f[3])
    BY Children
  <2>2. ASSUME f[1] = "NOT", f[2][1] = "NOT"
        PROVE  HasChild(f, f[2][2])
    <3>1. HasChild(f, f[2])
      BY <2>1, <2>2 DEF Leaves
    <3>2. f[2] \in Forms
      BY <3>1 DEF HasChild
    <3>3. HasChild(f[2], f[2][2])
      BY <2>2, <3>2, Children DEF Unary
    <3>4. Height[f] \in Nat
      BY HeightTyped DEF IsHeight
    <3>. QED
      BY <3>1, <3>3, <3>4 DEF HasChild
  <2>. QED
    BY <2>1, <2>2
<1>3. B \in [V -> V]
  <2>0. reachable \in SUBSET States /\ InitialState \in SUBSET States /\ deadlocks_ \in SUBSET States
    BY DEF Kept
  <2>1. ASSUME NEW g \in V, NEW call \in D
        PROVE  VerifyOf(g, call) \in Found
    <3>1. PICK f \in Forms, exact \in BOOLEAN : call = <<f, exact>>
      OBVIOUS
    <3>2. /\ f[1] \notin Leaves => f[2] \in Forms
          /\ f[1] \in Binary => f[3] \in Forms
          /\ f[1] = "NOT" /\ f[2][1] = "NOT" => f[2][2] \in Forms
      BY <1>2 DEF HasChild
    <3>3. ASSUME NEW e \in Forms
          PROVE  /\ ChildStates(g, e) \in Found /\ Some(g, e) \in Found
                 /\ \A b \in BOOLEAN : g[<<e, b>>] \in Found
      BY <2>0 DEF ChildStates, Some, Found
    <3>4. \A b : Truth(b) \in Found
      BY DEF Truth, Found
    <3>5. \A h, S : Post(h, S) \in Found /\ Fixpoint(h, S) \in Found
      BY FixpointTyped DEF Post, Found
    <3>6. \A h : \A S \in Found : GreatestFixpoint(h, S) \in Found
      BY DEF GreatestFixpoint, Found
    <3>7. \A X, Y \in Found : X \cup Y \in Found /\ X \cap Y \in Found
      BY DEF Found
    <3>8. {} \in Found /\ reachable \in Found /\ InitialState \in Found /\ deadlocks_ \in Found
      BY <2>0 DEF Found
    <3>9. \A X : reachable \ X \in Found /\ X \cap reachable \in Found
      BY <2>0 DEF Found
    <3> HIDE DEF Found, V, D
    <3>10. CASE f[1] \in {"INIT", "NOT", "OR", "THEN", "EX", "EY"}
      BY <3>1, <3>2, <3>3, <3>4, <3>5, <3>7, <3>8, <3>9, <3>10
         DEF VerifyOf, Leaves, Binary, SomeOr
    <3>11. CASE f[1] \in {"AND", "CMP"}
      <4>1. \A X, Y \in Found : AndStates(f, X, Y) \in Found
        <5>1. \A X : X \cap InitialState \in Found
          BY <2>0 DEF Found
        <5>. QED
          BY <5>1, <3>7, <3>8 DEF AndStates
      <4>2. \A X : CmpStates(f, X) \in Found
        BY <3>4 DEF CmpStates
      <4>. QED
        BY <4>1, <4>2, <3>1, <3>2, <3>3, <3>11 DEF VerifyOf, Leaves, Binary
    <3>12. CASE f[1] \in {"EU", "EG"}
      BY <3>1, <3>2, <3>3, <3>5, <3>6, <3>7, <3>8, <3>12
         DEF VerifyOf, Leaves, Binary, EUStates, EGStates, SomeEG
    <3>13. CASE f[1] \in {"FWDU", "FWDG"}
      BY <3>1, <3>2, <3>3, <3>5, <3>6, <3>7, <3>8, <3>13
         DEF VerifyOf, Leaves, Binary, FwdUStates, FwdGStates
    <3>14. CASE f[1] \notin {"INIT", "NOT", "OR", "THEN", "EX", "EY", "AND", "CMP", "EU", "EG",
                             "FWDU", "FWDG"}
      BY <3>1, <3>9, <3>14 DEF VerifyOf
    <3>. QED
      BY <3>10, <3>11, <3>12, <3>13, <3>14
  <2>. QED
    BY <2>1
<1>b. \A g \in V : \A call \in D : B[g][call] = VerifyOf(g, call)
  OBVIOUS
<1>4. ASSUME NEW g \in V, NEW h \in V, NEW call \in D,
             \A e \in D : rank[e] < rank[call] => g[e] = h[e]
      PROVE  B[g][call] = B[h][call]
  <2>0. PICK f \in Forms, exact \in BOOLEAN : call = <<f, exact>>
    OBVIOUS
  <2>1. ASSUME NEW e \in Forms, HasChild(f, e)
        PROVE  /\ ChildStates(g, e) = ChildStates(h, e) /\ Some(g, e) = Some(h, e)
               /\ \A b \in BOOLEAN : g[<<e, b>>] = h[<<e, b>>]
    <3>1. \A b \in BOOLEAN : g[<<e, b>>] = h[<<e, b>>]
      BY <1>4, <2>0, <2>1 DEF HasChild
    <3>. QED
      BY <3>1 DEF ChildStates, Some
  <2>2. f[1] \notin Leaves => f[2] \in Forms /\ ChildStates(g, f[2]) = ChildStates(h, f[2])
          /\ Some(g, f[2]) = Some(h, f[2]) /\ g[<<f[2], FALSE>>] = h[<<f[2], FALSE>>]
    BY <2>1, <1>2 DEF HasChild
  <2>3. f[1] \in Binary => f[3] \in Forms /\ ChildStates(g, f[3]) = ChildStates(h, f[3])
          /\ Some(g, f[3]) = Some(h, f[3]) /\ g[<<f[3], TRUE>>] = h[<<f[3], TRUE>>]
    BY <2>1, <1>2 DEF HasChild
  <2>4. f[1] = "NOT" /\ f[2][1] = "NOT" => g[<<f[2][2], exact>>] = h[<<f[2][2], exact>>]
    BY <2>1, <1>2 DEF HasChild
  <2>5. B[g][call] = VerifyOf(g, call) /\ B[h][call] = VerifyOf(h, call)
    BY <1>b
  <2> HIDE DEF V, D, rank, B
  <2>6. VerifyOf(g, call) = VerifyOf(h, call)
    BY <2>0, <2>2, <2>3, <2>4 DEF VerifyOf, Leaves, Binary
  <2>. QED
    BY <2>5, <2>6
<1>5. {} \in Found
  BY DEF Found
<1>a. HasFixedPoint(D, Found, B)
  <2> HIDE DEF B, D, rank
  <2>1. IsContractive(D, Found, rank, B)
    BY <1>4 DEF IsContractive
  <2>. QED
    BY <1>1, <1>3, <2>1, <1>5, RankedRecursion
<1>6. PICK r \in V : r = B[r]
  BY <1>a DEF HasFixedPoint
<1>7. r = [call \in D |-> VerifyOf(r, call)]
  BY <1>6
<1>8. \E s : s = [call \in D |-> VerifyOf(s, call)]
  BY <1>7
<1>9. Verify = [call \in D |-> VerifyOf(Verify, call)]
  BY <1>8 DEF Verify, VerifyOf
<1>. QED
  BY <1>9

ForwardOf(fwd, call) ==
  LET r == call[1]
      f == call[2]
      c == call[3]
  IN  IF QuantifierFree[f] THEN Cmp(And(r, f), c)
      ELSE CASE f[1] = "EX" -> fwd[<<(<<"EY", r>>), f[2], c>>]
             [] f[1] = "EU" -> fwd[<<(<<"FWDU", r, f[2]>>), f[3], c>>]
             [] f[1] = "EG" -> Cmp(<<"FWDG", r, f[2]>>, c)
             [] f[1] = "NOT" -> ForwardNegation(fwd, r, f[2], c)
             [] OTHER -> ForwardConnective(fwd, r, f, c)

(* How far a formula is from being converted: the negation of a child      *)
(* comes before the formula.                                               *)
Effort(f) == IF f[1] = "NOT" THEN 2 * Height[f[2]] ELSE 2 * Height[f] + 1

(* The conversion to the forward form goes on with formulas that are       *)
(* smaller, or that lose a negation that was pushed inside.                *)
LEMMA EffortIs ==
  ASSUME FormsAreAll, NEW f \in Forms
  PROVE  /\ Effort(f) \in Nat /\ Effort(f) <= 2 * Height[f] + 1 /\ Height[f] \in Nat
         /\ Not(f) \in Forms /\ Effort(Not(f)) = 2 * Height[f]
<1>1. \A g \in Forms : Height[g] \in Nat
  BY HeightTyped DEF IsHeight
<1>2. f[1] = "NOT" => f[2] \in Forms /\ Height[f[2]] < Height[f]
  BY Children DEF Unary, HasChild
<1>3. Not(f) \in Forms /\ Not(f)[1] = "NOT" /\ Not(f)[2] = f
  BY FormsClosed DEF Not
<1>. QED
  BY <1>1, <1>2, <1>3 DEF Effort

(* Each call of the conversion is for a formula that is nearer.            *)
Nearer(g, f) == g \in Forms /\ Effort(g) < Effort(f)

(* What the forward form of a formula asks for is nearer to the end.       *)
LEMMA ForwardCalls ==
  ASSUME FormsAreAll, NEW f \in Forms
  PROVE  /\ f[1] \in {"EX", "EG"} => f[2] \in Forms
         /\ f[1] = "EX" => Nearer(f[2], f)
         /\ f[1] \in {"EU", "AND", "OR", "THEN"} =>
               /\ f[2] \in Forms /\ f[3] \in Forms /\ Nearer(f[2], f) /\ Nearer(f[3], f)
               /\ Nearer(Not(f[2]), f)
         /\ f[1] = "NOT" =>
               /\ f[2] \in Forms /\ Not(f[2]) \in Forms
               /\ f[2][1] = "NOT" => Nearer(f[2][2], f)
               /\ f[2][1] \in {"AND", "OR", "THEN"} =>
                     /\ f[2][2] \in Forms /\ f[2][3] \in Forms
                     /\ Nearer(f[2][2], f) /\ Nearer(Not(f[2][2]), f) /\ Nearer(Not(f[2][3]), f)
<1>1. \A g \in Forms : Height[g] \in Nat
  BY HeightTyped DEF IsHeight
<1>2. ASSUME NEW g \in Forms, NEW n \in Nat, Height[g] < n
      PROVE  /\ Effort(g) < 2 * n /\ Effort(g) < 2 * n + 1
             /\ Effort(Not(g)) < 2 * n /\ Effort(Not(g)) < 2 * n + 1
             /\ g \in Forms /\ Not(g) \in Forms
  BY <1>2, EffortIs
<1>3. ASSUME NEW g \in Forms
      PROVE  /\ g[1] \in Unary \cup Binary => g[2] \in Forms /\ Height[g[2]] < Height[g]
             /\ g[1] \in Binary => g[3] \in Forms /\ Height[g[3]] < Height[g]
  BY Children DEF HasChild
<1>4. CASE f[1] \in {"EX", "EG"}
  <2>1. f[2] \in Forms /\ Height[f[2]] < Height[f]
    BY <1>3, <1>4 DEF Unary
  <2>2. Effort(f) = 2 * Height[f] + 1
    BY <1>4 DEF Effort
  <2>. QED
    BY <1>1, <1>2, <1>4, <2>1, <2>2 DEF Nearer
<1>5. CASE f[1] \in {"EU", "AND", "OR", "THEN"}
  <2>1. f[2] \in Forms /\ Height[f[2]] < Height[f] /\ f[3] \in Forms /\ Height[f[3]] < Height[f]
    BY <1>3, <1>5 DEF Binary
  <2>2. Effort(f) = 2 * Height[f] + 1
    BY <1>5 DEF Effort
  <2>3. Nearer(f[2], f) /\ Nearer(f[3], f) /\ Nearer(Not(f[2]), f)
    BY <1>1, <1>2, <2>1, <2>2 DEF Nearer
  <2>. QED
    BY <1>5, <2>1, <2>3
<1>6. CASE f[1] = "NOT"
  <2>1. f[2] \in Forms /\ Not(f[2]) \in Forms
    BY <1>3, <1>6, FormsClosed DEF Unary
  <2>2. Effort(f) = 2 * Height[f[2]] /\ Height[f[2]] \in Nat
    BY <1>1, <1>6, <2>1 DEF Effort
  <2>3. ASSUME f[2][1] = "NOT"
        PROVE  Nearer(f[2][2], f)
    <3>1. f[2][2] \in Forms /\ Height[f[2][2]] < Height[f[2]]
      BY <1>3, <2>1, <2>3 DEF Unary
    <3>. QED
      BY <1>2, <2>2, <3>1 DEF Nearer
  <2>4. ASSUME f[2][1] \in {"AND", "OR", "THEN"}
        PROVE  /\ f[2][2] \in Forms /\ f[2][3] \in Forms
               /\ Nearer(f[2][2], f) /\ Nearer(Not(f[2][2]), f) /\ Nearer(Not(f[2][3]), f)
    <3>1. /\ f[2][2] \in Forms /\ Height[f[2][2]] < Height[f[2]]
          /\ f[2][3] \in Forms /\ Height[f[2][3]] < Height[f[2]]
      BY <1>3, <2>1, <2>4 DEF Binary
    <3>. QED
      BY <1>2, <2>2, <3>1 DEF Nearer
  <2>. QED
    BY <1>6, <2>1, <2>3, <2>4
<1>7. CASE f[1] \notin {"EX", "EG", "EU", "AND", "OR", "THEN", "NOT"}
  BY <1>7
<1>. QED
  BY <1>4, <1>5, <1>6, <1>7

(* Forward is the function its equation defines.                           *)
LEMMA ForwardUnfolds ==
  ASSUME FormsAreAll
  PROVE  \A call \in Forms \X Forms \X {0, 1} : Forward[call] = ForwardOf(Forward, call)
<1> DEFINE D == Forms \X Forms \X {0, 1}
           V == [D -> Forms]
           rank == [call \in D |-> Effort(call[2])]
           B == [g \in V |-> [call \in D |-> ForwardOf(g, call)]]
<1>1. rank \in [D -> Nat]
  BY EffortIs
<1>2. B \in [V -> V]
  <2>1. ASSUME NEW g \in V, NEW call \in D
        PROVE  ForwardOf(g, call) \in Forms
    <3>1. PICK r \in Forms, f \in Forms, c \in {0, 1} : call = <<r, f, c>>
      OBVIOUS
    <3>2. \A r1, f1 \in Forms : g[<<r1, f1, c>>] \in Forms
      OBVIOUS
    <3>3. \A f1, f2 \in Forms : /\ And(f1, f2) \in Forms /\ Either(f1, f2, c) \in Forms
                                /\ Not(f1) \in Forms /\ Cmp(f1, c) \in Forms
                                /\ <<"EY", f1>> \in Forms
                                /\ <<"FWDU", f1, f2>> \in Forms /\ <<"FWDG", f1, f2>> \in Forms
      BY FormsClosed DEF Either
    <3>4. \A f1, f2, f3 \in Forms :
            LastOfNor(f1, f2) \in Forms /\ LastConjunct(f1, f2) \in Forms /\ Other(f1, f2, f3) \in Forms
      BY DEF LastOfNor, LastConjunct, Other
    <3> HIDE DEF V, D
    <3>5. CASE f[1] \in {"EX", "EG", "EU"}
      BY <3>1, <3>2, <3>3, <3>5, ForwardCalls DEF ForwardOf
    <3>6. CASE f[1] = "NOT"
      <4>1. f[2] \in Forms /\ f[2][1] = "NOT" => f[2][2] \in Forms
        BY <3>6, ForwardCalls DEF Nearer
      <4>2. f[2][1] \in {"AND", "OR", "THEN"} => f[2][2] \in Forms /\ f[2][3] \in Forms
        BY <3>6, ForwardCalls
      <4>3. f[2] \in Forms
        BY <3>6, ForwardCalls
      <4>4. ForwardNegation(g, r, f[2], c) \in Forms
        BY <3>1, <3>2, <3>3, <3>4, <4>1, <4>2, <4>3 DEF ForwardNegation
      <4>. QED
        BY <3>1, <3>3, <3>6, <4>4 DEF ForwardOf
    <3>7. CASE f[1] \notin {"EX", "EG", "EU", "NOT"}
      <4>1. f[1] \in {"AND", "OR", "THEN"} => f[2] \in Forms /\ f[3] \in Forms
        BY ForwardCalls
      <4>2. ForwardConnective(g, r, f, c) \in Forms
        BY <3>1, <3>2, <3>3, <3>4, <4>1 DEF ForwardConnective
      <4>. QED
        BY <3>1, <3>3, <3>7, <4>2 DEF ForwardOf
    <3>. QED
      BY <3>5, <3>6, <3>7
  <2>. QED
    BY <2>1
<1>3. \A g \in V : \A call \in D : B[g][call] = ForwardOf(g, call)
  OBVIOUS
<1>4. ASSUME NEW g \in V, NEW h \in V, NEW call \in D,
             \A e \in D : rank[e] < rank[call] => g[e] = h[e]
      PROVE  B[g][call] = B[h][call]
  <2>1. PICK r \in Forms, f \in Forms, c \in {0, 1} : call = <<r, f, c>>
    OBVIOUS
  <2>2. \A r1, f1 \in Forms : Nearer(f1, f) => g[<<r1, f1, c>>] = h[<<r1, f1, c>>]
    <3> SUFFICES ASSUME NEW r1 \in Forms, NEW f1 \in Forms, Nearer(f1, f)
                 PROVE  g[<<r1, f1, c>>] = h[<<r1, f1, c>>]
      OBVIOUS
    <3>1. <<r1, f1, c>> \in D /\ rank[<<r1, f1, c>>] = Effort(f1) /\ rank[call] = Effort(f)
      BY <2>1
    <3>. QED
      BY <1>4, <3>1 DEF Nearer
  <2>3. B[g][call] = ForwardOf(g, call) /\ B[h][call] = ForwardOf(h, call)
    BY <1>3
  <2>4. \A f1, f2 \in Forms : /\ And(f1, f2) \in Forms /\ Not(f1) \in Forms
                              /\ <<"EY", f1>> \in Forms /\ <<"FWDU", f1, f2>> \in Forms
    BY FormsClosed
  <2>5. \A f1, f2, f3 \in Forms : Other(f1, f2, f3) \in Forms
    BY DEF Other
  <2>6. \A f1, f2 : LastOfNor(f1, f2) \in {f1, f2} /\ LastConjunct(f1, f2) \in {f1, f2}
    BY DEF LastOfNor, LastConjunct
  <2> HIDE DEF V, D, B, rank
  <2>7. CASE f[1] \in {"EX", "EG", "EU"}
    <3>1. ForwardOf(g, call) = ForwardOf(h, call)
      BY <2>1, <2>2, <2>4, <2>7, ForwardCalls DEF ForwardOf
    <3>. QED
      BY <2>3, <3>1
  <2>8. CASE f[1] = "NOT"
    <3>1. f[2] \in Forms /\ (f[2][1] = "NOT" => f[2][2] \in Forms /\ Nearer(f[2][2], f))
      BY <2>8, ForwardCalls DEF Nearer
    <3>2. f[2][1] \in {"AND", "OR", "THEN"} =>
            /\ f[2][2] \in Forms /\ f[2][3] \in Forms
            /\ Nearer(f[2][2], f) /\ Nearer(Not(f[2][2]), f) /\ Nearer(Not(f[2][3]), f)
      BY <2>8, ForwardCalls
    <3>3. f[2][1] = "OR" => LET g1 == LastOfNor(f[2][2], f[2][3]) IN g1 \in Forms /\ Nearer(Not(g1), f)
      BY <2>6, <3>2
    <3>4. ForwardNegation(g, r, f[2], c) = ForwardNegation(h, r, f[2], c)
      BY <2>1, <2>2, <2>4, <2>5, <3>1, <3>2, <3>3 DEF ForwardNegation
    <3>5. ForwardOf(g, call) = ForwardOf(h, call)
      BY <2>1, <2>8, <3>4 DEF ForwardOf
    <3>. QED
      BY <2>3, <3>5
  <2>9. CASE f[1] \notin {"EX", "EG", "EU", "NOT"}
    <3>1. f[1] \in {"AND", "OR", "THEN"} =>
            /\ f[2] \in Forms /\ f[3] \in Forms /\ Nearer(f[2], f) /\ Nearer(f[3], f)
            /\ Nearer(Not(f[2]), f)
      BY ForwardCalls
    <3>2. f[1] = "AND" => LET g1 == LastConjunct(f[2], f[3]) IN g1 \in Forms /\ Nearer(g1, f)
      BY <2>6, <3>1
    <3>3. ForwardConnective(g, r, f, c) = ForwardConnective(h, r, f, c)
      BY <2>1, <2>2, <2>4, <2>5, <3>1, <3>2 DEF ForwardConnective
    <3>4. ForwardOf(g, call) = ForwardOf(h, call)
      BY <2>1, <2>9, <3>3 DEF ForwardOf
    <3>. QED
      BY <2>3, <3>4
  <2>. QED
    BY <2>7, <2>8, <2>9
<1>5. HasFixedPoint(D, Forms, B)
  <2> HIDE DEF B, D, rank
  <2>1. IsContractive(D, Forms, rank, B)
    BY <1>4 DEF IsContractive
  <2>2. True \in Forms
    BY FormsClosed
  <2>. QED
    BY <1>1, <1>2, <2>1, <2>2, RankedRecursion
<1>6. PICK s \in V : s = B[s]
  BY <1>5 DEF HasFixedPoint
<1>7. s = [call \in D |-> ForwardOf(s, call)]
  BY <1>6
<1>8. \E t : t = [call \in D |-> ForwardOf(t, call)]
  BY <1>7
<1>9. Forward = [call \in D |-> ForwardOf(Forward, call)]
  BY <1>8 DEF Forward, ForwardOf
<1>. QED
  BY <1>9

(***************************************************************************)
(* The existential form of a parsed formula.                               *)
(***************************************************************************)
ExistentialTypes == {"ID", "TRUE", "FALSE", "NOT", "AND", "OR", "THEN", "EX", "EU", "EG"}

HasTypes(f, types) == \A g \in Subformulas[f] : g[1] \in types

(* The types in a formula are its own and those of its children.           *)
LEMMA HasTypesIs ==
  ASSUME FormsAreAll, NEW f \in Forms, NEW types
  PROVE  HasTypes(f, types) <=>
            /\ f[1] \in types
            /\ f[1] \notin Leaves => f[2] \in Forms /\ HasTypes(f[2], types)
            /\ f[1] \in Binary => f[3] \in Forms /\ HasTypes(f[3], types)
<1>1. Subformulas[f] = SubformulasOf(Subformulas, f)
  BY SubformulasUnfolds
<1>2. /\ f[1] \notin Leaves => f[2] \in Forms
      /\ f[1] \in Binary => f[3] \in Forms
  BY Children DEF HasChild
<1>. QED
  BY <1>1, <1>2 DEF SubformulasOf, HasTypes

(* A subformula of a subformula is a subformula.                           *)
LEMMA SubformulasTransitive ==
  ASSUME FormsAreAll, NEW f \in Forms, NEW g \in Subformulas[f]
  PROVE  g \in Forms /\ Subformulas[g] \subseteq Subformulas[f]
<1> DEFINE T == {e \in Forms : \A x \in Subformulas[e] :
                                  x \in Forms /\ Subformulas[x] \subseteq Subformulas[e]}
<1>1. ASSUME NEW e \in Forms, \A x \in Forms : HasChild(e, x) => x \in T
      PROVE  e \in T
  <2>1. Subformulas[e] = SubformulasOf(Subformulas, e)
    BY SubformulasUnfolds
  <2>2. /\ e[1] \notin Leaves => e[2] \in T
        /\ e[1] \in Binary => e[3] \in T
    BY <1>1, Children DEF HasChild
  <2>. QED
    BY <2>1, <2>2 DEF SubformulasOf
<1>2. T = Forms
  <2>1. T \in SUBSET Forms
    OBVIOUS
  <2> HIDE DEF T
  <2>. QED
    BY <1>1, <2>1, FormInduction
<1>. QED
  BY <1>2

(* The types of what is built from formulas.                               *)
LEMMA BuiltTypes ==
  ASSUME FormsAreAll, NEW f \in Forms, NEW g \in Forms,
         HasTypes(f, ExistentialTypes), HasTypes(g, ExistentialTypes)
  PROVE  /\ HasTypes(True, ExistentialTypes)
         /\ \A op \in {"NOT", "EX", "EG"} :
               <<op, f>> \in Forms /\ HasTypes(<<op, f>>, ExistentialTypes)
         /\ \A op \in {"AND", "OR", "THEN", "EU"} :
               <<op, f, g>> \in Forms /\ HasTypes(<<op, f, g>>, ExistentialTypes)
<1>1. ASSUME NEW op \in {"NOT", "EX", "EG"}
      PROVE  <<op, f>> \in Forms /\ HasTypes(<<op, f>>, ExistentialTypes)
  <2>1. <<op, f>> \in Forms
    BY FormsClosed DEF Not, EX, EG
  <2>2. op \in ExistentialTypes /\ op \notin Leaves /\ op \notin Binary
    BY DEF ExistentialTypes, Leaves, Binary
  <2>3. <<op, f>>[1] = op /\ <<op, f>>[2] = f
    OBVIOUS
  <2>. QED
    BY <2>1, <2>2, <2>3, HasTypesIs
<1>2. ASSUME NEW op \in {"AND", "OR", "THEN", "EU"}
      PROVE  <<op, f, g>> \in Forms /\ HasTypes(<<op, f, g>>, ExistentialTypes)
  <2>1. <<op, f, g>> \in Forms
    BY FormsClosed DEF And, Or, Then, EU
  <2>2. op \in ExistentialTypes /\ op \notin Leaves /\ op \in Binary
    BY DEF ExistentialTypes, Leaves, Binary
  <2>3. <<op, f, g>>[1] = op /\ <<op, f, g>>[2] = f /\ <<op, f, g>>[3] = g
    OBVIOUS
  <2>. QED
    BY <2>1, <2>2, <2>3, HasTypesIs
<1>3. HasTypes(True, ExistentialTypes)
  <2>1. True \in Forms /\ True[1] = "TRUE"
    BY FormsClosed DEF True
  <2>. QED
    BY <2>1, HasTypesIs DEF ExistentialTypes, Leaves, Binary
<1>. QED
  BY <1>1, <1>2, <1>3

(* The existential form of a parsed formula has no universal operator.     *)
LEMMA ExistentialIs ==
  ASSUME FormsAreAll, NEW f \in Forms, IsParsed(f)
  PROVE  Existential[f] \in Forms /\ HasTypes(Existential[f], ExistentialTypes)
<1> DEFINE Goal(e) == Existential[e] \in Forms /\ HasTypes(Existential[e], ExistentialTypes)
           T == {e \in Forms : HasTypes(e, ParsedTypes) => Goal(e)}
<1>1. ASSUME NEW e \in Forms, \A x \in Forms : HasChild(e, x) => x \in T,
             HasTypes(e, ParsedTypes)
      PROVE  Goal(e)
  <2> DEFINE g == Existential[e[2]]
             h == Existential[e[3]]
  <2>1. /\ e[1] \in ParsedTypes
        /\ e[1] \notin Leaves => e[2] \in Forms /\ HasTypes(e[2], ParsedTypes)
        /\ e[1] \in Binary => e[3] \in Forms /\ HasTypes(e[3], ParsedTypes)
    BY <1>1, HasTypesIs
  <2>2. /\ e[1] \notin Leaves => Goal(e[2])
        /\ e[1] \in Binary => Goal(e[3])
    BY <1>1, <2>1, Children
  <2>3. Existential[e] = ExistentialOf(Existential, e)
    BY ExistentialUnfolds
  <2>4. \A x, y \in Forms : HasTypes(x, ExistentialTypes) /\ HasTypes(y, ExistentialTypes) =>
          /\ True \in Forms /\ HasTypes(True, ExistentialTypes)
          /\ \A op \in {"NOT", "EX", "EG"} :
                <<op, x>> \in Forms /\ HasTypes(<<op, x>>, ExistentialTypes)
          /\ \A op \in {"AND", "OR", "THEN", "EU"} :
                <<op, x, y>> \in Forms /\ HasTypes(<<op, x, y>>, ExistentialTypes)
    BY BuiltTypes, FormsClosed
  <2> HIDE DEF T
  <2>5. CASE e[1] \in {"EF", "AX", "AG", "AF"}
    <3>1. g \in Forms /\ HasTypes(g, ExistentialTypes)
      BY <2>2, <2>5 DEF Leaves
    <3>2. \A x \in Forms : HasTypes(x, ExistentialTypes) =>
            /\ Not(x) \in Forms /\ HasTypes(Not(x), ExistentialTypes)
            /\ EX(x) \in Forms /\ HasTypes(EX(x), ExistentialTypes)
            /\ EG(x) \in Forms /\ HasTypes(EG(x), ExistentialTypes)
            /\ EU(True, x) \in Forms /\ HasTypes(EU(True, x), ExistentialTypes)
      BY <2>4 DEF Not, EX, EG, EU
    <3>3. /\ e[1] = "EF" => Existential[e] = EU(True, g)
          /\ e[1] = "AX" => Existential[e] = Not(EX(Not(g)))
          /\ e[1] = "AG" => Existential[e] = Not(EU(True, Not(g)))
          /\ e[1] = "AF" => Existential[e] = Not(EG(Not(g)))
      BY <2>3 DEF ExistentialOf
    <3> HIDE DEF g
    <3>. QED
      BY <2>5, <3>1, <3>2, <3>3
  <2>6. CASE e[1] = "AU"
    <3>1. /\ g \in Forms /\ HasTypes(g, ExistentialTypes)
          /\ h \in Forms /\ HasTypes(h, ExistentialTypes)
      BY <2>2, <2>6 DEF Leaves, Binary
    <3>2. Existential[e] = Not(NotUntil(g, h))
      BY <2>3, <2>6 DEF ExistentialOf
    <3> HIDE DEF g, h
    <3>3. NotUntil(g, h) \in Forms /\ HasTypes(NotUntil(g, h), ExistentialTypes)
      BY <2>4, <3>1 DEF NotUntil, Not, EG, And, Or, EU
    <3>. QED
      BY <2>4, <3>2, <3>3 DEF Not
  <2>7. CASE e[1] \in {"NOT", "EX", "EG"}
    <3>1. g \in Forms /\ HasTypes(g, ExistentialTypes)
      BY <2>2, <2>7 DEF Leaves
    <3>2. Existential[e] = <<e[1], g>>
      BY <2>3, <2>7 DEF ExistentialOf
    <3>. QED
      BY <2>4, <2>7, <3>1, <3>2
  <2>8. CASE e[1] \in {"AND", "OR", "THEN", "EU"}
    <3>1. /\ g \in Forms /\ HasTypes(g, ExistentialTypes)
          /\ h \in Forms /\ HasTypes(h, ExistentialTypes)
      BY <2>2, <2>8 DEF Leaves, Binary
    <3>2. Existential[e] = <<e[1], g, h>>
      BY <2>3, <2>8 DEF ExistentialOf
    <3> HIDE DEF g, h
    <3>3. \A op \in {"AND", "OR", "THEN", "EU"} :
            <<op, g, h>> \in Forms /\ HasTypes(<<op, g, h>>, ExistentialTypes)
      BY <2>4, <3>1
    <3>4. <<e[1], g, h>> \in Forms /\ HasTypes(<<e[1], g, h>>, ExistentialTypes)
      BY <2>8, <3>3
    <3>. QED
      BY <3>2, <3>4
  <2>9. CASE e[1] \in {"ID", "TRUE", "FALSE"}
    <3>1. Existential[e] = e
      BY <2>3, <2>9 DEF ExistentialOf
    <3>2. HasTypes(e, ExistentialTypes)
      BY <2>9, HasTypesIs DEF ExistentialTypes, Leaves, Binary
    <3>. QED
      BY <3>1, <3>2
  <2>. QED
    BY <2>1, <2>5, <2>6, <2>7, <2>8, <2>9 DEF ParsedTypes
<1>2. T = Forms
  <2>1. T \in SUBSET Forms
    OBVIOUS
  <2>2. \A e \in Forms : e \in T <=> (HasTypes(e, ParsedTypes) => Goal(e))
    OBVIOUS
  <2> HIDE DEF T
  <2>. QED
    BY <1>1, <2>1, <2>2, FormInduction
<1>3. HasTypes(f, ParsedTypes)
  BY DEF IsParsed, HasTypes
<1>. QED
  BY <1>2, <1>3

(* What is built from formulas is satisfied in the states one expects.     *)
LEMMA SatBuilt ==
  ASSUME FormsAreAll, Kept, NEW f \in Forms, NEW g \in Forms
  PROVE  /\ Sat[f] \in SUBSET reachable
         /\ Sat[True] = reachable
         /\ Sat[Not(f)] = reachable \ Sat[f]
         /\ Sat[And(f, g)] = Sat[f] \cap Sat[g]
         /\ Sat[Or(f, g)] = Sat[f] \cup Sat[g]
         /\ Sat[EX(f)] = {s \in reachable : After(s) \cap Sat[f] # {}}
         /\ Sat[EG(f)] = Globally(Sat[f])
         /\ Sat[EU(f, g)] = Until(Sat[f], Sat[g])
<1>1. \A e \in Forms : Sat[e] \in SUBSET reachable /\ Sat[e] = SatOf(Sat, e)
  BY SatUnfolds
<1>2. /\ True \in Forms /\ Not(f) \in Forms /\ And(f, g) \in Forms /\ Or(f, g) \in Forms
      /\ EX(f) \in Forms /\ EG(f) \in Forms /\ EU(f, g) \in Forms
  BY FormsClosed
<1>3. Sat[True] = reachable
  BY <1>1, <1>2 DEF SatOf, True
<1>4. Sat[Not(f)] = reachable \ Sat[f]
  BY <1>1, <1>2 DEF SatOf, Not
<1>5. Sat[And(f, g)] = Sat[f] \cap Sat[g] /\ Sat[Or(f, g)] = Sat[f] \cup Sat[g]
  BY <1>1, <1>2 DEF SatOf, And, Or
<1>6. Sat[EX(f)] = {s \in reachable : After(s) \cap Sat[f] # {}}
  <2>1. Sat[EX(f)] = SatOf(Sat, EX(f))
    BY <1>1, <1>2
  <2>2. EX(f)[1] = "EX" /\ EX(f)[2] = f
    BY DEF EX
  <2>. QED
    BY <2>1, <2>2 DEF SatOf
<1>7. Sat[EG(f)] = Globally(Sat[f])
  BY <1>1, <1>2 DEF SatOf, EG
<1>8. Sat[EU(f, g)] = Until(Sat[f], Sat[g])
  BY <1>1, <1>2 DEF SatOf, EU
<1>. QED
  BY <1>1, <1>3, <1>4, <1>5, <1>6, <1>7, <1>8

(* A a U b fails where some path stays out of b, or leaves a before b.     *)
LEMMA AlwaysUntilDual ==
  ASSUME Kept, NEW a \in SUBSET reachable, NEW b \in SUBSET reachable
  PROVE  AlwaysUntil(a, b)
           = reachable \ (Until(reachable \ b, (reachable \ a) \cap (reachable \ b))
                            \cup Globally(reachable \ b))
<1> DEFINE notb == reachable \ b
           out == (reachable \ a) \cap (reachable \ b)
           A == AlwaysUntil(a, b)
           U == Until(notb, out)
           G == Globally(notb)
<1>0. /\ reachable \in SUBSET States /\ a \in SUBSET States /\ b \in SUBSET States
      /\ notb \in SUBSET States /\ out \in SUBSET States
      /\ notb \in SUBSET reachable /\ out \in SUBSET reachable
  BY DEF Kept
<1>1. /\ A \in SUBSET reachable /\ A = SureStep(a, b, A)
      /\ \A X \in SUBSET States : SureStep(a, b, X) \subseteq X => A \subseteq X
  BY <1>0, AlwaysUntilIs, TemporalTyped
<1>2. /\ U \in SUBSET reachable /\ U = UntilStep(notb, out, U)
  BY <1>0, UntilIs, TemporalTyped
<1>3. /\ G \in SUBSET reachable /\ G = LongerStep(notb, G)
      /\ \A X \in SUBSET States : X \subseteq LongerStep(notb, X) => X \subseteq G
  BY <1>0, GloballyIs, TemporalTyped
<1>4. \A s \in reachable : s \in U <=> s \in out \/ (s \in notb /\ After(s) \cap U # {})
  <2> HIDE DEF U
  <2>1. Pre(next, U) \cap reachable = {s \in reachable : After(s) \cap U # {}}
    BY <1>2, BeforeIs
  <2>2. U = out \cup (notb \cap Pre(next, U))
    BY <1>2 DEF UntilStep
  <2>. QED
    BY <2>1, <2>2
<1> HIDE DEF A, U, G
<1>5. A \cap (U \cup G) = {}
  <2> DEFINE X == reachable \ (U \cup G)
  <2>1. X \in SUBSET States
    BY <1>0
  <2>2. b \subseteq X
    BY <1>3, <1>4 DEF LongerStep
  <2>3. ASSUME NEW s \in a, s \notin b, After(s) # {}, After(s) \subseteq X
        PROVE  s \in X
    <3>1. s \notin U
      BY <1>4, <2>3
    <3>2. s \notin G
      BY <1>3, <2>3 DEF LongerStep
    <3>. QED
      BY <3>1, <3>2
  <2>4. SureStep(a, b, X) \subseteq X
    <3> HIDE DEF X
    <3>. QED
      BY <2>2, <2>3 DEF SureStep
  <2>5. A \subseteq X
    BY <1>1, <2>1, <2>4
  <2>. QED
    BY <2>5
<1>6. reachable \ A \subseteq U \cup G
  <2> DEFINE Z == (reachable \ A) \ U
  <2>1. ASSUME NEW s \in Z
        PROVE  s \in LongerStep(notb, Z)
    <3>1. s \in reachable /\ s \notin b /\ (s \in a => After(s) = {} \/ ~(After(s) \subseteq A))
      BY <1>1 DEF SureStep
    <3>2. s \in a /\ After(s) \cap U = {}
      BY <1>4, <3>1
    <3>3. After(s) \in SUBSET reachable
      BY <3>1, AfterIs
    <3>4. After(s) = {} \/ After(s) \cap Z # {}
      BY <3>1, <3>2, <3>3
    <3>. QED
      BY <3>1, <3>4 DEF LongerStep
  <2>2. Z \in SUBSET States
    BY <1>0
  <2>3. Z \subseteq G
    <3> HIDE DEF Z
    <3>. QED
      BY <1>3, <2>1, <2>2
  <2>. QED
    BY <2>3
<1>. QED
  BY <1>1, <1>5, <1>6 DEF A, U, G

(* AF b is the negation of EG !b.                                          *)
LEMMA AlwaysFinallyDual ==
  ASSUME Kept, NEW b \in SUBSET reachable
  PROVE  AlwaysUntil(reachable, b) = reachable \ Globally(reachable \ b)
<1> DEFINE notb == reachable \ b
           out == (reachable \ reachable) \cap (reachable \ b)
<1>1. AlwaysUntil(reachable, b) = reachable \ (Until(notb, out) \cup Globally(notb))
  BY AlwaysUntilDual
<1>2. out = {} /\ notb \in SUBSET States
  BY DEF Kept
<1>3. Until(notb, {}) = {}
  <2>1. UntilStep(notb, {}, {}) = {}
    BY DEF UntilStep, Pre
  <2>. QED
    BY <1>2, <2>1, UntilIs
<1>. QED
  BY <1>1, <1>2, <1>3

(* The existential form holds where the formula that was parsed does.      *)
LEMMA SatExistential ==
  ASSUME FormsAreAll, Kept, NEW f \in Forms, IsParsed(f)
  PROVE  Sat[Existential[f]] = Sat[f]
<1> DEFINE Goal(e) == Sat[Existential[e]] = Sat[e]
           T == {e \in Forms : HasTypes(e, ParsedTypes) => Goal(e)}
<1>1. ASSUME NEW e \in Forms, \A x \in Forms : HasChild(e, x) => x \in T,
             HasTypes(e, ParsedTypes)
      PROVE  Goal(e)
  <2> DEFINE g == Existential[e[2]]
             h == Existential[e[3]]
             a == Sat[e[2]]
             b == Sat[e[3]]
  <2>1. /\ e[1] \in ParsedTypes
        /\ e[1] \notin Leaves => e[2] \in Forms /\ HasTypes(e[2], ParsedTypes)
        /\ e[1] \in Binary => e[3] \in Forms /\ HasTypes(e[3], ParsedTypes)
    BY <1>1, HasTypesIs
  <2>2. /\ e[1] \notin Leaves => Goal(e[2])
        /\ e[1] \in Binary => Goal(e[3])
    BY <1>1, <2>1, Children
  <2>3. /\ e[1] \notin Leaves => g \in Forms /\ Sat[g] = a /\ a \in SUBSET reachable
        /\ e[1] \in Binary => h \in Forms /\ Sat[h] = b /\ b \in SUBSET reachable
    BY <2>1, <2>2, SatUnfolds, ExistentialUnfolds
  <2>4. Existential[e] = ExistentialOf(Existential, e) /\ Sat[e] = SatOf(Sat, e)
    BY ExistentialUnfolds, SatUnfolds
  <2>5. Existential[e] \in Forms /\ Sat[Existential[e]] = SatOf(Sat, Existential[e])
    BY ExistentialUnfolds, SatUnfolds
  <2>6. True \in Forms /\ \A x, y \in Forms :
          /\ Not(x) \in Forms /\ And(x, y) \in Forms /\ Or(x, y) \in Forms
          /\ EX(x) \in Forms /\ EG(x) \in Forms /\ EU(x, y) \in Forms
    BY FormsClosed
  <2>a. \A x, y \in Forms : Sat[And(x, y)] = Sat[x] \cap Sat[y]
    BY SatBuilt
  <2>b. \A x, y \in Forms : Sat[EU(x, y)] = Until(Sat[x], Sat[y])
    BY SatBuilt
  <2>7. CASE e[1] = "AX"
    <3>1. Existential[e] = Not(EX(Not(g))) /\ Sat[e] = {s \in reachable : After(s) \subseteq a}
      BY <2>4, <2>7 DEF ExistentialOf, SatOf
    <3>2. g \in Forms /\ Sat[g] = a
      BY <2>3, <2>7 DEF Leaves
    <3> HIDE DEF g, a
    <3>3. Sat[Not(EX(Not(g)))] = reachable \ {s \in reachable : After(s) \cap (reachable \ a) # {}}
      <4>1. Not(g) \in Forms /\ Sat[Not(g)] = reachable \ a
        BY <2>6, <3>2, SatBuilt
      <4>2. /\ EX(Not(g)) \in Forms
            /\ Sat[EX(Not(g))] = {s \in reachable : After(s) \cap (reachable \ a) # {}}
        BY <2>6, <4>1, SatBuilt
      <4>. QED
        BY <4>2, SatBuilt
    <3>. QED
      BY <3>1, <3>3, AfterIs
  <2>8. CASE e[1] \in {"EF", "AG"}
    <3>1. /\ e[1] = "EF" => Existential[e] = EU(True, g) /\ Sat[e] = Until(reachable, a)
          /\ e[1] = "AG" => /\ Existential[e] = Not(EU(True, Not(g)))
                            /\ Sat[e] = reachable \ Until(reachable, reachable \ a)
      BY <2>4 DEF ExistentialOf, SatOf
    <3>2. g \in Forms /\ Sat[g] = a
      BY <2>3, <2>8 DEF Leaves
    <3> HIDE DEF g, a
    <3>3. /\ Sat[EU(True, g)] = Until(reachable, a)
          /\ Sat[Not(EU(True, Not(g)))] = reachable \ Until(reachable, reachable \ a)
      <4>1. Not(g) \in Forms /\ Sat[Not(g)] = reachable \ a /\ Sat[True] = reachable
        BY <2>6, <3>2, SatBuilt
      <4>2. /\ EU(True, Not(g)) \in Forms /\ Sat[EU(True, g)] = Until(reachable, a)
            /\ Sat[EU(True, Not(g))] = Until(reachable, reachable \ a)
        <5>1. /\ Sat[EU(True, g)] = Until(Sat[True], Sat[g])
              /\ Sat[EU(True, Not(g))] = Until(Sat[True], Sat[Not(g)])
          BY <2>6, <2>b, <3>2, <4>1
        <5>. QED
          BY <2>6, <3>2, <4>1, <5>1
      <4>. QED
        BY <4>2, SatBuilt
    <3>. QED
      BY <2>8, <3>1, <3>3
  <2>9. CASE e[1] = "AF"
    <3>1. Existential[e] = Not(EG(Not(g))) /\ Sat[e] = AlwaysUntil(reachable, a)
      BY <2>4, <2>9 DEF ExistentialOf, SatOf
    <3>2. g \in Forms /\ Sat[g] = a /\ a \in SUBSET reachable
      BY <2>3, <2>9 DEF Leaves
    <3> HIDE DEF g, a
    <3>3. Sat[Not(EG(Not(g)))] = reachable \ Globally(reachable \ a)
      <4>1. Not(g) \in Forms /\ Sat[Not(g)] = reachable \ a
        BY <2>6, <3>2, SatBuilt
      <4>2. EG(Not(g)) \in Forms /\ Sat[EG(Not(g))] = Globally(reachable \ a)
        BY <2>6, <4>1, SatBuilt
      <4>. QED
        BY <4>2, SatBuilt
    <3>. QED
      BY <3>1, <3>2, <3>3, AlwaysFinallyDual
  <2>10. CASE e[1] = "AU"
    <3>1. Existential[e] = Not(NotUntil(g, h)) /\ Sat[e] = AlwaysUntil(a, b)
      BY <2>4, <2>10 DEF ExistentialOf, SatOf
    <3>2. /\ g \in Forms /\ Sat[g] = a /\ a \in SUBSET reachable
          /\ h \in Forms /\ Sat[h] = b /\ b \in SUBSET reachable
      BY <2>3, <2>10 DEF Leaves, Binary
    <3> HIDE DEF g, a, h, b
    <3>3. Sat[EU(Not(h), And(Not(g), Not(h)))]
            = Until(reachable \ b, (reachable \ a) \cap (reachable \ b))
      <4>1. /\ Not(g) \in Forms /\ Sat[Not(g)] = reachable \ a
            /\ Not(h) \in Forms /\ Sat[Not(h)] = reachable \ b
        BY <2>6, <3>2, SatBuilt
      <4>2. /\ And(Not(g), Not(h)) \in Forms
            /\ Sat[And(Not(g), Not(h))] = Sat[Not(g)] \cap Sat[Not(h)]
        BY <2>6, <2>a, <4>1
      <4>3. Sat[EU(Not(h), And(Not(g), Not(h)))] = Until(Sat[Not(h)], Sat[And(Not(g), Not(h))])
        BY <2>b, <4>1, <4>2
      <4>. QED
        BY <4>1, <4>2, <4>3
    <3>4. Sat[EG(Not(h))] = Globally(reachable \ b)
      <4>1. Not(h) \in Forms /\ Sat[Not(h)] = reachable \ b
        BY <2>6, <3>2, SatBuilt
      <4>2. Sat[EG(Not(h))] = Globally(Sat[Not(h)])
        BY <4>1, SatBuilt
      <4>. QED
        BY <4>1, <4>2
    <3>5. EU(Not(h), And(Not(g), Not(h))) \in Forms /\ EG(Not(h)) \in Forms
      BY <2>6, <3>2
    <3>6. Sat[Not(NotUntil(g, h))]
            = reachable \ (Until(reachable \ b, (reachable \ a) \cap (reachable \ b))
                             \cup Globally(reachable \ b))
      <4>1. NotUntil(g, h) \in Forms
        BY <2>6, <3>5 DEF NotUntil
      <4>2. Sat[NotUntil(g, h)] = Until(reachable \ b, (reachable \ a) \cap (reachable \ b))
                                    \cup Globally(reachable \ b)
        BY <3>3, <3>4, <3>5, SatBuilt DEF NotUntil
      <4>. QED
        BY <4>1, <4>2, SatBuilt
    <3>. QED
      BY <3>1, <3>2, <3>6, AlwaysUntilDual
  <2>11. CASE e[1] \in {"NOT", "EX", "EG"}
    <3>1. Existential[e] = <<e[1], g>>
      BY <2>4, <2>11 DEF ExistentialOf
    <3>2. Sat[g] = a
      BY <2>3, <2>11 DEF Leaves
    <3>3. Existential[e][1] = e[1] /\ Existential[e][2] = g
      BY <3>1
    <3>. QED
      BY <2>4, <2>5, <2>11, <3>2, <3>3 DEF SatOf
  <2>12. CASE e[1] \in {"AND", "OR", "THEN", "EU"}
    <3>1. Existential[e] = <<e[1], g, h>>
      BY <2>4, <2>12 DEF ExistentialOf
    <3>2. Sat[g] = a /\ Sat[h] = b
      BY <2>3, <2>12 DEF Leaves, Binary
    <3>3. Existential[e][1] = e[1] /\ Existential[e][2] = g /\ Existential[e][3] = h
      BY <3>1
    <3>. QED
      BY <2>4, <2>5, <2>12, <3>2, <3>3 DEF SatOf
  <2>13. CASE e[1] \in {"ID", "TRUE", "FALSE"}
    BY <2>4, <2>13 DEF ExistentialOf
  <2>. QED
    BY <2>1, <2>7, <2>8, <2>9, <2>10, <2>11, <2>12, <2>13 DEF ParsedTypes
<1>2. T = Forms
  <2>1. T \in SUBSET Forms
    OBVIOUS
  <2>2. \A e \in Forms : e \in T <=> (HasTypes(e, ParsedTypes) => Goal(e))
    OBVIOUS
  <2> HIDE DEF T
  <2>. QED
    BY <1>1, <2>1, <2>2, FormInduction
<1>3. HasTypes(f, ParsedTypes)
  BY DEF IsParsed, HasTypes
<1>. QED
  BY <1>2, <1>3

(***************************************************************************)
(* The states that the checker finds for an existential formula.           *)
(***************************************************************************)
LEMMA SelectedIs ==
  ASSUME FormsAreAll, Kept, NEW f \in Forms, QuantifierFree[f]
  PROVE  Selected[f] \cap reachable = Sat[f]
<1> DEFINE Goal(e) == Selected[e] \cap reachable = Sat[e]
           T == {e \in Forms : QuantifierFree[e] => Goal(e)}
<1>1. ASSUME NEW e \in Forms, \A x \in Forms : HasChild(e, x) => x \in T, QuantifierFree[e]
      PROVE  Goal(e)
  <2>1. QuantifierFreeIs(e)
    BY <1>1, QuantifierFreeUnfolds
  <2>2. /\ e[1] \in {"NOT", "AND", "OR", "THEN"} => HasChild(e, e[2])
        /\ e[1] \in {"AND", "OR", "THEN"} => HasChild(e, e[3])
    BY Children DEF Unary, Binary
  <2>3. /\ e[1] \in {"NOT", "AND", "OR", "THEN"} => Goal(e[2])
        /\ e[1] \in {"AND", "OR", "THEN"} => Goal(e[3])
    BY <1>1, <2>1, <2>2 DEF QuantifierFreeIs, HasChild
  <2>4. Selected[e] = SelectedOf(Selected, e) /\ Sat[e] = SatOf(Sat, e)
    BY SelectedUnfolds, SatUnfolds
  <2>5. reachable \in SUBSET States
    BY DEF Kept
  <2> HIDE DEF T
  <2>6. CASE e[1] \in {"ID", "TRUE", "FALSE"}
    BY <2>4, <2>5, <2>6 DEF SelectedOf, SatOf
  <2>7. CASE e[1] = "NOT"
    BY <2>3, <2>4, <2>5, <2>7 DEF SelectedOf, SatOf
  <2>8. CASE e[1] \in {"AND", "OR", "THEN"}
    BY <2>3, <2>4, <2>5, <2>8 DEF SelectedOf, SatOf
  <2>. QED
    BY <2>1, <2>6, <2>7, <2>8 DEF QuantifierFreeIs
<1>2. T = Forms
  <2>1. T \in SUBSET Forms
    OBVIOUS
  <2>2. \A e \in Forms : e \in T <=> (QuantifierFree[e] => Goal(e))
    OBVIOUS
  <2> HIDE DEF T
  <2>. QED
    BY <1>1, <2>1, <2>2, FormInduction
<1>. QED
  BY <1>2

(* A fixpoint may be guarded by the selection that a propositional child   *)
(* makes instead of by its reachable states.                               *)
LEMMA GuardIs ==
  ASSUME FormsAreAll, Kept, NEW f \in Forms
  PROVE  Guard(f, Sat[f]) \cap reachable = Sat[f]
<1>1. reachable \in SUBSET States /\ Sat[f] \in SUBSET reachable
  BY SatUnfolds DEF Kept
<1>. QED
  BY <1>1, SelectedIs DEF Guard

(* All the states of a formula, or some if there are any.                  *)
IsFound(f) ==
  /\ Verify[<<f, TRUE>>] = Sat[f]
  /\ Verify[<<f, FALSE>>] \subseteq Sat[f]
  /\ Sat[f] # {} => Verify[<<f, FALSE>>] # {}

(* getStateVerifying finds all the states of an existential formula or,    *)
(* when that is enough, some of them if there are any.                     *)
LEMMA VerifyIs ==
  ASSUME FormsAreAll, Kept, NEW f \in Forms, HasTypes(f, ExistentialTypes)
  PROVE  IsFound(f)
<1> DEFINE T == {e \in Forms : HasTypes(e, ExistentialTypes) => IsFound(e)}
<1>1. ASSUME NEW e \in Forms, \A x \in Forms : HasChild(e, x) => x \in T,
             HasTypes(e, ExistentialTypes)
      PROVE  IsFound(e)
  <2> DEFINE g == e[2]
             h == e[3]
             a == Sat[e[2]]
             b == Sat[e[3]]
  <2>1. /\ e[1] \in ExistentialTypes
        /\ e[1] \notin Leaves => g \in Forms /\ HasTypes(g, ExistentialTypes) /\ HasChild(e, g)
        /\ e[1] \in Binary => h \in Forms /\ HasTypes(h, ExistentialTypes) /\ HasChild(e, h)
    BY <1>1, HasTypesIs, Children
  <2>2. /\ e[1] \notin Leaves => IsFound(g) /\ a \in SUBSET reachable
        /\ e[1] \in Binary => IsFound(h) /\ b \in SUBSET reachable
    BY <1>1, <2>1, SatUnfolds
  <2>3. ASSUME NEW x \in Forms, IsFound(x)
        PROVE  /\ ChildStates(Verify, x) = Sat[x]
               /\ Some(Verify, x) \subseteq Sat[x]
               /\ Sat[x] # {} => Some(Verify, x) # {}
    BY <2>3, SelectedIs DEF ChildStates, Some, IsFound
  <2>4. /\ e[1] \notin Leaves => /\ ChildStates(Verify, g) = a /\ Guard(g, a) \cap reachable = a
                                 /\ Some(Verify, g) \subseteq a
                                 /\ a # {} => Some(Verify, g) # {}
        /\ e[1] \in Binary => /\ ChildStates(Verify, h) = b /\ Verify[<<h, TRUE>>] = b
                              /\ Some(Verify, h) \subseteq b
                              /\ b # {} => Some(Verify, h) # {}
    BY <2>1, <2>2, <2>3, GuardIs DEF IsFound
  <2>5. \A exact \in BOOLEAN : Verify[<<e, exact>>] = VerifyOf(Verify, <<e, exact>>)
    BY VerifyUnfolds
  <2>6. Sat[e] = SatOf(Sat, e)
    BY SatUnfolds
  <2> HIDE DEF T
  <2>7. CASE e[1] \in {"ID", "TRUE", "FALSE"}
    <3>1. \A exact \in BOOLEAN : Verify[<<e, exact>>] = Selected[e] \cap reachable
      BY <2>5, <2>7 DEF VerifyOf
    <3>2. QuantifierFree[e]
      BY <2>7, QuantifierFreeUnfolds DEF QuantifierFreeIs
    <3>. QED
      BY <3>1, <3>2, SelectedIs DEF IsFound
  <2>8. CASE e[1] = "NOT" /\ g[1] # "NOT"
    <3>1. \A exact \in BOOLEAN : Verify[<<e, exact>>] = reachable \ a
      BY <2>4, <2>5, <2>8 DEF VerifyOf, Leaves
    <3>2. Sat[e] = reachable \ a
      BY <2>6, <2>8 DEF SatOf
    <3>. QED
      BY <3>1, <3>2 DEF IsFound
  <2>9. CASE e[1] = "NOT" /\ g[1] = "NOT"
    <3> DEFINE k == e[2][2]
    <3>1. \A exact \in BOOLEAN : Verify[<<e, exact>>] = Verify[<<k, exact>>]
      BY <2>5, <2>9 DEF VerifyOf
    <3>2. g \in Forms /\ HasTypes(g, ExistentialTypes) /\ HasChild(e, g)
      BY <2>1, <2>9 DEF Leaves
    <3>3. k \in Forms /\ HasTypes(k, ExistentialTypes) /\ HasChild(g, k)
      BY <2>9, <3>2, HasTypesIs, Children DEF Leaves
    <3>4. HasChild(e, k)
      <4>1. Height[e] \in Nat
        BY HeightTyped DEF IsHeight
      <4>. QED
        BY <3>2, <3>3, <4>1 DEF HasChild
    <3>5. IsFound(k)
      BY <1>1, <3>3, <3>4 DEF T
    <3>6. Sat[e] = reachable \ Sat[g] /\ Sat[g] = reachable \ Sat[k] /\ Sat[k] \in SUBSET reachable
      BY <2>6, <2>9, <3>2, <3>3, SatUnfolds DEF SatOf
    <3>7. Sat[e] = Sat[k]
      BY <3>6
    <3>. QED
      BY <3>1, <3>5, <3>7 DEF IsFound
  <2>10. CASE e[1] = "AND"
    <3>1. HasTypes(g, ExistentialTypes) /\ g \in Forms
      BY <2>1, <2>10 DEF Leaves
    <3>2. g # Start
      BY <3>1, HasTypesIs DEF Start, ExistentialTypes
    <3>3. \A exact \in BOOLEAN : Verify[<<e, exact>>] = AndStates(e, a, b)
      BY <2>4, <2>5, <2>10 DEF VerifyOf, Leaves, Binary
    <3>4. AndStates(e, a, b) = a \cap b
      BY <3>2 DEF AndStates
    <3>5. Sat[e] = a \cap b
      BY <2>6, <2>10 DEF SatOf
    <3>. QED
      BY <3>3, <3>4, <3>5 DEF IsFound
  <2>11. CASE e[1] = "OR"
    <3>1. /\ Verify[<<e, TRUE>>] = a \cup b
          /\ Verify[<<e, FALSE>>] = SomeOr(e, Some(Verify, g), Some(Verify, h))
      BY <2>4, <2>5, <2>11 DEF VerifyOf, Leaves, Binary
    <3>2. Sat[e] = a \cup b
      BY <2>6, <2>11 DEF SatOf
    <3>3. /\ Some(Verify, g) \subseteq a /\ (a # {} => Some(Verify, g) # {})
          /\ Some(Verify, h) \subseteq b /\ (b # {} => Some(Verify, h) # {})
      BY <2>4, <2>11 DEF Leaves, Binary
    <3> HIDE DEF g, h, a, b
    <3>. QED
      BY <3>1, <3>2, <3>3 DEF IsFound, SomeOr
  <2>12. CASE e[1] = "THEN"
    <3>1. \A exact \in BOOLEAN : Verify[<<e, exact>>] = (reachable \ a) \cup b
      BY <2>4, <2>5, <2>12 DEF VerifyOf, Leaves, Binary
    <3>2. Sat[e] = (reachable \ a) \cup b
      BY <2>6, <2>12 DEF SatOf
    <3>. QED
      BY <3>1, <3>2 DEF IsFound
  <2>13. CASE e[1] = "EX"
    <3>1. \A exact \in BOOLEAN : Verify[<<e, exact>>] = Post(predRel_, a)
      BY <2>4, <2>5, <2>13 DEF VerifyOf, Leaves
    <3>2. Sat[e] = {s \in reachable : After(s) \cap a # {}}
      BY <2>6, <2>13 DEF SatOf
    <3>3. a \in SUBSET reachable
      BY <2>2, <2>13 DEF Leaves
    <3>. QED
      BY <3>1, <3>2, <3>3, BeforeIs DEF IsFound
  <2>14. CASE e[1] = "EU"
    <3>1. /\ Verify[<<e, TRUE>>] = EUStates(Guard(g, a), b)
          /\ Verify[<<e, FALSE>>] = Some(Verify, h)
      BY <2>4, <2>5, <2>14 DEF VerifyOf, Leaves, Binary
    <3>2. Sat[e] = Until(a, b)
      BY <2>6, <2>14 DEF SatOf
    <3>3. a \in SUBSET reachable /\ b \in SUBSET reachable /\ Guard(g, a) \cap reachable = a
      BY <2>2, <2>4, <2>14 DEF Leaves, Binary
    <3>4. Some(Verify, h) \subseteq b /\ (b # {} => Some(Verify, h) # {})
      BY <2>4, <2>14 DEF Binary
    <3> HIDE DEF a, b, g, h
    <3>5. EUStates(Guard(g, a), b) = Until(a, b)
      BY <3>3, EUStatesAreUntil
    <3>6. b \subseteq Until(a, b) /\ (b = {} => Until(a, b) = {})
      <4>1. a \in SUBSET States /\ b \in SUBSET States
        BY <3>3 DEF Kept
      <4>2. UntilStep(a, {}, {}) = {}
        BY DEF UntilStep, Pre
      <4>3. b = {} => Until(a, b) = {}
        BY <4>1, <4>2, UntilIs
      <4>4. b \subseteq Until(a, b)
        BY <4>1, UntilIs DEF UntilStep
      <4>. QED
        BY <4>3, <4>4
    <3>. QED
      BY <3>1, <3>2, <3>4, <3>5, <3>6 DEF IsFound
  <2>15. CASE e[1] = "EG"
    <3>1. /\ Verify[<<e, TRUE>>] = EGStates(Guard(g, a), a)
          /\ Verify[<<e, FALSE>>] = SomeEG(a)
      BY <2>4, <2>5, <2>15 DEF VerifyOf, Leaves
    <3>2. Sat[e] = Globally(a)
      BY <2>6, <2>15 DEF SatOf
    <3>3. a \in SUBSET reachable /\ Guard(g, a) \cap reachable = a
      BY <2>2, <2>4, <2>15 DEF Leaves
    <3> HIDE DEF a, g
    <3>4. EGStates(Guard(g, a), a) = Globally(a)
      BY <3>3, EGStatesAreGlobally
    <3>5. SomeEG(a) \subseteq Globally(a) /\ (Globally(a) # {} => SomeEG(a) # {})
      BY <3>3, SomeEGIsEnough
    <3>. QED
      BY <3>1, <3>2, <3>4, <3>5 DEF IsFound
  <2>. QED
    BY <2>1, <2>7, <2>8, <2>9, <2>10, <2>11, <2>12, <2>13, <2>14, <2>15 DEF ExistentialTypes
<1>2. T = Forms
  <2>1. T \in SUBSET Forms
    OBVIOUS
  <2>2. \A e \in Forms : e \in T <=> (HasTypes(e, ExistentialTypes) => IsFound(e))
    OBVIOUS
  <2> HIDE DEF T
  <2>. QED
    BY <1>1, <2>1, <2>2, FormInduction
<1>. QED
  BY <1>2

(***************************************************************************)
(* The forward form.  It starts from a formula whose states are found      *)
(* forward, and it says something: its only states are State::one.         *)
(***************************************************************************)
IsBase(r) ==
  /\ r \in Forms /\ ~QuantifierFree[r]
  /\ Verify[<<r, TRUE>>] \in SUBSET reachable

Gives(f, S) ==
  /\ f \in Forms /\ ~QuantifierFree[f] /\ f # Start
  /\ \A exact \in BOOLEAN : Verify[<<f, exact>>] = S

Says(f, b) == Gives(f, Truth(b))

(* A comparison says whether there are states, or none.                    *)
LEMMA CmpSays ==
  ASSUME FormsAreAll, Kept, NEW f \in Forms, NEW c \in {0, 1}
  PROVE  Says(Cmp(f, c), (Verify[<<f, FALSE>>] # {}) <=> (c = 1))
<1>1. Cmp(f, c) \in Forms
  BY FormsClosed
<1>2. ~QuantifierFree[Cmp(f, c)]
  BY <1>1, QuantifierFreeUnfolds DEF QuantifierFreeIs, Cmp
<1>3. Cmp(f, c) # Start
  BY DEF Cmp, Start
<1>4. ASSUME NEW exact \in BOOLEAN
      PROVE  Verify[<<Cmp(f, c), exact>>] = Truth((Verify[<<f, FALSE>>] # {}) <=> (c = 1))
  <2>1. Verify[<<Cmp(f, c), exact>>] = VerifyOf(Verify, <<Cmp(f, c), exact>>)
    BY <1>1, VerifyUnfolds
  <2>2. VerifyOf(Verify, <<Cmp(f, c), exact>>) = CmpStates(Cmp(f, c), Verify[<<f, FALSE>>])
    BY DEF VerifyOf, Cmp
  <2>3. CmpStates(Cmp(f, c), Verify[<<f, FALSE>>])
          = Truth((Verify[<<f, FALSE>>] # {}) <=> (c = 1))
    <3> DEFINE some == Verify[<<f, FALSE>>]
    <3>1. CmpStates(Cmp(f, c), some) = Truth((some = {}) = (c = 0))
      BY DEF CmpStates, Cmp
    <3>2. c = 0 <=> ~(c = 1)
      OBVIOUS
    <3> HIDE DEF some
    <3>3. Truth((some = {}) = (c = 0)) = Truth((some # {}) <=> (c = 1))
      <4>1. CASE some = {}
        BY <3>2, <4>1 DEF Truth
      <4>2. CASE some # {}
        BY <3>2, <4>2 DEF Truth
      <4>. QED
        BY <4>1, <4>2
    <3>. QED
      BY <3>1, <3>3 DEF some
  <2>. QED
    BY <2>1, <2>2, <2>3
<1>. QED
  BY <1>1, <1>2, <1>3, <1>4 DEF Says, Gives

(* Two comparisons are joined by the connective that Either chooses.       *)
LEMMA EitherGives ==
  ASSUME FormsAreAll, Kept, NEW f, NEW g, NEW V \in {One, {}}, NEW W \in {One, {}},
         NEW c \in {0, 1}, Gives(f, V), Gives(g, W)
  PROVE  Gives(Either(f, g, c), IF c = 1 THEN V \cup W ELSE V \cap W)
<1>0. f \in Forms /\ g \in Forms /\ f # Start /\ ~QuantifierFree[f] /\ ~QuantifierFree[g]
  BY DEF Gives
<1>a. \A exact \in BOOLEAN : Verify[<<f, exact>>] = V /\ Verify[<<g, exact>>] = W
  BY DEF Gives
<1>b. /\ ChildStates(Verify, f) = V /\ ChildStates(Verify, g) = W
      /\ Some(Verify, f) = V /\ Some(Verify, g) = W
  BY <1>0, <1>a DEF ChildStates, Some
<1>1. CASE c = 1
  <2>1. Either(f, g, c) = Or(f, g) /\ Or(f, g) \in Forms
    BY <1>0, <1>1, FormsClosed DEF Either
  <2>2. ~QuantifierFree[Or(f, g)] /\ Or(f, g) # Start
    BY <1>0, <2>1, QuantifierFreeUnfolds DEF QuantifierFreeIs, Or, Start
  <2>3. ASSUME NEW exact \in BOOLEAN
        PROVE  Verify[<<Or(f, g), exact>>] = V \cup W
    <3>1. Verify[<<Or(f, g), exact>>] = VerifyOf(Verify, <<Or(f, g), exact>>)
      BY <2>1, VerifyUnfolds
    <3>2. VerifyOf(Verify, <<Or(f, g), exact>>)
            = IF exact THEN V \cup W ELSE SomeOr(Or(f, g), V, W)
      BY <1>b DEF VerifyOf, Or
    <3>3. SomeOr(Or(f, g), V, W) = V \cup W
      BY OneIsNotZero DEF SomeOr
    <3>. QED
      BY <3>1, <3>2, <3>3
  <2>. QED
    BY <1>1, <2>1, <2>2, <2>3 DEF Gives
<1>2. CASE c = 0
  <2>0. c # 1
    BY <1>2
  <2>1. Either(f, g, c) = And(f, g) /\ And(f, g) \in Forms
    BY <1>0, <2>0, FormsClosed DEF Either
  <2>2. ~QuantifierFree[And(f, g)] /\ And(f, g) # Start
    BY <1>0, <2>1, QuantifierFreeUnfolds DEF QuantifierFreeIs, And, Start
  <2>3. ASSUME NEW exact \in BOOLEAN
        PROVE  Verify[<<And(f, g), exact>>] = V \cap W
    <3>1. Verify[<<And(f, g), exact>>] = VerifyOf(Verify, <<And(f, g), exact>>)
      BY <2>1, VerifyUnfolds
    <3>2. VerifyOf(Verify, <<And(f, g), exact>>) = AndStates(And(f, g), V, W)
      BY <1>a, <1>b DEF VerifyOf, And
    <3>3. AndStates(And(f, g), V, W) = V \cap W
      BY <1>0 DEF AndStates, And
    <3>. QED
      BY <3>1, <3>2, <3>3
  <2>. QED
    BY <1>2, <2>1, <2>2, <2>3 DEF Gives
<1>. QED
  BY <1>1, <1>2

(* The forward form starts from the initial states.                        *)
LEMMA StartIsBase ==
  ASSUME FormsAreAll, Kept
  PROVE  IsBase(Start) /\ Verify[<<Start, TRUE>>] = InitialState
<1>1. Start \in Forms /\ Start[1] = "INIT"
  BY FormsClosed DEF Start
<1>2. ~QuantifierFree[Start]
  BY <1>1, QuantifierFreeUnfolds DEF QuantifierFreeIs
<1>3. Verify[<<Start, TRUE>>] = VerifyOf(Verify, <<Start, TRUE>>)
  BY <1>1, VerifyUnfolds
<1>4. VerifyOf(Verify, <<Start, TRUE>>) = InitialState
  BY <1>1 DEF VerifyOf
<1>. QED
  BY <1>1, <1>2, <1>3, <1>4 DEF IsBase, Kept

(* A conjunct that is not forward is evaluated backward and intersected.   *)
LEMMA ConjunctionIs ==
  ASSUME FormsAreAll, Kept, NEW r, IsBase(r),
         NEW p \in Forms, HasTypes(p, ExistentialTypes)
  PROVE  /\ IsBase(And(r, p))
         /\ \A exact \in BOOLEAN :
               Verify[<<And(r, p), exact>>] = Verify[<<r, TRUE>>] \cap Sat[p]
<1>0. r \in Forms /\ ~QuantifierFree[r] /\ Verify[<<r, TRUE>>] \in SUBSET reachable
  BY DEF IsBase
<1>1. And(r, p) \in Forms
  BY <1>0, FormsClosed
<1>2. ~QuantifierFree[And(r, p)]
  BY <1>0, <1>1, QuantifierFreeUnfolds DEF QuantifierFreeIs, And
<1>3. ASSUME NEW exact \in BOOLEAN
      PROVE  Verify[<<And(r, p), exact>>] = Verify[<<r, TRUE>>] \cap Sat[p]
  <2>1. Verify[<<And(r, p), exact>>] = VerifyOf(Verify, <<And(r, p), exact>>)
    BY <1>1, VerifyUnfolds
  <2>2. ChildStates(Verify, r) = Verify[<<r, TRUE>>] /\ Verify[<<p, TRUE>>] = Sat[p]
    BY <1>0, VerifyIs DEF ChildStates, IsFound
  <2>3. VerifyOf(Verify, <<And(r, p), exact>>)
          = AndStates(And(r, p), Verify[<<r, TRUE>>], Sat[p])
    BY <2>2 DEF VerifyOf, And
  <2>4. AndStates(And(r, p), Verify[<<r, TRUE>>], Sat[p]) = Verify[<<r, TRUE>>] \cap Sat[p]
    <3>1. CASE r = Start /\ QuantifierFree[p]
      <4>1. AndStates(And(r, p), Verify[<<r, TRUE>>], Sat[p]) = Selected[p] \cap InitialState
        BY <3>1 DEF AndStates, And
      <4>2. InitialState \subseteq reachable /\ Verify[<<r, TRUE>>] = InitialState
        BY <3>1, StartIsBase DEF Kept
      <4>3. Selected[p] \cap reachable = Sat[p]
        BY <3>1, SelectedIs
      <4>. QED
        BY <4>1, <4>2, <4>3
    <3>2. CASE ~(r = Start /\ QuantifierFree[p])
      BY <3>2 DEF AndStates, And
    <3>. QED
      BY <3>1, <3>2
  <2>. QED
    BY <2>1, <2>3, <2>4
<1>. QED
  BY <1>0, <1>1, <1>2, <1>3 DEF IsBase

(* So a comparison of the conjunction says whether they meet.              *)
LEMMA ConjunctionSays ==
  ASSUME FormsAreAll, Kept, NEW r, IsBase(r),
         NEW p \in Forms, HasTypes(p, ExistentialTypes), NEW c \in {0, 1}
  PROVE  Says(Cmp(And(r, p), c), (Verify[<<r, TRUE>>] \cap Sat[p] # {}) <=> (c = 1))
<1>1. And(r, p) \in Forms
  BY ConjunctionIs DEF IsBase
<1>2. Verify[<<And(r, p), FALSE>>] = Verify[<<r, TRUE>>] \cap Sat[p]
  BY ConjunctionIs
<1>. QED
  BY <1>1, <1>2, CmpSays

(* EY, FwdU and FwdG.                                                      *)
LEMMA NextIs ==
  ASSUME FormsAreAll, Kept, NEW r, IsBase(r)
  PROVE  /\ IsBase(<<"EY", r>>)
         /\ \A S \in SUBSET reachable :
               Verify[<<(<<"EY", r>>), TRUE>>] \cap S # {}
                 <=> Verify[<<r, TRUE>>] \cap {s \in reachable : After(s) \cap S # {}} # {}
<1> DEFINE f == <<"EY", r>>
           B == Verify[<<r, TRUE>>]
<1>0. r \in Forms /\ ~QuantifierFree[r] /\ B \in SUBSET reachable
  BY DEF IsBase
<1>1. f \in Forms
  BY <1>0, FormsClosed
<1>2. ~QuantifierFree[f]
  BY <1>0, <1>1, QuantifierFreeUnfolds DEF QuantifierFreeIs
<1>3. Verify[<<f, TRUE>>] = Post(next, B)
  <2>1. Verify[<<f, TRUE>>] = VerifyOf(Verify, <<f, TRUE>>)
    BY <1>1, VerifyUnfolds
  <2>. QED
    BY <1>0, <2>1 DEF VerifyOf, ChildStates
<1> HIDE DEF f, B
<1>4. \A t : t \in Post(next, B) <=> t \in reachable /\ \E s \in B : t \in After(s)
  <2>1. \A t : t \in Post(next, B) <=> t \in States /\ \E s \in B : <<s, t>> \in next
    BY DEF Post
  <2>2. \A s \in B : \A t : t \in After(s) <=> t \in States /\ <<s, t>> \in next
    BY DEF After, Post
  <2>3. \A s \in B : After(s) \in SUBSET reachable
    BY <1>0, AfterIs
  <2>. QED
    BY <1>0, <2>1, <2>2, <2>3
<1>5. \A S \in SUBSET reachable :
         Post(next, B) \cap S # {} <=> B \cap {s \in reachable : After(s) \cap S # {}} # {}
  BY <1>0, <1>4
<1>6. Post(next, B) \in SUBSET reachable
  BY <1>4
<1>. QED
  BY <1>1, <1>2, <1>3, <1>5, <1>6 DEF IsBase, f, B

(* Some state found forward by FwdU(r, p) is in S when one of r satisfies  *)
(* E p U S.                                                                *)
LEMMA FwdUIs ==
  ASSUME FormsAreAll, Kept, NEW r, IsBase(r),
         NEW p \in Forms, HasTypes(p, ExistentialTypes)
  PROVE  /\ IsBase(<<"FWDU", r, p>>)
         /\ \A S \in SUBSET reachable :
               Verify[<<(<<"FWDU", r, p>>), TRUE>>] \cap S # {}
                 <=> Verify[<<r, TRUE>>] \cap Until(Sat[p], S) # {}
<1> DEFINE f == <<"FWDU", r, p>>
           B == Verify[<<r, TRUE>>]
           fwd == FwdUStates(B, Guard(p, Sat[p]))
<1>0. r \in Forms /\ ~QuantifierFree[r] /\ B \in SUBSET reachable
  BY DEF IsBase
<1>1. f \in Forms
  BY <1>0, FormsClosed
<1>2. ~QuantifierFree[f]
  BY <1>0, <1>1, QuantifierFreeUnfolds DEF QuantifierFreeIs
<1>3. ChildStates(Verify, r) = B /\ ChildStates(Verify, p) = Sat[p]
  BY <1>0, VerifyIs, SelectedIs DEF ChildStates, IsFound
<1>4. Verify[<<f, TRUE>>] = IF r = Start /\ p = True THEN reachable ELSE fwd
  <2>1. Verify[<<f, TRUE>>] = VerifyOf(Verify, <<f, TRUE>>)
    BY <1>1, VerifyUnfolds
  <2>. QED
    BY <1>3, <2>1 DEF VerifyOf
<1>5. r = Start /\ p = True => fwd = reachable
  <2> SUFFICES ASSUME r = Start, p = True
               PROVE  fwd = reachable
    OBVIOUS
  <2>1. B = InitialState
    BY StartIsBase
  <2>2. Sat[p] = reachable
    BY SatBuilt
  <2>3. Guard(p, Sat[p]) = States
    BY <2>2 DEF Guard
  <2>. QED
    BY <2>1, <2>3, FwdUFromStart
<1>6. Sat[p] \in SUBSET reachable /\ Guard(p, Sat[p]) \cap reachable = Sat[p]
  BY SatUnfolds, GuardIs
<1>7. /\ fwd \in SUBSET reachable
      /\ \A S \in SUBSET reachable : fwd \cap S # {} <=> B \cap Until(Sat[p], S) # {}
  BY <1>0, <1>6, FwdUMeetsUntil
<1>8. Verify[<<f, TRUE>>] = fwd
  BY <1>4, <1>5
<1> HIDE DEF fwd, f, B
<1>. QED
  BY <1>1, <1>2, <1>7, <1>8 DEF IsBase, f, B

(* FwdG(r, p) is compared: some state of r satisfies EG p, or none does.   *)
LEMMA FwdGSays ==
  ASSUME FormsAreAll, Kept, NEW r, IsBase(r),
         NEW p \in Forms, HasTypes(p, ExistentialTypes), NEW c \in {0, 1}
  PROVE  Says(Cmp(<<"FWDG", r, p>>, c),
              (Verify[<<r, TRUE>>] \cap Globally(Sat[p]) # {}) <=> (c = 1))
<1> DEFINE f == <<"FWDG", r, p>>
           B == Verify[<<r, TRUE>>]
           fwd == FwdGStates(B, Sat[p], Guard(p, Sat[p]))
<1>0. r \in Forms /\ ~QuantifierFree[r] /\ B \in SUBSET reachable
  BY DEF IsBase
<1>1. f \in Forms
  BY <1>0, FormsClosed
<1>2. ChildStates(Verify, r) = B /\ ChildStates(Verify, p) = Sat[p]
  BY <1>0, VerifyIs, SelectedIs DEF ChildStates, IsFound
<1>3. Verify[<<f, FALSE>>] = fwd
  <2>1. Verify[<<f, FALSE>>] = VerifyOf(Verify, <<f, FALSE>>)
    BY <1>1, VerifyUnfolds
  <2>. QED
    BY <1>2, <2>1 DEF VerifyOf
<1>4. Sat[p] \in SUBSET reachable /\ Guard(p, Sat[p]) \cap reachable = Sat[p]
  BY SatUnfolds, GuardIs
<1>5. fwd # {} <=> B \cap Globally(Sat[p]) # {}
  BY <1>0, <1>4, FwdGMeetsGlobally
<1>6. Says(Cmp(f, c), (Verify[<<f, FALSE>>] # {}) <=> (c = 1))
  BY <1>1, CmpSays
<1> HIDE DEF fwd
<1>. QED
  BY <1>3, <1>5, <1>6

(* The forward form of r ^ f says whether a state of r satisfies f.        *)
Meets(r, S) == Verify[<<r, TRUE>>] \cap S # {}

IsConverted(f) ==
  \A r : IsBase(r) =>
    \A c \in {0, 1} : Says(Forward[<<r, f, c>>], Meets(r, Sat[f]) <=> (c = 1))

(* A disjunction is cut in two comparisons.                                *)
LEMMA EitherMeets ==
  ASSUME FormsAreAll, Kept, NEW r, NEW S, NEW T, NEW c \in {0, 1}, NEW f, NEW g,
         Says(f, Meets(r, S) <=> (c = 1)), Says(g, Meets(r, T) <=> (c = 1))
  PROVE  Says(Either(f, g, c), Meets(r, S \cup T) <=> (c = 1))
<1> DEFINE v == Meets(r, S) <=> (c = 1)
           w == Meets(r, T) <=> (c = 1)
           both == IF c = 1 THEN v \/ w ELSE v /\ w
<1>1. v \in BOOLEAN /\ w \in BOOLEAN
  OBVIOUS
<1>2. Says(Either(f, g, c), both)
  <2> HIDE DEF v, w
  <2>1. Gives(f, Truth(v)) /\ Gives(g, Truth(w))
    BY DEF Says, v, w
  <2>2. Truth(v) \in {One, {}} /\ Truth(w) \in {One, {}}
    BY DEF Truth
  <2>3. Gives(Either(f, g, c),
              IF c = 1 THEN Truth(v) \cup Truth(w) ELSE Truth(v) \cap Truth(w))
    BY <2>1, <2>2, EitherGives
  <2>4. (IF c = 1 THEN Truth(v) \cup Truth(w) ELSE Truth(v) \cap Truth(w)) = Truth(both)
    BY <1>1 DEF Truth
  <2> HIDE DEF both
  <2>. QED
    BY <2>3, <2>4 DEF Says
<1>3. Meets(r, S \cup T) <=> Meets(r, S) \/ Meets(r, T)
  BY DEF Meets
<1>4. both = (Meets(r, S \cup T) <=> (c = 1))
  <2>1. CASE c = 1
    BY <1>3, <2>1
  <2>2. CASE c = 0
    <3>1. ~(c = 1)
      BY <2>2
    <3>. QED
      BY <1>3, <3>1
  <2>. QED
    BY <2>1, <2>2
<1> HIDE DEF both
<1>. QED
  BY <1>2, <1>4

(* A conjunct is put into what was converted already.                      *)
LEMMA ChainMeets ==
  ASSUME FormsAreAll, Kept, NEW r, IsBase(r), NEW c \in {0, 1},
         NEW p \in Forms, HasTypes(p, ExistentialTypes), NEW g \in Forms, IsConverted(g)
  PROVE  Says(Forward[<<And(r, p), g, c>>], Meets(r, Sat[p] \cap Sat[g]) <=> (c = 1))
<1>1. IsBase(And(r, p)) /\ Verify[<<And(r, p), TRUE>>] = Verify[<<r, TRUE>>] \cap Sat[p]
  BY ConjunctionIs
<1>2. Says(Forward[<<And(r, p), g, c>>], Meets(And(r, p), Sat[g]) <=> (c = 1))
  BY <1>1 DEF IsConverted
<1>3. Meets(And(r, p), Sat[g]) <=> Meets(r, Sat[p] \cap Sat[g])
  BY <1>1 DEF Meets
<1>4. (Meets(And(r, p), Sat[g]) <=> (c = 1)) = (Meets(r, Sat[p] \cap Sat[g]) <=> (c = 1))
  BY <1>3
<1>. QED
  BY <1>2, <1>4

(* The forward form of every existential formula, and of its negation,     *)
(* says whether a state of the converted part satisfies it: by induction   *)
(* on the formula, two connectives at a time under a negation.             *)
LEMMA ForwardIs ==
  ASSUME FormsAreAll, Kept, NEW f \in Forms, HasTypes(f, ExistentialTypes)
  PROVE  IsConverted(f) /\ IsConverted(Not(f))
<1> DEFINE Goal(e) == IsConverted(e) /\ IsConverted(Not(e))
           T == {e \in Forms : HasTypes(e, ExistentialTypes) => Goal(e)}
<1>1. ASSUME NEW e \in Forms, \A x \in Forms : HasChild(e, x) => x \in T,
             HasTypes(e, ExistentialTypes)
      PROVE  Goal(e)
  <2> DEFINE p == e[2]
             q == e[3]
             a == Sat[e[2]]
             b == Sat[e[3]]
  <2>1. /\ e[1] \in ExistentialTypes
        /\ e[1] \notin Leaves => p \in Forms /\ HasTypes(p, ExistentialTypes) /\ HasChild(e, p)
        /\ e[1] \in Binary => q \in Forms /\ HasTypes(q, ExistentialTypes) /\ HasChild(e, q)
    BY <1>1, HasTypesIs, Children
  <2>2. /\ e[1] \notin Leaves => /\ Goal(p) /\ a \in SUBSET reachable
                                 /\ Not(p) \in Forms /\ HasTypes(Not(p), ExistentialTypes)
                                 /\ Sat[Not(p)] = reachable \ a
        /\ e[1] \in Binary => /\ Goal(q) /\ b \in SUBSET reachable
                              /\ Not(q) \in Forms /\ HasTypes(Not(q), ExistentialTypes)
                              /\ Sat[Not(q)] = reachable \ b
    BY <1>1, <2>1, SatBuilt, BuiltTypes DEF Not
  <2>3. /\ Not(e) \in Forms /\ HasTypes(Not(e), ExistentialTypes)
        /\ Sat[Not(e)] = reachable \ Sat[e] /\ Not(e)[1] = "NOT" /\ Not(e)[2] = e
    BY <1>1, SatBuilt, BuiltTypes DEF Not
  <2>4. Sat[e] = SatOf(Sat, e)
    BY SatUnfolds
  <2>5. ASSUME NEW r, IsBase(r), NEW c \in {0, 1}
        PROVE  /\ Forward[<<r, e, c>>] = ForwardOf(Forward, <<r, e, c>>)
               /\ Forward[<<r, Not(e), c>>] = ForwardOf(Forward, <<r, Not(e), c>>)
    BY <2>3, <2>5, ForwardUnfolds DEF IsBase
  <2> HIDE DEF T
  <2>6. ASSUME NEW r, IsBase(r), NEW c \in {0, 1}
        PROVE  Says(Forward[<<r, e, c>>], Meets(r, Sat[e]) <=> (c = 1))
    <3>1. CASE QuantifierFree[e]
      <4>1. Forward[<<r, e, c>>] = Cmp(And(r, e), c)
        BY <2>5, <2>6, <3>1 DEF ForwardOf
      <4>. QED
        BY <1>1, <2>6, <4>1, ConjunctionSays DEF Meets
    <3>2. CASE ~QuantifierFree[e] /\ e[1] = "EX"
      <4>1. Forward[<<r, e, c>>] = Forward[<<(<<"EY", r>>), p, c>>]
        BY <2>5, <2>6, <3>2 DEF ForwardOf
      <4>2. IsConverted(p) /\ a \in SUBSET reachable
        BY <2>2, <3>2 DEF Leaves
      <4>3. Sat[e] = {s \in reachable : After(s) \cap a # {}}
        BY <2>4, <3>2 DEF SatOf
      <4> HIDE DEF a, p
      <4>4. IsBase(<<"EY", r>>) /\ (Meets(<<"EY", r>>, a) <=> Meets(r, Sat[e]))
        <5>1. /\ IsBase(<<"EY", r>>)
              /\ \A S \in SUBSET reachable :
                    Verify[<<(<<"EY", r>>), TRUE>>] \cap S # {}
                      <=> Verify[<<r, TRUE>>] \cap {s \in reachable : After(s) \cap S # {}} # {}
          BY <2>6, NextIs
        <5>2. Meets(<<"EY", r>>, a)
                <=> Verify[<<r, TRUE>>] \cap {s \in reachable : After(s) \cap a # {}} # {}
          BY <4>2, <5>1 DEF Meets
        <5>. QED
          BY <4>3, <5>1, <5>2 DEF Meets
      <4>5. Says(Forward[<<(<<"EY", r>>), p, c>>], Meets(<<"EY", r>>, a) <=> (c = 1))
        BY <4>2, <4>4 DEF IsConverted, a, p
      <4>6. (Meets(<<"EY", r>>, a) <=> (c = 1)) = (Meets(r, Sat[e]) <=> (c = 1))
        BY <4>4
      <4>. QED
        BY <4>1, <4>5, <4>6
    <3>3. CASE ~QuantifierFree[e] /\ e[1] = "EU"
      <4> DEFINE fwd == <<"FWDU", r, p>>
      <4>1. Forward[<<r, e, c>>] = Forward[<<fwd, q, c>>]
        BY <2>5, <2>6, <3>3 DEF ForwardOf
      <4>2. /\ IsConverted(q) /\ b \in SUBSET reachable
            /\ p \in Forms /\ HasTypes(p, ExistentialTypes)
        BY <2>1, <2>2, <3>3 DEF Leaves, Binary
      <4>3. Sat[e] = Until(a, b)
        BY <2>4, <3>3 DEF SatOf
      <4>4. IsBase(fwd) /\ (Meets(fwd, b) <=> Meets(r, Sat[e]))
        <5> HIDE DEF b
        <5>. QED
          BY <2>6, <4>2, <4>3, FwdUIs DEF Meets
      <4> HIDE DEF b, q, fwd
      <4>5. Says(Forward[<<fwd, q, c>>], Meets(fwd, b) <=> (c = 1))
        BY <4>2, <4>4 DEF IsConverted, b, q
      <4>6. (Meets(fwd, b) <=> (c = 1)) = (Meets(r, Sat[e]) <=> (c = 1))
        BY <4>4
      <4>. QED
        BY <4>1, <4>5, <4>6
    <3>4. CASE ~QuantifierFree[e] /\ e[1] = "EG"
      <4>1. Forward[<<r, e, c>>] = Cmp(<<"FWDG", r, p>>, c)
        BY <2>5, <2>6, <3>4 DEF ForwardOf
      <4>2. Sat[e] = Globally(a)
        BY <2>4, <3>4 DEF SatOf
      <4>3. p \in Forms /\ HasTypes(p, ExistentialTypes)
        BY <2>1, <3>4 DEF Leaves
      <4>. QED
        BY <2>6, <4>1, <4>2, <4>3, FwdGSays DEF Meets
    <3>5. CASE e[1] = "NOT"
      <4>1. e = Not(p)
        BY <3>5, FormShape DEF Not, Leaves, Binary
      <4>2. IsConverted(Not(p))
        BY <2>2, <3>5 DEF Leaves
      <4>. QED
        BY <2>6, <4>1, <4>2 DEF IsConverted
    <3>6. CASE ~QuantifierFree[e] /\ e[1] = "AND"
      <4> DEFINE g == LastConjunct(p, q)
                 o == Other(p, q, g)
      <4>1. Forward[<<r, e, c>>] = Forward[<<And(r, o), g, c>>]
        BY <2>5, <2>6, <3>6 DEF ForwardOf, ForwardConnective
      <4>2. /\ p \in Forms /\ HasTypes(p, ExistentialTypes) /\ IsConverted(p)
            /\ q \in Forms /\ HasTypes(q, ExistentialTypes) /\ IsConverted(q)
        BY <2>1, <2>2, <3>6 DEF Leaves, Binary
      <4>3. (g = p /\ o = q) \/ (g = q /\ o = p)
        BY DEF LastConjunct, Other
      <4>4. Sat[e] = a \cap b
        BY <2>4, <3>6 DEF SatOf
      <4>5. Sat[o] \cap Sat[g] = Sat[e]
        BY <4>3, <4>4
      <4>6. o \in Forms /\ HasTypes(o, ExistentialTypes) /\ g \in Forms /\ IsConverted(g)
        BY <4>2, <4>3
      <4> HIDE DEF g, o
      <4>7. Says(Forward[<<And(r, o), g, c>>], Meets(r, Sat[o] \cap Sat[g]) <=> (c = 1))
        BY <2>6, <4>6, ChainMeets
      <4>. QED
        BY <4>1, <4>5, <4>7
    <3>7. CASE ~QuantifierFree[e] /\ e[1] = "OR"
      <4>1. Forward[<<r, e, c>>] = Either(Forward[<<r, p, c>>], Forward[<<r, q, c>>], c)
        BY <2>5, <2>6, <3>7 DEF ForwardOf, ForwardConnective
      <4>2. IsConverted(p) /\ IsConverted(q)
        BY <2>2, <3>7 DEF Leaves, Binary
      <4>3. Sat[e] = a \cup b
        BY <2>4, <3>7 DEF SatOf
      <4>4. /\ Says(Forward[<<r, p, c>>], Meets(r, a) <=> (c = 1))
            /\ Says(Forward[<<r, q, c>>], Meets(r, b) <=> (c = 1))
        BY <2>6, <4>2 DEF IsConverted
      <4> HIDE DEF a, b, p, q
      <4>. QED
        BY <4>1, <4>3, <4>4, EitherMeets
    <3>8. CASE ~QuantifierFree[e] /\ e[1] = "THEN"
      <4>1. Forward[<<r, e, c>>] = Either(Forward[<<r, Not(p), c>>], Forward[<<r, q, c>>], c)
        BY <2>5, <2>6, <3>8 DEF ForwardOf, ForwardConnective
      <4>2. IsConverted(Not(p)) /\ IsConverted(q) /\ Sat[Not(p)] = reachable \ a
        BY <2>2, <3>8 DEF Leaves, Binary
      <4>3. Sat[e] = (reachable \ a) \cup b
        BY <2>4, <3>8 DEF SatOf
      <4>4. /\ Says(Forward[<<r, Not(p), c>>], Meets(r, Sat[Not(p)]) <=> (c = 1))
            /\ Says(Forward[<<r, q, c>>], Meets(r, b) <=> (c = 1))
        BY <2>6, <4>2 DEF IsConverted
      <4> HIDE DEF a, b, p, q
      <4>5. Says(Either(Forward[<<r, Not(p), c>>], Forward[<<r, q, c>>], c),
                 Meets(r, Sat[Not(p)] \cup b) <=> (c = 1))
        BY <4>4, EitherMeets
      <4>. QED
        BY <4>1, <4>2, <4>3, <4>5
    <3>9. e[1] \in {"ID", "TRUE", "FALSE"} => QuantifierFree[e]
      BY QuantifierFreeUnfolds DEF QuantifierFreeIs
    <3>. QED
      BY <2>1, <3>1, <3>2, <3>3, <3>4, <3>5, <3>6, <3>7, <3>8, <3>9 DEF ExistentialTypes
  <2>7. ASSUME NEW r, IsBase(r), NEW c \in {0, 1}
        PROVE  Says(Forward[<<r, Not(e), c>>], Meets(r, Sat[Not(e)]) <=> (c = 1))
    <3>0. Says(Cmp(And(r, Not(e)), c), Meets(r, Sat[Not(e)]) <=> (c = 1))
      BY <2>3, <2>7, ConjunctionSays DEF Meets
    <3>1. CASE QuantifierFree[Not(e)]
      <4>1. Forward[<<r, Not(e), c>>] = Cmp(And(r, Not(e)), c)
        BY <2>5, <2>7, <3>1 DEF ForwardOf
      <4>. QED
        BY <3>0, <4>1
    <3>2. CASE ~QuantifierFree[Not(e)]
      <4>0. Forward[<<r, Not(e), c>>] = ForwardNegation(Forward, r, e, c)
        BY <2>3, <2>5, <2>7, <3>2 DEF ForwardOf
      <4>1. CASE e[1] = "NOT"
        <5>1. Forward[<<r, Not(e), c>>] = Forward[<<r, p, c>>]
          BY <4>0, <4>1 DEF ForwardNegation
        <5>2. IsConverted(p) /\ a \in SUBSET reachable
          BY <2>2, <4>1 DEF Leaves
        <5>3. Sat[e] = reachable \ a
          BY <2>4, <4>1 DEF SatOf
        <5>4. Sat[Not(e)] = a
          BY <2>3, <5>2, <5>3
        <5>. QED
          BY <2>7, <5>1, <5>2, <5>4 DEF IsConverted
      <4>2. CASE e[1] = "AND"
        <5>1. Forward[<<r, Not(e), c>>]
                = Either(Forward[<<r, Not(p), c>>], Forward[<<r, Not(q), c>>], c)
          BY <4>0, <4>2 DEF ForwardNegation
        <5>2. /\ IsConverted(Not(p)) /\ Sat[Not(p)] = reachable \ a
              /\ IsConverted(Not(q)) /\ Sat[Not(q)] = reachable \ b
          BY <2>2, <4>2 DEF Leaves, Binary
        <5>3. Sat[e] = a \cap b
          BY <2>4, <4>2 DEF SatOf
        <5>4. Sat[Not(e)] = Sat[Not(p)] \cup Sat[Not(q)]
          BY <2>3, <5>2, <5>3
        <5>5. /\ Says(Forward[<<r, Not(p), c>>], Meets(r, Sat[Not(p)]) <=> (c = 1))
              /\ Says(Forward[<<r, Not(q), c>>], Meets(r, Sat[Not(q)]) <=> (c = 1))
          BY <2>7, <5>2 DEF IsConverted
        <5> HIDE DEF a, b, p, q
        <5>6. Says(Either(Forward[<<r, Not(p), c>>], Forward[<<r, Not(q), c>>], c),
                   Meets(r, Sat[Not(p)] \cup Sat[Not(q)]) <=> (c = 1))
          BY <5>5, EitherMeets
        <5>. QED
          BY <5>1, <5>4, <5>6
      <4>3. CASE e[1] = "OR"
        <5> DEFINE g == LastOfNor(p, q)
                   o == Other(p, q, g)
        <5>1. Forward[<<r, Not(e), c>>] = Forward[<<And(r, Not(o)), Not(g), c>>]
          BY <4>0, <4>3 DEF ForwardNegation
        <5>2. /\ Not(p) \in Forms /\ HasTypes(Not(p), ExistentialTypes) /\ IsConverted(Not(p))
              /\ Not(q) \in Forms /\ HasTypes(Not(q), ExistentialTypes) /\ IsConverted(Not(q))
              /\ Sat[Not(p)] = reachable \ a /\ Sat[Not(q)] = reachable \ b
          BY <2>2, <4>3 DEF Leaves, Binary
        <5>3. (g = p /\ o = q) \/ (g = q /\ o = p)
          BY DEF LastOfNor, Other
        <5>4. Sat[e] = a \cup b
          BY <2>4, <4>3 DEF SatOf
        <5>5. Sat[Not(o)] \cap Sat[Not(g)] = Sat[Not(e)]
          BY <2>3, <5>2, <5>3, <5>4
        <5>6. /\ Not(o) \in Forms /\ HasTypes(Not(o), ExistentialTypes)
              /\ Not(g) \in Forms /\ IsConverted(Not(g))
          BY <5>2, <5>3
        <5> HIDE DEF g, o
        <5>7. Says(Forward[<<And(r, Not(o)), Not(g), c>>],
                   Meets(r, Sat[Not(o)] \cap Sat[Not(g)]) <=> (c = 1))
          BY <2>7, <5>6, ChainMeets
        <5>. QED
          BY <5>1, <5>5, <5>7
      <4>4. CASE e[1] = "THEN"
        <5>1. Forward[<<r, Not(e), c>>] = IF EndsWithNotQ(p, q)
                THEN Forward[<<And(r, p), Not(q), c>>] ELSE Forward[<<And(r, Not(q)), p, c>>]
          BY <4>0, <4>4 DEF ForwardNegation
        <5>2. /\ p \in Forms /\ HasTypes(p, ExistentialTypes) /\ IsConverted(p)
              /\ Not(q) \in Forms /\ HasTypes(Not(q), ExistentialTypes) /\ IsConverted(Not(q))
              /\ a \in SUBSET reachable /\ Sat[Not(q)] = reachable \ b
          BY <2>1, <2>2, <4>4 DEF Leaves, Binary
        <5>3. Sat[e] = (reachable \ a) \cup b
          BY <2>4, <4>4 DEF SatOf
        <5>4. Sat[Not(e)] = a \cap Sat[Not(q)] /\ Sat[Not(e)] = Sat[Not(q)] \cap a
          BY <2>3, <5>2, <5>3
        <5>5. Says(Forward[<<And(r, p), Not(q), c>>], Meets(r, Sat[Not(e)]) <=> (c = 1))
          <6>1. Says(Forward[<<And(r, p), Not(q), c>>],
                     Meets(r, a \cap Sat[Not(q)]) <=> (c = 1))
            BY <2>7, <5>2, ChainMeets
          <6>. QED
            BY <5>4, <6>1
        <5>6. Says(Forward[<<And(r, Not(q)), p, c>>], Meets(r, Sat[Not(e)]) <=> (c = 1))
          <6>1. Says(Forward[<<And(r, Not(q)), p, c>>],
                     Meets(r, Sat[Not(q)] \cap a) <=> (c = 1))
            BY <2>7, <5>2, ChainMeets
          <6>. QED
            BY <5>4, <6>1
        <5>. QED
          BY <5>1, <5>5, <5>6
      <4>5. CASE e[1] \notin {"NOT", "AND", "OR", "THEN"}
        <5>1. Forward[<<r, Not(e), c>>] = Cmp(And(r, Not(e)), c)
          BY <4>0, <4>5 DEF ForwardNegation
        <5>. QED
          BY <3>0, <5>1
      <4>. QED
        BY <4>1, <4>2, <4>3, <4>4, <4>5
    <3>. QED
      BY <3>1, <3>2
  <2>8. IsConverted(e)
    BY <2>6 DEF IsConverted
  <2>9. IsConverted(Not(e))
    BY <2>7 DEF IsConverted
  <2>. QED
    BY <2>8, <2>9
<1>2. T = Forms
  <2>1. T \in SUBSET Forms
    OBVIOUS
  <2>2. \A e \in Forms : e \in T <=> (HasTypes(e, ExistentialTypes) => Goal(e))
    OBVIOUS
  <2> HIDE DEF T
  <2>. QED
    BY <1>1, <2>1, <2>2, FormInduction
<1>. QED
  BY <1>2

(***************************************************************************)
(* What ComputeReachable keeps.                                            *)
(***************************************************************************)
IsAsked == model \in Models /\ cmd \in Commands(model)

Computed ==
  /\ reachable = Fixpoint(NextRel(trans), InitialStates)
  /\ next = CheckerNext
  /\ predRel_ = CheckerPred(next, reachable)
  /\ deadlocks_ = Deadlocks(next, reachable)
  /\ scc_ = HasSCCs(next, reachable)

(* The parts of a model are relations and states.                          *)
LEMMA ModelTyped ==
  ASSUME IsAsked
  PROVE  /\ trans \in Systems /\ NextRel(trans) \in Relations
         /\ Locals \in Relations /\ Elapse \in Relations
         /\ InitialStates \in SUBSET States /\ InitialStates # {}
         /\ model.timed => Elapse \subseteq NextRel(trans)
         /\ Locals \subseteq NextRel(trans)
         /\ NextRel(trans) \subseteq Locals \cup Elapse
<1>1. /\ trans \in Systems /\ model.timed \in BOOLEAN
      /\ model.timed => NbTrans > 0
      /\ InitialStates \in SUBSET States /\ InitialStates # {}
  BY ModelsAreTyped DEF IsAsked, trans, InitialStates
<1>2. NextRel(trans) \in Relations
  BY <1>1, SumTyped DEF NextRel
<1>3. Locals \in Relations
  <2>1. CASE model.timed
    BY <1>1, <2>1, SumTyped DEF Locals
  <2>2. CASE ~model.timed
    BY <1>1, <2>2, SumTyped DEF Locals
  <2>. QED
    BY <2>1, <2>2
<1>4. model.timed => 1 \in Names
  BY <1>1, NbTransIsNat DEF Names
<1>5. Elapse \in Relations
  BY <1>1, <1>4 DEF Elapse, Systems, Relations
<1>6. model.timed => Elapse \subseteq NextRel(trans)
  BY <1>4 DEF Elapse, NextRel
<1>7. Locals \subseteq NextRel(trans)
  BY DEF Locals, NextRel
<1>8. NextRel(trans) \subseteq Locals \cup Elapse
  <2>1. CASE model.timed
    <3> SUFFICES ASSUME NEW n \in Names, NEW e \in trans[n]
                 PROVE  e \in Locals \cup Elapse
      BY DEF NextRel
    <3>. QED
      BY <2>1 DEF Locals, Elapse
  <2>2. CASE ~model.timed
    BY <2>2 DEF Locals, NextRel
  <2>. QED
    BY <2>1, <2>2
<1>. QED
  BY <1>1, <1>2, <1>3, <1>5, <1>6, <1>7, <1>8

(* Elapsing stays among the states that are closed under the transitions.  *)
LEMMA ElapseStays ==
  ASSUME IsAsked, NEW R \in SUBSET States, Closed(NextRel(trans), R),
         NEW S, S \subseteq R
  PROVE  ElapseFrom(S) \subseteq R
<1>1. Closed(Elapse, R)
  <2>1. CASE model.timed
    BY <2>1, ModelTyped DEF Closed, Post
  <2>2. CASE ~model.timed
    BY <2>2 DEF Closed, Post, Elapse
  <2>. QED
    BY <2>1, <2>2
<1>. QED
  BY <1>1, FixpointLeast DEF ElapseFrom

(* With --fair-time the states are still all reached.                      *)
LEMMA FairReachesAll ==
  ASSUME IsAsked, NEW S \in SUBSET States, NEW nxt,
         nxt = {e \in States \X States : e[2] \in ElapseFrom(Post(Locals, {e[1]}))},
         ElapseFrom(InitialStates) \subseteq S, Closed(nxt, S)
  PROVE  Fixpoint(NextRel(trans), InitialStates) \subseteq S
<1> DEFINE Y == {s \in S : ElapseFrom({s}) \subseteq S}
<1>0. \A X \in SUBSET States : X \subseteq ElapseFrom(X)
  BY FixpointContains DEF ElapseFrom
<1>1. InitialStates \subseteq Y
  <2> SUFFICES ASSUME NEW s \in InitialStates
               PROVE  s \in Y
    OBVIOUS
  <2>1. {s} \subseteq ElapseFrom(InitialStates)
    BY <1>0, ModelTyped
  <2>2. ElapseFrom({s}) \subseteq ElapseFrom(InitialStates)
    BY <2>1, FixpointWithin DEF ElapseFrom
  <2>. QED
    BY <2>1, <2>2
<1>2. Closed(NextRel(trans), Y)
  <2> SUFFICES ASSUME NEW s \in Y, NEW t \in States, <<s, t>> \in NextRel(trans)
               PROVE  t \in Y
    BY DEF Closed, Post
  <2>0. {s} \in SUBSET States /\ ElapseFrom({s}) \subseteq S
    OBVIOUS
  <2>1. CASE <<s, t>> \in Elapse
    <3>1. t \in ElapseFrom({s})
      <4>1. Closed(Elapse, ElapseFrom({s})) /\ s \in ElapseFrom({s})
        BY <1>0, <2>0, FixpointClosed DEF ElapseFrom
      <4>. QED
        BY <2>1, <4>1 DEF Closed, Post
    <3>2. ElapseFrom({t}) \subseteq ElapseFrom({s})
      BY <3>1, FixpointWithin DEF ElapseFrom
    <3>. QED
      BY <2>0, <3>1, <3>2
  <2>2. CASE <<s, t>> \in Locals
    <3>1. Post(Locals, {s}) \in SUBSET States /\ t \in Post(Locals, {s})
      BY <2>2 DEF Post
    <3>2. {t} \subseteq ElapseFrom(Post(Locals, {s}))
      BY <1>0, <3>1
    <3>3. ElapseFrom({t}) \subseteq ElapseFrom(Post(Locals, {s}))
      BY <3>2, FixpointWithin DEF ElapseFrom
    <3>4. ElapseFrom(Post(Locals, {s})) \in SUBSET States
      BY FixpointTyped DEF ElapseFrom
    <3>5. ElapseFrom(Post(Locals, {s})) \subseteq S
      <4> SUFFICES ASSUME NEW u \in ElapseFrom(Post(Locals, {s}))
                   PROVE  u \in S
        OBVIOUS
      <4>1. <<s, u>> \in nxt
        BY <3>4
      <4>. QED
        BY <3>4, <4>1 DEF Closed, Post
    <3>. QED
      BY <3>2, <3>3, <3>5
  <2>. QED
    BY <2>1, <2>2, ModelTyped
<1> HIDE DEF Y
<1>3. Y \in SUBSET States /\ Y \subseteq S
  BY DEF Y
<1>. QED
  BY <1>1, <1>2, <1>3, FixpointLeast

(* Deadlocks, for any relation.                                            *)
LEMMA DeadlocksAre ==
  ASSUME NEW rel \in Relations, NEW R \in SUBSET States, Closed(rel, R)
  PROVE  Deadlocks(rel, R) = {s \in R : Post(rel, {s}) = {}}
<1>1. Post(Invert(rel, States), R) = Pre(rel, R)
  <2>1. Post(Invert(rel, States), R) = Pre(rel, R) \cap States
    BY PostInvert
  <2>. QED
    BY <2>1 DEF Pre
<1>2. ASSUME NEW s \in R
      PROVE  s \in Pre(rel, R) <=> Post(rel, {s}) # {}
  BY DEF Pre, Post, Closed
<1>. QED
  BY <1>1, <1>2 DEF Deadlocks

(* All that the checker keeps is what Kept says of it.                     *)
LEMMA ComputedIsKept ==
  ASSUME IsAsked, Computed
  PROVE  Kept
<1> DEFINE R == NextRel(trans)
<1>0. /\ reachable \in SUBSET States /\ Closed(R, reachable)
      /\ InitialStates \subseteq reachable
  BY FixpointTyped, FixpointClosed, FixpointContains, ModelTyped DEF Computed
<1>1. next \in Relations
  BY ModelTyped DEF Computed, CheckerNext, Relations
<1>2. InitialState \in SUBSET reachable /\ InitialState # {}
  <2>1. InitialStates \subseteq ElapseFrom(InitialStates)
    BY ModelTyped, FixpointContains DEF ElapseFrom
  <2>2. ElapseFrom(InitialStates) \subseteq reachable
    BY <1>0, ElapseStays
  <2>. QED
    BY <1>0, <2>1, <2>2, ModelTyped DEF InitialState
<1>3. Closed(next, reachable)
  <2>1. CASE cmd.fair
    <3> SUFFICES ASSUME NEW s \in reachable, NEW t \in States, <<s, t>> \in next
                 PROVE  t \in reachable
      BY DEF Closed, Post
    <3>1. t \in ElapseFrom(Post(Locals, {s}))
      BY <2>1 DEF Computed, CheckerNext
    <3>2. Post(Locals, {s}) \subseteq reachable
      BY <1>0, ModelTyped DEF Closed, Post
    <3>3. ElapseFrom(Post(Locals, {s})) \subseteq reachable
      BY <1>0, <3>2, ElapseStays
    <3>. QED
      BY <3>1, <3>3
  <2>2. CASE ~cmd.fair
    BY <1>0, <2>2 DEF Computed, CheckerNext
  <2>. QED
    BY <2>1, <2>2
<1>4. ASSUME NEW S \in SUBSET States, InitialState \subseteq S, Closed(next, S)
      PROVE  reachable \subseteq S
  <2>1. CASE cmd.fair
    <3>1. next = {e \in States \X States : e[2] \in ElapseFrom(Post(Locals, {e[1]}))}
      BY <2>1 DEF Computed, CheckerNext
    <3>2. ElapseFrom(InitialStates) \subseteq S
      BY <1>4, <2>1 DEF InitialState
    <3>3. Fixpoint(R, InitialStates) \subseteq S
      BY <1>4, <3>1, <3>2, FairReachesAll
    <3>. QED
      BY <3>3 DEF Computed
  <2>2. CASE ~cmd.fair
    <3>1. InitialStates \subseteq S /\ Closed(R, S)
      BY <1>4, <2>2 DEF InitialState, Computed, CheckerNext
    <3>. QED
      BY <3>1, FixpointLeast DEF Computed
  <2>. QED
    BY <2>1, <2>2
<1>5. ASSUME NEW S \in SUBSET reachable
      PROVE  Post(predRel_, S) = Pre(next, S) \cap reachable
  <2>1. CASE cmd.fair
    <3> DEFINE inv == Invert(next, States)
    <3>0. S \in SUBSET States
      BY <1>0
    <3>1. Post(inv, S) = Pre(next, S)
      <4>1. Post(inv, S) = Pre(next, S) \cap States
        BY <1>1, <3>0, PostInvert
      <4>. QED
        BY <4>1 DEF Pre
    <3>2. inv \in Relations
      BY <1>1, InvertTyped
    <3>3. predRel_ = IF Post(inv, reachable) \subseteq reachable THEN inv ELSE Within(inv, reachable)
      BY <2>1 DEF Computed, CheckerPred
    <3>4. Post(inv, S) \subseteq Post(inv, reachable)
      BY DEF Post
    <3>5. Post(Within(inv, reachable), S) = Post(inv, S) \cap reachable
      BY <1>0, <3>0, <3>2, PostWithin
    <3> HIDE DEF inv
    <3>. QED
      BY <3>1, <3>3, <3>4, <3>5
  <2>2. CASE ~cmd.fair
    <3>1. predRel_ = PredRel(trans, reachable, States) /\ next = NextRel(trans)
      BY <2>2 DEF Computed, CheckerPred, CheckerNext
    <3>2. Post(PredRel(trans, reachable, States), S) = Pre(NextRel(trans), S) \cap reachable
      BY <1>0, ModelTyped, PredRelExact
    <3>. QED
      BY <3>1, <3>2
  <2>. QED
    BY <2>1, <2>2
<1>6. deadlocks_ = {s \in reachable : After(s) = {}}
  BY <1>0, <1>1, <1>3, DeadlocksAre DEF Computed, After
<1>7. scc_ <=> \E X \in SUBSET reachable : X # {} /\ X \subseteq Post(next, X)
  BY DEF Computed, HasSCCs, GreatestFixpoint
<1> HIDE DEF R
<1>. QED
  BY <1>0, <1>1, <1>2, <1>3, <1>4, <1>5, <1>6, <1>7 DEF Kept

(***************************************************************************)
(* The answers.                                                            *)
(***************************************************************************)
LEMMA SaysVerdict ==
  ASSUME NEW f, NEW b, Says(f, b)
  PROVE  Verdict(f) <=> b
<1>1. Inexact(f) = Truth(b)
  BY DEF Says, Gives, Inexact
<1>2. CASE b
  BY <1>1, <1>2 DEF Verdict, Truth
<1>3. CASE ~b
  BY <1>1, <1>3, OneIsNotZero DEF Verdict, Truth
<1>. QED
  BY <1>2, <1>3

(* The backward form says whether some initial state satisfies the formula. *)
LEMMA BackwardVerdict ==
  ASSUME FormsAreAll, Kept, NEW f \in Forms, IsParsed(f)
  PROVE  Verdict(BackwardFormula(f)) <=> InitialState \cap Sat[f] # {}
<1>1. /\ Existential[f] \in Forms /\ HasTypes(Existential[f], ExistentialTypes)
      /\ Sat[Existential[f]] = Sat[f]
  BY ExistentialIs, SatExistential
<1>2. IsBase(Start) /\ Verify[<<Start, TRUE>>] = InitialState
  BY StartIsBase
<1>3. Says(Cmp(And(Start, Existential[f]), 1),
           (Verify[<<Start, TRUE>>] \cap Sat[Existential[f]] # {}) <=> (1 = 1))
  BY <1>1, <1>2, ConjunctionSays
<1>4. Says(BackwardFormula(f), (InitialState \cap Sat[f] # {}) <=> (1 = 1))
  BY <1>1, <1>2, <1>3 DEF BackwardFormula
<1>5. Verdict(BackwardFormula(f)) <=> ((InitialState \cap Sat[f] # {}) <=> (1 = 1))
  BY <1>4, SaysVerdict
<1>. QED
  BY <1>5

(* The forward form says whether some initial state satisfies the formula, *)
(* or whether all do.                                                      *)
LEMMA ForwardVerdict ==
  ASSUME FormsAreAll, Kept, NEW f \in Forms, IsParsed(f)
  PROVE  \/ Verdict(ForwardFormula(f)) <=> InitialState \cap Sat[f] # {}
         \/ Verdict(ForwardFormula(f)) <=> InitialState \subseteq Sat[f]
<1> DEFINE e == Existential[f]
           c == CompareValue(e)
           g == IF c = 0 THEN Not(e) ELSE e
<1>1. e \in Forms /\ HasTypes(e, ExistentialTypes) /\ Sat[e] = Sat[f]
  BY ExistentialIs, SatExistential
<1>2. IsBase(Start) /\ Verify[<<Start, TRUE>>] = InitialState
  BY StartIsBase
<1>3. c \in {0, 1}
  BY DEF CompareValue
<1>4. ForwardFormula(f) = Forward[<<Start, g, c>>]
  BY DEF ForwardFormula
<1>5. IsConverted(e) /\ IsConverted(Not(e))
  BY <1>1, ForwardIs
<1>6. Sat[Not(e)] = reachable \ Sat[f]
  BY <1>1, SatBuilt
<1> HIDE DEF e, c
<1>7. CASE c = 1
  <2>1. Says(Forward[<<Start, e, 1>>], Meets(Start, Sat[e]) <=> (1 = 1))
    BY <1>2, <1>5 DEF IsConverted
  <2>2. ForwardFormula(f) = Forward[<<Start, e, 1>>]
    BY <1>4, <1>7
  <2>3. Verdict(Forward[<<Start, e, 1>>]) <=> (Meets(Start, Sat[e]) <=> (1 = 1))
    BY <2>1, SaysVerdict
  <2>. QED
    BY <1>1, <1>2, <2>2, <2>3 DEF Meets
<1>8. CASE c = 0
  <2>1. Says(Forward[<<Start, Not(e), 0>>], Meets(Start, Sat[Not(e)]) <=> (0 = 1))
    BY <1>2, <1>5 DEF IsConverted
  <2>2. ForwardFormula(f) = Forward[<<Start, Not(e), 0>>]
    BY <1>4, <1>8
  <2>3. Verdict(Forward[<<Start, Not(e), 0>>]) <=> (Meets(Start, Sat[Not(e)]) <=> (0 = 1))
    BY <2>1, SaysVerdict
  <2>4. InitialState \subseteq reachable
    BY DEF Kept
  <2>. QED
    BY <1>2, <1>6, <2>2, <2>3, <2>4 DEF Meets
<1>. QED
  BY <1>3, <1>7, <1>8

IsCorrect(f, verdict) ==
  IF InitialState \subseteq Sat[f] THEN verdict ELSE InitialState \cap Sat[f] = {} => ~verdict

(* Both verdicts are the ones the reference semantics gives.               *)
LEMMA VerdictsAreCorrect ==
  ASSUME FormsAreAll, Kept, NEW f \in Forms, IsParsed(f)
  PROVE  /\ IsCorrect(f, Verdict(BackwardFormula(f)))
         /\ IsCorrect(f, Verdict(ForwardFormula(f)))
<1>1. InitialState # {}
  BY DEF Kept
<1>2. Verdict(BackwardFormula(f)) <=> InitialState \cap Sat[f] # {}
  BY BackwardVerdict
<1>3. \/ Verdict(ForwardFormula(f)) <=> InitialState \cap Sat[f] # {}
      \/ Verdict(ForwardFormula(f)) <=> InitialState \subseteq Sat[f]
  BY ForwardVerdict
<1>. QED
  BY <1>1, <1>2, <1>3 DEF IsCorrect

(* The exact states, for all the subformulas of a parsed formula.          *)
LEMMA SubformulasAreFound ==
  ASSUME FormsAreAll, Kept, NEW f \in Forms, IsParsed(f),
         NEW g \in Subformulas[Existential[f]]
  PROVE  IsFound(g)
<1>1. Existential[f] \in Forms /\ HasTypes(Existential[f], ExistentialTypes)
  BY ExistentialIs
<1>2. g \in Forms /\ Subformulas[g] \subseteq Subformulas[Existential[f]]
  BY <1>1, SubformulasTransitive
<1>3. HasTypes(g, ExistentialTypes)
  BY <1>1, <1>2 DEF HasTypes
<1>. QED
  BY <1>2, <1>3, VerifyIs

(***************************************************************************)
(* The states of its-ctl.                                                  *)
(***************************************************************************)
Timelocks ==
  IF model.timed THEN GreatestFixpoint(Elapse, reachable) \cap Deadlocks(Locals, reachable)
  ELSE {}

Printed ==
  CASE cmd.ask = "deadlock" -> deadlocks_
    [] cmd.ask = "timelock" -> Timelocks
    [] OTHER -> {}

Nothing == <<{}, {}, {}, {}, FALSE>>

InvAsked ==
  /\ IsAsked
  /\ pc \in {"start", "formulas", "forward", "deadlock", "timelock", "done"}
  /\ pc \notin {"start", "done"} => cmd.ask = IF pc = "forward" THEN "formulas" ELSE pc
  /\ index \in 1 .. Len(cmd.formulas) + 1
  /\ pc = "forward" => index <= Len(cmd.formulas)

InvKept == IF pc = "start" THEN kept = Nothing /\ answers = {} ELSE Computed

InvDead == dead = IF pc = "done" THEN Printed ELSE {}

(* The formulas of the answers are among those that were parsed.           *)
InvAnswers ==
  \A a \in answers : a.formula \in Forms /\ IsParsed(a.formula) /\ IsCorrect(a.formula, a.holds)

Inv == InvAsked /\ InvKept /\ InvDead /\ InvAnswers

(* Nothing that is computed from what is kept changes when that does not.  *)
LEMMA KeptStays ==
  ASSUME UNCHANGED <<model, cmd, kept>>
  PROVE  /\ IsAsked' = IsAsked /\ Computed' = Computed /\ Printed' = Printed
         /\ InitialState' = InitialState /\ Sat' = Sat
<1>0. /\ model' = model /\ cmd' = cmd /\ reachable' = reachable /\ next' = next
      /\ predRel_' = predRel_ /\ deadlocks_' = deadlocks_ /\ scc_' = scc_
  BY DEF kept
<1>1. IsAsked' = IsAsked
  BY <1>0 DEF IsAsked
<1>2. /\ trans' = trans /\ InitialStates' = InitialStates /\ Elapse' = Elapse /\ Locals' = Locals
  BY <1>0 DEF trans, InitialStates, Elapse, Locals
<1>3. CheckerNext' = CheckerNext /\ InitialState' = InitialState
  BY <1>0, <1>2 DEF CheckerNext, InitialState, ElapseFrom
<1>4. CheckerPred(next, reachable)' = CheckerPred(next, reachable)
  BY <1>0, <1>2 DEF CheckerPred
<1>5. Computed' = Computed
  BY <1>0, <1>2, <1>3, <1>4 DEF Computed
<1>6. Printed' = Printed
  BY <1>0, <1>2 DEF Printed, Timelocks
<1>7. Sat' = Sat
  BY <1>0 DEF Sat, Until, AlwaysUntil, Globally, After, Bound
<1>. QED
  BY <1>1, <1>3, <1>5, <1>6, <1>7

(* The formulas of a command line are parsed ones.                         *)
LEMMA CommandTyped ==
  ASSUME IsAsked
  PROVE  /\ cmd.ask \in {"formulas", "deadlock", "timelock"}
         /\ cmd.formulas \in Seq(Forms) /\ Len(cmd.formulas) \in Nat
         /\ \A i \in 1 .. Len(cmd.formulas) : /\ cmd.formulas[i] \in Forms
                                              /\ IsParsed(cmd.formulas[i])
BY CommandsAreTyped DEF IsAsked

(* The invariant holds when the program starts.                            *)
LEMMA InitInv ==
  ASSUME Init
  PROVE  Inv
<1>1. InvAsked
  <2>1. IsAsked
    BY DEF Init, IsAsked
  <2>2. Len(cmd.formulas) \in Nat
    BY <2>1, CommandTyped
  <2>. QED
    BY <2>1, <2>2 DEF Init, InvAsked
<1>2. InvKept
  BY DEF Init, InvKept, kept, Nothing
<1>3. InvDead
  BY DEF Init, InvDead
<1>4. InvAnswers
  BY DEF Init, InvAnswers
<1>. QED
  BY <1>1, <1>2, <1>3, <1>4 DEF Inv

(* An answer for the current formula.                                      *)
LEMMA AnswerStays ==
  ASSUME FormsAreAll, IsAsked, Computed, InvAnswers, UNCHANGED <<model, cmd, kept>>,
         index \in 1 .. Len(cmd.formulas), NEW direction, NEW form,
         \/ form = BackwardFormula(cmd.formulas[index])
         \/ form = ForwardFormula(cmd.formulas[index]),
         Answer(direction, form)
  PROVE  InvAnswers'
<1> DEFINE f == cmd.formulas[index]
<1>1. f \in Forms /\ IsParsed(f)
  BY CommandTyped
<1>2. IsCorrect(f, Verdict(form))
  BY <1>1, ComputedIsKept, VerdictsAreCorrect
<1>3. \A g, v : IsCorrect(g, v)' <=> IsCorrect(g, v)
  BY KeptStays DEF IsCorrect
<1> SUFFICES ASSUME NEW a \in answers'
             PROVE  a.formula \in Forms /\ IsParsed(a.formula) /\ IsCorrect(a.formula, a.holds)
  BY <1>3 DEF InvAnswers
<1>4. CASE a \in answers
  BY <1>4 DEF InvAnswers
<1>5. CASE a = [formula |-> f, direction |-> direction, holds |-> Verdict(form)]
  <2>1. a.formula = f /\ a.holds = Verdict(form)
    BY <1>5
  <2>. QED
    BY <1>1, <1>2, <2>1
<1>. QED
  BY <1>4, <1>5 DEF Answer

(* The answers that were given stay right.                                 *)
LEMMA AnswersStay ==
  ASSUME InvAnswers, UNCHANGED <<model, cmd, kept, answers>>
  PROVE  InvAnswers'
BY KeptStays DEF InvAnswers, IsCorrect

(* Every action preserves the invariant.                                   *)
LEMMA NextInv ==
  ASSUME FormsAreAll, Inv, [Next]_vars
  PROVE  Inv'
<1> USE DEF Inv
<1>0. /\ cmd.ask \in {"formulas", "deadlock", "timelock"}
      /\ cmd.formulas \in Seq(Forms) /\ Len(cmd.formulas) \in Nat
  BY CommandTyped DEF InvAsked
<1>1. CASE ComputeReachable
  <2>0. pc = "start" /\ pc' = cmd.ask /\ answers = {} /\ dead = {}
    BY <1>1 DEF ComputeReachable, InvKept, InvDead
  <2>1. UNCHANGED <<model, cmd>> /\ UNCHANGED <<index, answers, dead>>
    BY <1>1 DEF ComputeReachable
  <2>2. InvAsked'
    BY <1>0, <2>0, <2>1 DEF InvAsked, IsAsked
  <2>3. Computed'
    <3>1. /\ trans' = trans /\ InitialStates' = InitialStates /\ Elapse' = Elapse
          /\ Locals' = Locals
      BY <2>1 DEF trans, InitialStates, Elapse, Locals
    <3>2. CheckerNext' = CheckerNext
      BY <2>1, <3>1 DEF CheckerNext, ElapseFrom
    <3>3. CheckerPred(next, reachable)' = CheckerPred(next', reachable')
      BY <2>1, <3>1 DEF CheckerPred
    <3>. QED
      BY <1>1, <3>1, <3>2, <3>3 DEF ComputeReachable, Computed
  <2>4. InvKept' /\ InvDead' /\ InvAnswers'
    BY <1>0, <2>0, <2>1, <2>3 DEF InvKept, InvDead, InvAnswers
  <2>. QED
    BY <2>2, <2>4
<1>2. ASSUME CheckBackward \/ SkipBackward \/ CheckForward
      PROVE  Inv'
  <2>0. /\ pc \in {"formulas", "forward"} /\ pc' \in {"formulas", "forward"}
        /\ UNCHANGED <<model, cmd, kept>> /\ dead' = dead
    BY <1>2 DEF CheckBackward, SkipBackward, CheckForward
  <2>1. index \in 1 .. Len(cmd.formulas)
    BY <1>0, <1>2 DEF CheckBackward, SkipBackward, CheckForward, InvAsked
  <2>2. InvAsked'
    <3>1. IsAsked' /\ cmd' = cmd
      BY <2>0, KeptStays DEF InvAsked
    <3>2. \/ index' = index /\ pc' = "forward"
          \/ index' = index + 1 /\ pc' = "formulas"
      BY <1>2 DEF CheckBackward, SkipBackward, CheckForward
    <3>. QED
      BY <1>0, <2>0, <2>1, <3>1, <3>2 DEF InvAsked
  <2>3. InvKept' /\ InvDead'
    BY <2>0, KeptStays DEF InvKept, InvDead
  <2>4. IsAsked /\ Computed
    BY <2>0 DEF InvAsked, InvKept
  <2>5. InvAnswers'
    <3>1. CASE answers' = answers
      BY <2>0, <3>1, AnswersStay
    <3>2. CASE Answer("backward", BackwardFormula(cmd.formulas[index]))
      BY <2>0, <2>1, <2>4, <3>2, AnswerStays
    <3>3. CASE Answer("forward", ForwardFormula(cmd.formulas[index]))
      BY <2>0, <2>1, <2>4, <3>3, AnswerStays
    <3>. QED
      BY <1>2, <3>1, <3>2, <3>3 DEF CheckBackward, SkipBackward, CheckForward
  <2>. QED
    BY <2>2, <2>3, <2>5
<1>3. ASSUME FindDeadlocks \/ FindTimelocks \/ Exit
      PROVE  Inv'
  <2>0. /\ pc \in {"deadlock", "timelock", "formulas"} /\ pc' = "done"
        /\ UNCHANGED <<model, cmd, kept>> /\ UNCHANGED <<index, answers>>
    BY <1>3 DEF FindDeadlocks, FindTimelocks, Exit
  <2>1. cmd.ask = pc /\ dead = {}
    BY <2>0 DEF InvAsked, InvDead
  <2>2. dead' = Printed
    BY <1>3, <2>1 DEF FindDeadlocks, FindTimelocks, Exit, Printed, Timelocks
  <2>3. InvAsked'
    BY <2>0, KeptStays DEF InvAsked
  <2>4. InvKept' /\ InvDead' /\ InvAnswers'
    BY <2>0, <2>2, KeptStays, AnswersStay DEF InvKept, InvDead
  <2>. QED
    BY <2>3, <2>4
<1>4. ASSUME UNCHANGED vars
      PROVE  Inv'
  <2>0. UNCHANGED <<model, cmd, kept>> /\ UNCHANGED <<pc, index, answers, dead>>
    BY <1>4 DEF vars
  <2>1. InvAsked' /\ InvKept' /\ InvDead' /\ InvAnswers'
    BY <2>0, KeptStays, AnswersStay DEF InvAsked, InvKept, InvDead
  <2>. QED
    BY <2>1
<1>. QED
  BY <1>1, <1>2, <1>3, <1>4 DEF Next, Exited

(* The inductive invariant of its-ctl (CTL/bin/main.cpp): nothing is kept  *)
(* and nothing answered before the reachable states are computed; after    *)
(* that what is kept is what the checker computes for the model and the    *)
(* options; the answers given are right, and what is printed is what was   *)
(* asked for.                                                              *)
THEOREM Invariance ==
  ASSUME FormsAreAll
  PROVE  Spec => []Inv
<1>1. Init => Inv
  BY InitInv
<1>2. Inv /\ [Next]_vars => Inv'
  BY NextInv
<1>. QED
  BY <1>1, <1>2, PTL DEF Spec

(* Time that only elapses does not change the state.                       *)
LEMMA TimelocksAre ==
  ASSUME IsAsked, Computed
  PROVE  Timelocks = {s \in reachable : /\ model.timed
                                        /\ Post(Locals, {s}) = {}
                                        /\ Post(Elapse, {s}) = {s}}
<1>0. /\ reachable \in SUBSET States /\ Closed(NextRel(trans), reachable)
  BY FixpointTyped, FixpointClosed DEF Computed
<1>1. Closed(Locals, reachable) /\ Locals \in Relations
  BY <1>0, ModelTyped DEF Closed, Post
<1>2. Deadlocks(Locals, reachable) = {s \in reachable : Post(Locals, {s}) = {}}
  BY <1>0, <1>1, DeadlocksAre
<1>3. CASE ~model.timed
  BY <1>3 DEF Timelocks
<1>4. CASE model.timed
  <2> DEFINE G == GreatestFixpoint(Elapse, reachable)
             Loops == {s \in G : <<s, s>> \in Elapse}
  <2>0. Elapse = trans[1]
    BY <1>4 DEF Elapse
  <2>1. \A s, t, u \in States : <<s, t>> \in Elapse /\ <<s, u>> \in Elapse => t = u
    BY <1>4, <2>0, ElapseIsTime DEF IsAsked, trans
  <2>2. \A X \in SUBSET States :
           X # {} /\ X \subseteq Post(Elapse, X) => \E s \in X : <<s, s>> \in Elapse
    BY <1>4, <2>0, ElapseIsTime DEF IsAsked, trans
  <2>3. G \in SUBSET reachable /\ G \subseteq Post(Elapse, G)
    BY DEF GreatestFixpoint, Post
  <2>4. \A s \in reachable : <<s, s>> \in Elapse => s \in G
    BY <1>0 DEF GreatestFixpoint, Post
  <2> HIDE DEF G
  <2>5. G \ Loops \subseteq Post(Elapse, G \ Loops)
    <3> SUFFICES ASSUME NEW t \in G \ Loops
                 PROVE  t \in Post(Elapse, G \ Loops)
      OBVIOUS
    <3>1. PICK s \in G : <<s, t>> \in Elapse
      BY <2>3 DEF Post
    <3>2. s \notin Loops
      BY <1>0, <2>1, <2>3, <3>1
    <3>. QED
      BY <1>0, <2>3, <3>1, <3>2 DEF Post
  <2>6. G = Loops
    <3>1. G \ Loops \in SUBSET States /\ Loops \subseteq G
      BY <1>0, <2>3
    <3>2. ~\E s \in G \ Loops : <<s, s>> \in Elapse
      OBVIOUS
    <3> HIDE DEF Loops
    <3>. QED
      BY <2>2, <2>5, <3>1, <3>2
  <2>7. \A s \in reachable : s \in G <=> Post(Elapse, {s}) = {s}
    <3> SUFFICES ASSUME NEW s \in reachable
                 PROVE  s \in G <=> Post(Elapse, {s}) = {s}
      OBVIOUS
    <3>1. s \in G <=> <<s, s>> \in Elapse
      BY <2>4, <2>6
    <3>2. <<s, s>> \in Elapse <=> Post(Elapse, {s}) = {s}
      BY <1>0, <2>1 DEF Post
    <3>. QED
      BY <3>1, <3>2
  <2>. QED
    BY <1>2, <1>4, <2>3, <2>7 DEF Timelocks, G
<1>. QED
  BY <1>3, <1>4, ModelsAreTyped DEF IsAsked

(* The deadlocks printed are exactly the reachable states without          *)
(* successor, with or without --fair-time, and the timelocks those in      *)
(* which only time elapses and changes nothing (main.cpp, --deadlock and   *)
(* --timelock), for every model in which time is a function that stops     *)
(* changing the state.                                                     *)
THEOREM DeadlocksAndTimelocks ==
  ASSUME FormsAreAll
  PROVE  Spec => []DeadAreStuck
<1>1. Inv => DeadAreStuck
  <2> SUFFICES ASSUME Inv, pc = "done"
               PROVE  CASE cmd.ask = "deadlock" -> dead = {s \in reachable : After(s) = {}}
                        [] cmd.ask = "timelock" ->
                             dead = {s \in reachable : /\ model.timed
                                                       /\ Post(Locals, {s}) = {}
                                                       /\ Post(Elapse, {s}) = {s}}
                        [] OTHER -> dead = {}
    BY DEF DeadAreStuck
  <2>1. IsAsked /\ Computed /\ dead = Printed
    BY DEF Inv, InvAsked, InvKept, InvDead
  <2>2. deadlocks_ = {s \in reachable : After(s) = {}}
    BY <2>1, ComputedIsKept DEF Kept
  <2>3. Timelocks = {s \in reachable : /\ model.timed
                                       /\ Post(Locals, {s}) = {}
                                       /\ Post(Elapse, {s}) = {s}}
    BY <2>1, TimelocksAre
  <2>. QED
    BY <2>1, <2>2, <2>3 DEF Printed
<1>. QED
  BY <1>1, Invariance, PTL

(* getStateVerifying (ctlCheck.cpp) returns, for every formula that is     *)
(* parsed and each of its subformulas, all the states that satisfy it and  *)
(* no other; when an exact answer is not needed, some of them if there are *)
(* any. For every model, labelling and formula, with or without --fair-    *)
(* time.                                                                   *)
THEOREM ExactStates ==
  ASSUME FormsAreAll
  PROVE  Spec => []StatesAreExact
<1>1. Inv => StatesAreExact
  <2> SUFFICES ASSUME Inv, pc = "done", NEW i \in DOMAIN cmd.formulas,
                      NEW f \in Subformulas[Existential[cmd.formulas[i]]]
               PROVE  /\ Exact(f) = Sat[f]
                      /\ Inexact(f) \subseteq Exact(f) /\ (Exact(f) # {} => Inexact(f) # {})
    BY DEF StatesAreExact
  <2>1. IsAsked /\ Computed
    BY DEF Inv, InvAsked, InvKept
  <2>2. cmd.formulas[i] \in Forms /\ IsParsed(cmd.formulas[i])
    BY <2>1, CommandTyped
  <2>3. IsFound(f)
    BY <2>1, <2>2, ComputedIsKept, SubformulasAreFound
  <2>. QED
    BY <2>3 DEF IsFound, Exact, Inexact
<1>. QED
  BY <1>1, Invariance, PTL

(* The verdicts its-ctl prints are right for every model, labelling and    *)
(* formula, backward and forward, with or without --fair-time: TRUE when   *)
(* all the initial states satisfy the formula, FALSE when none does.       *)
THEOREM CorrectAnswers ==
  ASSUME FormsAreAll
  PROVE  Spec => []AnswersAreCorrect
<1>1. Inv => AnswersAreCorrect
  BY DEF Inv, InvAnswers, IsCorrect, AnswersAreCorrect
<1>. QED
  BY <1>1, Invariance, PTL

(* The variables of its-ctl keep their types.                              *)
THEOREM TypeCorrect ==
  ASSUME FormsAreAll
  PROVE  Spec => []TypeOK
<1>1. Inv => TypeOK
  <2> SUFFICES ASSUME Inv
               PROVE  TypeOK
    OBVIOUS
  <2>1. IsAsked /\ pc \in {"start", "formulas", "forward", "deadlock", "timelock", "done"}
        /\ index \in 1 .. Len(cmd.formulas) + 1
    BY DEF Inv, InvAsked
  <2>2. CASE pc = "start"
    <3>1. /\ reachable = {} /\ next = {} /\ predRel_ = {} /\ deadlocks_ = {} /\ scc_ = FALSE
          /\ dead = {}
      BY <2>2 DEF Inv, InvKept, InvDead, kept, Nothing
    <3>. QED
      BY <2>1, <2>2, <3>1 DEF TypeOK, Relations
  <2>3. CASE pc # "start"
    <3>1. Computed
      BY <2>3 DEF Inv, InvKept
    <3>2. /\ reachable \in SUBSET States /\ next \in Relations
          /\ deadlocks_ \subseteq reachable
      BY <2>1, <3>1, ComputedIsKept DEF Kept
    <3>3. predRel_ \in Relations
      <4>1. \A rel \in Relations : /\ Invert(rel, States) \in Relations
                                   /\ Within(Invert(rel, States), reachable) \in Relations
        BY InvertTyped DEF Within, Relations
      <4>2. PredRel(trans, reachable, States) \in Relations
        <5>1. NextRel(trans) \in Relations /\ trans \in Systems
          BY <2>1, ModelTyped
        <5>2. \A N \in SUBSET Names : InvertAll(trans, N, States) \in Relations
          BY <5>1, SumTyped, <4>1 DEF InvertAll
        <5>3. /\ ToAdd(trans, reachable, States) \in SUBSET Names
              /\ ToProtect(trans, reachable, States) \in SUBSET Names
          BY DEF ToAdd, ToProtect, Live
        <5>. QED
          BY <4>1, <5>1, <5>2, <5>3 DEF PredRel, Within, Relations
      <4>. QED
        BY <3>1, <3>2, <4>1, <4>2 DEF Computed, CheckerPred
    <3>4. scc_ \in BOOLEAN
      BY <3>1 DEF Computed, HasSCCs
    <3>5. dead \subseteq States
      BY <3>2 DEF Inv, InvDead, Printed, Timelocks, Deadlocks, GreatestFixpoint
    <3>. QED
      BY <2>1, <3>2, <3>3, <3>4, <3>5 DEF TypeOK
  <2>. QED
    BY <2>2, <2>3
<1>. QED
  BY <1>1, Invariance, PTL
=============================================================================
