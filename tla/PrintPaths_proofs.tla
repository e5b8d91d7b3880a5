-------------------------- MODULE PrintPaths_proofs --------------------------
(***************************************************************************)
(* Proofs about ITSModel::printPaths, for every system and every query.    *)
(***************************************************************************)
EXTENDS PrintPaths, PredecessorRelation_proofs, SequenceTheorems,
        FiniteSetTheorems

-----------------------------------------------------------------------------
(***************************************************************************)
(* The inductive invariant.                                                *)
(***************************************************************************)

(* The states at most n steps from the goal that is left.                  *)
Walk == BackwardWalk(NextRel(trans), reach, goal)

(* The states reached from S by playing w through layers.                  *)
LayerPlays(h, w, layer, S) ==
  LET met[n \in Nat] == IF n = 0 THEN S ELSE Post(h[w[n]], met[n - 1]) \cap layer[n]
  IN  met

(* u is before v in the order of the odometer.                             *)
Before(u, v) ==
  \E k \in 1 .. Len(rev) : u[k] < v[k] /\ \A m \in 1 .. k - 1 : u[m] = v[m]

(* A sequence that can be played from init through the layers.             *)
Words == [1 .. Len(rev) -> Names]
Good(w) == LayerPlays(trans, w, rev, init)[Len(rev)] # {}

Typed ==
  /\ trans \in Systems /\ args \in Queries /\ reach = Searched
  /\ args.origin \subseteq Filtered(args.start)
  /\ init \subseteq Sources /\ goal \subseteq args.goal \cap reach
  /\ left \in Nat /\ out \in Seq(Seq(Names))
  /\ pc \in {"start", "back", "words", "done"}

(* The goals given up are those the initial states left do not lead to.    *)
GoalsKept == args.goal \cap reach \cap Fixpoint(NextRel(trans), init) \subseteq goal

(* The initial states given up are treated, and those left are farther     *)
(* from the goal than the witnesses of the calls before.                   *)
Printed(S) == \A s \in S : \A w \in Shortest(s) : Contains(out, w)

Treated == pc # "done" => Printed(Connected \ init)

Farther ==
  pc \in {"start", "back"} => \A i \in DOMAIN out : init \cap Near[Len(out[i])] = {}

(* The layers are the sets of states at each distance from the goal left.  *)
Layers ==
  pc \in {"back", "words"} =>
    /\ rev \in Seq(SUBSET States) /\ Len(rev) >= 1
    /\ \A i \in 1 .. Len(rev) :
          rev[i] = IF i = Len(rev) THEN goal
                   ELSE Walk[Len(rev) - i] \ Walk[Len(rev) - i - 1]
    /\ init \cap Walk[Len(rev) - 1] = {}

Searching ==
  pc = "back" =>
    revTrans = Backward(reach) /\ M3 = rev[1] /\ seen = Walk[Len(rev) - 1]

(* The cursors up to the layer to enter are those of the witness, which is *)
(* played through the layers; a last cursor was moved, those ahead of it   *)
(* are at the first transition and those behind it still match.            *)
Matched(its, k) ==
  \A j \in 1 .. k : its[j] \in Names /\ LayerPlays(trans, its, rev, init)[j] # {}

Cursors ==
  pc = "words" =>
    /\ init \cap Walk[Len(rev)] # {}
    /\ iters \in [1 .. Len(rev) -> 1 .. NbTrans + 1]
    /\ cur \in 1 .. Len(rev) + 1
    /\ witness \in Seq(Names) /\ Len(witness) = cur - 1
    /\ \A i \in 1 .. cur - 1 : witness[i] = iters[i]
    /\ Mi = LayerPlays(trans, iters, rev, init)[cur - 1]
    /\ Matched(iters, cur - 1)
    /\ \E b \in 1 .. Len(rev) :
          Matched(iters, b - 1) /\ \A j \in b + 1 .. Len(rev) : iters[j] = 1

(* Every witness of this length before the cursors is printed, and no      *)
(* other.                                                                  *)
Enumerated ==
  pc = "words" =>
    /\ \A i \in DOMAIN out :
          Len(out[i]) < Len(rev) \/ (Len(out[i]) = Len(rev) /\ Before(out[i], iters))
    /\ \A w \in Words : Good(w) /\ Before(w, iters) => Contains(out, w)

(* What the properties say.                                                *)
InOrder ==
  \A i, j \in DOMAIN out : i < j =>
    \/ Len(out[i]) < Len(out[j])
    \/ /\ Len(out[i]) = Len(out[j])
       /\ \E k \in DOMAIN out[i] :
            /\ out[i][k] < out[j][k]
            /\ \A m \in 1 .. k - 1 : out[i][m] = out[j][m]

AreShortest ==
  Sources \subseteq reach => \A i \in DOMAIN out : \E s \in Connected : out[i] \in Shortest(s)

PrintInv ==
  /\ Typed
  /\ GoalsKept
  /\ Treated
  /\ Farther
  /\ Layers
  /\ Searching
  /\ Cursors
  /\ Enumerated
  /\ InOrder
  /\ AreShortest
  /\ AllArePrinted

-----------------------------------------------------------------------------
(***************************************************************************)
(* Playing a sequence through layers.                                      *)
(***************************************************************************)

LEMMA LayerPlaysUnfolds ==
  ASSUME NEW h, NEW w, NEW layer, NEW S \in SUBSET States
  PROVE  /\ LayerPlays(h, w, layer, S) \in [Nat -> SUBSET States]
         /\ LayerPlays(h, w, layer, S)[0] = S
         /\ \A n \in Nat :
              LayerPlays(h, w, layer, S)[n + 1]
                = Post(h[w[n + 1]], LayerPlays(h, w, layer, S)[n]) \cap layer[n + 1]
<1> DEFINE G(n, X) == Post(h[w[n]], X) \cap layer[n]
           F == [n \in Nat |-> [X \in SUBSET States |-> G(n, X)]]
           met == LayerPlays(h, w, layer, S)
<1>1. \A n \in Nat : \A X \in SUBSET States : G(n, X) \in SUBSET States
  BY DEF Post
<1>2. \E f : f = [n \in Nat |-> IF n = 0 THEN S ELSE G(n, f[n - 1])]
  <2>1. F \in [Nat -> [SUBSET States -> SUBSET States]]
    BY <1>1
  <2>2. \A n \in Nat : \A X \in SUBSET States : F[n][X] = G(n, X)
    OBVIOUS
  <2> HIDE DEF F, G
  <2>3. PICK f \in [Nat -> SUBSET States] :
          f[0] = S /\ \A n \in Nat : f[n + 1] = F[n + 1][f[n]]
    BY <2>1, SetRecursion
  <2>4. ASSUME NEW n \in Nat, n # 0
        PROVE  f[n] = G(n, f[n - 1])
    <3>1. n - 1 \in Nat /\ (n - 1) + 1 = n
      BY <2>4
    <3>. QED
      BY <2>2, <2>3, <3>1
  <2>5. f = [n \in Nat |-> IF n = 0 THEN S ELSE G(n, f[n - 1])]
    BY <2>3, <2>4
  <2>. QED
    BY <2>5
<1>3. met = [n \in Nat |-> IF n = 0 THEN S ELSE G(n, met[n - 1])]
  BY <1>2 DEF LayerPlays
<1> HIDE DEF G, met
<1>4. met[0] = S /\ \A n \in Nat : met[n + 1] = G(n + 1, met[n])
  BY <1>3
<1> DEFINE T == {n \in Nat : met[n] \in SUBSET States}
<1>5. T \in SUBSET Nat /\ 0 \in T /\ \A n \in T : n + 1 \in T
  BY <1>1, <1>4
<1>6. T = Nat
  <2> HIDE DEF T
  <2>. QED
    BY <1>5, Induction
<1>7. met \in [Nat -> SUBSET States]
  BY <1>3, <1>6
<1>. QED
  BY <1>4, <1>7 DEF G, met

(* The states met depend on what has been played only.                     *)
LEMMA SamePrefix ==
  ASSUME NEW h, NEW w, NEW v, NEW layer, NEW S \in SUBSET States,
         NEW k \in Nat, \A i \in 1 .. k : w[i] = v[i]
  PROVE  LayerPlays(h, w, layer, S)[k] = LayerPlays(h, v, layer, S)[k]
<1> DEFINE mw == LayerPlays(h, w, layer, S)
           mv == LayerPlays(h, v, layer, S)
           T == {i \in Nat : i <= k => mw[i] = mv[i]}
<1>1. mw[0] = S /\ \A n \in Nat : mw[n + 1] = Post(h[w[n + 1]], mw[n]) \cap layer[n + 1]
  BY LayerPlaysUnfolds
<1>2. mv[0] = S /\ \A n \in Nat : mv[n + 1] = Post(h[v[n + 1]], mv[n]) \cap layer[n + 1]
  BY LayerPlaysUnfolds
<1> HIDE DEF mw, mv
<1>3. T \in SUBSET Nat /\ 0 \in T
  BY <1>1, <1>2
<1>4. ASSUME NEW i \in T
      PROVE  i + 1 \in T
  <2>1. ASSUME i + 1 <= k
        PROVE  mw[i + 1] = mv[i + 1]
    <3>1. i \in Nat /\ i + 1 \in 1 .. k /\ mw[i] = mv[i]
      BY <2>1
    <3>2. w[i + 1] = v[i + 1]
      BY <3>1
    <3>. QED
      BY <1>1, <1>2, <3>1, <3>2
  <2>. QED
    BY <2>1
<1>5. T = Nat
  <2> HIDE DEF T
  <2>. QED
    BY <1>3, <1>4, Induction
<1>. QED
  BY <1>5 DEF mw, mv

(* Nothing is met after nothing.                                           *)
LEMMA MetBefore ==
  ASSUME NEW h, NEW w, NEW layer, NEW S \in SUBSET States,
         NEW k \in Nat, LayerPlays(h, w, layer, S)[k] # {}, NEW j \in Nat, j <= k
  PROVE  LayerPlays(h, w, layer, S)[j] # {}
<1> DEFINE met == LayerPlays(h, w, layer, S)
           T == {i \in Nat : j <= i => met[i] = {}}
<1>1. \A n \in Nat : met[n + 1] = Post(h[w[n + 1]], met[n]) \cap layer[n + 1]
  BY LayerPlaysUnfolds
<1>2. met[k] # {}
  OBVIOUS
<1> HIDE DEF met
<1>3. SUFFICES ASSUME met[j] = {}
               PROVE  FALSE
  BY DEF met
<1>4. T \in SUBSET Nat /\ 0 \in T
  BY <1>3
<1>5. ASSUME NEW i \in T
      PROVE  i + 1 \in T
  <2>1. CASE j <= i
    <3>1. i \in Nat /\ met[i] = {}
      BY <2>1
    <3>2. met[i + 1] = {}
      BY <1>1, <3>1 DEF Post
    <3>. QED
      BY <3>1, <3>2
  <2>2. CASE ~(j <= i)
    <3>1. i \in Nat /\ (j <= i + 1 => i + 1 = j)
      BY <2>2
    <3>. QED
      BY <1>3, <3>1
  <2>. QED
    BY <2>1, <2>2
<1>6. T = Nat
  <2> HIDE DEF T
  <2>. QED
    BY <1>4, <1>5, Induction
<1>. QED
  BY <1>2, <1>6

(* What is met from a set is met from one of its states.                   *)
LEMMA MetFromOne ==
  ASSUME NEW h, NEW w, NEW layer, NEW S \in SUBSET States,
         NEW k \in Nat, NEW t \in LayerPlays(h, w, layer, S)[k]
  PROVE  \E s \in S : t \in LayerPlays(h, w, layer, {s})[k]
<1> DEFINE met == LayerPlays(h, w, layer, S)
           one(s) == LayerPlays(h, w, layer, {s})
           T == {i \in Nat : \A x \in met[i] : \E s \in S : x \in one(s)[i]}
<1>1. met[0] = S /\ \A n \in Nat : met[n + 1] = Post(h[w[n + 1]], met[n]) \cap layer[n + 1]
  BY LayerPlaysUnfolds
<1>2. ASSUME NEW s \in S
      PROVE  one(s)[0] = {s}
             /\ \A n \in Nat : one(s)[n + 1] = Post(h[w[n + 1]], one(s)[n]) \cap layer[n + 1]
  <2>1. {s} \in SUBSET States
    OBVIOUS
  <2>. QED
    BY <2>1, LayerPlaysUnfolds
<1>3. t \in met[k]
  OBVIOUS
<1> HIDE DEF met, one
<1>4. T \in SUBSET Nat /\ 0 \in T
  BY <1>1, <1>2
<1>5. ASSUME NEW i \in T, NEW x \in met[i + 1]
      PROVE  \E s \in S : x \in one(s)[i + 1]
  <2>1. i \in Nat /\ \A y \in met[i] : \E s \in S : y \in one(s)[i]
    OBVIOUS
  <2>2. PICK y \in met[i] : <<y, x>> \in h[w[i + 1]] /\ x \in layer[i + 1] /\ x \in States
    BY <1>1, <2>1 DEF Post
  <2>3. PICK s \in S : y \in one(s)[i]
    BY <2>1
  <2>4. x \in one(s)[i + 1]
    BY <1>2, <2>1, <2>2, <2>3 DEF Post
  <2>. QED
    BY <2>4
<1>6. T = Nat
  <2>1. \A i \in T : i + 1 \in T
    BY <1>5
  <2> HIDE DEF T
  <2>. QED
    BY <1>4, <2>1, Induction
<1>. QED
  BY <1>3, <1>6 DEF one

-----------------------------------------------------------------------------
(***************************************************************************)
(* Distances to the goal.                                                  *)
(***************************************************************************)

LEMMA ArgumentsTyped ==
  ASSUME Typed
  PROVE  /\ args.start \in SUBSET States /\ args.origin \in SUBSET States
         /\ args.goal \in SUBSET States /\ args.limit \in Nat
         /\ NextRel(trans) \in Relations
         /\ reach \in SUBSET States /\ Sources \in SUBSET States
         /\ init \in SUBSET States /\ goal \in SUBSET States
         /\ goal \subseteq reach /\ goal \subseteq args.goal
<1>1. /\ args.start \in SUBSET States /\ args.origin \in SUBSET States
      /\ args.goal \in SUBSET States /\ args.limit \in Nat
  BY QueriesAreTyped DEF Typed
<1>2. NextRel(trans) \in Relations
  BY SumTyped DEF NextRel, Typed
<1>3. reach \in SUBSET States
  BY FixpointTyped DEF Typed, Searched, Filtered
<1>4. Sources \in SUBSET States
  BY <1>1 DEF Sources, Post
<1>. QED
  BY <1>1, <1>2, <1>3, <1>4 DEF Typed

(* The states searched are reachable.                                      *)
LEMMA SearchedIsReachable ==
  ASSUME Typed
  PROVE  reach \subseteq Fixpoint(NextRel(trans), args.start)
<1> DEFINE h == NextRel(trans)
           f == {e \in h : e[2] \in args.inv}
           All == Fixpoint(h, args.start)
<1>1. args.start \in SUBSET States
  BY ArgumentsTyped
<1>2. All \in SUBSET States /\ args.start \subseteq All /\ Closed(h, All)
  BY <1>1, FixpointTyped, FixpointContains, FixpointClosed
<1> HIDE DEF All
<1>3. Closed(f, All)
  BY <1>2 DEF Closed, Post
<1> HIDE DEF f, h
<1>4. Fixpoint(f, args.start) \subseteq All
  BY <1>2, <1>3, FixpointLeast
<1>5. args.origin \subseteq Fixpoint(f, args.start) /\ reach = Fixpoint(f, args.origin)
  BY DEF Typed, Searched, Filtered, f, h
<1>6. args.origin \subseteq All
  BY <1>4, <1>5
<1>7. Fixpoint(f, args.origin) \subseteq All
  BY <1>2, <1>3, <1>6, FixpointLeast
<1>. QED
  BY <1>5, <1>7 DEF All, h

(* The walks from the goal of the call and from the one that is left.      *)
LEMMA NearUnfolds ==
  ASSUME Typed
  PROVE  /\ Near \in [Nat -> SUBSET States]
         /\ Near[0] = args.goal \cap reach
         /\ \A n \in Nat : Near[n + 1] = Near[n] \cup (Pre(NextRel(trans), Near[n]) \cap reach)
         /\ \A n \in Nat : Near[n] \subseteq reach
         /\ \A m, n \in Nat : m <= n => Near[m] \subseteq Near[n]
<1> DEFINE G == args.goal \cap reach
<1>1. G \in SUBSET States /\ G \subseteq reach
  BY ArgumentsTyped
<1>2. Near = BackwardWalk(NextRel(trans), reach, G)
  BY DEF Near, BackwardWalk
<1> HIDE DEF G
<1>. QED
  BY <1>1, <1>2, BackwardWalkUnfolds, BackwardWalkStays, BackwardWalkGrows DEF G

LEMMA WalkUnfolds ==
  ASSUME Typed
  PROVE  /\ Walk \in [Nat -> SUBSET States]
         /\ Walk[0] = goal
         /\ \A n \in Nat : Walk[n + 1] = Walk[n] \cup (Pre(NextRel(trans), Walk[n]) \cap reach)
         /\ \A n \in Nat : Walk[n] \subseteq reach
         /\ \A m, n \in Nat : m <= n => Walk[m] \subseteq Walk[n]
<1>1. goal \in SUBSET States /\ goal \subseteq reach
  BY ArgumentsTyped
<1>. QED
  BY <1>1, BackwardWalkUnfolds, BackwardWalkStays, BackwardWalkGrows DEF Walk

(* For the states the initial states left lead to, they are the same.      *)
LEMMA WalkIsNear ==
  ASSUME Typed, GoalsKept, NEW n \in Nat
  PROVE  /\ Walk[n] \subseteq Near[n]
         /\ Near[n] \cap init \subseteq Walk[n]
<1> DEFINE h == NextRel(trans)
           G == args.goal \cap reach
           F == Fixpoint(h, init)
<1>1. /\ h \in Relations /\ G \in SUBSET States /\ goal \in SUBSET States
      /\ goal \subseteq G /\ init \in SUBSET States
  BY ArgumentsTyped
<1>2. Near = BackwardWalk(h, reach, G)
  BY DEF Near, BackwardWalk
<1>3. F \in SUBSET States /\ Closed(h, F) /\ init \subseteq F
  BY <1>1, FixpointTyped, FixpointClosed, FixpointContains
<1>4. G \cap F \subseteq goal
  BY DEF GoalsKept
<1>5. Closed(h, States)
  BY DEF Closed, Post
<1>6. Walk[n] \in SUBSET States
  BY WalkUnfolds
<1>7. Walk = BackwardWalk(h, reach, goal)
  BY DEF Walk
<1> HIDE DEF h, G, F, Walk, Near
<1>8. Walk[n] \cap States \subseteq Near[n]
  BY <1>1, <1>2, <1>5, <1>7, BackwardWalkMeets
<1>9. Near[n] \cap F \subseteq Walk[n]
  BY <1>1, <1>2, <1>3, <1>4, <1>7, BackwardWalkMeets
<1>. QED
  BY <1>3, <1>6, <1>8, <1>9

(* The distance of a state to the goal is the number of steps it takes at  *)
(* least, and it is found.                                                 *)
LEMMA DistanceIs ==
  ASSUME Typed, NEW s, NEW d \in Nat, s \in Near[d], d > 0 => s \notin Near[d - 1]
  PROVE  Distance(s) = d /\ s \in Near[Cardinality(States)]
<1> DEFINE N == Cardinality(States)
<1>1. N \in Nat
  BY StatesFinite, FS_CardinalityType
<1>2. d <= N
  <2>1. CASE d = 0
    BY <1>1, <2>1
  <2>2. CASE d > 0
    <3> DEFINE G == args.goal \cap reach
    <3>1. d - 1 \in Nat /\ (d - 1) + 1 = d
      BY <2>2
    <3>2. Near = BackwardWalk(NextRel(trans), reach, G) /\ G \in SUBSET States
      BY ArgumentsTyped DEF Near, BackwardWalk
    <3>3. Near[(d - 1) + 1] # Near[d - 1]
      BY <2>2, <3>1
    <3> HIDE DEF G
    <3>. QED
      BY <3>1, <3>2, <3>3, BackwardWalkDepth
  <2>. QED
    BY <2>1, <2>2
<1>3. ASSUME NEW n \in 0 .. N, s \in Near[n], n > 0 => s \notin Near[n - 1]
      PROVE  n = d
  <2>1. ~(n < d)
    <3>1. n < d => n <= d - 1 /\ d - 1 \in Nat
      BY <1>1
    <3>. QED
      BY <1>3, <3>1, NearUnfolds
  <2>2. ~(d < n)
    <3>1. d < n => d <= n - 1 /\ n - 1 \in Nat
      BY <1>1
    <3>. QED
      BY <1>3, <3>1, NearUnfolds
  <2>. QED
    BY <1>1, <2>1, <2>2
<1>4. d \in 0 .. N
  BY <1>1, <1>2
<1>5. Distance(s) = d
  BY <1>3, <1>4 DEF Distance
<1>6. s \in Near[N]
  BY <1>1, <1>2, NearUnfolds
<1>. QED
  BY <1>5, <1>6

LEMMA ConnectedAt ==
  ASSUME Typed, NEW s \in Connected
  PROVE  /\ Distance(s) \in Nat /\ s \in Near[Distance(s)]
         /\ Distance(s) > 0 => s \notin Near[Distance(s) - 1]
<1> DEFINE T == {n \in Nat : s \in Near[n]}
<1>1. Cardinality(States) \in T
  BY StatesFinite, FS_CardinalityType DEF Connected
<1>2. PICK d \in T : \A n \in T : d <= n
  <2>1. T \in SUBSET Nat /\ T # {}
    BY <1>1
  <2> HIDE DEF T
  <2>. QED
    BY <2>1, LeastNumber
<1>3. d \in Nat /\ s \in Near[d]
  OBVIOUS
<1>4. ASSUME d > 0
      PROVE  s \notin Near[d - 1]
  <2>1. d - 1 \in Nat /\ ~(d <= d - 1)
    BY <1>3, <1>4
  <2>. QED
    BY <1>2, <2>1
<1>5. Distance(s) = d
  BY <1>3, <1>4, DistanceIs
<1>. QED
  BY <1>3, <1>4, <1>5

(* What the shortest witnesses are.                                        *)
LEMMA ShortestIs ==
  ASSUME NEW s, NEW w, Distance(s) \in Nat
  PROVE  w \in Shortest(s) <=>
           /\ w \in [1 .. Distance(s) -> Names]
           /\ Plays(trans, w, reach, {s})[Distance(s)] \cap args.goal # {}
<1>1. ASSUME w \in [1 .. Distance(s) -> Names]
      PROVE  Len(w) = Distance(s)
  BY <1>1
<1>. QED
  BY <1>1 DEF Shortest, Played

-----------------------------------------------------------------------------
(***************************************************************************)
(* Sequences through the layers, and the shortest witnesses.               *)
(***************************************************************************)

(* A layer is at a distance of the goal, and is not empty of states        *)
(* searched.                                                               *)
LEMMA LayerIs ==
  ASSUME Typed, Layers, pc \in {"back", "words"}, NEW i \in 1 .. Len(rev)
  PROVE  /\ Len(rev) \in Nat \ {0} /\ Len(rev) - i \in Nat
         /\ rev[i] \subseteq Walk[Len(rev) - i] /\ rev[i] \subseteq reach
         /\ \A x \in Walk[Len(rev) - i] :
               i = Len(rev) \/ x \notin Walk[Len(rev) - i - 1] => x \in rev[i]
<1>0. /\ rev \in Seq(SUBSET States) /\ Len(rev) >= 1
      /\ rev[i] = IF i = Len(rev) THEN goal
                  ELSE Walk[Len(rev) - i] \ Walk[Len(rev) - i - 1]
  BY DEF Layers
<1>1. Len(rev) \in Nat \ {0} /\ Len(rev) - i \in Nat
  BY <1>0
<1>2. Walk[0] = goal /\ Walk[Len(rev) - i] \subseteq reach
  BY <1>1, WalkUnfolds
<1>3. i = Len(rev) => Len(rev) - i = 0
  BY <1>1
<1>. QED
  BY <1>0, <1>1, <1>2, <1>3

(* The states of init are as many steps from the goal as there are layers, *)
(* or more.                                                                *)
LEMMA InitIsFar ==
  ASSUME Typed, GoalsKept, Layers, pc = "words", NEW s \in init, s \in Near[Len(rev)]
  PROVE  /\ Len(rev) \in Nat \ {0} /\ s \in Connected /\ Distance(s) = Len(rev)
         /\ s \in Walk[Len(rev)] /\ s \notin Walk[Len(rev) - 1] /\ s \in reach
<1>1. Len(rev) \in Nat \ {0} /\ Len(rev) - 1 \in Nat /\ init \cap Walk[Len(rev) - 1] = {}
  BY DEF Layers
<1>2. s \notin Near[Len(rev) - 1]
  BY <1>1, WalkIsNear
<1>3. s \in Near[Cardinality(States)] /\ Distance(s) = Len(rev)
  BY <1>1, <1>2, DistanceIs
<1>4. s \in Walk[Len(rev)]
  BY <1>1, WalkIsNear
<1>5. s \in reach
  BY <1>1, NearUnfolds
<1>. QED
  BY <1>1, <1>3, <1>4, <1>5 DEF Connected, Typed

(* What can be played through the layers from a state that is searched is  *)
(* a shortest witness from it.                                             *)
LEMMA GoodIsShortest ==
  ASSUME Typed, GoalsKept, Layers, pc = "words", Sources \subseteq reach,
         NEW w \in Words, Good(w)
  PROVE  \E s \in Connected : w \in Shortest(s)
<1> DEFINE d == Len(rev)
<1>1. d \in Nat \ {0} /\ d \in Nat /\ 1 \in 1 .. d /\ d \in 1 .. d /\ d - 1 \in Nat /\ d - d = 0
  BY DEF Layers
<1>2. init \in SUBSET States /\ init \subseteq reach /\ goal \subseteq args.goal
  BY ArgumentsTyped DEF Typed
<1>3. PICK t : t \in LayerPlays(trans, w, rev, init)[d]
  BY DEF Good
<1>4. PICK s \in init : t \in LayerPlays(trans, w, rev, {s})[d]
  BY <1>1, <1>2, <1>3, MetFromOne
<1> DEFINE one == LayerPlays(trans, w, rev, {s})
<1>5. {s} \in SUBSET States
  BY <1>2
<1>15. /\ one[0] = {s}
       /\ \A n \in Nat : one[n + 1] = Post(trans[w[n + 1]], one[n]) \cap rev[n + 1]
  BY ONLY <1>5, LayerPlaysUnfolds
<1>16. one[1] # {} /\ t \in one[d]
  BY <1>1, <1>4, <1>5, MetBefore
<1> HIDE DEF one
<1> DEFINE layer == [i \in Nat |-> one[i - 1]]
<1>6. s \in Near[d]
  <2>2. 0 + 1 = 1 /\ 0 \in Nat
    OBVIOUS
  <2>3. one[1] = Post(trans[w[1]], one[0]) \cap rev[1]
    BY <1>15, <2>2
  <2>4. PICK x \in rev[1] : x \in States /\ <<s, x>> \in trans[w[1]]
    BY <1>15, <1>16, <2>3 DEF Post
  <2>5. w[1] \in Names
    BY <1>1 DEF Words
  <2>6. rev[1] \subseteq Walk[d - 1]
    BY <1>1, LayerIs
  <2>7. s \in Pre(NextRel(trans), Walk[d - 1]) \cap reach
    BY <1>2, <2>4, <2>5, <2>6 DEF Pre, NextRel
  <2>8. (d - 1) + 1 = d
    BY <1>1
  <2>9. Walk[d] = Walk[d - 1] \cup (Pre(NextRel(trans), Walk[d - 1]) \cap reach)
    BY <1>1, <2>8, WalkUnfolds
  <2>. QED
    BY <1>1, <2>7, <2>9, WalkIsNear
<1>7. s \in Connected /\ Distance(s) = d
  BY <1>6, InitIsFar
<1>8. Len(w) = d
  BY <1>1 DEF Words
<1>9. layer[1] \subseteq {s} /\ layer[d + 1] = one[d]
  <2>1. layer[1] = one[1 - 1] /\ 1 - 1 = 0
    OBVIOUS
  <2>2. d + 1 \in Nat /\ (d + 1) - 1 = d
    BY <1>1
  <2>. QED
    BY <1>15, <2>1, <2>2
<1>10. ASSUME NEW i \in 1 .. d
       PROVE  layer[i + 1] \subseteq Post(trans[w[i]], layer[i]) \cap reach
  <2>1. i \in Nat /\ i - 1 \in Nat /\ (i - 1) + 1 = i /\ (i + 1) - 1 = i /\ i + 1 \in Nat
    BY <1>1
  <2>2. layer[i + 1] = one[i] /\ layer[i] = one[i - 1]
    BY <2>1
  <2>3. one[i] = Post(trans[w[i]], one[i - 1]) \cap rev[i]
    BY <1>15, <2>1
  <2>4. rev[i] \subseteq reach
    BY LayerIs
  <2> HIDE DEF layer
  <2>. QED
    BY <2>2, <2>3, <2>4
<1> HIDE DEF layer
<1>11. layer[Len(w) + 1] \subseteq Played(trans, w, reach, {s})
  BY <1>1, <1>5, <1>8, <1>9, <1>10, LayersArePlayed
<1>12. t \in Played(trans, w, reach, {s})
  BY <1>8, <1>9, <1>11, <1>16
<1>13. t \in args.goal
  <2>1. rev[d] = goal
    BY <1>1 DEF Layers
  <2>2. (d - 1) + 1 = d
    BY <1>1
  <2>3. one[(d - 1) + 1] \subseteq rev[(d - 1) + 1]
    BY <1>1, <1>15
  <2>. QED
    BY <1>2, <1>16, <2>1, <2>2, <2>3
<1>14. w \in Shortest(s)
  BY <1>7, <1>12, <1>13 DEF Shortest, Words
<1>. QED
  BY <1>7, <1>14

(* A shortest witness from a state of init as far as there are layers can  *)
(* be played through them.                                                 *)
LEMMA ShortestIsGood ==
  ASSUME Typed, GoalsKept, Layers, pc = "words",
         NEW s \in init, s \in Near[Len(rev)], NEW w \in Shortest(s)
  PROVE  w \in Words /\ Good(w)
<1> DEFINE d == Len(rev)
           h == NextRel(trans)
           F == Fixpoint(h, init)
           led == Plays(trans, w, reach, {s})
           met == LayerPlays(trans, w, rev, init)
<1>1. /\ d \in Nat \ {0} /\ d \in Nat /\ Distance(s) = d
      /\ s \in Walk[d] /\ s \notin Walk[d - 1] /\ s \in reach
  BY InitIsFar
<1>2. w \in [1 .. d -> Names] /\ led[d] \cap args.goal # {}
  BY <1>1, ShortestIs
<1>3. init \in SUBSET States /\ reach \in SUBSET States
  BY ArgumentsTyped
<1>4. /\ led[0] = {s}
      /\ \A n \in Nat : led[n + 1] = Post(trans[w[n + 1]], led[n]) \cap reach
  <2>1. {s} \in SUBSET States
    BY <1>3
  <2>. QED
    BY <2>1, PlaysUnfolds
<1>5. /\ met[0] = init
      /\ \A n \in Nat : met[n + 1] = Post(trans[w[n + 1]], met[n]) \cap rev[n + 1]
  BY <1>3, LayerPlaysUnfolds
<1>6. F \in SUBSET States /\ Closed(h, F) /\ init \subseteq F
  BY <1>3, FixpointTyped, FixpointClosed, FixpointContains
<1>7. \A n \in Nat : Walk[n + 1] = Walk[n] \cup (Pre(h, Walk[n]) \cap reach)
  BY WalkUnfolds
<1> HIDE DEF led, met, F
<1> DEFINE T == {k \in Nat : k <= d =>
                   /\ led[k] \subseteq reach \cap F
                   /\ led[k] \cap Walk[d - k] \subseteq met[k]
                   /\ k < d => led[k] \cap Walk[d - k - 1] = {}}
<1>8. T \in SUBSET Nat /\ 0 \in T
  <2>1. d - 0 = d /\ d - 0 - 1 = d - 1
    BY <1>1
  <2>. QED
    BY <1>1, <1>4, <1>5, <1>6, <2>1
<1>9. ASSUME NEW k \in T
      PROVE  k + 1 \in T
  <2> SUFFICES ASSUME k + 1 <= d
               PROVE  /\ led[k + 1] \subseteq reach \cap F
                      /\ led[k + 1] \cap Walk[d - (k + 1)] \subseteq met[k + 1]
                      /\ k + 1 < d => led[k + 1] \cap Walk[d - (k + 1) - 1] = {}
    OBVIOUS
  <2>1. k \in Nat /\ k < d /\ k <= d /\ k + 1 \in 1 .. d
    BY <1>1
  <2>2. /\ led[k] \subseteq reach \cap F /\ led[k] \cap Walk[d - k] \subseteq met[k]
        /\ led[k] \cap Walk[d - k - 1] = {}
    BY <2>1
  <2> DEFINE e == d - (k + 1)
  <2>3. e \in Nat /\ e + 1 = d - k /\ e = d - k - 1
    BY <1>1, <2>1
  <2>4. w[k + 1] \in Names
    BY <1>2, <2>1
  <2>5. ASSUME NEW y \in led[k + 1]
        PROVE  /\ y \in reach \cap F
               /\ y \in Walk[e] => y \in met[k + 1]
               /\ k + 1 < d => y \notin Walk[e - 1]
    <3>1. PICK x \in led[k] : <<x, y>> \in trans[w[k + 1]] /\ y \in reach
      BY <1>4, <2>1 DEF Post
    <3>2. <<x, y>> \in h /\ x \in reach /\ x \in F /\ x \in States /\ y \in States
      BY <1>3, <2>2, <2>4, <3>1 DEF NextRel
    <3>3. y \in F
      BY <1>6, <3>2 DEF Closed, Post
    <3>4. ASSUME NEW n \in Nat, y \in Walk[n]
          PROVE  x \in Walk[n + 1]
      <4>1. x \in Pre(h, Walk[n]) \cap reach
        BY <3>2, <3>4 DEF Pre
      <4>. QED
        BY <1>7, <4>1
    <3>5. ASSUME k + 1 < d
          PROVE  y \notin Walk[e - 1]
      <4>1. e - 1 \in Nat /\ (e - 1) + 1 = e
        BY <1>1, <2>1, <3>5
      <4>2. x \notin Walk[e]
        BY <2>2, <2>3
      <4>. QED
        BY <3>4, <4>1, <4>2
    <3>6. ASSUME y \in Walk[e]
          PROVE  y \in met[k + 1]
      <4>1. x \in Walk[d - k]
        BY <2>3, <3>4, <3>6
      <4>2. x \in met[k]
        BY <2>2, <4>1
      <4>3. k + 1 = d \/ k + 1 < d
        BY <1>1, <2>1
      <4>4. d - (k + 1) - 1 = e - 1
        BY <1>1, <2>1
      <4>5. y \in rev[k + 1]
        BY <2>1, <3>5, <3>6, <4>3, <4>4, LayerIs
      <4>. QED
        BY <1>5, <2>1, <3>1, <3>2, <4>2, <4>5 DEF Post
    <3>. QED
      BY <3>1, <3>3, <3>5, <3>6
  <2>6. d - (k + 1) - 1 = e - 1
    BY <1>1, <2>1
  <2>. QED
    BY <2>5, <2>6
<1>10. T = Nat
  <2> HIDE DEF T
  <2>. QED
    BY <1>8, <1>9, Induction
<1>11. led[d] \subseteq reach \cap F /\ led[d] \cap Walk[0] \subseteq met[d]
  <2>1. d \in T /\ d - d = 0 /\ d <= d
    BY <1>1, <1>10
  <2>. QED
    BY <2>1
<1>12. PICK y \in led[d] : y \in args.goal
  BY <1>2
<1>13. y \in goal
  BY <1>11, <1>12 DEF GoalsKept, F
<1>14. y \in met[d]
  BY <1>11, <1>13, WalkUnfolds
<1>. QED
  BY <1>2, <1>14 DEF Good, Words, met

-----------------------------------------------------------------------------
(***************************************************************************)
(* The backward searches.                                                  *)
(***************************************************************************)

(* A backward walk, as long as it is in a set that the transitions do not  *)
(* leave, is in the fixpoint of the backward relation for that set.        *)
LEMMA WalkInFixpoint ==
  ASSUME NEW h \in Systems, NEW F \in SUBSET States, Closed(NextRel(h), F),
         NEW R, NEW S \in SUBSET States, S \subseteq F, NEW n \in Nat
  PROVE  BackwardWalk(NextRel(h), R, S)[n] \cap F \subseteq Fixpoint(PredRel(h, F, States), S)
<1> DEFINE g == NextRel(h)
           walk == BackwardWalk(g, R, S)
           rel == PredRel(h, F, States)
           Fix == Fixpoint(rel, S)
           T == {k \in Nat : walk[k] \cap F \subseteq Fix}
<1>1. walk[0] = S /\ \A k \in Nat : walk[k + 1] = walk[k] \cup (Pre(g, walk[k]) \cap R)
  BY BackwardWalkUnfolds
<1>2. S \subseteq Fix /\ Fix \in SUBSET States /\ Post(rel, Fix) \subseteq Fix
  BY FixpointContains, FixpointTyped, FixpointClosed DEF Closed
<1>3. Pre(g, Fix) \cap F \subseteq Fix
  <2>1. Fix \in SUBSET States
    BY <1>2
  <2> HIDE DEF Fix
  <2>2. Pre(g, Fix) \cap F \subseteq Post(rel, Fix)
    BY <2>1, PredRelComplete
  <2>. QED
    BY <1>2, <2>2
<1>4. g \in Relations /\ Post(g, F) \subseteq F
  BY SumTyped DEF NextRel, Closed
<1> HIDE DEF walk, Fix, rel, g
<1>5. T \in SUBSET Nat /\ 0 \in T
  BY <1>1, <1>2
<1>6. ASSUME NEW k \in T
      PROVE  k + 1 \in T
  <2>1. k \in Nat /\ walk[k] \cap F \subseteq Fix
    OBVIOUS
  <2>2. ASSUME NEW x \in F, x \in Pre(g, walk[k])
        PROVE  x \in Fix
    <3>1. PICK y \in walk[k] : <<x, y>> \in g /\ x \in States
      BY <2>2 DEF Pre
    <3>2. y \in F
      BY <1>4, <2>2, <3>1 DEF Post, Relations
    <3>3. x \in Pre(g, Fix)
      BY <2>1, <3>1, <3>2 DEF Pre
    <3>. QED
      BY <1>3, <2>2, <3>3
  <2>. QED
    BY <1>1, <2>1, <2>2
<1>7. T = Nat
  <2> HIDE DEF T
  <2>. QED
    BY <1>5, <1>6, Induction
<1>. QED
  BY <1>7 DEF walk, Fix, rel, g

(* A turn of the backward search is one more step of the walk.             *)
LEMMA NextLayer ==
  ASSUME Typed, Layers, Searching, pc = "back"
  PROVE  /\ M2 = Walk[Len(rev)] \ Walk[Len(rev) - 1]
         /\ seen \cup M2 = Walk[Len(rev)]
         /\ Len(rev) \in Nat \ {0} /\ M2 \in SUBSET States
<1> DEFINE h == NextRel(trans)
           L == Len(rev) - 1
<1>1. Len(rev) \in Nat \ {0} /\ L \in Nat /\ L + 1 = Len(rev) /\ 1 \in 1 .. Len(rev)
  <2>1. rev \in Seq(SUBSET States) /\ Len(rev) >= 1
    BY DEF Layers
  <2>. QED
    BY <2>1
<1>2. revTrans = Backward(reach) /\ M3 = rev[1] /\ seen = Walk[L]
  BY DEF Searching
<1>3. /\ Walk \in [Nat -> SUBSET States]
      /\ \A n \in Nat : Walk[n + 1] = Walk[n] \cup (Pre(h, Walk[n]) \cap reach)
      /\ Walk[0] = goal
  BY WalkUnfolds
<1>4. M3 \subseteq reach /\ M3 \subseteq Walk[L]
  BY <1>1, <1>2, LayerIs
<1>5. Post(revTrans, M3) = Pre(h, M3) \cap reach
  <2>1. trans \in Systems /\ reach \in SUBSET States
    BY ArgumentsTyped DEF Typed
  <2>. QED
    BY <1>2, <1>4, <2>1, PredRelExact DEF Backward
<1>6. Walk[Len(rev)] = Walk[L] \cup (Pre(h, Walk[L]) \cap reach)
  BY <1>1, <1>3
<1>7. Pre(h, Walk[L]) \cap reach \subseteq Walk[L] \cup (Pre(h, M3) \cap reach)
  <2>1. SUFFICES ASSUME NEW x \in reach, NEW y \in Walk[L], <<x, y>> \in h, x \in States, y \notin M3
                 PROVE  x \in Walk[L]
    BY DEF Pre
  <2>2. Len(rev) # 1 /\ y \in Walk[L - 1]
    BY <1>1, <1>2, <2>1, LayerIs
  <2>3. L - 1 \in Nat /\ (L - 1) + 1 = L
    BY <1>1, <2>2
  <2>4. Walk[L] = Walk[L - 1] \cup (Pre(h, Walk[L - 1]) \cap reach)
    BY <1>3, <2>3
  <2>. QED
    BY <2>1, <2>2, <2>4 DEF Pre
<1>8. Pre(h, M3) \subseteq Pre(h, Walk[L])
  BY <1>4 DEF Pre
<1>9. seen \cup M2 = Walk[Len(rev)] /\ M2 = Walk[Len(rev)] \ Walk[L]
  BY <1>2, <1>5, <1>6, <1>7, <1>8 DEF M2
<1>. QED
  BY <1>1, <1>3, <1>9

-----------------------------------------------------------------------------
(***************************************************************************)
(* Steps that leave the call as it is.                                     *)
(***************************************************************************)

LEMMA CallKept ==
  ASSUME UNCHANGED <<trans, args, reach>>
  PROVE  /\ Near' = Near /\ Sources' = Sources /\ Connected' = Connected
         /\ \A s : Shortest(s)' = Shortest(s)
<1>1. Near' = Near /\ Sources' = Sources
  BY DEF Near, Sources
<1>2. \A s : Distance(s)' = Distance(s)
  BY <1>1 DEF Distance
<1>3. Connected' = Connected
  BY <1>1 DEF Connected
<1>. QED
  BY <1>1, <1>2, <1>3 DEF Shortest

LEMMA GoalKept ==
  ASSUME UNCHANGED <<trans, args, reach, init, goal>>
  PROVE  /\ Near' = Near /\ Sources' = Sources /\ Connected' = Connected
         /\ \A s : Shortest(s)' = Shortest(s)
         /\ Walk' = Walk
         /\ GoalsKept => GoalsKept'
         /\ \A S : Printed(S) /\ out' = out => Printed(S)'
<1>1. Walk' = Walk /\ (GoalsKept => GoalsKept')
  BY DEF Walk, GoalsKept
<1>. QED
  BY <1>1, CallKept DEF Printed

(* The order of the odometer.                                              *)
LEMMA BeforeIsTransitive ==
  ASSUME Len(rev) \in Nat, NEW u, NEW v, NEW w,
         \A i \in 1 .. Len(rev) : u[i] \in Nat /\ v[i] \in Nat /\ w[i] \in Nat,
         Before(u, v), Before(v, w)
  PROVE  Before(u, w)
<1>1. PICK k \in 1 .. Len(rev) : u[k] < v[k] /\ \A m \in 1 .. k - 1 : u[m] = v[m]
  BY DEF Before
<1>2. PICK l \in 1 .. Len(rev) : v[l] < w[l] /\ \A m \in 1 .. l - 1 : v[m] = w[m]
  BY DEF Before
<1>3. CASE k < l
  <2>1. k \in 1 .. l - 1 /\ \A m \in 1 .. k - 1 : m \in 1 .. l - 1
    BY <1>3
  <2>. QED
    BY <1>1, <1>2, <2>1 DEF Before
<1>4. CASE k = l
  <2>1. u[k] < w[k]
    BY <1>1, <1>2, <1>4
  <2>. QED
    BY <1>1, <1>2, <1>4, <2>1 DEF Before
<1>5. CASE l < k
  <2>1. l \in 1 .. k - 1 /\ \A m \in 1 .. l - 1 : m \in 1 .. k - 1
    BY <1>5
  <2>2. u[l] < w[l]
    BY <1>1, <1>2, <2>1
  <2>3. \A m \in 1 .. l - 1 : u[m] = w[m]
    BY <1>1, <1>2, <2>1
  <2>. QED
    BY <2>2, <2>3 DEF Before
<1>. QED
  BY <1>3, <1>4, <1>5

-----------------------------------------------------------------------------
(***************************************************************************)
(* Every step keeps the invariant.                                         *)
(***************************************************************************)

LEMMA InitStep ==
  ASSUME Init
  PROVE  PrintInv
<1>1. args \in Queries /\ trans \in Systems
  BY SystemsAreTyped DEF Init
<1>2. Typed
  BY <1>1, QueriesAreTyped DEF Init, Typed, Sources
<1>3. GoalsKept
  BY DEF Init, GoalsKept
<1>4. Connected \ init = {}
  BY DEF Init, Connected, Sources
<1>5. DOMAIN out = {}
  BY DEF Init
<1>. QED
  BY <1>2, <1>3, <1>4, <1>5
     DEF Init, PrintInv, Treated, Printed, Farther, Layers, Searching, Cursors, Enumerated,
         InOrder, AreShortest, AllArePrinted

LEMMA AlreadyThereStep ==
  ASSUME PrintInv, AlreadyThere
  PROVE  PrintInv'
<1>1. /\ Typed /\ GoalsKept /\ Treated /\ Farther /\ pc = "start" /\ pc' = "done"
      /\ out' = Append(out, <<>>) /\ UNCHANGED <<trans, args, reach, init, goal, left>>
      /\ out \in Seq(Seq(Names)) /\ init \cap goal # {}
  BY DEF PrintInv, AlreadyThere, Typed
<1>2. /\ Near' = Near /\ Sources' = Sources /\ Connected' = Connected
      /\ \A s : Shortest(s)' = Shortest(s)
      /\ GoalsKept'
  BY <1>1, GoalKept
<1>3. PICK s \in init : s \in goal
  BY <1>1
<1>4. s \in Near[0] /\ s \in States /\ s \in Sources /\ s \in args.goal
  BY <1>1, <1>3, ArgumentsTyped, NearUnfolds DEF Typed
<1>5. out = <<>>
  <2>1. ASSUME NEW i \in DOMAIN out
        PROVE  FALSE
    <3>1. Len(out[i]) \in Nat /\ init \cap Near[Len(out[i])] = {}
      BY <1>1 DEF Farther
    <3>2. Near[0] \subseteq Near[Len(out[i])]
      BY <1>1, <3>1, NearUnfolds
    <3>. QED
      BY <1>3, <1>4, <3>1, <3>2
  <2>2. DOMAIN out = 1 .. Len(out) /\ Len(out) \in Nat
    BY <1>1
  <2>3. Len(out) = 0
    BY <2>1, <2>2
  <2>. QED
    BY <1>1, <2>3
<1>6. out' = <<<<>>>> /\ DOMAIN out' = {1} /\ out'[1] = <<>> /\ out' \in Seq(Seq(Names))
  BY <1>1, <1>5
<1>7. s \in Connected /\ Distance(s) = 0
  <2>1. Distance(s) = 0 /\ s \in Near[Cardinality(States)]
    BY <1>1, <1>4, DistanceIs
  <2>. QED
    BY <1>4, <2>1 DEF Connected
<1>8. <<>> \in Shortest(s)
  <2>1. {s} \in SUBSET States
    BY <1>4
  <2> DEFINE w == <<>>
  <2>2. Plays(trans, w, reach, {s})[0] = {s}
    BY <2>1, PlaysUnfolds
  <2>3. w \in [1 .. 0 -> Names]
    OBVIOUS
  <2> HIDE DEF w
  <2>4. /\ Distance(s) \in Nat /\ w \in [1 .. Distance(s) -> Names]
        /\ Plays(trans, w, reach, {s})[Distance(s)] \cap args.goal # {}
    <3>1. {s} \cap args.goal # {}
      BY <1>4
    <3>2. Distance(s) = 0
      BY <1>7
    <3>3. Distance(s) \in Nat
      BY <3>2
    <3>4. w \in [1 .. Distance(s) -> Names]
      BY ONLY <2>3, <3>2
    <3>5. Plays(trans, w, reach, {s})[Distance(s)] = {s}
      BY ONLY <2>2, <3>2
    <3>. QED
      BY <3>1, <3>3, <3>4, <3>5
  <2>5. w \in Shortest(s)
    BY <2>4, ShortestIs
  <2>. QED
    BY <2>5 DEF w
<1>9. AreShortest' /\ InOrder'
  BY <1>2, <1>6, <1>7, <1>8 DEF AreShortest, InOrder
<1>10. AllArePrinted' /\ Typed'
  BY <1>1, <1>2, <1>3, <1>4, <1>6 DEF AllArePrinted, Typed, Searched, Filtered
<1>. QED
  BY <1>1, <1>2, <1>9, <1>10
     DEF PrintInv, Treated, Farther, Layers, Searching, Cursors, Enumerated

LEMMA RestrictEndsStep ==
  ASSUME PrintInv, RestrictEnds
  PROVE  PrintInv'
<1> DEFINE h == NextRel(trans)
           F == Fixpoint(h, init)
           G == args.goal \cap reach
<1>1. /\ Typed /\ GoalsKept /\ Treated /\ Farther /\ pc = "start" /\ pc' = "back"
      /\ InOrder /\ AreShortest
      /\ goal' = goal \cap F /\ init' = init \cap Fixpoint(Backward(F), goal')
      /\ revTrans' = Backward(reach)
      /\ M3' = goal' /\ seen' = goal' /\ rev' = <<goal'>>
      /\ UNCHANGED <<trans, args, reach, left, out>>
      /\ init \cap goal = {}
  BY DEF PrintInv, RestrictEnds, play
<1>2. /\ Near' = Near /\ Sources' = Sources /\ Connected' = Connected
      /\ \A s : Shortest(s)' = Shortest(s)
  BY <1>1, CallKept
<1>3. /\ trans \in Systems /\ init \in SUBSET States /\ goal \in SUBSET States
      /\ goal \subseteq G /\ h \in Relations /\ G \in SUBSET States
  BY <1>1, ArgumentsTyped DEF Typed
<1>4. F \in SUBSET States /\ Closed(h, F) /\ init \subseteq F
  BY <1>3, FixpointTyped, FixpointClosed, FixpointContains
<1>5. Typed' /\ goal' \in SUBSET States
  BY <1>1, <1>2, <1>3 DEF Typed, Searched, Filtered
<1>6. GoalsKept'
  <2> DEFINE I == init'
             F2 == Fixpoint(h, I)
  <2>1. I \subseteq F
    BY <1>1, <1>4
  <2>2. F2 \subseteq F
    <3> HIDE DEF F, I
    <3>. QED
      BY <1>4, <2>1, FixpointLeast
  <2>3. G \cap F \subseteq goal
    BY <1>1 DEF GoalsKept
  <2>4. GoalsKept' <=> G \cap F2 \subseteq goal'
    BY <1>1 DEF GoalsKept, NextRel
  <2>. QED
    BY <1>1, <2>2, <2>3, <2>4
<1>7. Printed(Connected \ init')
  <2>1. SUFFICES ASSUME NEW s \in Connected, s \in init, s \notin init'
                 PROVE  FALSE
    BY <1>1 DEF Treated, Printed
  <2> DEFINE n == Distance(s)
             S2 == goal \cap F
  <2>2. n \in Nat /\ s \in Near[n]
    BY <1>1, ConnectedAt
  <2>3. Near = BackwardWalk(h, reach, G)
    BY DEF Near, BackwardWalk
  <2>4. G \cap F \subseteq S2 /\ S2 \in SUBSET States /\ S2 \subseteq F
    BY <1>1, <1>3 DEF GoalsKept
  <2>5. Backward(F) = PredRel(trans, F, States) /\ goal' = S2
    BY <1>1 DEF Backward
  <2> HIDE DEF S2, F, n, G
  <2>6. Near[n] \cap F \subseteq BackwardWalk(h, reach, S2)[n]
    BY <1>3, <1>4, <2>2, <2>3, <2>4, BackwardWalkMeets
  <2>7. BackwardWalk(h, reach, S2)[n] \cap F \subseteq Fixpoint(PredRel(trans, F, States), S2)
    BY <1>3, <1>4, <2>2, <2>4, WalkInFixpoint
  <2>8. s \in F
    BY <1>4, <2>1
  <2>. QED
    BY <1>1, <2>1, <2>2, <2>5, <2>6, <2>7, <2>8
<1>8. Treated'
  BY <1>1, <1>2, <1>7 DEF Treated, Printed
<1>9. Farther'
  BY <1>1, <1>2 DEF Farther
<1>10. /\ rev' \in Seq(SUBSET States) /\ Len(rev') = 1 /\ 1 .. Len(rev') = {1} /\ rev'[1] = goal'
       /\ Len(rev') - 1 = 0
  BY <1>1, <1>5
<1>11. Walk'[0] = goal'
  <2>1. Walk' = BackwardWalk(h, reach, goal')
    BY <1>1 DEF Walk, NextRel
  <2>. QED
    BY <1>5, <2>1, BackwardWalkUnfolds
<1>12. Layers'
  <2>1. init' \cap goal' = {}
    BY <1>1
  <2>. QED
    BY <1>10, <1>11, <2>1 DEF Layers
<1>13. Searching'
  BY <1>1, <1>10, <1>11 DEF Searching, Backward
<1>14. AreShortest' /\ InOrder'
  BY <1>1, <1>2 DEF AreShortest, InOrder
<1>. QED
  BY <1>1, <1>5, <1>6, <1>8, <1>9, <1>12, <1>13, <1>14
     DEF PrintInv, Cursors, Enumerated, AllArePrinted

(* The variables of the caller's loop are kept by the loops inside it.     *)
LEMMA OuterKept ==
  ASSUME PrintInv, pc' \in {"start", "back", "words", "done"},
         UNCHANGED <<trans, args, reach, init, goal, left, out>>
  PROVE  /\ Typed' /\ GoalsKept' /\ InOrder' /\ AreShortest'
         /\ pc # "done" => Treated'
         /\ Near' = Near /\ Sources' = Sources /\ Connected' = Connected
         /\ \A s : Shortest(s)' = Shortest(s)
         /\ Walk' = Walk
<1>1. /\ Near' = Near /\ Sources' = Sources /\ Connected' = Connected
      /\ \A s : Shortest(s)' = Shortest(s)
      /\ Walk' = Walk
      /\ GoalsKept'
  BY GoalKept DEF PrintInv
<1>2. Searched' = Searched /\ \A S : Filtered(S)' = Filtered(S)
  BY DEF Searched, Filtered
<1>3. Typed'
  BY <1>1, <1>2 DEF PrintInv, Typed
<1>4. InOrder'
  BY DEF PrintInv, InOrder
<1>5. AreShortest'
  BY <1>1 DEF PrintInv, AreShortest
<1>6. pc # "done" => Treated'
  BY <1>1 DEF PrintInv, Treated, Printed
<1>. QED
  BY <1>1, <1>3, <1>4, <1>5, <1>6

LEMMA SearchFailsStep ==
  ASSUME PrintInv, SearchFails
  PROVE  PrintInv'
<1>1. /\ Typed /\ GoalsKept /\ Treated /\ Layers /\ Searching /\ InOrder /\ AreShortest
      /\ pc = "back" /\ pc' = "done" /\ M2 = {}
      /\ UNCHANGED <<trans, args, reach, init, goal, left, out>>
  BY DEF PrintInv, SearchFails
<1>2. /\ Near' = Near /\ Sources' = Sources /\ Connected' = Connected
      /\ \A s : Shortest(s)' = Shortest(s)
      /\ Typed' /\ GoalsKept' /\ InOrder' /\ AreShortest'
  BY <1>1, OuterKept
<1>3. Connected \cap init = {}
  <2> DEFINE L == Len(rev) - 1
  <2>1. SUFFICES ASSUME NEW s \in Connected, s \in init
                 PROVE  FALSE
    OBVIOUS
  <2>2. /\ L \in Nat /\ L + 1 = Len(rev) /\ Walk[L + 1] \ Walk[L] = {}
        /\ Walk[L + 1] \in SUBSET States
    BY <1>1, NextLayer, WalkUnfolds
  <2>3. Walk[L] \subseteq Walk[L + 1]
    BY <1>1, <2>2, WalkUnfolds
  <2>4. Walk[L + 1] = Walk[L]
    BY <2>2, <2>3
  <2>5. init \cap Walk[L] = {}
    BY <1>1 DEF Layers
  <2> DEFINE d == Distance(s)
  <2>6. d \in Nat /\ s \in Walk[d]
    BY <1>1, <2>1, ConnectedAt, WalkIsNear
  <2>7. Walk[d] \subseteq Walk[L]
    <3>1. CASE d <= L
      BY <1>1, <2>2, <2>6, <3>1, WalkUnfolds
    <3>2. CASE L <= d
      <4>1. goal \in SUBSET States
        BY <1>1, ArgumentsTyped
      <4> HIDE DEF d, L
      <4>2. Walk[d] = Walk[L]
        BY <2>2, <2>4, <2>6, <3>2, <4>1, BackwardWalkStops DEF Walk
      <4>. QED
        BY <4>2
    <3>. QED
      BY <2>2, <2>6, <3>1, <3>2
  <2>. QED
    BY <2>1, <2>5, <2>6, <2>7
<1>4. Printed(Connected)
  BY <1>1, <1>3 DEF Treated, Printed
<1>5. AllArePrinted'
  BY <1>1, <1>2, <1>4 DEF AllArePrinted, Printed
<1>. QED
  BY <1>1, <1>2, <1>5
     DEF PrintInv, Treated, Farther, Layers, Searching, Cursors, Enumerated

LEMMA SearchBackStep ==
  ASSUME PrintInv, SearchBack
  PROVE  PrintInv'
<1>1. /\ Typed /\ GoalsKept /\ Treated /\ Farther /\ Layers /\ Searching /\ InOrder
      /\ AreShortest /\ pc = "back" /\ pc' = "back" /\ init \cap M2 = {}
      /\ seen' = seen \cup M2 /\ rev' = <<M2>> \o rev /\ M3' = M2
      /\ UNCHANGED <<trans, args, reach, init, goal, left, out, revTrans>>
  BY DEF PrintInv, SearchBack
<1>2. /\ Near' = Near /\ Sources' = Sources /\ Connected' = Connected
      /\ \A s : Shortest(s)' = Shortest(s)
      /\ Walk' = Walk
      /\ Typed' /\ GoalsKept' /\ InOrder' /\ AreShortest' /\ Treated'
  BY <1>1, OuterKept
<1>3. /\ M2 = Walk[Len(rev)] \ Walk[Len(rev) - 1] /\ seen \cup M2 = Walk[Len(rev)]
      /\ Len(rev) \in Nat \ {0} /\ M2 \in SUBSET States
  BY <1>1, NextLayer
<1>4. /\ rev \in Seq(SUBSET States)
      /\ \A i \in 1 .. Len(rev) :
            rev[i] = IF i = Len(rev) THEN goal
                     ELSE Walk[Len(rev) - i] \ Walk[Len(rev) - i - 1]
      /\ init \cap Walk[Len(rev) - 1] = {} /\ seen = Walk[Len(rev) - 1]
  BY <1>1 DEF Layers, Searching
<1>5. /\ rev' \in Seq(SUBSET States) /\ Len(rev') = Len(rev) + 1 /\ rev'[1] = M2
      /\ \A i \in 2 .. Len(rev) + 1 : rev'[i] = rev[i - 1] /\ i - 1 \in 1 .. Len(rev)
      /\ Len(rev') >= 1 /\ Len(rev') - 1 = Len(rev)
  <2>1. /\ rev' \in Seq(SUBSET States) /\ Len(rev') = Len(rev) + 1 /\ rev'[1] = M2
        /\ \A i \in 2 .. Len(rev) + 1 : rev'[i] = rev[i - 1] /\ i - 1 \in 1 .. Len(rev)
    BY <1>1, <1>3, <1>4, Pushed
  <2>. QED
    BY <1>3, <2>1
<1>6. ASSUME NEW i \in 1 .. Len(rev')
      PROVE  rev'[i] = IF i = Len(rev') THEN goal
                       ELSE Walk[Len(rev') - i] \ Walk[Len(rev') - i - 1]
  <2>1. CASE i = 1
    <3>1. i # Len(rev') /\ Len(rev') - i = Len(rev)
      BY <1>3, <1>5, <2>1
    <3>. QED
      BY <1>3, <1>5, <2>1, <3>1
  <2>2. CASE i # 1
    <3>1. i \in 2 .. Len(rev) + 1
      BY <1>3, <1>5, <2>2
    <3>2. rev'[i] = rev[i - 1] /\ i - 1 \in 1 .. Len(rev)
      BY <1>5, <3>1
    <3>3. /\ i = Len(rev') <=> i - 1 = Len(rev)
          /\ Len(rev') - i = Len(rev) - (i - 1)
      BY <1>3, <1>5, <3>1
    <3>4. rev[i - 1] = IF i - 1 = Len(rev) THEN goal
                       ELSE Walk[Len(rev) - (i - 1)] \ Walk[Len(rev) - (i - 1) - 1]
      BY <1>4, <3>2
    <3>. QED
      BY <3>2, <3>3, <3>4
  <2>. QED
    BY <2>1, <2>2
<1>7. Layers'
  <2>1. init \cap Walk[Len(rev)] = {}
    BY <1>1, <1>3, <1>4
  <2>. QED
    BY <1>1, <1>2, <1>5, <1>6, <2>1 DEF Layers
<1>8. Searching'
  <2>1. Backward(reach)' = Backward(reach)
    BY <1>1 DEF Backward
  <2>. QED
    BY <1>1, <1>2, <1>3, <1>5, <2>1 DEF Searching
<1>9. Farther'
  BY <1>1, <1>2 DEF Farther
<1>. QED
  BY <1>1, <1>2, <1>7, <1>8, <1>9 DEF PrintInv, Cursors, Enumerated, AllArePrinted

LEMMA SearchMeetsInitStep ==
  ASSUME PrintInv, SearchMeetsInit
  PROVE  PrintInv'
<1>1. /\ Typed /\ GoalsKept /\ Treated /\ Farther /\ Layers /\ Searching /\ InOrder
      /\ AreShortest /\ pc = "back" /\ pc' = "words" /\ init \cap M2 # {}
      /\ iters' = [i \in 1 .. Len(rev) |-> 1] /\ cur' = 1 /\ Mi' = init /\ witness' = <<>>
      /\ UNCHANGED <<trans, args, reach, init, goal, left, out, rev>>
  BY DEF PrintInv, SearchMeetsInit, Restart
<1>2. /\ Near' = Near /\ Sources' = Sources /\ Connected' = Connected
      /\ \A s : Shortest(s)' = Shortest(s)
      /\ Walk' = Walk
      /\ Typed' /\ GoalsKept' /\ InOrder' /\ AreShortest' /\ Treated'
  BY <1>1, OuterKept
<1>3. /\ M2 = Walk[Len(rev)] \ Walk[Len(rev) - 1] /\ Len(rev) \in Nat \ {0} /\ Len(rev) \in Nat
  BY <1>1, NextLayer
<1>4. init \cap Walk[Len(rev)] # {}
  BY <1>1, <1>3
<1>5. Layers'
  BY <1>1, <1>2 DEF Layers
<1>6. Cursors'
  <2>1. init \in SUBSET States /\ NbTrans \in Nat
    BY <1>1, ArgumentsTyped, NbTransIsNat
  <2>2. LayerPlays(trans, iters', rev, init)[0] = init
    BY <2>1, LayerPlaysUnfolds
  <2>3. 1 - 1 = 0 /\ 1 \in 1 .. Len(rev) + 1 /\ 1 \in 1 .. Len(rev) /\ 1 \in 1 .. NbTrans + 1
    BY <1>3, <2>1
  <2>4. iters' \in [1 .. Len(rev) -> 1 .. NbTrans + 1]
    BY <1>1, <2>3
  <2>5. Matched(iters, 1 - 1)'
    BY <2>3 DEF Matched
  <2>6. \A j \in 1 + 1 .. Len(rev) : iters'[j] = 1
    BY <1>1, <1>3
  <2>7. witness' \in Seq(Names) /\ Len(witness') = 0
    BY <1>1
  <2>. QED
    BY <1>1, <1>2, <1>4, <2>2, <2>3, <2>4, <2>5, <2>6, <2>7 DEF Cursors
<1>7. Enumerated'
  <2>1. ASSUME NEW i \in DOMAIN out
        PROVE  Len(out[i]) < Len(rev)
    <3>1. Len(out[i]) \in Nat /\ init \cap Near[Len(out[i])] = {}
      BY <1>1 DEF Farther, Typed
    <3>2. ASSUME Len(rev) <= Len(out[i])
          PROVE  FALSE
      <4>1. Near[Len(rev)] \subseteq Near[Len(out[i])]
        BY <1>1, <1>3, <3>1, <3>2, NearUnfolds
      <4>2. Walk[Len(rev)] \subseteq Near[Len(rev)]
        BY <1>1, <1>3, WalkIsNear
      <4>. QED
        BY <1>4, <3>1, <4>1, <4>2
    <3>. QED
      BY <1>3, <3>1, <3>2
  <2>2. ASSUME NEW w \in Words, Before(w, iters)'
        PROVE  FALSE
    <3>1. PICK k \in 1 .. Len(rev) : w[k] < 1
      BY <1>1, <2>2 DEF Before
    <3>2. w[k] \in Names
      BY DEF Words
    <3>. QED
      BY <3>1, <3>2 DEF Names
  <2>3. Words' = Words
    BY <1>1 DEF Words
  <2>. QED
    BY <1>1, <2>1, <2>2, <2>3 DEF Enumerated
<1>. QED
  BY <1>1, <1>2, <1>5, <1>6, <1>7 DEF PrintInv, Farther, Searching, AllArePrinted

-----------------------------------------------------------------------------
(***************************************************************************)
(* The odometer.                                                           *)
(***************************************************************************)

LEMMA Odometer ==
  ASSUME PrintInv, pc = "words"
  PROVE  /\ Len(rev) \in Nat \ {0} /\ Len(rev) \in Nat /\ cur \in Nat /\ cur - 1 \in Nat
         /\ cur \in 1 .. Len(rev) + 1
         /\ init \in SUBSET States /\ NbTrans \in Nat
         /\ iters \in [1 .. Len(rev) -> 1 .. NbTrans + 1]
         /\ \A j \in 1 .. Len(rev) : iters[j] \in Nat /\ iters[j] >= 1
         /\ \A w \in Words : \A j \in 1 .. Len(rev) : w[j] \in Names /\ w[j] \in Nat /\ w[j] >= 1
<1>1. rev \in Seq(SUBSET States) /\ Len(rev) >= 1
  BY DEF PrintInv, Layers
<1>2. iters \in [1 .. Len(rev) -> 1 .. NbTrans + 1] /\ cur \in 1 .. Len(rev) + 1
  BY DEF PrintInv, Cursors
<1>3. init \in SUBSET States /\ NbTrans \in Nat
  BY ArgumentsTyped, NbTransIsNat DEF PrintInv
<1>4. Len(rev) \in Nat \ {0} /\ Len(rev) \in Nat /\ cur \in Nat /\ cur - 1 \in Nat
  BY <1>1, <1>2
<1>5. \A j \in 1 .. Len(rev) : iters[j] \in Nat /\ iters[j] >= 1
  BY <1>2, <1>3
<1>6. ASSUME NEW w \in Words, NEW j \in 1 .. Len(rev)
      PROVE  w[j] \in Names /\ w[j] \in Nat /\ w[j] >= 1
  <2>1. w[j] \in Names
    BY DEF Words
  <2>. QED
    BY <1>3, <2>1 DEF Names
<1>. QED
  BY <1>2, <1>3, <1>4, <1>5, <1>6

(* A sequence that can be played and starts as the cursors are has its     *)
(* next transition among those that match, or it was tried.                *)
LEMMA GoodMatches ==
  ASSUME PrintInv, pc = "words", cur <= Len(rev),
         NEW w \in Words, Good(w), \A m \in 1 .. cur - 1 : w[m] = iters[m]
  PROVE  w[cur] < iters[cur] \/ w[cur] \in Matches
<1> DEFINE met == LayerPlays(trans, w, rev, init)
<1>1. /\ Len(rev) \in Nat /\ cur \in Nat /\ cur - 1 \in Nat /\ init \in SUBSET States
      /\ cur \in 1 .. Len(rev) /\ (cur - 1) + 1 = cur
      /\ w[cur] \in Names /\ iters[cur] \in Nat /\ NbTrans \in Nat
  BY Odometer
<1>2. Mi = met[cur - 1]
  <2>1. LayerPlays(trans, w, rev, init)[cur - 1] = LayerPlays(trans, iters, rev, init)[cur - 1]
    BY <1>1, SamePrefix
  <2>2. Mi = LayerPlays(trans, iters, rev, init)[cur - 1]
    BY DEF PrintInv, Cursors
  <2>. QED
    BY <2>1, <2>2
<1>3. met[cur] # {}
  BY <1>1, MetBefore DEF Good
<1>4. \A n \in Nat : met[n + 1] = Post(trans[w[n + 1]], met[n]) \cap rev[n + 1]
  BY <1>1, LayerPlaysUnfolds
<1> HIDE DEF met
<1>5. Post(trans[w[cur]], Mi) \cap rev[cur] # {}
  BY <1>1, <1>2, <1>3, <1>4
<1>6. w[cur] < iters[cur] \/ w[cur] \in iters[cur] .. NbTrans
  BY <1>1 DEF Names
<1>. QED
  BY <1>5, <1>6 DEF Matches

(* The cursors that were passed still match: the next one does when it is  *)
(* before the last that was moved.                                         *)
LEMMA CursorMatches ==
  ASSUME PrintInv, pc = "words", cur <= Len(rev), Matched(iters, cur)
  PROVE  iters[cur] \in Matches
<1> DEFINE met == LayerPlays(trans, iters, rev, init)
<1>1. /\ cur \in Nat /\ cur - 1 \in Nat /\ init \in SUBSET States
      /\ (cur - 1) + 1 = cur /\ cur \in 1 .. cur /\ NbTrans \in Nat
  BY Odometer
<1>2. Mi = met[cur - 1]
  BY DEF PrintInv, Cursors
<1>3. met[cur] # {} /\ iters[cur] \in Names
  BY <1>1 DEF Matched
<1>4. \A n \in Nat : met[n + 1] = Post(trans[iters[n + 1]], met[n]) \cap rev[n + 1]
  BY <1>1, LayerPlaysUnfolds
<1> HIDE DEF met
<1>5. Post(trans[iters[cur]], Mi) \cap rev[cur] # {}
  BY <1>1, <1>2, <1>3, <1>4
<1>6. iters[cur] \in iters[cur] .. NbTrans
  BY <1>1, <1>3 DEF Names
<1>. QED
  BY <1>5, <1>6 DEF Matches

(* A number of cursors match whenever they are the same as before.         *)
LEMMA MatchedKept ==
  ASSUME PrintInv, NEW its, NEW k \in Nat, Matched(iters, k),
         \A j \in 1 .. k : its[j] = iters[j]
  PROVE  Matched(its, k)
<1>1. init \in SUBSET States
  BY ArgumentsTyped DEF PrintInv
<1>2. ASSUME NEW j \in 1 .. k
      PROVE  its[j] \in Names /\ LayerPlays(trans, its, rev, init)[j] # {}
  <2>1. j \in Nat /\ \A i \in 1 .. j : its[i] = iters[i]
    BY <1>2
  <2>2. LayerPlays(trans, its, rev, init)[j] = LayerPlays(trans, iters, rev, init)[j]
    BY <1>1, <2>1, SamePrefix
  <2>. QED
    BY <2>2 DEF Matched
<1>. QED
  BY <1>2 DEF Matched

(* A cursor moves on: what is printed is still before the cursors.         *)
LEMMA CursorMoves ==
  ASSUME PrintInv, pc = "words",
         NEW its, \A j \in 1 .. Len(rev) : its[j] \in Nat,
         NEW k \in 1 .. Len(rev), iters[k] < its[k], \A m \in 1 .. k - 1 : its[m] = iters[m],
         NEW i \in DOMAIN out
  PROVE  Len(out[i]) < Len(rev) \/ (Len(out[i]) = Len(rev) /\ Before(out[i], its))
<1>1. Len(rev) \in Nat /\ \A j \in 1 .. Len(rev) : iters[j] \in Nat
  BY Odometer
<1>2. Len(out[i]) < Len(rev) \/ (Len(out[i]) = Len(rev) /\ Before(out[i], iters))
  BY DEF PrintInv, Enumerated
<1>3. Before(iters, its)
  BY DEF Before
<1>4. ASSUME Len(out[i]) = Len(rev), Before(out[i], iters)
      PROVE  Before(out[i], its)
  <2>1. out[i] \in Seq(Names) /\ NbTrans \in Nat
    BY NbTransIsNat DEF PrintInv, Typed
  <2>2. \A j \in 1 .. Len(rev) : out[i][j] \in Nat
    BY <1>4, <2>1 DEF Names
  <2> DEFINE u == out[i]
  <2>3. \A j \in 1 .. Len(rev) : u[j] \in Nat /\ iters[j] \in Nat /\ its[j] \in Nat
    BY <1>1, <2>2
  <2>4. Before(u, iters)
    BY <1>4
  <2> HIDE DEF u
  <2>5. Before(u, its)
    BY <1>1, <1>3, <2>3, <2>4, BeforeIsTransitive
  <2>. QED
    BY <2>5 DEF u
<1>. QED
  BY <1>2, <1>4

LEMMA TryStep ==
  ASSUME PrintInv, Try
  PROVE  PrintInv'
<1>1. /\ pc = "words" /\ left > 0 /\ cur <= Len(rev) /\ cur' = cur + 1 /\ pc' = "words"
      /\ UNCHANGED <<trans, args, reach, init, goal, left, out, rev>>
  BY DEF PrintInv, Try, Building, search
<1>2. PICK n \in Matches :
        /\ \A m \in Matches : n <= m
        /\ iters' = [iters EXCEPT ![cur] = n]
        /\ Mi' = Post(trans[n], Mi) \cap rev[cur]
        /\ witness' = Append(witness, n)
  BY DEF Try
<1>3. /\ Near' = Near /\ Walk' = Walk
      /\ Typed' /\ GoalsKept' /\ InOrder' /\ AreShortest' /\ Treated'
  BY <1>1, OuterKept
<1>4. /\ Len(rev) \in Nat \ {0} /\ cur \in Nat /\ cur - 1 \in Nat /\ cur \in 1 .. Len(rev)
      /\ init \in SUBSET States /\ NbTrans \in Nat
      /\ iters \in [1 .. Len(rev) -> 1 .. NbTrans + 1]
      /\ \A j \in 1 .. Len(rev) : iters[j] \in Nat /\ iters[j] >= 1
      /\ \A w \in Words : \A j \in 1 .. Len(rev) : w[j] \in Names /\ w[j] \in Nat /\ w[j] >= 1
      /\ (cur - 1) + 1 = cur /\ cur + 1 \in 1 .. Len(rev) + 1 /\ (cur + 1) - 1 = cur
  BY <1>1, Odometer
<1>5. n \in iters[cur] .. NbTrans /\ n \in Names /\ Post(trans[n], Mi) \cap rev[cur] # {}
      /\ n \in Nat /\ iters[cur] <= n
  BY <1>4 DEF Matches, Names
<1>6. /\ iters' \in [1 .. Len(rev) -> 1 .. NbTrans + 1]
      /\ iters'[cur] = n /\ \A j \in 1 .. Len(rev) : j # cur => iters'[j] = iters[j]
      /\ \A j \in 1 .. Len(rev) : iters'[j] \in Nat /\ iters'[j] >= 1
      /\ \A j \in 1 .. cur - 1 : iters'[j] = iters[j]
      /\ n = iters[cur] => iters' = iters
  BY <1>2, <1>4, <1>5 DEF Names
<1>7. PICK b \in 1 .. Len(rev) : Matched(iters, b - 1) /\ \A j \in b + 1 .. Len(rev) : iters[j] = 1
  BY <1>1 DEF PrintInv, Cursors
<1>8. n = iters[cur] \/ b <= cur
  <2>1. ASSUME cur < b
        PROVE  n = iters[cur]
    <3>1. Matched(iters, cur)
      <4>1. \A j \in 1 .. cur : j \in 1 .. b - 1
        BY <1>4, <2>1
      <4>. QED
        BY <1>7, <4>1 DEF Matched
    <3>2. iters[cur] \in Matches
      BY <1>1, <3>1, CursorMatches
    <3>. QED
      BY <1>2, <1>4, <1>5, <3>2
  <2>. QED
    BY <1>4, <2>1
<1>9. Matched(iters, cur - 1) /\ Mi = LayerPlays(trans, iters, rev, init)[cur - 1]
      /\ init \cap Walk[Len(rev)] # {} /\ witness \in Seq(Names) /\ Len(witness) = cur - 1
      /\ \A i \in 1 .. cur - 1 : witness[i] = iters[i]
  BY <1>1 DEF PrintInv, Cursors
<1>10. Matched(iters', cur - 1)
  BY <1>4, <1>6, <1>9, MatchedKept
<1> DEFINE met == LayerPlays(trans, iters', rev, init)
<1>11. Mi' = met[cur]
  <2>1. met[cur - 1] = LayerPlays(trans, iters, rev, init)[cur - 1]
    <3> DEFINE its == iters'
               l == cur - 1
    <3>1. l \in Nat /\ \A j \in 1 .. l : its[j] = iters[j]
      BY <1>4, <1>6
    <3> HIDE DEF its, l
    <3>2. LayerPlays(trans, its, rev, init)[l] = LayerPlays(trans, iters, rev, init)[l]
      BY <1>4, <3>1, SamePrefix
    <3>. QED
      BY <3>2 DEF its, l
  <2>2. \A k \in Nat : met[k + 1] = Post(trans[iters'[k + 1]], met[k]) \cap rev[k + 1]
    BY <1>4, LayerPlaysUnfolds
  <2> HIDE DEF met
  <2>. QED
    BY <1>2, <1>4, <1>6, <1>9, <2>1, <2>2
<1>12. Matched(iters', cur)
  <2>1. iters'[cur] \in Names /\ met[cur] # {}
    BY <1>2, <1>5, <1>6, <1>11
  <2>2. ASSUME NEW j \in 1 .. cur
        PROVE  iters'[j] \in Names /\ met[j] # {}
    <3>1. j = cur \/ j \in 1 .. cur - 1
      BY <1>4
    <3>. QED
      BY <1>10, <2>1, <3>1 DEF Matched
  <2>. QED
    BY <2>2 DEF Matched
<1>13. \E c \in 1 .. Len(rev) : Matched(iters', c - 1) /\ \A j \in c + 1 .. Len(rev) : iters'[j] = 1
  <2>1. CASE n = iters[cur]
    <3>1. b - 1 \in Nat /\ iters' = iters
      BY <1>4, <1>6, <2>1
    <3>2. Matched(iters', b - 1)
      BY <1>7, <3>1
    <3>. QED
      BY <1>7, <3>1, <3>2
  <2>2. CASE b <= cur
    <3>1. \A j \in cur + 1 .. Len(rev) : j \in b + 1 .. Len(rev) /\ j # cur /\ j \in 1 .. Len(rev)
      BY <1>4, <2>2
    <3>2. \A j \in cur + 1 .. Len(rev) : iters'[j] = 1
      BY <1>6, <1>7, <3>1
    <3>. QED
      BY <1>4, <1>10, <3>2
  <2>. QED
    BY <1>8, <2>1, <2>2
<1>14. /\ witness' \in Seq(Names) /\ Len(witness') = cur
       /\ \A i \in 1 .. cur : witness'[i] = iters'[i]
  <2>1. /\ witness' \in Seq(Names) /\ Len(witness') = (cur - 1) + 1
        /\ \A i \in 1 .. cur - 1 : witness'[i] = witness[i]
        /\ witness'[(cur - 1) + 1] = n
    BY <1>2, <1>5, <1>9
  <2>2. \A i \in 1 .. cur : i = cur \/ i \in 1 .. cur - 1
    BY <1>4
  <2>. QED
    BY <1>4, <1>6, <1>9, <2>1, <2>2
<1>15. Cursors'
  <2>1. /\ LayerPlays(trans, iters, rev, init)' = met
        /\ \A k : Matched(iters, k)' = Matched(iters', k)
    BY <1>1 DEF Matched
  <2>2. cur' - 1 = cur /\ cur' \in 1 .. Len(rev) + 1
    BY <1>1, <1>4
  <2> HIDE DEF met
  <2>. QED
    BY <1>1, <1>3, <1>6, <1>9, <1>11, <1>12, <1>13, <1>14, <2>1, <2>2 DEF Cursors
<1>16. ASSUME NEW i \in DOMAIN out
       PROVE  Len(out[i]) < Len(rev) \/ (Len(out[i]) = Len(rev) /\ Before(out[i], iters'))
  <2>1. CASE n = iters[cur]
    BY <1>1, <1>6, <2>1 DEF PrintInv, Enumerated
  <2>2. CASE iters[cur] < n
    BY <1>1, <1>4, <1>6, <2>2, CursorMoves
  <2>. QED
    BY <1>4, <1>5, <2>1, <2>2
<1>17. ASSUME NEW w \in Words, Good(w), Before(w, iters')
       PROVE  Contains(out, w)
  <2>1. PICK k \in 1 .. Len(rev) : w[k] < iters'[k] /\ \A m \in 1 .. k - 1 : w[m] = iters'[m]
    BY <1>17 DEF Before
  <2>2. SUFFICES Before(w, iters)
    BY <1>1, <1>17 DEF PrintInv, Enumerated
  <2>3. CASE k < cur
    <3>1. k # cur /\ \A m \in 1 .. k - 1 : m # cur /\ m \in 1 .. Len(rev)
      BY <1>4, <2>3
    <3>. QED
      BY <1>6, <2>1, <3>1 DEF Before
  <2>4. CASE k = cur
    <3>1. \A m \in 1 .. cur - 1 : w[m] = iters[m]
      BY <1>6, <2>1, <2>4
    <3>2. w[cur] < iters[cur] \/ w[cur] \in Matches
      BY <1>1, <1>17, <3>1, GoodMatches
    <3>3. w[cur] < iters[cur]
      BY <1>2, <1>4, <1>5, <1>6, <2>1, <2>4, <3>2
    <3>. QED
      BY <1>4, <3>1, <3>3 DEF Before
  <2>5. CASE cur < k
    <3>1. k # cur /\ cur \in 1 .. k - 1
      BY <1>4, <2>5
    <3>2. n = iters[cur]
      <4>1. ASSUME b <= cur
            PROVE  FALSE
        <5>1. k \in b + 1 .. Len(rev)
          BY <1>4, <2>5, <4>1
        <5>2. iters'[k] = 1
          BY <1>6, <1>7, <3>1, <5>1
        <5>. QED
          BY <1>4, <2>1, <5>2
      <4>. QED
        BY <1>8, <4>1
    <3>. QED
      BY <1>6, <2>1, <3>2 DEF Before
  <2>. QED
    BY <1>4, <2>3, <2>4, <2>5
<1>18. Enumerated'
  <2>1. /\ Words' = Words /\ \A w : Good(w)' = Good(w)
        /\ \A u : Before(u, iters)' = Before(u, iters')
    BY <1>1 DEF Words, Good, Before
  <2>. QED
    BY <1>1, <1>16, <1>17, <2>1 DEF Enumerated
<1>19. Layers'
  BY <1>1, <1>3 DEF PrintInv, Layers
<1>. QED
  BY <1>1, <1>3, <1>15, <1>18, <1>19 DEF PrintInv, Farther, Searching, AllArePrinted

(* The next sequence is started with the last cursor moved one further.    *)
LEMMA Restarted ==
  ASSUME PrintInv, pc = "words", pc' = "words",
         UNCHANGED <<trans, args, reach, init, goal, rev>>,
         NEW its, Restart(its), its \in [1 .. Len(rev) -> 1 .. NbTrans + 1],
         NEW b \in 1 .. Len(rev), Matched(iters, b - 1),
         \A j \in 1 .. b - 1 : its[j] = iters[j],
         \A j \in b + 1 .. Len(rev) : its[j] = 1
  PROVE  Cursors' /\ Layers'
<1>1. Len(rev) \in Nat \ {0} /\ b - 1 \in Nat /\ init \in SUBSET States
  BY Odometer
<1>2. iters' = its /\ cur' = 1 /\ Mi' = init /\ witness' = <<>>
  BY DEF Restart
<1>3. Matched(its, b - 1)
  BY <1>1, MatchedKept
<1>4. \A k : Matched(iters, k)' = Matched(its, k)
  BY <1>2 DEF Matched
<1>5. Walk' = Walk
  BY GoalKept
<1>6. LayerPlays(trans, its, rev, init)[0] = init
  BY <1>1, LayerPlaysUnfolds
<1>7. LayerPlays(trans, iters, rev, init)' = LayerPlays(trans, its, rev, init)
  BY <1>2
<1>8. cur' - 1 = 0 /\ cur' \in 1 .. Len(rev) + 1 /\ witness' \in Seq(Names) /\ Len(witness') = 0
  BY <1>1, <1>2
<1>9. Matched(iters, cur - 1)'
  BY <1>8 DEF Matched
<1>10. init \cap Walk[Len(rev)] # {}
  BY DEF PrintInv, Cursors
<1>11. \E c \in 1 .. Len(rev) :
          Matched(its, c - 1) /\ \A j \in c + 1 .. Len(rev) : its[j] = 1
  BY <1>3
<1>12. Cursors'
  BY <1>2, <1>4, <1>5, <1>6, <1>7, <1>8, <1>9, <1>10, <1>11 DEF Cursors
<1>13. Layers'
  BY <1>5 DEF PrintInv, Layers
<1>. QED
  BY <1>12, <1>13

LEMMA BacktrackStep ==
  ASSUME PrintInv, Backtrack
  PROVE  PrintInv'
<1> DEFINE its == [j \in 1 .. Len(rev) |->
                     IF j >= cur THEN 1 ELSE IF j = cur - 1 THEN iters[j] + 1 ELSE iters[j]]
           b == cur - 1
<1>1. /\ pc = "words" /\ left > 0 /\ cur <= Len(rev) /\ cur > 1 /\ Matches = {} /\ pc' = "words"
      /\ Restart(its) /\ iters' = its
      /\ UNCHANGED <<trans, args, reach, init, goal, left, out, rev>>
  BY DEF PrintInv, Backtrack, Building, Restart, search
<1>2. /\ Near' = Near /\ Walk' = Walk
      /\ Typed' /\ GoalsKept' /\ InOrder' /\ AreShortest' /\ Treated'
  BY <1>1, OuterKept
<1>3. /\ Len(rev) \in Nat \ {0} /\ cur \in Nat /\ cur - 1 \in Nat /\ cur \in 1 .. Len(rev)
      /\ b \in 1 .. Len(rev) /\ b + 1 = cur /\ b - 1 \in Nat /\ NbTrans \in Nat
      /\ iters \in [1 .. Len(rev) -> 1 .. NbTrans + 1]
      /\ \A j \in 1 .. Len(rev) : iters[j] \in Nat /\ iters[j] >= 1
      /\ \A w \in Words : \A j \in 1 .. Len(rev) : w[j] \in Names /\ w[j] \in Nat /\ w[j] >= 1
  BY <1>1, Odometer
<1>4. Matched(iters, b)
  BY <1>1 DEF PrintInv, Cursors
<1>5. iters[b] \in Names /\ Matched(iters, b - 1)
  <2>1. b \in 1 .. b /\ \A j \in 1 .. b - 1 : j \in 1 .. b
    BY <1>3
  <2>. QED
    BY <1>4, <2>1 DEF Matched
<1>6. /\ its[b] = iters[b] + 1 /\ \A j \in 1 .. b - 1 : its[j] = iters[j]
      /\ \A j \in b + 1 .. Len(rev) : its[j] = 1
      /\ \A j \in 1 .. Len(rev) : its[j] \in Nat
  <2>1. b \in 1 .. Len(rev) /\ ~(b >= cur)
    BY <1>3
  <2>2. \A j \in 1 .. b - 1 : j \in 1 .. Len(rev) /\ ~(j >= cur) /\ j # cur - 1
    BY <1>3
  <2>3. \A j \in b + 1 .. Len(rev) : j \in 1 .. Len(rev) /\ j >= cur
    BY <1>3
  <2>. QED
    BY <1>3, <2>1, <2>2, <2>3
<1>7. its \in [1 .. Len(rev) -> 1 .. NbTrans + 1]
  <2>1. ASSUME NEW j \in 1 .. Len(rev)
        PROVE  its[j] \in 1 .. NbTrans + 1
    <3>1. 1 \in 1 .. NbTrans + 1 /\ iters[b] + 1 \in 1 .. NbTrans + 1
      BY <1>3, <1>5 DEF Names
    <3>2. iters[j] \in 1 .. NbTrans + 1
      BY <1>3
    <3>3. its[j] = 1 \/ its[j] = iters[b] + 1 \/ its[j] = iters[j]
      OBVIOUS
    <3>. QED
      BY <3>1, <3>2, <3>3
  <2>. QED
    BY <2>1
<1> HIDE DEF its
<1>8. Cursors' /\ Layers'
  <2> HIDE DEF b
  <2>. QED
    BY <1>1, <1>3, <1>5, <1>6, <1>7, Restarted
<1>9. ASSUME NEW i \in DOMAIN out
      PROVE  Len(out[i]) < Len(rev) \/ (Len(out[i]) = Len(rev) /\ Before(out[i], its))
  <2>1. iters[b] < its[b]
    BY <1>3, <1>6
  <2> HIDE DEF b
  <2>. QED
    BY <1>1, <1>3, <1>6, <2>1, CursorMoves
<1>10. ASSUME NEW w \in Words, Good(w), Before(w, its)
       PROVE  Contains(out, w)
  <2>1. PICK k \in 1 .. Len(rev) : w[k] < its[k] /\ \A m \in 1 .. k - 1 : w[m] = its[m]
    BY <1>10 DEF Before
  <2>2. SUFFICES Before(w, iters)
    BY <1>1, <1>10 DEF PrintInv, Enumerated
  <2>3. CASE k < b
    <3>1. k \in 1 .. b - 1 /\ \A m \in 1 .. k - 1 : m \in 1 .. b - 1
      BY <1>3, <2>3
    <3>. QED
      BY <1>6, <2>1, <3>1 DEF Before
  <2>4. CASE k = b
    <3>1. \A m \in 1 .. b - 1 : w[m] = iters[m]
      BY <1>6, <2>1, <2>4
    <3>2. w[b] < iters[b] \/ w[b] = iters[b]
      <4>1. w[b] \in Nat /\ iters[b] \in Nat
        BY <1>3
      <4>2. w[b] < iters[b] + 1
        BY <1>6, <2>1, <2>4
      <4>. QED
        BY <4>1, <4>2
    <3>3. CASE w[b] < iters[b]
      BY <1>3, <3>1, <3>3 DEF Before
    <3>4. CASE w[b] = iters[b]
      <4>1. \A m \in 1 .. cur - 1 : m = b \/ m \in 1 .. b - 1
        BY <1>3
      <4>2. \A m \in 1 .. cur - 1 : w[m] = iters[m]
        BY <3>1, <3>4, <4>1
      <4>3. w[cur] < iters[cur]
        BY <1>1, <1>10, <4>2, GoodMatches
      <4>. QED
        BY <1>3, <4>2, <4>3 DEF Before
    <3>. QED
      BY <3>2, <3>3, <3>4
  <2>5. CASE b < k
    <3>1. k \in b + 1 .. Len(rev)
      BY <1>3, <2>5
    <3>2. w[k] < 1 /\ w[k] >= 1 /\ w[k] \in Nat
      BY <1>3, <1>6, <2>1, <3>1
    <3>. QED
      BY <3>2
  <2>. QED
    BY <1>3, <2>3, <2>4, <2>5
<1>11. Enumerated'
  <2>1. /\ Words' = Words /\ \A w : Good(w)' = Good(w)
        /\ \A u : Before(u, iters)' = Before(u, its)
    BY <1>1 DEF Words, Good, Before
  <2>. QED
    BY <1>1, <1>9, <1>10, <2>1 DEF Enumerated
<1>. QED
  BY <1>1, <1>2, <1>8, <1>11 DEF PrintInv, Farther, Searching, AllArePrinted

LEMMA ReportStep ==
  ASSUME PrintInv, Report
  PROVE  PrintInv'
<1> DEFINE d == Len(rev)
           its == [iters EXCEPT ![d] = @ + 1]
<1>1. /\ pc = "words" /\ left > 0 /\ cur > Len(rev) /\ pc' = "words"
      /\ out' = Append(out, witness) /\ left' = left - 1
      /\ Restart(its) /\ iters' = its
      /\ UNCHANGED <<trans, args, reach, init, goal, rev>>
  BY DEF PrintInv, Report, Restart, search
<1>2. /\ Near' = Near /\ Sources' = Sources /\ Connected' = Connected
      /\ \A s : Shortest(s)' = Shortest(s)
      /\ Walk' = Walk /\ GoalsKept'
  BY <1>1, GoalKept DEF PrintInv
<1>0. d \in Nat \ {0}
  BY <1>1, Odometer
<1>3. /\ d \in Nat \ {0} /\ d \in Nat /\ cur = d + 1 /\ cur - 1 = d /\ d \in 1 .. d
      /\ d - 1 \in Nat /\ NbTrans \in Nat
      /\ iters \in [1 .. d -> 1 .. NbTrans + 1]
      /\ \A j \in 1 .. d : iters[j] \in Nat /\ iters[j] >= 1
      /\ \A w \in Words : \A j \in 1 .. d : w[j] \in Names /\ w[j] \in Nat /\ w[j] >= 1
  BY <1>1, Odometer
<1>4. /\ Matched(iters, d) /\ witness \in Seq(Names) /\ Len(witness) = d
      /\ \A i \in 1 .. d : witness[i] = iters[i]
  BY <1>1, <1>3 DEF PrintInv, Cursors
<1>5. iters[d] \in Names /\ Matched(iters, d - 1)
  <2>1. \A j \in 1 .. d - 1 : j \in 1 .. d
    BY <1>3
  <2>. QED
    BY <1>3, <1>4, <2>1 DEF Matched
<1>6. /\ its[d] = iters[d] + 1 /\ \A j \in 1 .. d - 1 : its[j] = iters[j]
      /\ \A j \in 1 .. d : its[j] \in Nat
      /\ its \in [1 .. d -> 1 .. NbTrans + 1]
      /\ \A j \in d + 1 .. d : its[j] = 1
  <2>1. iters[d] + 1 \in 1 .. NbTrans + 1
    BY <1>3, <1>5 DEF Names
  <2>2. \A j \in 1 .. d : its[j] = IF j = d THEN iters[d] + 1 ELSE iters[j]
    BY <1>3
  <2>3. its \in [1 .. d -> 1 .. NbTrans + 1]
    BY <1>3, <2>1
  <2>4. /\ \A j \in 1 .. d - 1 : j \in 1 .. d /\ j # d
        /\ \A j \in d + 1 .. d : FALSE
    BY <1>0
  <2> HIDE DEF its
  <2>5. \A j \in 1 .. d : its[j] \in Nat
    <3>1. NbTrans \in Nat
      BY <1>3
    <3>. QED
      BY <2>3, <3>1
  <2>. QED
    BY <1>3, <2>2, <2>3, <2>4, <2>5
<1>7. witness \in Words /\ Good(witness)
  <2>1. \A i \in 1 .. d : witness[i] \in Names
    BY <1>4
  <2>2. witness \in Words
    BY <1>4 DEF Words
  <2>3. LayerPlays(trans, witness, rev, init)[d] = LayerPlays(trans, iters, rev, init)[d]
    <3>1. init \in SUBSET States
      BY <1>1, Odometer
    <3> HIDE DEF d
    <3>. QED
      BY <1>3, <1>4, <3>1, SamePrefix
  <2>. QED
    BY <1>3, <1>4, <2>2, <2>3 DEF Good, Matched
<1>8. /\ out \in Seq(Seq(Names)) /\ Len(out) \in Nat /\ DOMAIN out = 1 .. Len(out)
      /\ out' \in Seq(Seq(Names)) /\ Len(out') = Len(out) + 1
      /\ DOMAIN out' = 1 .. Len(out) + 1
      /\ out'[Len(out) + 1] = witness
      /\ \A i \in DOMAIN out : out'[i] = out[i] /\ i # Len(out) + 1
      /\ \A i \in DOMAIN out' : i = Len(out) + 1 \/ i \in DOMAIN out
  <2>1. out \in Seq(Seq(Names))
    BY DEF PrintInv, Typed
  <2>. QED
    BY <1>1, <1>4, <2>1
<1>9. \A w : Contains(out, w) => Contains(out', w)
  <2>1. Len(out) \in Nat /\ Len(out') = Len(out) + 1
    BY <1>8
  <2>2. \A i \in 1 .. Len(out) : i \in 1 .. Len(out')
    BY <2>1
  <2>3. \A i \in 1 .. Len(out) : out'[i] = out[i]
    BY <1>8
  <2>. QED
    BY <2>2, <2>3 DEF Contains
<1>10. Contains(out', witness)
  <2>1. Len(out) + 1 \in 1 .. Len(out')
    BY <1>8
  <2>. QED
    BY <1>8, <2>1 DEF Contains
<1> HIDE DEF its
<1>11. Cursors' /\ Layers'
  <2>1. /\ pc = "words" /\ pc' = "words" /\ Restart(its)
        /\ UNCHANGED <<trans, args, reach, init, goal, rev>>
    BY <1>1
  <2> DEFINE b == d
  <2>2. b \in 1 .. Len(rev) /\ Matched(iters, b - 1)
    BY <1>3, <1>5
  <2>3. /\ its \in [1 .. Len(rev) -> 1 .. NbTrans + 1]
        /\ \A j \in 1 .. b - 1 : its[j] = iters[j]
        /\ \A j \in b + 1 .. Len(rev) : its[j] = 1
    BY <1>6
  <2> HIDE DEF b
  <2>. QED
    BY <2>1, <2>2, <2>3, Restarted
<1>12. Before(witness, its)
  <2>1. \A m \in 1 .. d - 1 : m \in 1 .. d
    BY <1>0
  <2>2. d \in 1 .. d /\ iters[d] \in Nat
    BY <1>3
  <2>3. witness[d] < its[d]
    BY <1>4, <1>6, <2>2
  <2>4. \A m \in 1 .. d - 1 : witness[m] = its[m]
    BY <1>4, <1>6, <2>1
  <2>. QED
    BY <2>2, <2>3, <2>4 DEF Before
<1>13. ASSUME NEW i \in DOMAIN out'
       PROVE  Len(out'[i]) < d \/ (Len(out'[i]) = d /\ Before(out'[i], its))
  <2>1. CASE i = Len(out) + 1
    BY <1>4, <1>8, <1>12, <2>1
  <2>2. CASE i \in DOMAIN out
    <3>1. iters[d] < its[d]
      BY <1>3, <1>6
    <3>2. Len(out[i]) < Len(rev) \/ (Len(out[i]) = Len(rev) /\ Before(out[i], its))
      BY <1>1, <1>3, <1>6, <2>2, <3>1, CursorMoves
    <3>. QED
      BY <1>8, <2>2, <3>2
  <2>. QED
    BY <1>8, <2>1, <2>2
<1>14. ASSUME NEW w \in Words, Good(w), Before(w, its)
       PROVE  Contains(out', w)
  <2>1. PICK k \in 1 .. d : w[k] < its[k] /\ \A m \in 1 .. k - 1 : w[m] = its[m]
    BY <1>14 DEF Before
  <2>2. ASSUME Before(w, iters)
        PROVE  Contains(out', w)
    BY <1>1, <1>9, <1>14, <2>2 DEF PrintInv, Enumerated
  <2>3. CASE k < d
    <3>1. k \in 1 .. d - 1 /\ \A m \in 1 .. k - 1 : m \in 1 .. d - 1
      BY <1>3, <2>3
    <3>. QED
      BY <1>6, <2>1, <2>2, <3>1 DEF Before
  <2>4. CASE k = d
    <3>1. \A m \in 1 .. d - 1 : w[m] = iters[m]
      BY <1>6, <2>1, <2>4
    <3>2. w[d] < iters[d] \/ w[d] = iters[d]
      <4>1. w[d] \in Nat /\ iters[d] \in Nat
        BY <1>3
      <4>2. w[d] < iters[d] + 1
        BY <1>6, <2>1, <2>4
      <4>. QED
        BY <4>1, <4>2
    <3>3. CASE w[d] < iters[d]
      BY <1>3, <2>2, <3>1, <3>3 DEF Before
    <3>4. CASE w[d] = iters[d]
      <4>1. \A m \in 1 .. d : m = d \/ m \in 1 .. d - 1
        BY <1>0
      <4>2. \A m \in 1 .. d : w[m] = witness[m]
        BY <1>4, <3>1, <3>4, <4>1
      <4>3. w = witness
        BY <1>7, <4>2 DEF Words
      <4>. QED
        BY <1>10, <4>3
    <3>. QED
      BY <3>2, <3>3, <3>4
  <2>5. k < d \/ k = d
    BY <1>0
  <2>. QED
    BY <2>3, <2>4, <2>5
<1>15. Enumerated'
  <2>1. /\ Words' = Words /\ \A w : Good(w)' = Good(w)
        /\ \A u : Before(u, iters)' = Before(u, its)
    BY <1>1 DEF Words, Good, Before
  <2>. QED
    BY <1>1, <1>13, <1>14, <2>1 DEF Enumerated
<1>16. Treated'
  BY <1>1, <1>2, <1>9 DEF PrintInv, Treated, Printed
<1>17. Typed'
  <2>1. Searched' = Searched /\ \A S : Filtered(S)' = Filtered(S)
    BY <1>1 DEF Searched, Filtered
  <2>2. left' \in Nat
    BY <1>1 DEF PrintInv, Typed
  <2>. QED
    BY <1>1, <1>2, <1>8, <2>1, <2>2 DEF PrintInv, Typed
<1>18. AreShortest'
  <2>1. ASSUME Sources \subseteq reach
        PROVE  \E s \in Connected : witness \in Shortest(s)
    BY <1>1, <1>7, <2>1, GoodIsShortest DEF PrintInv
  <2>2. ASSUME Sources \subseteq reach, NEW i \in DOMAIN out'
        PROVE  \E s \in Connected : out'[i] \in Shortest(s)
    <3>1. CASE i = Len(out) + 1
      BY <1>8, <2>1, <2>2, <3>1
    <3>2. CASE i \in DOMAIN out
      BY <1>8, <2>2, <3>2 DEF PrintInv, AreShortest
    <3>. QED
      BY <1>8, <2>2, <3>1, <3>2
  <2>. QED
    BY <1>1, <1>2, <2>2 DEF AreShortest
<1>19. InOrder'
  <2> SUFFICES ASSUME NEW i \in DOMAIN out', NEW j \in DOMAIN out', i < j
               PROVE  \/ Len(out'[i]) < Len(out'[j])
                      \/ /\ Len(out'[i]) = Len(out'[j])
                         /\ \E k \in DOMAIN out'[i] :
                              /\ out'[i][k] < out'[j][k]
                              /\ \A m \in 1 .. k - 1 : out'[i][m] = out'[j][m]
    BY DEF InOrder
  <2>1. CASE j = Len(out) + 1
    <3>1. i \in DOMAIN out
      <4>1. Len(out) \in Nat /\ DOMAIN out = 1 .. Len(out) /\ DOMAIN out' = 1 .. Len(out) + 1
        BY <1>8
      <4>. QED
        BY <2>1, <4>1
    <3>2. Len(out[i]) < d \/ (Len(out[i]) = d /\ Before(out[i], iters))
      BY <1>1, <3>1 DEF PrintInv, Enumerated
    <3>3. out'[i] = out[i] /\ out'[j] = witness
      BY <1>8, <2>1, <3>1
    <3>4. ASSUME Len(out[i]) = d, Before(out[i], iters)
          PROVE  \E k \in DOMAIN out[i] :
                   /\ out[i][k] < witness[k]
                   /\ \A m \in 1 .. k - 1 : out[i][m] = witness[m]
      <4>1. PICK k \in 1 .. d : out[i][k] < iters[k] /\ \A m \in 1 .. k - 1 : out[i][m] = iters[m]
        BY <3>4 DEF Before
      <4>2. out[i] \in Seq(Names)
        BY <1>8, <3>1
      <4>3. k \in DOMAIN out[i]
        BY <3>4, <4>2
      <4>4. \A m \in 1 .. k - 1 : m \in 1 .. d
        BY <1>3
      <4>. QED
        BY <1>4, <4>1, <4>3, <4>4
    <3>. QED
      BY <1>4, <3>2, <3>3, <3>4
  <2>2. CASE j \in DOMAIN out
    <3>1. i \in DOMAIN out
      <4>1. Len(out) \in Nat /\ DOMAIN out = 1 .. Len(out) /\ DOMAIN out' = 1 .. Len(out) + 1
        BY <1>8
      <4>. QED
        BY <2>2, <4>1
    <3>2. out'[i] = out[i] /\ out'[j] = out[j]
      BY <1>8, <2>2, <3>1
    <3>3. InOrder
      BY DEF PrintInv
    <3>. QED
      BY <2>2, <3>1, <3>2, <3>3 DEF InOrder
  <2>. QED
    BY <1>8, <2>1, <2>2
<1>. QED
  BY <1>1, <1>2, <1>11, <1>15, <1>16, <1>17, <1>18, <1>19
     DEF PrintInv, Farther, Searching, AllArePrinted

(* When no transition is left for the first layer, the states that do not  *)
(* lead to it are farther from the goal, and the others are treated.       *)
LEMMA AllOfThisLength ==
  ASSUME PrintInv, pc = "words", cur = 1, Matches = {}
  PROVE  /\ remain \cap Near[Len(rev)] = {}
         /\ Printed(Connected \cap (init \ remain))
<1> DEFINE h == NextRel(trans)
           d == Len(rev)
           All == Fixpoint(h, args.start)
<1>1. /\ Typed /\ GoalsKept /\ Layers /\ d \in Nat \ {0} /\ d \in Nat /\ d - 1 \in Nat
      /\ (d - 1) + 1 = d /\ 1 \in 1 .. d /\ cur <= d
  <2>1. Len(rev) \in Nat \ {0}
    BY Odometer
  <2>. QED
    BY <2>1 DEF PrintInv
<1>2. /\ trans \in Systems /\ h \in Relations /\ reach \in SUBSET States
      /\ init \in SUBSET States
  BY <1>1, ArgumentsTyped DEF Typed
<1>3. rev[1] \subseteq Walk[d - 1] /\ rev[1] \subseteq reach
      /\ \A x \in Walk[d - 1] : 1 = d \/ x \notin Walk[d - 1 - 1] => x \in rev[1]
  BY <1>1, LayerIs
<1>4. All \in SUBSET States /\ reach \subseteq All
  BY <1>1, FixpointTyped, SearchedIsReachable
<1>5. remain = init \ Post(Backward(All), rev[1])
  BY DEF remain
<1>6. \A n \in Nat : Walk[n + 1] = Walk[n] \cup (Pre(h, Walk[n]) \cap reach)
  BY <1>1, WalkUnfolds
<1>7. rev[1] \in SUBSET States
  BY <1>2, <1>3
<1>8. ASSUME NEW s \in init, s \in Near[d]
      PROVE  s \in Post(Backward(All), rev[1])
  <2>1. s \in Walk[d] /\ s \notin Walk[d - 1] /\ s \in reach
    BY <1>1, <1>8, InitIsFar
  <2>2. Walk[d] = Walk[d - 1] \cup (Pre(h, Walk[d - 1]) \cap reach)
    BY <1>1, <1>6
  <2>3. PICK y \in Walk[d - 1] : <<s, y>> \in h /\ s \in States
    BY <2>1, <2>2 DEF Pre
  <2>4. y \in rev[1]
    <3>1. ASSUME 1 # d, y \in Walk[d - 1 - 1]
          PROVE  FALSE
      <4>1. d - 1 - 1 \in Nat /\ (d - 1 - 1) + 1 = d - 1
        BY <1>1, <3>1
      <4>2. s \in Pre(h, Walk[d - 1 - 1]) \cap reach
        BY <2>1, <2>3, <3>1 DEF Pre
      <4>3. s \in Walk[(d - 1 - 1) + 1]
        BY <1>6, <4>1, <4>2
      <4>. QED
        BY <2>1, <4>1, <4>3
    <3>. QED
      BY <1>3, <3>1
  <2>5. s \in Pre(h, rev[1]) \cap All
    BY <1>4, <2>1, <2>3, <2>4 DEF Pre
  <2> HIDE DEF All
  <2>6. Pre(h, rev[1]) \cap All \subseteq Post(PredRel(trans, All, States), rev[1])
    BY <1>2, <1>4, <1>7, PredRelComplete
  <2>. QED
    BY <2>5, <2>6 DEF Backward
<1>9. ASSUME NEW s \in Connected, s \in init, s \in Post(Backward(All), rev[1]),
             NEW w \in Shortest(s)
      PROVE  Contains(out, w)
  <2>1. s \in Near[d]
    <3>1. s \in Pre(h, rev[1])
      <4> HIDE DEF All
      <4>1. Post(PredRel(trans, All, States), rev[1]) \subseteq Pre(h, rev[1])
        BY <1>2, <1>4, <1>7, PredRelForward
      <4>. QED
        BY <1>9, <4>1 DEF Backward
    <3>2. s \in reach
      <4>1. Distance(s) \in Nat /\ s \in Near[Distance(s)]
        BY <1>1, ConnectedAt
      <4>. QED
        BY <1>1, <4>1, NearUnfolds
    <3>3. s \in Walk[(d - 1) + 1]
      <4>1. s \in Pre(h, Walk[d - 1]) \cap reach
        BY <1>3, <3>1, <3>2 DEF Pre
      <4>. QED
        BY <1>1, <1>6, <4>1
    <3>. QED
      BY <1>1, <3>3, WalkIsNear
  <2>2. w \in Words /\ Good(w)
    BY <1>1, <1>9, <2>1, ShortestIsGood
  <2>3. w[1] < iters[1]
    <3>1. \A m \in 1 .. cur - 1 : w[m] = iters[m]
      OBVIOUS
    <3>2. w[cur] < iters[cur]
      BY <1>1, <2>2, <3>1, GoodMatches
    <3>. QED
      BY <3>2
  <2>4. Before(w, iters)
    BY <1>1, <2>3 DEF Before
  <2>. QED
    BY <2>2, <2>4 DEF PrintInv, Enumerated
<1>. QED
  BY <1>5, <1>8, <1>9 DEF Printed

LEMMA ExhaustedStep ==
  ASSUME PrintInv, Exhausted
  PROVE  PrintInv'
<1>1. /\ pc = "words" /\ left > 0 /\ cur = 1 /\ Matches = {}
      /\ \/ remain # {} /\ init' = remain /\ pc' = "start"
         \/ remain = {} /\ pc' = "done" /\ init' = init
      /\ UNCHANGED <<trans, args, reach, goal, left, out, rev>>
  BY DEF Exhausted, Building, search
<1>2. /\ Near' = Near /\ Sources' = Sources /\ Connected' = Connected
      /\ \A s : Shortest(s)' = Shortest(s)
  BY <1>1, CallKept
<1>3. /\ remain \cap Near[Len(rev)] = {}
      /\ Printed(Connected \cap (init \ remain))
  BY <1>1, AllOfThisLength
<1>4. Typed /\ init' \subseteq init /\ remain \subseteq init
  BY <1>1 DEF PrintInv, remain
<1>5. Printed(Connected \ remain)
  BY <1>1, <1>3 DEF PrintInv, Treated, Printed
<1>6. Typed'
  <2>1. Searched' = Searched /\ \A S : Filtered(S)' = Filtered(S)
    BY <1>1 DEF Searched, Filtered
  <2>. QED
    BY <1>1, <1>2, <1>4, <2>1 DEF Typed
<1>7. GoalsKept'
  <2> DEFINE h == NextRel(trans)
             F == Fixpoint(h, init)
             I == init'
  <2>1. F \in SUBSET States /\ init \subseteq F /\ Closed(h, F)
    BY <1>4, ArgumentsTyped, FixpointTyped, FixpointContains, FixpointClosed
  <2>2. I \subseteq F
    BY <1>4, <2>1
  <2>3. Fixpoint(h, I) \subseteq F
    <3> HIDE DEF F, I, h
    <3>. QED
      BY <2>1, <2>2, FixpointLeast
  <2>4. GoalsKept' <=> args.goal \cap reach \cap Fixpoint(h, I) \subseteq goal
    BY <1>1 DEF GoalsKept, NextRel
  <2>. QED
    BY <2>3, <2>4 DEF PrintInv, GoalsKept
<1>8. Treated'
  <2>1. CASE remain # {} /\ init' = remain
    BY <1>1, <1>2, <1>5, <2>1 DEF Treated, Printed
  <2>2. CASE pc' = "done"
    BY <2>2 DEF Treated
  <2>. QED
    BY <1>1, <2>1, <2>2
<1>9. Farther'
  <2>1. ASSUME NEW i \in DOMAIN out, init' = remain
        PROVE  init' \cap Near[Len(out[i])] = {}
    <3>1. Len(out[i]) \in Nat /\ Len(rev) \in Nat /\ Len(out[i]) <= Len(rev)
      <4>1. Len(rev) \in Nat
        BY <1>1, Odometer
      <4>2. Len(out[i]) \in Nat
        BY <1>4 DEF Typed
      <4>3. Len(out[i]) < Len(rev) \/ Len(out[i]) = Len(rev)
        BY <1>1 DEF PrintInv, Enumerated
      <4>. QED
        BY <4>1, <4>2, <4>3
    <3>2. Near[Len(out[i])] \subseteq Near[Len(rev)]
      BY <1>4, <3>1, NearUnfolds
    <3>. QED
      BY <1>3, <2>1, <3>2
  <2>. QED
    BY <1>1, <1>2, <2>1 DEF Farther
<1>10. AllArePrinted'
  <2>1. ASSUME pc' = "done"
        PROVE  Printed(Connected)
    BY <1>1, <1>5, <2>1 DEF Printed
  <2>. QED
    BY <1>1, <1>2, <2>1 DEF AllArePrinted, Printed
<1>11. AreShortest' /\ InOrder'
  <2>1. AreShortest'
    BY <1>1, <1>2 DEF PrintInv, AreShortest
  <2>2. InOrder'
    BY <1>1 DEF PrintInv, InOrder
  <2>. QED
    BY <2>1, <2>2
<1>. QED
  BY <1>1, <1>6, <1>7, <1>8, <1>9, <1>10, <1>11
     DEF PrintInv, Layers, Searching, Cursors, Enumerated

LEMMA LimitReachedStep ==
  ASSUME PrintInv, LimitReached
  PROVE  PrintInv'
<1>1. /\ pc = "words" /\ left = 0 /\ pc' = "done"
      /\ UNCHANGED <<trans, args, reach, init, goal, left, out>>
  BY DEF LimitReached
<1>2. Typed' /\ GoalsKept' /\ InOrder' /\ AreShortest'
  BY <1>1, OuterKept
<1>. QED
  BY <1>1, <1>2
     DEF PrintInv, Treated, Farther, Layers, Searching, Cursors, Enumerated, AllArePrinted

LEMMA StutterStep ==
  ASSUME PrintInv, UNCHANGED vars
  PROVE  PrintInv'
<1>1. UNCHANGED <<trans, args, reach, pc, init, goal, left, out, revTrans, M3, seen, rev, iters,
                  cur, Mi, witness>>
  BY DEF vars, search, play
<1>2. /\ Near' = Near /\ Sources' = Sources /\ Connected' = Connected
      /\ \A s : Shortest(s)' = Shortest(s)
      /\ Walk' = Walk /\ Typed' /\ GoalsKept' /\ InOrder' /\ AreShortest'
  BY <1>1, OuterKept DEF PrintInv, Typed
<1>3. Treated' /\ AllArePrinted'
  BY <1>1, <1>2 DEF PrintInv, Treated, AllArePrinted, Printed
<1>4. Farther' /\ Layers'
  BY <1>1, <1>2 DEF PrintInv, Farther, Layers
<1>5. Searching'
  BY <1>1, <1>2 DEF PrintInv, Searching, Backward
<1>6. Cursors'
  <2>1. \A k : Matched(iters, k)' = Matched(iters, k)
    BY <1>1 DEF Matched
  <2>2. LayerPlays(trans, iters, rev, init)' = LayerPlays(trans, iters, rev, init)
    BY <1>1
  <2>. QED
    BY <1>1, <1>2, <2>1, <2>2 DEF PrintInv, Cursors
<1>7. Enumerated'
  <2>1. /\ Words' = Words /\ \A w : Good(w)' = Good(w)
        /\ \A u : Before(u, iters)' = Before(u, iters)
    BY <1>1 DEF Words, Good, Before
  <2>. QED
    BY <1>1, <2>1 DEF PrintInv, Enumerated
<1>. QED
  BY <1>2, <1>3, <1>4, <1>5, <1>6, <1>7 DEF PrintInv

LEMMA PrintInvariance == Spec => []PrintInv
<1>1. Init => PrintInv
  BY InitStep
<1>2. PrintInv /\ [Next]_vars => PrintInv'
  BY AlreadyThereStep, RestrictEndsStep, SearchFailsStep, SearchBackStep, SearchMeetsInitStep,
     TryStep, ReportStep, BacktrackStep, ExhaustedStep, LimitReachedStep, StutterStep
     DEF Next, Returned
<1>. QED
  BY <1>1, <1>2, PTL DEF Spec

-----------------------------------------------------------------------------
(***************************************************************************)
(* The theorems.                                                           *)
(***************************************************************************)

(* Unless the limit is reached, every shortest witness from every initial  *)
(* state is printed, whatever their lengths: the message of printPaths is  *)
(* right for every system and every query.                                 *)
THEOREM NoneIsForgotten == Spec => []AllArePrinted
<1>1. PrintInv => AllArePrinted
  BY DEF PrintInv
<1>. QED
  BY <1>1, PrintInvariance, PTL

(* The initial states are among those searched, unless they are taken      *)
(* after a gadget that leads out of the invariant.                         *)
LEMMA SourcesAreSearched ==
  ASSUME Typed, args.gadget => Sources \subseteq args.inv
  PROVE  Sources \subseteq reach
<1> DEFINE f == {e \in NextRel(trans) : e[2] \in args.inv}
<1>1. reach = Fixpoint(f, args.origin)
  BY DEF Typed, Searched, Filtered
<1>2. args.origin \in SUBSET States
  BY ArgumentsTyped
<1> HIDE DEF f
<1>3. args.origin \subseteq reach /\ Post(f, reach) \subseteq reach
  BY <1>1, <1>2, FixpointContains, FixpointClosed DEF Closed
<1>4. CASE ~args.gadget
  BY <1>3, <1>4 DEF Sources
<1>5. CASE args.gadget
  <2>1. SUFFICES ASSUME NEW s \in args.origin, NEW t \in States, <<s, t>> \in NextRel(trans),
                        t \in args.inv
                 PROVE  t \in reach
    BY <1>5 DEF Sources, Post
  <2>2. <<s, t>> \in f
    BY <2>1 DEF f
  <2>. QED
    BY <1>3, <2>1, <2>2 DEF Post
<1>. QED
  BY <1>4, <1>5

(* What is printed are shortest witnesses, none twice, in increasing       *)
(* order, unless they start after a gadget that leads out of the invariant *)
(* of the command line: from a state that was not searched, and where the  *)
(* search does not go, printPaths may print a sequence all the same.       *)
THEOREM OnlyShortestInOrder ==
  Spec => []((args.gadget => Sources \subseteq args.inv) => PrintedInOrder)
<1>1. PrintInv => ((args.gadget => Sources \subseteq args.inv) => PrintedInOrder)
  BY SourcesAreSearched DEF PrintInv, InOrder, AreShortest, PrintedInOrder
<1>. QED
  BY <1>1, PrintInvariance, PTL

=============================================================================
