-------------------------- MODULE TPNetType_proofs --------------------------
(***************************************************************************)
(* The clocks of TPNetType tell the ages of the transitions, for any nets: *)
(* the type takes no step that a time Petri net would not take.            *)
(* ClocksAreAges is inductive with the types: a step may be shown to be in *)
(* time only because the clock it reads is the age up to the bounds, and a *)
(* clock that is put back to 0 is the age only because an age is 0 while   *)
(* its transition is disabled.  For nets whose transitions are plain the   *)
(* type takes every step of the net: what the arcs do one by one is what   *)
(* their sums say, by induction on the arcs (the lemmas on numbers are     *)
(* those of PredecessorRelation_proofs), as long as no place goes below 0. *)
(***************************************************************************)
EXTENDS TPNetType, PredecessorRelation_proofs

Inv == TypeOK /\ ClocksAreAges

(* The bounds of a timed transition.                                       *)
LEMMA Bounds ==
  ASSUME net \in Nets, NEW n \in Timed
  PROVE  /\ n \in TransitionsOf(net)
         /\ net.trans[n].eft \in Nat
         /\ net.trans[n].lft \in Nat \cup {CLOCK_INFINITY}
         /\ net.trans[n].lft # CLOCK_INFINITY => net.trans[n].eft <= net.trans[n].lft
         /\ net.trans[n].lft = CLOCK_INFINITY => net.trans[n].eft > 0
         /\ n \notin Clocked => net.trans[n].lft = 0 /\ net.trans[n].eft = 0
         /\ n \in Clocked => net.trans[n].lft # 0
         /\ CLOCK_INFINITY = -1
  BY NetsAreTyped DEF Timed, IsTimed, Clocked, CLOCK_INFINITY

LEMMA InitialInv == Init => Inv
  <1> SUFFICES ASSUME Init PROVE Inv
    OBVIOUS
  <1>1. net \in Nets /\ clock = [n \in Clocked |-> 0] /\ age = [n \in Timed |-> 0]
    BY DEF Init
  <1>2. TypeOK
    BY <1>1 DEF TypeOK
  <1>3. Clocked \subseteq Timed
    BY DEF Clocked
  <1>4. ASSUME NEW n \in Clocked PROVE clock[n] = ClockOf(net.trans[n], age[n])
    BY <1>1, <1>3, Bounds DEF ClockOf
  <1>5. ASSUME NEW n \in Timed
        PROVE  /\ age[n] = 0
               /\ net.trans[n].lft # CLOCK_INFINITY => age[n] <= net.trans[n].lft
    BY <1>1, Bounds
  <1> QED
    BY <1>2, <1>4, <1>5 DEF Inv, ClocksAreAges

(* A clock within the bounds that OK tests is an age within the bounds.    *)
LEMMA InTime ==
  ASSUME Inv, NEW n \in Timed, OK(n), Enabled(n)
  PROVE  /\ age[n] >= net.trans[n].eft
         /\ net.trans[n].lft # CLOCK_INFINITY => age[n] <= net.trans[n].lft
  <1>1. age[n] \in Nat /\ net \in Nets
    BY DEF Inv, TypeOK
  <1>2. net.trans[n].lft # CLOCK_INFINITY => age[n] <= net.trans[n].lft
    BY DEF Inv, ClocksAreAges
  <1>3. CASE n \notin Clocked
    BY <1>1, <1>2, <1>3, Bounds
  <1>4. CASE n \in Clocked
    <2>1. clock[n] = ClockOf(net.trans[n], age[n])
      BY <1>4 DEF Inv, ClocksAreAges
    <2> QED
      BY <1>1, <1>2, <1>4, <2>1, Bounds DEF OK, ClockOf
  <1> QED
    BY <1>3, <1>4

(* Time goes on only if no age would go beyond its latest time.            *)
LEMMA NotUrgent ==
  ASSUME Inv, MayElapse, NEW n \in Timed, Enabled(n), net.trans[n].lft # CLOCK_INFINITY
  PROVE  age[n] < net.trans[n].lft
  <1>1. age[n] \in Nat /\ net \in Nets
    BY DEF Inv, TypeOK
  <1>2. net.trans[n].lft # 0 /\ clock[n] <= net.trans[n].lft - 1
    BY DEF MayElapse, MayIncr
  <1>3. n \in Clocked
    BY <1>2 DEF Clocked
  <1>4. clock[n] = age[n]
    BY <1>3 DEF Inv, ClocksAreAges, ClockOf
  <1> QED
    BY <1>1, <1>2, <1>4, Bounds

(* A selector has no arc that acts: its arcs are all the identity.         *)
LEMMA SelectorIsIdentity ==
  ASSUME NEW t, NEW m, NEW L \in Nat, Len(t.arcs) = L, DOMAIN t.arcs = 1 .. L, Acting(t) = {}
  PROVE  Actions(t, m) = {m}
  <1> DEFINE G(k, X) == UNION {ActionHom(t.arcs[k], n) : n \in X}
             after == ActionsOfArcs(t, m)
  <1>1. ASSUME NEW k \in 1 .. L
        PROVE  G(k, {m}) = {m}
    <2>1. t.arcs[k].type \in {"INHIBITOR", "TEST"}
      BY DEF Acting
    <2> QED
      BY <2>1 DEF ActionHom
  <1> HIDE DEF G
  <1>2. \E f : f = [k \in 0 .. L |-> IF k = 0 THEN {m} ELSE G(k, f[k - 1])]
    <2> DEFINE f == [k \in 0 .. L |-> {m}]
    <2>1. f \in [0 .. L -> {{m}}] /\ \A k \in 0 .. L : f[k] = {m}
      OBVIOUS
    <2> HIDE DEF f
    <2>2. ASSUME NEW k \in 1 .. L
          PROVE  f[k] = G(k, f[k - 1])
      <3>1. k \in 0 .. L /\ k - 1 \in 0 .. L
        OBVIOUS
      <3> QED
        BY <1>1, <2>1, <3>1
    <2>3. f[0] = {m}
      BY <2>1
    <2>4. f = [k \in 0 .. L |-> IF k = 0 THEN {m} ELSE G(k, f[k - 1])]
      BY <2>1, <2>2, <2>3
    <2> QED
      BY <2>4
  <1>3. after = [k \in 0 .. L |-> IF k = 0 THEN {m} ELSE G(k, after[k - 1])]
    BY <1>2 DEF ActionsOfArcs, G
  <1> HIDE DEF after
  <1> DEFINE T == {k \in Nat : k <= L => after[k] = {m}}
  <1>4. T \in SUBSET Nat /\ 0 \in T
    BY <1>3
  <1>5. ASSUME NEW k \in T PROVE k + 1 \in T
    <2> SUFFICES ASSUME k + 1 <= L PROVE after[k + 1] = {m}
      OBVIOUS
    <2>1. k + 1 \in 0 .. L /\ k + 1 # 0 /\ k + 1 \in 1 .. L /\ (k + 1) - 1 = k /\ after[k] = {m}
      OBVIOUS
    <2>2. after[k + 1] = G(k + 1, after[k])
      BY <1>3, <2>1
    <2> QED
      BY <1>1, <2>1, <2>2
  <1> HIDE DEF T
  <1>6. T = Nat
    BY <1>4, <1>5, Induction
  <1> QED
    BY <1>6 DEF T, Actions, after

(* A transition that is not a selector puts disabled clocks back to 0; one *)
(* that is changes no marking.                                             *)
LEMMA StepInv ==
  ASSUME Inv, NEW n \in TransitionsOf(net), NEW selectors \in BOOLEAN,
         selectors => IsSelector(n), Step(n, selectors)
  PROVE  Inv'
  <1>1. /\ net' = net /\ net \in Nets
        /\ clock \in [Clocked -> Nat] /\ age \in [Timed -> Nat]
        /\ clock' = IF selectors THEN RZ(n) ELSE ResetDisabled(RZ(n), marking')
        /\ age' = [u \in Timed |-> IF u = n \/ ~IsEnabled(net.trans[u], marking') THEN 0 ELSE age[u]]
    BY DEF Step, Inv, TypeOK
  <1>2. Timed' = Timed /\ Clocked' = Clocked
    BY <1>1 DEF Timed, Clocked
  <1>3. Clocked \subseteq Timed
    BY DEF Clocked
  <1>4. RZ(n) \in [Clocked -> Nat]
    BY <1>1 DEF RZ
  <1>5. TypeOK'
    <2>1. clock' \in [Clocked -> Nat]
      BY <1>1, <1>4 DEF ResetDisabled
    <2>2. age' \in [Timed -> Nat]
      BY <1>1
    <2> QED
      BY <1>1, <1>2, <2>1, <2>2 DEF TypeOK
  <1>6. ASSUME NEW u \in Timed
        PROVE  /\ ~IsEnabled(net.trans[u], marking') => age'[u] = 0
               /\ net.trans[u].lft # CLOCK_INFINITY => age'[u] <= net.trans[u].lft
    <2>1. net.trans[u].lft # CLOCK_INFINITY => age[u] <= net.trans[u].lft
      BY DEF Inv, ClocksAreAges
    <2> QED
      BY <1>1, <2>1, Bounds
  <1>7. ASSUME NEW u \in Clocked PROVE clock'[u] = ClockOf(net.trans[u], age'[u])
    <2>1. clock[u] = ClockOf(net.trans[u], age[u])
      BY DEF Inv, ClocksAreAges
    <2>2. ClockOf(net.trans[u], 0) = 0
      BY <1>1, <1>3, Bounds DEF ClockOf
    <2>3. CASE ~selectors
      <3>1. clock'[u] = IF IsEnabled(net.trans[u], marking') THEN RZ(n)[u] ELSE 0
        BY <1>1, <2>3 DEF ResetDisabled
      <3>2. RZ(n)[u] = IF u = n THEN 0 ELSE clock[u]
        BY DEF RZ
      <3>3. age'[u] = IF u = n \/ ~IsEnabled(net.trans[u], marking') THEN 0 ELSE age[u]
        BY <1>1, <1>3
      <3> QED
        BY <2>1, <2>2, <3>1, <3>2, <3>3
    <2>4. CASE selectors
      <3>1. n \notin Clocked /\ marking' = marking
        <4>1. Len(net.trans[n].arcs) \in Nat /\ DOMAIN net.trans[n].arcs = 1 .. Len(net.trans[n].arcs)
          BY <1>1, ArcsAreTyped
        <4>2. n \notin Clocked /\ Actions(net.trans[n], marking) = {marking}
          BY <2>4, <4>1, SelectorIsIdentity DEF IsSelector
        <4> QED
          BY <4>2 DEF Step
      <3>2. clock'[u] = clock[u]
        BY <1>1, <2>4, <3>1 DEF RZ
      <3>3. ~IsEnabled(net.trans[u], marking) => age[u] = 0
        BY <1>3 DEF Inv, ClocksAreAges, Enabled
      <3>4. age'[u] = age[u]
        BY <1>1, <1>3, <3>1, <3>3
      <3> QED
        BY <2>1, <3>2, <3>4
    <2> QED
      BY <2>3, <2>4
  <1>8. ClocksAreAges'
    BY <1>1, <1>2, <1>6, <1>7 DEF ClocksAreAges, Enabled
  <1> QED
    BY <1>5, <1>8 DEF Inv

LEMMA ElapseInv ==
  ASSUME Inv, Elapse
  PROVE  Inv'
  <1>1. /\ net' = net /\ marking' = marking /\ net \in Nets
        /\ clock \in [Clocked -> Nat] /\ age \in [Timed -> Nat]
        /\ clock' = [n \in Clocked |-> IF Enabled(n) THEN Incr(n) ELSE 0]
        /\ age' = [n \in Timed |-> IF Enabled(n) THEN age[n] + 1 ELSE 0]
        /\ MayElapse
    BY DEF Elapse, ElapseClocks, Inv, TypeOK
  <1>2. Timed' = Timed /\ Clocked' = Clocked
    BY <1>1 DEF Timed, Clocked
  <1>3. Clocked \subseteq Timed
    BY DEF Clocked
  <1>4. TypeOK'
    <2>1. clock' \in [Clocked -> Nat]
      BY <1>1 DEF Incr
    <2>2. age' \in [Timed -> Nat]
      BY <1>1
    <2> QED
      BY <1>1, <1>2, <2>1, <2>2 DEF TypeOK
  <1>5. ASSUME NEW u \in Timed
        PROVE  /\ ~Enabled(u) => age'[u] = 0
               /\ net.trans[u].lft # CLOCK_INFINITY => age'[u] <= net.trans[u].lft
    <2>1. Enabled(u) /\ net.trans[u].lft # CLOCK_INFINITY => age[u] < net.trans[u].lft
      BY <1>1, NotUrgent
    <2>2. age'[u] = IF Enabled(u) THEN age[u] + 1 ELSE 0
      BY <1>1
    <2>3. age[u] \in Nat
      BY <1>1
    <2> QED
      BY <1>1, <2>1, <2>2, <2>3, Bounds
  <1>6. ASSUME NEW u \in Clocked PROVE clock'[u] = ClockOf(net.trans[u], age'[u])
    <2>1. clock[u] = ClockOf(net.trans[u], age[u])
      BY DEF Inv, ClocksAreAges
    <2>2. clock'[u] = (IF Enabled(u) THEN Incr(u) ELSE 0) /\ age'[u] = (IF Enabled(u) THEN age[u] + 1 ELSE 0)
      BY <1>1, <1>3
    <2>3. u \in Timed /\ age[u] \in Nat
      BY <1>1, <1>3
    <2>4. net.trans[u].eft \in Nat /\ net.trans[u].lft \in Nat \cup {CLOCK_INFINITY}
      BY <1>1, <2>3, Bounds
    <2>5. CASE ~Enabled(u)
      BY <2>2, <2>4, <2>5 DEF ClockOf
    <2>6. CASE Enabled(u)
      BY <2>1, <2>2, <2>3, <2>4, <2>6 DEF ClockOf, Incr
    <2> QED
      BY <2>5, <2>6
  <1>7. ClocksAreAges'
    <2>1. \A u \in Timed : Enabled(u)' = Enabled(u)
      BY <1>1 DEF Enabled
    <2> QED
      BY <1>1, <1>2, <1>5, <1>6, <2>1 DEF ClocksAreAges
  <1> QED
    BY <1>4, <1>7 DEF Inv

(* Each disjunct of Next is a step of one transition, or elapse.           *)
LEMMA NextIsStep ==
  ASSUME Next
  PROVE  \/ \E n \in TransitionsOf(net), sel \in BOOLEAN : (sel => IsSelector(n)) /\ Step(n, sel)
         \/ Elapse
  <1>1. CASE Elapse
    BY <1>1
  <1>2. ASSUME NEW n \in TransitionsOf(net), FireLocal(n)
        PROVE  \E sel \in BOOLEAN : (sel => IsSelector(n)) /\ Step(n, sel)
    <2>1. IsSelector(n) \in BOOLEAN
      BY DEF IsSelector
    <2> QED
      BY <1>2, <2>1 DEF FireLocal
  <1>3. ASSUME NEW l \in PublicLabels, FireLabel(l)
        PROVE  \E n \in TransitionsOf(net), sel \in BOOLEAN : (sel => IsSelector(n)) /\ Step(n, sel)
    <2>1. PICK n \in WithLabel(l) : Step(n, \A u \in WithLabel(l) : IsSelector(u))
      BY <1>3 DEF FireLabel
    <2>2. n \in TransitionsOf(net)
      BY DEF WithLabel
    <2>3. (\A u \in WithLabel(l) : IsSelector(u)) \in BOOLEAN
      OBVIOUS
    <2> QED
      BY <2>1, <2>2, <2>3
  <1> QED
    BY <1>1, <1>2, <1>3 DEF Next

LEMMA InductiveInv ==
  ASSUME Inv, [Next]_vars
  PROVE  Inv'
  <1>1. CASE Next
    BY <1>1, NextIsStep, StepInv, ElapseInv
  <1>2. CASE UNCHANGED vars
    BY <1>2 DEF vars, Inv, TypeOK, ClocksAreAges, Enabled, Timed, Clocked, IsTimed
  <1> QED
    BY <1>1, <1>2

(* Clocks are ages (TPNetType.hh:30): a clock is what time has elapsed     *)
(* since its transition was enabled or fired, up to its bounds, for all    *)
(* nets.                                                                   *)
THEOREM ClocksTellAges == Spec => []ClocksAreAges
  <1>1. Inv => ClocksAreAges
    BY DEF Inv
  <1> QED
    BY InitialInv, InductiveInv, <1>1, PTL DEF Spec

-----------------------------------------------------------------------------
LEMMA InitialIsTimed == Init => TimedNet!Init
  <1> SUFFICES ASSUME Init PROVE TimedNet!Init
    OBVIOUS
  <1>1. Timed = TimedNet!Timed
    BY NetsAreTyped DEF Init, Timed, IsTimed, CLOCK_INFINITY, TransitionsOf, TimedNet!Timed, TimedNet!IsTimed,
          TimedNet!CLOCK_INFINITY, TimedNet!Transitions
  <1> QED
    BY <1>1 DEF Init, TimedNet!Init

LEMMA SameTimed ==
  ASSUME net \in Nets
  PROVE  Timed = TimedNet!Timed /\ TimedNet!CLOCK_INFINITY = CLOCK_INFINITY
  BY NetsAreTyped DEF Timed, IsTimed, CLOCK_INFINITY, TransitionsOf, TimedNet!Timed, TimedNet!IsTimed,
          TimedNet!CLOCK_INFINITY, TimedNet!Transitions

LEMMA StepIsTimed ==
  ASSUME Inv, NEW n \in TransitionsOf(net), NEW selectors, Step(n, selectors)
  PROVE  TimedNet!Fire(n)
  <1>1. Timed = TimedNet!Timed /\ TimedNet!CLOCK_INFINITY = CLOCK_INFINITY
    BY SameTimed DEF Inv, TypeOK
  <1>2. TimedNet!MayFire(n)
    BY <1>1, InTime DEF Step, TimedNet!MayFire, TimedNet!Enabled, Enabled
  <1> QED
    BY <1>1, <1>2 DEF Step, TimedNet!Fire

LEMMA ElapseIsTimed ==
  ASSUME Inv, Elapse
  PROVE  TimedNet!Elapse
  <1>1. Timed = TimedNet!Timed /\ TimedNet!CLOCK_INFINITY = CLOCK_INFINITY
    BY SameTimed DEF Inv, TypeOK
  <1>2. TimedNet!MayElapse
    BY <1>1, NotUrgent DEF Elapse, TimedNet!MayElapse, TimedNet!Enabled, Enabled
  <1> QED
    BY <1>1, <1>2 DEF Elapse, TimedNet!Elapse, TimedNet!Enabled, Enabled

(* The type implements the time Petri net: it never fires a transition too *)
(* early or too late, and never lets time go on when one is urgent, for all*)
(* nets whose bounds are in order.                                         *)
THEOREM TypeKeepsTime == Spec => KeepsTime
  <1>1. ASSUME Inv, [Next]_vars PROVE [TimedNet!Next]_TimedNet!vars
    <2>1. CASE Next
      <3>1. ASSUME NEW n \in TransitionsOf(net), NEW sel \in BOOLEAN, Step(n, sel) PROVE TimedNet!Next
        BY <1>1, <3>1, StepIsTimed DEF TimedNet!Next, TimedNet!Transitions, TransitionsOf
      <3>2. CASE Elapse
        BY <1>1, <3>2, ElapseIsTimed DEF TimedNet!Next
      <3> QED
        BY <2>1, NextIsStep, <3>1, <3>2
    <2>2. CASE UNCHANGED vars
      BY <2>2 DEF vars, TimedNet!vars
    <2> QED
      BY <1>1, <2>1, <2>2
  <1> QED
    BY InitialInv, InductiveInv, InitialIsTimed, <1>1, PTL DEF Spec, KeepsTime, TimedNet!Spec


-----------------------------------------------------------------------------
(***************************************************************************)
(* What the arcs of a transition do, one after the other.                  *)
(***************************************************************************)

(* A recursive function up to a number exists.                             *)
HasShortRecursion(L, D, a, F) ==
  \E f \in [0 .. L -> D] : f[0] = a /\ \A k \in 1 .. L : f[k] = F[k][f[k - 1]]

LEMMA ShortRecursion ==
  ASSUME NEW L \in Nat, NEW D, NEW a \in D, NEW F \in [1 .. L -> [D -> D]]
  PROVE  HasShortRecursion(L, D, a, F)
  <1> DEFINE id == [x \in D |-> x]
             G == [k \in Nat |-> IF k \in 1 .. L THEN F[k] ELSE id]
  <1>1. G \in [Nat -> [D -> D]]
    OBVIOUS
  <1>2. \A k \in 1 .. L : G[k] = F[k]
    OBVIOUS
  <1> HIDE DEF G
  <1>3. HasRecursion(D, a, G)
    BY <1>1, Recursion
  <1>4. PICK f \in [Nat -> D] : f[0] = a /\ \A n \in Nat : f[n + 1] = G[n + 1][f[n]]
    BY <1>3 DEF HasRecursion
  <1> DEFINE g == [k \in 0 .. L |-> f[k]]
  <1>5. ASSUME NEW k \in 1 .. L
        PROVE  g[k] = F[k][g[k - 1]]
    <2>1. k - 1 \in Nat /\ (k - 1) + 1 = k /\ k - 1 \in 0 .. L /\ k \in 0 .. L
      OBVIOUS
    <2>2. f[k] = G[k][f[k - 1]]
      BY <1>4, <2>1
    <2> QED
      BY <1>2, <2>1, <2>2
  <1>6. g \in [0 .. L -> D] /\ g[0] = a
    BY <1>4
  <1> HIDE DEF g
  <1> QED
    BY <1>5, <1>6 DEF HasShortRecursion

(* A plain transition of a net with places P.                              *)
Plain(t, P) == t.arcs \in Seq(Arcs(P)) /\ IsPlain(t)

LEMMA ArcIs ==
  ASSUME NEW P, NEW t, t.arcs \in Seq(Arcs(P)), NEW k \in 1 .. Len(t.arcs)
  PROVE  /\ t.arcs[k].type \in ArcTypes
         /\ t.arcs[k].places \in Seq(P \X Int)
         /\ k \in DOMAIN t.arcs
         /\ \A j \in DOMAIN t.arcs[k].places :
              t.arcs[k].places[j][1] \in P /\ t.arcs[k].places[j][2] \in Int
  <1>1. t.arcs[k] \in Arcs(P) /\ k \in DOMAIN t.arcs
    OBVIOUS
  <1>2. t.arcs[k].type \in ArcTypes /\ t.arcs[k].places \in Seq(P \X Int)
    BY <1>1 DEF Arcs
  <1> QED
    BY <1>1, <1>2

(* An arc that acts has one place.                                         *)
LEMMA ActingArc ==
  ASSUME NEW P, NEW t, Plain(t, P), NEW k \in 1 .. Len(t.arcs),
         t.arcs[k].type \notin {"INHIBITOR", "TEST"}
  PROVE  /\ k \in Acting(t)
         /\ DOMAIN t.arcs[k].places = {1}
         /\ t.arcs[k].places[1][1] \in P /\ t.arcs[k].places[1][2] \in Int
         /\ t.arcs[k].type \in {"INPUT", "OUTPUT", "RESET"}
         /\ t.arcs[k].type = "INPUT" => t.arcs[k].places[1][2] >= 0
         /\ t.arcs[k].type = "OUTPUT" => t.arcs[k].places[1][2] > 0
  <1>1. /\ t.arcs[k].type \in ArcTypes /\ t.arcs[k].places \in Seq(P \X Int)
        /\ k \in DOMAIN t.arcs
    BY ArcIs DEF Plain
  <1>2. k \in Acting(t)
    BY <1>1 DEF Acting
  <1>3. Len(t.arcs[k].places) = 1
    BY <1>2 DEF Plain, IsPlain
  <1>4. DOMAIN t.arcs[k].places = {1}
    BY <1>1, <1>3
  <1>5. t.arcs[k].places[1][1] \in P /\ t.arcs[k].places[1][2] \in Int
    BY <1>4, ArcIs DEF Plain
  <1> QED
    BY <1>1, <1>2, <1>4, <1>5 DEF Plain, IsPlain, ArcTypes

LEMMA ActionHomIs ==
  ASSUME NEW P, NEW t, Plain(t, P), NEW k \in 1 .. Len(t.arcs), NEW m
  PROVE  ActionHom(t.arcs[k], m)
           = IF t.arcs[k].type \in {"INHIBITOR", "TEST"} THEN {m}
             ELSE PlaceActionHom(t.arcs[k].type, t.arcs[k].places[1][1], t.arcs[k].places[1][2], m)
  <1>1. CASE t.arcs[k].type \in {"INHIBITOR", "TEST"}
    BY <1>1 DEF ActionHom
  <1>2. CASE t.arcs[k].type \notin {"INHIBITOR", "TEST"}
    <2>1. DOMAIN t.arcs[k].places = {1}
      BY <1>2, ActingArc
    <2> QED
      BY <1>2, <2>1 DEF ActionHom
  <1> QED
    BY <1>1, <1>2

LEMMA ActionsTyped ==
  ASSUME NEW P, NEW t, Plain(t, P), NEW k \in 1 .. Len(t.arcs), NEW m \in [P -> Int]
  PROVE  ActionHom(t.arcs[k], m) \subseteq [P -> Int]
  <1> DEFINE p == t.arcs[k].places[1][1]
             v == t.arcs[k].places[1][2]
  <1>0. ActionHom(t.arcs[k], m)
           = IF t.arcs[k].type \in {"INHIBITOR", "TEST"} THEN {m}
             ELSE PlaceActionHom(t.arcs[k].type, p, v, m)
    BY ActionHomIs
  <1>1. CASE t.arcs[k].type \in {"INHIBITOR", "TEST"}
    BY <1>0, <1>1
  <1>2. CASE t.arcs[k].type \notin {"INHIBITOR", "TEST"}
    <2>1. p \in P /\ v \in Int /\ t.arcs[k].type \in {"INPUT", "OUTPUT", "RESET"}
      BY <1>2, ActingArc
    <2> HIDE DEF p, v
    <2>2. PlaceActionHom(t.arcs[k].type, p, v, m) \subseteq [P -> Int]
      <3>1. PlaceActionHom("INPUT", p, v, m) \subseteq [P -> Int]
        BY <2>1 DEF PlaceActionHom
      <3>2. PlaceActionHom("OUTPUT", p, v, m) \subseteq [P -> Int]
        BY <2>1 DEF PlaceActionHom
      <3>3. PlaceActionHom("RESET", p, v, m) \subseteq [P -> Int]
        BY <2>1 DEF PlaceActionHom
      <3> QED
        BY <2>1, <3>1, <3>2, <3>3
    <2> QED
      BY <1>0, <1>2, <2>2
  <1> QED
    BY <1>1, <1>2

LEMMA ActionsUnfold ==
  ASSUME NEW P, NEW t, Plain(t, P), NEW m \in [P -> Int]
  PROVE  /\ ActionsOfArcs(t, m)[0] = {m}
         /\ \A k \in 1 .. Len(t.arcs) :
              ActionsOfArcs(t, m)[k]
                = UNION {ActionHom(t.arcs[k], n) : n \in ActionsOfArcs(t, m)[k - 1]}
  <1> DEFINE L == Len(t.arcs)
             D == SUBSET [P -> Int]
             G(k, X) == UNION {ActionHom(t.arcs[k], n) : n \in X}
             F == [k \in 1 .. L |-> [X \in D |-> G(k, X)]]
             after == ActionsOfArcs(t, m)
  <1>1. L \in Nat
    BY DEF Plain
  <1>2. \A k \in 1 .. L : \A X \in D : G(k, X) \in D
    BY ActionsTyped
  <1>3. \E f : f = [k \in 0 .. L |-> IF k = 0 THEN {m} ELSE G(k, f[k - 1])]
    <2>1. F \in [1 .. L -> [D -> D]] /\ {m} \in D
      BY <1>2
    <2>2. \A k \in 1 .. L : \A X \in D : F[k][X] = G(k, X)
      OBVIOUS
    <2> HIDE DEF F, G, D, L
    <2>3. HasShortRecursion(L, D, {m}, F)
      BY <1>1, <2>1, ShortRecursion
    <2>4. PICK f \in [0 .. L -> D] : f[0] = {m} /\ \A k \in 1 .. L : f[k] = F[k][f[k - 1]]
      BY <2>3 DEF HasShortRecursion
    <2>5. \A k \in 1 .. L : f[k] = G(k, f[k - 1])
      <3>1. \A k \in 1 .. L : k - 1 \in 0 .. L
        BY <1>1
      <3> QED
        BY <2>2, <2>4, <3>1
    <2>6. f = [k \in 0 .. L |-> IF k = 0 THEN {m} ELSE G(k, f[k - 1])]
      BY <1>1, <2>4, <2>5
    <2> QED
      BY <2>6
  <1>4. after = [k \in 0 .. L |-> IF k = 0 THEN {m} ELSE G(k, after[k - 1])]
    BY <1>3 DEF ActionsOfArcs
  <1> HIDE DEF after, L, G
  <1>5. after[0] = {m}
    BY <1>1, <1>4
  <1>6. ASSUME NEW k \in 1 .. L
        PROVE  after[k] = G(k, after[k - 1])
    <2>1. k \in 0 .. L /\ k # 0
      BY <1>1
    <2> QED
      BY <1>4, <2>1, Zenon
  <1> QED
    BY <1>5, <1>6 DEF after, L, G

LEMMA SumUnfolds ==
  ASSUME NEW P, NEW t, t.arcs \in Seq(Arcs(P)), NEW type, NEW p,
         \A k \in 1 .. Len(t.arcs) : Gives(t.arcs[k], type, p) => t.arcs[k].places[1][2] \in Nat
  PROVE  /\ SumOfArcs(t, type, p) \in [0 .. Len(t.arcs) -> Nat]
         /\ SumOfArcs(t, type, p)[0] = 0
         /\ \A k \in 1 .. Len(t.arcs) :
              SumOfArcs(t, type, p)[k]
                = SumOfArcs(t, type, p)[k - 1]
                  + (IF Gives(t.arcs[k], type, p) THEN t.arcs[k].places[1][2] ELSE 0)
  <1> DEFINE L == Len(t.arcs)
             v(k) == IF Gives(t.arcs[k], type, p) THEN t.arcs[k].places[1][2] ELSE 0
             F == [k \in 1 .. L |-> [x \in Nat |-> x + v(k)]]
             sum == SumOfArcs(t, type, p)
  <1>1. L \in Nat
    OBVIOUS
  <1>2. \A k \in 1 .. L : v(k) \in Nat
    OBVIOUS
  <1>3. PICK f \in [0 .. L -> Nat] :
           f = [k \in 0 .. L |-> IF k = 0 THEN 0 ELSE f[k - 1] + v(k)]
    <2> HIDE DEF v, L
    <2>1. F \in [1 .. L -> [Nat -> Nat]]
      BY <1>2
    <2>2. \A k \in 1 .. L : \A x \in Nat : F[k][x] = x + v(k)
      OBVIOUS
    <2> HIDE DEF F
    <2>3. HasShortRecursion(L, Nat, 0, F)
      BY <1>1, <2>1, ShortRecursion
    <2>4. PICK f \in [0 .. L -> Nat] : f[0] = 0 /\ \A k \in 1 .. L : f[k] = F[k][f[k - 1]]
      BY <2>3 DEF HasShortRecursion
    <2>5. \A k \in 1 .. L : f[k] = f[k - 1] + v(k)
      <3>1. \A k \in 1 .. L : k - 1 \in 0 .. L
        BY <1>1
      <3> QED
        BY <2>2, <2>4, <3>1
    <2>6. f = [k \in 0 .. L |-> IF k = 0 THEN 0 ELSE f[k - 1] + v(k)]
      BY <1>1, <2>4, <2>5
    <2> QED
      BY <2>4, <2>6
  <1>4. sum = [k \in 0 .. L |-> IF k = 0 THEN 0 ELSE sum[k - 1] + v(k)]
    BY <1>3 DEF SumOfArcs
  <1> HIDE DEF sum, L, v
  <1>5. sum[0] = 0 /\ \A k \in 1 .. L : sum[k] = sum[k - 1] + v(k)
    BY <1>1, <1>4
  <1>6. \A k \in 0 .. L : sum[k] \in Nat
    <2> DEFINE T == {k \in Nat : k <= L => sum[k] \in Nat}
    <2>1. T \in SUBSET Nat /\ 0 \in T
      BY <1>5
    <2>2. ASSUME NEW k \in T PROVE k + 1 \in T
      <3> SUFFICES ASSUME k + 1 <= L PROVE sum[k + 1] \in Nat
        OBVIOUS
      <3>1. k + 1 \in 1 .. L /\ (k + 1) - 1 = k /\ sum[k] \in Nat
        BY <1>1
      <3> QED
        BY <1>2, <1>5, <3>1
    <2> HIDE DEF T
    <2>3. T = Nat
      BY <2>1, <2>2, Induction
    <2> QED
      BY <1>1, <2>3 DEF T
  <1>7. sum \in [0 .. L -> Nat]
    BY <1>4, <1>6
  <1> QED
    BY <1>5, <1>7 DEF sum, L, v

(* What the arcs consume and produce of a place only grows; nothing is     *)
(* consumed or produced without an arc.                                    *)
LEMMA ValuesAreNumbers ==
  ASSUME NEW P, NEW t, Plain(t, P), NEW type \in {"INPUT", "OUTPUT"}, NEW p,
         NEW k \in 1 .. Len(t.arcs), Gives(t.arcs[k], type, p)
  PROVE  t.arcs[k].places[1][2] \in Nat
  <1>1. t.arcs[k].type = type /\ type \notin {"INHIBITOR", "TEST"}
    BY DEF Gives
  <1> QED
    BY <1>1, ActingArc

LEMMA SumIs ==
  ASSUME NEW P, NEW t, Plain(t, P), NEW type \in {"INPUT", "OUTPUT"}, NEW p
  PROVE  /\ SumOfArcs(t, type, p) \in [0 .. Len(t.arcs) -> Nat]
         /\ SumOfArcs(t, type, p)[0] = 0
         /\ \A k \in 1 .. Len(t.arcs) :
              SumOfArcs(t, type, p)[k]
                = SumOfArcs(t, type, p)[k - 1]
                  + (IF Gives(t.arcs[k], type, p) THEN t.arcs[k].places[1][2] ELSE 0)
  <1>1. \A k \in 1 .. Len(t.arcs) : Gives(t.arcs[k], type, p) => t.arcs[k].places[1][2] \in Nat
    BY ValuesAreNumbers
  <1>2. t.arcs \in Seq(Arcs(P))
    BY DEF Plain
  <1> QED
    BY <1>1, <1>2, SumUnfolds

LEMMA SumGrows ==
  ASSUME NEW P, NEW t, Plain(t, P), NEW type \in {"INPUT", "OUTPUT"}, NEW p,
         NEW k \in 0 .. Len(t.arcs)
  PROVE  SumOfArcs(t, type, p)[k] <= Sum(t, type, p)
  <1> DEFINE L == Len(t.arcs)
             sum == SumOfArcs(t, type, p)
             T == {d \in Nat : k + d <= L => sum[k] <= sum[k + d]}
  <1>1. L \in Nat
    BY DEF Plain
  <1>2. sum \in [0 .. L -> Nat] /\ \A j \in 1 .. L : sum[j] >= sum[j - 1]
    <2>1. sum \in [0 .. L -> Nat]
      BY SumIs
    <2>2. ASSUME NEW j \in 1 .. L PROVE sum[j] >= sum[j - 1]
      <3>1. j \in 0 .. L /\ j - 1 \in 0 .. L
        BY <1>1
      <3>2. sum[j] = sum[j - 1] + (IF Gives(t.arcs[j], type, p) THEN t.arcs[j].places[1][2] ELSE 0)
        BY SumIs
      <3>3. (IF Gives(t.arcs[j], type, p) THEN t.arcs[j].places[1][2] ELSE 0) \in Nat
        BY ValuesAreNumbers
      <3> HIDE DEF sum
      <3> QED
        BY <2>1, <3>1, <3>2, <3>3
    <2> QED
      BY <2>1, <2>2
  <1> HIDE DEF sum, L
  <1>3. T \in SUBSET Nat /\ 0 \in T
    <2>1. k + 0 = k /\ sum[k] \in Nat
      BY <1>2 DEF L
    <2> QED
      BY <2>1
  <1>4. ASSUME NEW d \in T PROVE d + 1 \in T
    <2> SUFFICES ASSUME k + (d + 1) <= L PROVE sum[k] <= sum[k + (d + 1)]
      OBVIOUS
    <2>1. /\ k \in Nat /\ d \in Nat /\ k \in 0 .. L /\ k + d \in 0 .. L
          /\ k + (d + 1) \in 1 .. L /\ k + (d + 1) \in 0 .. L /\ (k + (d + 1)) - 1 = k + d
      BY <1>1 DEF L
    <2>2. sum[k] <= sum[k + d] /\ sum[k + (d + 1)] >= sum[k + d]
      BY <1>2, <2>1
    <2> QED
      BY <1>2, <2>1, <2>2
  <1> HIDE DEF T
  <1>5. T = Nat
    BY <1>3, <1>4, Induction
  <1>6. L - k \in Nat /\ k + (L - k) = L
    BY <1>1 DEF L
  <1>7. sum[k] <= sum[L]
    BY <1>5, <1>6 DEF T
  <1> QED
    BY <1>7 DEF Sum, sum, L

LEMMA NothingGiven ==
  ASSUME NEW P, NEW t, Plain(t, P), NEW type \in {"INPUT", "OUTPUT"}, NEW p,
         NEW l \in 0 .. Len(t.arcs), \A j \in 1 .. l : ~Gives(t.arcs[j], type, p)
  PROVE  SumOfArcs(t, type, p)[l] = 0
  <1> DEFINE L == Len(t.arcs)
             sum == SumOfArcs(t, type, p)
             T == {k \in Nat : k <= l => sum[k] = 0}
  <1>1. L \in Nat
    BY DEF Plain
  <1>2. sum[0] = 0 /\ \A k \in 1 .. L : ~Gives(t.arcs[k], type, p) => sum[k] = sum[k - 1] + 0
    BY SumIs
  <1> HIDE DEF sum
  <1>3. T \in SUBSET Nat /\ 0 \in T
    BY <1>2
  <1>4. ASSUME NEW k \in T PROVE k + 1 \in T
    <2> SUFFICES ASSUME k + 1 <= l PROVE sum[k + 1] = 0
      OBVIOUS
    <2>1. k + 1 \in 1 .. L /\ k + 1 \in 1 .. l /\ (k + 1) - 1 = k /\ sum[k] = 0
      BY <1>1
    <2> QED
      BY <1>2, <2>1
  <1> HIDE DEF T
  <1>5. T = Nat
    BY <1>3, <1>4, Induction
  <1> QED
    BY <1>1, <1>5 DEF T, sum

(* A place is consumed by one arc: what is consumed is its value.          *)
LEMMA OneConsumer ==
  ASSUME NEW P, NEW t, Plain(t, P), NEW p,
         NEW i \in 1 .. Len(t.arcs), Gives(t.arcs[i], "INPUT", p)
  PROVE  Sum(t, "INPUT", p) = t.arcs[i].places[1][2]
  <1> DEFINE L == Len(t.arcs)
             v == t.arcs[i].places[1][2]
             sum == SumOfArcs(t, "INPUT", p)
             T == {k \in Nat : k <= L => sum[k] = IF k < i THEN 0 ELSE v}
  <1>1. L \in Nat
    BY DEF Plain
  <1>2. ASSUME NEW j \in 1 .. L, Gives(t.arcs[j], "INPUT", p)
        PROVE  j = i
    <2>1. /\ t.arcs[i].type = "INPUT" /\ t.arcs[j].type = "INPUT"
          /\ t.arcs[i].places[1][1] = t.arcs[j].places[1][1]
      BY <1>2 DEF Gives
    <2>2. i \in Acting(t) /\ j \in Acting(t)
      BY <2>1, ActingArc
    <2> QED
      BY <1>1, <2>1, <2>2 DEF Plain, IsPlain
  <1>3. /\ sum[0] = 0 /\ v \in Nat
        /\ \A k \in 1 .. L : sum[k] = sum[k - 1]
                               + (IF Gives(t.arcs[k], "INPUT", p) THEN t.arcs[k].places[1][2] ELSE 0)
    BY SumIs, ValuesAreNumbers
  <1>4. \A k \in 1 .. L : sum[k] = sum[k - 1] + (IF k = i THEN v ELSE 0)
    BY <1>2, <1>3
  <1> HIDE DEF sum, v
  <1>5. T \in SUBSET Nat /\ 0 \in T
    BY <1>1, <1>3
  <1>6. ASSUME NEW k \in T PROVE k + 1 \in T
    <2> SUFFICES ASSUME k + 1 <= L PROVE sum[k + 1] = IF k + 1 < i THEN 0 ELSE v
      OBVIOUS
    <2>1. k \in Nat /\ k + 1 \in 1 .. L /\ (k + 1) - 1 = k /\ sum[k] = IF k < i THEN 0 ELSE v
      BY <1>1
    <2>2. sum[k + 1] = sum[k] + (IF k + 1 = i THEN v ELSE 0)
      BY <1>4, <2>1
    <2> QED
      BY <1>1, <1>3, <2>1, <2>2
  <1> HIDE DEF T
  <1>7. T = Nat
    BY <1>5, <1>6, Induction
  <1>8. sum[L] = v
    BY <1>1, <1>7 DEF T
  <1> QED
    BY <1>8 DEF Sum, sum, v

(* The marking when k arcs of t have acted.                                *)
MarkingAfterArcs(t, m, k) ==
  [p \in DOMAIN m |->
     (IF \E j \in 1 .. k : Gives(t.arcs[j], "RESET", p)
      THEN 0 ELSE m[p] - SumOfArcs(t, "INPUT", p)[k])
     + SumOfArcs(t, "OUTPUT", p)[k]]

LEMMA AfterAllArcs ==
  ASSUME NEW P, NEW t, Plain(t, P), NEW m \in [P -> Int]
  PROVE  MarkingAfterArcs(t, m, Len(t.arcs)) = MarkingAfter(t, m)
  <1>1. DOMAIN t.arcs = 1 .. Len(t.arcs)
    BY DEF Plain
  <1>2. \A p : Touches(t, "RESET", p) <=> \E j \in 1 .. Len(t.arcs) : Gives(t.arcs[j], "RESET", p)
    BY <1>1 DEF Touches
  <1> QED
    BY <1>2 DEF MarkingAfterArcs, MarkingAfter, Sum

(* One more arc: what it does is what the sums say, because an input comes *)
(* on a place that was not reset, a reset on one where nothing was         *)
(* produced, and because no place goes below 0.                            *)
Covers(m, t, P) == m \in [P -> Nat] /\ \A p \in P : m[p] >= Sum(t, "INPUT", p)

ArcLeads(t, m, k) ==
  ActionHom(t.arcs[k], MarkingAfterArcs(t, m, k - 1)) = {MarkingAfterArcs(t, m, k)}

LEMMA OneMoreArc ==
  ASSUME NEW P, NEW t, Plain(t, P), NEW m, Covers(m, t, P), NEW k \in 1 .. Len(t.arcs)
  PROVE  ArcLeads(t, m, k)
  <1> DEFINE L == Len(t.arcs)
             a == t.arcs[k]
             q == a.places[1][1]
             v == a.places[1][2]
             In(p) == SumOfArcs(t, "INPUT", p)
             Out(p) == SumOfArcs(t, "OUTPUT", p)
             reset(j, p) == \E i \in 1 .. j : Gives(t.arcs[i], "RESET", p)
             before == MarkingAfterArcs(t, m, k - 1)
             after == MarkingAfterArcs(t, m, k)
  <1>0. m \in [P -> Nat] /\ \A p \in P : m[p] >= Sum(t, "INPUT", p)
    BY DEF Covers
  <1>1. L \in Nat /\ k \in 0 .. L /\ k - 1 \in 0 .. L
    BY DEF Plain
  <1>2. ASSUME NEW p \in P
        PROVE  /\ In(p)[k - 1] \in Nat /\ In(p)[k] \in Nat
               /\ Out(p)[k - 1] \in Nat /\ Out(p)[k] \in Nat
               /\ In(p)[k] = In(p)[k - 1] + (IF Gives(a, "INPUT", p) THEN v ELSE 0)
               /\ Out(p)[k] = Out(p)[k - 1] + (IF Gives(a, "OUTPUT", p) THEN v ELSE 0)
               /\ In(p)[k - 1] <= m[p]
    <2>1. In(p) \in [0 .. L -> Nat] /\ Out(p) \in [0 .. L -> Nat]
      BY SumIs
    <2>2. /\ In(p)[k] = In(p)[k - 1] + (IF Gives(a, "INPUT", p) THEN v ELSE 0)
          /\ Out(p)[k] = Out(p)[k - 1] + (IF Gives(a, "OUTPUT", p) THEN v ELSE 0)
      BY SumIs
    <2>3. In(p)[k - 1] <= Sum(t, "INPUT", p) /\ Sum(t, "INPUT", p) \in Nat
      <3>1. L \in 0 .. L
        BY <1>1
      <3> QED
        BY <1>1, <2>1, <3>1, SumGrows DEF Sum
    <2>4. m[p] \in Nat /\ m[p] >= Sum(t, "INPUT", p)
      BY <1>0
    <2> HIDE DEF In, Out, a, v
    <2> QED
      BY <1>1, <2>1, <2>2, <2>3, <2>4
  <1>3. ASSUME NEW p
        PROVE  reset(k, p) <=> reset(k - 1, p) \/ Gives(a, "RESET", p)
    <2>1. 1 .. k = 1 .. (k - 1) \cup {k}
      OBVIOUS
    <2> QED
      BY <2>1
  <1>4. before = [p \in P |-> (IF reset(k - 1, p) THEN 0 ELSE m[p] - In(p)[k - 1]) + Out(p)[k - 1]]
    BY <1>0 DEF MarkingAfterArcs
  <1>5. after = [p \in P |-> (IF reset(k, p) THEN 0 ELSE m[p] - In(p)[k]) + Out(p)[k]]
    BY <1>0 DEF MarkingAfterArcs
  <1>6. ASSUME NEW p \in P
        PROVE  /\ before[p] = (IF reset(k - 1, p) THEN 0 ELSE m[p] - In(p)[k - 1]) + Out(p)[k - 1]
               /\ after[p] = (IF reset(k - 1, p) \/ Gives(a, "RESET", p) THEN 0
                              ELSE m[p] - (In(p)[k - 1] + (IF Gives(a, "INPUT", p) THEN v ELSE 0)))
                             + (Out(p)[k - 1] + (IF Gives(a, "OUTPUT", p) THEN v ELSE 0))
               /\ m[p] \in Nat /\ In(p)[k - 1] \in Nat /\ Out(p)[k - 1] \in Nat
               /\ before[p] \in Nat
    <2> HIDE DEF In, Out, a, v, reset, before, after
    <2>1. /\ In(p)[k - 1] \in Nat /\ Out(p)[k - 1] \in Nat /\ In(p)[k - 1] <= m[p]
          /\ In(p)[k] = In(p)[k - 1] + (IF Gives(a, "INPUT", p) THEN v ELSE 0)
          /\ Out(p)[k] = Out(p)[k - 1] + (IF Gives(a, "OUTPUT", p) THEN v ELSE 0)
      BY <1>2
    <2>2. reset(k, p) <=> reset(k - 1, p) \/ Gives(a, "RESET", p)
      BY <1>3
    <2>3. before[p] = (IF reset(k - 1, p) THEN 0 ELSE m[p] - In(p)[k - 1]) + Out(p)[k - 1]
      BY <1>4
    <2>4. after[p] = (IF reset(k, p) THEN 0 ELSE m[p] - In(p)[k]) + Out(p)[k]
      BY <1>5
    <2>5. m[p] \in Nat
      BY <1>0
    <2>6. before[p] \in Nat
      BY <2>1, <2>3, <2>5
    <2> QED
      BY <2>1, <2>2, <2>3, <2>4, <2>5, <2>6
  <1>7. ASSUME NEW p \in P
        PROVE  /\ ~Gives(a, "RESET", p) /\ ~Gives(a, "INPUT", p) /\ ~Gives(a, "OUTPUT", p)
                    => after[p] = before[p]
               /\ ~reset(k - 1, p) /\ ~Gives(a, "RESET", p) /\ Gives(a, "INPUT", p) /\ ~Gives(a, "OUTPUT", p)
                  /\ v \in Int => after[p] = before[p] - v
               /\ ~Gives(a, "RESET", p) /\ ~Gives(a, "INPUT", p) /\ Gives(a, "OUTPUT", p)
                  /\ v \in Int => after[p] = before[p] + v
               /\ Gives(a, "RESET", p) /\ ~Gives(a, "INPUT", p) /\ ~Gives(a, "OUTPUT", p) /\ Out(p)[k - 1] = 0
                    => after[p] = 0
               /\ before[p] \in Nat
    <2> DEFINE x == m[p]
               i == In(p)[k - 1]
               o == Out(p)[k - 1]
               r == reset(k - 1, p)
               gr == Gives(a, "RESET", p)
               gi == Gives(a, "INPUT", p)
               go == Gives(a, "OUTPUT", p)
               b == before[p]
               c == after[p]
    <2> HIDE DEF In, Out, a, v, reset, before, after
    <2>1. /\ b = (IF r THEN 0 ELSE x - i) + o
          /\ c = (IF r \/ gr THEN 0 ELSE x - (i + (IF gi THEN v ELSE 0))) + (o + (IF go THEN v ELSE 0))
          /\ x \in Nat /\ i \in Nat /\ o \in Nat /\ b \in Nat
      BY <1>6
    <2> HIDE DEF x, i, o, r, gr, gi, go, b, c
    <2>2. ~gr /\ ~gi /\ ~go => c = b
      BY <2>1
    <2>3. ~r /\ ~gr /\ gi /\ ~go /\ v \in Int => c = b - v
      BY <2>1
    <2>4. ~gr /\ ~gi /\ go /\ v \in Int => c = b + v
      BY <2>1
    <2>5. gr /\ ~gi /\ ~go /\ o = 0 => c = 0
      BY <2>1
    <2> QED
      BY <2>1, <2>2, <2>3, <2>4, <2>5 DEF x, i, o, r, gr, gi, go, b, c
  <1>8. CASE a.type \in {"INHIBITOR", "TEST"}
    <2>1. ActionHom(a, before) = {before}
      BY <1>8 DEF ActionHom
    <2>2. \A p : ~Gives(a, "INPUT", p) /\ ~Gives(a, "OUTPUT", p) /\ ~Gives(a, "RESET", p)
      BY <1>8 DEF Gives
    <2> HIDE DEF In, Out, a, v, reset, before, after
    <2>3. ASSUME NEW p \in P
          PROVE  after[p] = before[p]
      BY <1>7, <2>2
    <2>4. before = after
      BY <1>4, <1>5, <2>3
    <2> QED
      BY <2>1, <2>4 DEF before, after, a, ArcLeads
  <1>9. ASSUME a.type \notin {"INHIBITOR", "TEST"}
        PROVE  /\ q \in P /\ v \in Int /\ k \in Acting(t)
               /\ a.type \in {"INPUT", "OUTPUT", "RESET"}
               /\ a.type = "INPUT" => v >= 0
               /\ a.type = "OUTPUT" => v > 0
               /\ ActionHom(a, before) = PlaceActionHom(a.type, q, v, before)
    <2>1. ActionHom(a, before)
            = IF a.type \in {"INHIBITOR", "TEST"} THEN {before} ELSE PlaceActionHom(a.type, q, v, before)
      <3>1. DOMAIN a.places = {1}
        BY <1>9, ActingArc
      <3> HIDE DEF before, a
      <3> QED
        BY <1>9, <3>1 DEF ActionHom
    <2> QED
      BY <1>9, <2>1, ActingArc
  <1>10. CASE a.type = "INPUT"
    <2>1. ~reset(k - 1, q)
      <3> SUFFICES ASSUME NEW j \in 1 .. (k - 1), Gives(t.arcs[j], "RESET", q)
                   PROVE  FALSE
        OBVIOUS
      <3>1. j \in 1 .. L /\ j < k
        BY <1>1
      <3>2. t.arcs[j].type = "RESET" /\ t.arcs[j].places[1][1] = q
        BY DEF Gives
      <3>3. j \in Acting(t)
        BY <3>1, <3>2, ActingArc
      <3> QED
        BY <1>9, <1>10, <3>1, <3>2, <3>3 DEF Plain, IsPlain
    <2>2. \A p : ~Gives(a, "OUTPUT", p) /\ ~Gives(a, "RESET", p) /\ (Gives(a, "INPUT", p) <=> p = q)
      BY <1>10 DEF Gives
    <2>3. PlaceActionHom(a.type, q, v, before) = {[before EXCEPT ![q] = @ - v]}
      BY <1>10 DEF PlaceActionHom
    <2>4. q \in P /\ v \in Int /\ ActionHom(a, before) = {[before EXCEPT ![q] = @ - v]}
      BY <1>9, <1>10, <2>3
    <2> HIDE DEF In, Out, a, v, q, reset, before, after
    <2>5. ASSUME NEW p \in P
          PROVE  after[p] = IF p = q THEN before[p] - v ELSE before[p]
      BY <1>7, <2>1, <2>2, <2>4
    <2>6. [before EXCEPT ![q] = @ - v] = after
      BY <1>4, <1>5, <2>4, <2>5
    <2> QED
      BY <2>4, <2>6 DEF before, after, a, ArcLeads
  <1>11. CASE a.type = "OUTPUT"
    <2>1. \A p : ~Gives(a, "INPUT", p) /\ ~Gives(a, "RESET", p) /\ (Gives(a, "OUTPUT", p) <=> p = q)
      BY <1>11 DEF Gives
    <2>2. PlaceActionHom(a.type, q, v, before) = {n \in {[before EXCEPT ![q] = @ + v]} : n[q] > 0}
      BY <1>11 DEF PlaceActionHom
    <2>3. /\ q \in P /\ v \in Int /\ v > 0
          /\ ActionHom(a, before) = {n \in {[before EXCEPT ![q] = @ + v]} : n[q] > 0}
      BY <1>9, <1>11, <2>2
    <2> HIDE DEF In, Out, a, v, q, reset, before, after
    <2>4. ASSUME NEW p \in P
          PROVE  after[p] = IF p = q THEN before[p] + v ELSE before[p]
      BY <1>7, <2>1, <2>3
    <2>5. [before EXCEPT ![q] = @ + v] = after
      BY <1>4, <1>5, <2>3, <2>4
    <2>6. before[q] \in Nat
      BY <1>7, <2>3
    <2>7. after[q] > 0
      BY <2>3, <2>4, <2>6
    <2> QED
      BY <2>3, <2>5, <2>7 DEF before, after, a, ArcLeads
  <1>12. CASE a.type = "RESET"
    <2>1. Out(q)[k - 1] = 0
      <3>1. ASSUME NEW j \in 1 .. (k - 1), Gives(t.arcs[j], "OUTPUT", q)
            PROVE  FALSE
        <4>1. j \in 1 .. L /\ j < k
          BY <1>1
        <4>2. t.arcs[j].type = "OUTPUT" /\ t.arcs[j].places[1][1] = q
          BY <3>1 DEF Gives
        <4>3. j \in Acting(t)
          BY <4>1, <4>2, ActingArc
        <4> QED
          BY <1>9, <1>12, <4>1, <4>2, <4>3 DEF Plain, IsPlain
      <3> QED
        BY <1>1, <3>1, NothingGiven
    <2>2. \A p : ~Gives(a, "INPUT", p) /\ ~Gives(a, "OUTPUT", p) /\ (Gives(a, "RESET", p) <=> p = q)
      BY <1>12 DEF Gives
    <2>3. PlaceActionHom(a.type, q, v, before) = {[before EXCEPT ![q] = 0]}
      BY <1>12 DEF PlaceActionHom
    <2>4. q \in P /\ ActionHom(a, before) = {[before EXCEPT ![q] = 0]}
      BY <1>9, <1>12, <2>3
    <2> HIDE DEF In, Out, a, v, q, reset, before, after
    <2>5. ASSUME NEW p \in P
          PROVE  after[p] = IF p = q THEN 0 ELSE before[p]
      BY <1>7, <2>1, <2>2, <2>4
    <2>6. [before EXCEPT ![q] = 0] = after
      BY <1>4, <1>5, <2>4, <2>5
    <2> QED
      BY <2>4, <2>6 DEF before, after, a, ArcLeads
  <1> QED
    BY <1>8, <1>9, <1>10, <1>11, <1>12 DEF ArcLeads

(* All the arcs of a transition that may occur lead to one marking.        *)
LEMMA ArcsLeadToOne ==
  ASSUME NEW P, NEW t, Plain(t, P), NEW m, Covers(m, t, P)
  PROVE  Actions(t, m) = {MarkingAfter(t, m)}
  <1> DEFINE L == Len(t.arcs)
             after == ActionsOfArcs(t, m)
             to(k) == MarkingAfterArcs(t, m, k)
             T == {k \in Nat : k <= L => after[k] = {to(k)}}
  <1>1. L \in Nat
    BY DEF Plain
  <1>2. m \in [P -> Nat] /\ m \in [P -> Int]
    BY DEF Covers
  <1>3. /\ after[0] = {m}
        /\ \A k \in 1 .. L : after[k] = UNION {ActionHom(t.arcs[k], n) : n \in after[k - 1]}
    BY <1>2, ActionsUnfold
  <1>4. to(0) = m
    <2>1. \A p : SumOfArcs(t, "INPUT", p)[0] = 0 /\ SumOfArcs(t, "OUTPUT", p)[0] = 0
      BY SumIs
    <2>2. ASSUME NEW p \in P
          PROVE  to(0)[p] = m[p]
      <3>1. to(0)[p] = (m[p] - 0) + 0
        BY <1>2, <2>1 DEF MarkingAfterArcs
      <3>2. m[p] \in Nat
        BY <1>2
      <3> HIDE DEF to
      <3> QED
        BY <3>1, <3>2
    <2>3. to(0) = [p \in P |-> to(0)[p]]
      BY <1>2 DEF MarkingAfterArcs
    <2> HIDE DEF to
    <2> QED
      BY <1>2, <2>2, <2>3
  <1>5. ASSUME NEW k \in 1 .. L
        PROVE  ActionHom(t.arcs[k], to(k - 1)) = {to(k)}
    BY OneMoreArc DEF ArcLeads
  <1> HIDE DEF after, to
  <1>6. T \in SUBSET Nat /\ 0 \in T
    BY <1>3, <1>4
  <1>7. ASSUME NEW k \in T PROVE k + 1 \in T
    <2> SUFFICES ASSUME k + 1 <= L PROVE after[k + 1] = {to(k + 1)}
      OBVIOUS
    <2>1. k + 1 \in 1 .. L /\ (k + 1) - 1 = k /\ after[k] = {to(k)}
      BY <1>1
    <2>2. after[k + 1] = UNION {ActionHom(t.arcs[k + 1], n) : n \in {to(k)}}
      BY <1>3, <2>1
    <2>3. ActionHom(t.arcs[k + 1], to(k)) = {to(k + 1)}
      BY <1>5, <2>1
    <2> QED
      BY <2>2, <2>3
  <1> HIDE DEF T
  <1>8. T = Nat
    BY <1>6, <1>7, Induction
  <1>9. after[L] = {to(L)}
    BY <1>1, <1>8 DEF T
  <1>10. to(L) = MarkingAfter(t, m)
    BY <1>2, AfterAllArcs DEF to
  <1> QED
    BY <1>9, <1>10 DEF Actions, after

(* The tests of the arcs, one by one, are those of the net.                *)
LEMMA EnabledMeans ==
  ASSUME NEW P, NEW t, Plain(t, P), NEW m \in [P -> Nat]
  PROVE  IsEnabled(t, m) <=> MayOccur(t, m)
  <1> DEFINE L == Len(t.arcs)
             tests(k) ==
               /\ t.arcs[k].type = "TEST" => \E j \in DOMAIN t.arcs[k].places :
                                                m[t.arcs[k].places[j][1]] >= t.arcs[k].places[j][2]
               /\ t.arcs[k].type = "INHIBITOR" => \E j \in DOMAIN t.arcs[k].places :
                                                m[t.arcs[k].places[j][1]] < t.arcs[k].places[j][2]
             covers(k) == t.arcs[k].type = "INPUT" => m[t.arcs[k].places[1][1]] >= t.arcs[k].places[1][2]
  <1>1. L \in Nat /\ DOMAIN t.arcs = 1 .. L /\ t.arcs \in Seq(Arcs(P))
    BY DEF Plain
  <1>2. ASSUME NEW k \in 1 .. L
        PROVE  EnablerHom(t.arcs[k], m) <=> tests(k) /\ covers(k)
    <2>1. /\ t.arcs[k].type \in ArcTypes
          /\ \A j \in DOMAIN t.arcs[k].places :
               t.arcs[k].places[j][1] \in P /\ t.arcs[k].places[j][2] \in Int
      BY <1>1, ArcIs
    <2>2. \A j \in DOMAIN t.arcs[k].places :
            /\ m[t.arcs[k].places[j][1]] > t.arcs[k].places[j][2] - 1
                 <=> m[t.arcs[k].places[j][1]] >= t.arcs[k].places[j][2]
            /\ m[t.arcs[k].places[j][1]] <= t.arcs[k].places[j][2] - 1
                 <=> m[t.arcs[k].places[j][1]] < t.arcs[k].places[j][2]
      BY <2>1
    <2>3. CASE t.arcs[k].type \in {"TEST", "INHIBITOR"}
      BY <2>2, <2>3 DEF EnablerHom
    <2>4. CASE t.arcs[k].type = "INPUT"
      <3>1. DOMAIN t.arcs[k].places = {1}
        BY <2>4, ActingArc
      <3> QED
        BY <2>2, <2>4, <3>1 DEF EnablerHom
    <2>5. CASE t.arcs[k].type \in {"OUTPUT", "RESET"}
      BY <2>5 DEF EnablerHom
    <2> QED
      BY <2>1, <2>3, <2>4, <2>5 DEF ArcTypes
  <1>3. (\A k \in 1 .. L : covers(k)) <=> \A p \in P : m[p] >= Sum(t, "INPUT", p)
    <2>1. ASSUME \A k \in 1 .. L : covers(k), NEW p \in P
          PROVE  m[p] >= Sum(t, "INPUT", p)
      <3>1. CASE \E k \in 1 .. L : Gives(t.arcs[k], "INPUT", p)
        <4>1. PICK k \in 1 .. L : Gives(t.arcs[k], "INPUT", p)
          BY <3>1
        <4>2. Sum(t, "INPUT", p) = t.arcs[k].places[1][2]
          BY <4>1, OneConsumer
        <4> QED
          BY <2>1, <4>1, <4>2 DEF Gives
      <3>2. CASE ~\E k \in 1 .. L : Gives(t.arcs[k], "INPUT", p)
        <4>1. L \in 0 .. L
          BY <1>1
        <4>2. Sum(t, "INPUT", p) = 0
          BY <3>2, <4>1, NothingGiven DEF Sum
        <4>3. m[p] \in Nat
          OBVIOUS
        <4> QED
          BY <4>2, <4>3
      <3> QED
        BY <3>1, <3>2
    <2>2. ASSUME \A p \in P : m[p] >= Sum(t, "INPUT", p), NEW k \in 1 .. L, t.arcs[k].type = "INPUT"
          PROVE  m[t.arcs[k].places[1][1]] >= t.arcs[k].places[1][2]
      <3> DEFINE p == t.arcs[k].places[1][1]
      <3>1. p \in P /\ Gives(t.arcs[k], "INPUT", p)
        BY <2>2, ActingArc DEF Gives
      <3>2. Sum(t, "INPUT", p) = t.arcs[k].places[1][2]
        BY <3>1, OneConsumer
      <3> QED
        BY <2>2, <3>1, <3>2
    <2> QED
      BY <2>1, <2>2
  <1>4. IsEnabled(t, m) <=> \A k \in 1 .. L : tests(k) /\ covers(k)
    BY <1>1, <1>2 DEF IsEnabled
  <1>5. DOMAIN m = P
    OBVIOUS
  <1> QED
    BY <1>1, <1>3, <1>4, <1>5 DEF MayOccur

(* No place goes below 0.                                                  *)
LEMMA MarkingStays ==
  ASSUME NEW P, NEW t, Plain(t, P), NEW m, Covers(m, t, P)
  PROVE  MarkingAfter(t, m) \in [P -> Nat]
  <1>1. ASSUME NEW p \in P
        PROVE  (IF Touches(t, "RESET", p) THEN 0 ELSE m[p] - Sum(t, "INPUT", p))
                 + Sum(t, "OUTPUT", p) \in Nat
    <2>1. Len(t.arcs) \in 0 .. Len(t.arcs)
      BY DEF Plain
    <2>2. Sum(t, "INPUT", p) \in Nat /\ Sum(t, "OUTPUT", p) \in Nat
      BY <2>1, SumIs DEF Sum
    <2>3. m[p] \in Nat /\ m[p] >= Sum(t, "INPUT", p)
      BY DEF Covers
    <2> QED
      BY <2>2, <2>3
  <1> QED
    BY <1>1 DEF MarkingAfter, Covers

(* The homomorphism of a transition has the marking that the net reaches.  *)
LEMMA FullIsExact ==
  ASSUME NEW P, NEW t, Plain(t, P), NEW m \in [P -> Nat]
  PROVE  /\ Full(t, m) = IF MayOccur(t, m) THEN {MarkingAfter(t, m)} ELSE {}
         /\ Full(t, m) \subseteq [P -> Nat]
  <1>1. CASE MayOccur(t, m)
    <2>1. Covers(m, t, P)
      BY <1>1 DEF MayOccur, Covers
    <2>2. Actions(t, m) = {MarkingAfter(t, m)} /\ MarkingAfter(t, m) \in [P -> Nat]
      BY <2>1, ArcsLeadToOne, MarkingStays
    <2>3. IsEnabled(t, m)
      BY <1>1, EnabledMeans
    <2> QED
      BY <1>1, <2>2, <2>3 DEF Full
  <1>2. CASE ~MayOccur(t, m)
    <2>1. ~IsEnabled(t, m)
      BY <1>2, EnabledMeans
    <2> QED
      BY <1>2, <2>1 DEF Full
  <1> QED
    BY <1>1, <1>2

-----------------------------------------------------------------------------
(***************************************************************************)
(* The steps of the type.                                                  *)
(***************************************************************************)

(* Places hold tokens or nothing.                                          *)
MarkingTyped == marking \in [net.places -> Nat]

LEMMA NetIsPlain ==
  ASSUME NetsArePlain, net \in Nets, NEW n \in TransitionsOf(net)
  PROVE  Plain(net.trans[n], net.places)
  <1>1. IsPlain(net.trans[n])
    BY DEF NetsArePlain
  <1>2. net.trans[n].arcs \in Seq(Arcs(net.places))
    BY ArcsAreTyped
  <1> QED
    BY <1>1, <1>2 DEF Plain

LEMMA StepMarking ==
  ASSUME NetsArePlain, net \in Nets, MarkingTyped, NEW n \in TransitionsOf(net), NEW selectors,
         Step(n, selectors)
  PROVE  MarkingTyped'
  <1>1. IsEnabled(net.trans[n], marking) /\ marking' \in Actions(net.trans[n], marking) /\ net' = net
    BY DEF Step, Enabled
  <1>2. marking' \in Full(net.trans[n], marking)
    BY <1>1 DEF Full
  <1>3. Full(net.trans[n], marking) \subseteq [net.places -> Nat]
    BY NetIsPlain, FullIsExact DEF MarkingTyped
  <1> QED
    BY <1>1, <1>2, <1>3 DEF MarkingTyped

LEMMA NextMarking ==
  ASSUME NetsArePlain, Inv, MarkingTyped, [Next]_vars
  PROVE  MarkingTyped'
  <1>1. net \in Nets
    BY DEF Inv, TypeOK
  <1>2. ASSUME NEW n \in TransitionsOf(net), NEW sel \in BOOLEAN, Step(n, sel) PROVE MarkingTyped'
    BY <1>1, <1>2, StepMarking
  <1>3. CASE Elapse
    BY <1>3 DEF Elapse, MarkingTyped
  <1>4. CASE UNCHANGED vars
    BY <1>4 DEF vars, MarkingTyped
  <1> QED
    BY <1>2, <1>3, <1>4, NextIsStep

(* What the type tests of a clock is what the net says of an age, both     *)
(* ways, for a transition that is enabled.                                 *)
LEMMA TestsAreExact ==
  ASSUME Inv, NEW n \in TransitionsOf(net), Enabled(n)
  PROVE  OK(n) <=> (n \in Timed => /\ age[n] >= net.trans[n].eft
                                   /\ net.trans[n].lft # CLOCK_INFINITY => age[n] <= net.trans[n].lft)
  <1>1. net \in Nets /\ Clocked \subseteq Timed
    BY DEF Inv, TypeOK, Clocked
  <1>2. CASE n \notin Timed
    BY <1>1, <1>2 DEF OK
  <1>3. CASE n \in Timed
    <2>1. OK(n) => /\ age[n] >= net.trans[n].eft
                   /\ net.trans[n].lft # CLOCK_INFINITY => age[n] <= net.trans[n].lft
      BY <1>3, InTime
    <2>2. ASSUME age[n] >= net.trans[n].eft,
                 net.trans[n].lft # CLOCK_INFINITY => age[n] <= net.trans[n].lft,
                 n \in Clocked
          PROVE  /\ net.trans[n].lft # CLOCK_INFINITY => clock[n] <= net.trans[n].lft
                 /\ net.trans[n].eft > 0 => clock[n] > net.trans[n].eft - 1
      <3>1. clock[n] = ClockOf(net.trans[n], age[n]) /\ age[n] \in Nat
        BY <1>3, <2>2 DEF Inv, ClocksAreAges, TypeOK
      <3> QED
        BY <1>1, <1>3, <2>2, <3>1, Bounds DEF ClockOf
    <2> QED
      BY <1>3, <2>1, <2>2 DEF OK
  <1> QED
    BY <1>2, <1>3

(* Time goes on unless a transition is at its latest time.                 *)
LEMMA ElapseIsExact ==
  ASSUME Inv, NEW n \in Timed, Enabled(n)
  PROVE  MayIncr(n) <=> age[n] # net.trans[n].lft
  <1>1. net \in Nets /\ age[n] \in Nat
    BY DEF Inv, TypeOK
  <1>2. net.trans[n].lft # CLOCK_INFINITY => age[n] <= net.trans[n].lft
    BY DEF Inv, ClocksAreAges
  <1>3. CASE n \notin Clocked
    <2>1. net.trans[n].lft = 0 /\ CLOCK_INFINITY = -1
      BY <1>1, <1>3, Bounds
    <2> QED
      BY <1>1, <1>2, <2>1 DEF MayIncr
  <1>4. CASE n \in Clocked
    <2>1. clock[n] = ClockOf(net.trans[n], age[n])
      BY <1>4 DEF Inv, ClocksAreAges
    <2>2. CASE net.trans[n].lft = CLOCK_INFINITY
      BY <1>1, <1>4, <2>2, Bounds DEF MayIncr
    <2>3. CASE net.trans[n].lft # CLOCK_INFINITY
      BY <1>1, <1>2, <1>4, <2>1, <2>3, Bounds DEF MayIncr, ClockOf
    <2> QED
      BY <2>2, <2>3
  <1> QED
    BY <1>3, <1>4

(* With plain transitions the type can do all that the time Petri net can, *)
(* and no more: each transition leads to the marking that its arcs define  *)
(* if it has the tokens and is in time, to none otherwise, and time goes   *)
(* on unless a transition that may occur is at its latest time             *)
(* (TPNetSemantics.hpp:86, TPNetType.hh:104), for all nets.                *)
THEOREM StepsStayExact == NetsArePlain => (Spec => []StepsAreExact)
  <1> SUFFICES ASSUME NetsArePlain PROVE Spec => []StepsAreExact
    OBVIOUS
  <1>1. ASSUME Init PROVE MarkingTyped
    <2>1. net \in Nets /\ \E st \in DOMAIN net.inits : marking = net.inits[st]
      BY <1>1 DEF Init
    <2> QED
      BY <2>1, ArcsAreTyped DEF MarkingTyped
  <1>2. ASSUME Inv, MarkingTyped PROVE StepsAreExact
    <2>1. net \in Nets /\ marking \in [net.places -> Nat]
      BY <1>2 DEF Inv, TypeOK, MarkingTyped
    <2> DEFINE timely(n) == n \in Timed => /\ age[n] >= net.trans[n].eft
                                           /\ net.trans[n].lft # CLOCK_INFINITY => age[n] <= net.trans[n].lft
    <2>2. ASSUME NEW n \in TransitionsOf(net)
          PROVE  Enabled(n) <=> MayOccur(net.trans[n], marking)
      BY <2>1, NetIsPlain, EnabledMeans DEF Enabled
    <2>3. ASSUME NEW n \in TransitionsOf(net)
          PROVE  (IF OK(n) THEN Full(net.trans[n], marking) ELSE {})
                   = IF MayOccur(net.trans[n], marking) /\ timely(n)
                     THEN {MarkingAfter(net.trans[n], marking)} ELSE {}
      <3>1. Full(net.trans[n], marking)
              = IF MayOccur(net.trans[n], marking) THEN {MarkingAfter(net.trans[n], marking)} ELSE {}
        BY <2>1, NetIsPlain, FullIsExact
      <3>2. MayOccur(net.trans[n], marking) => (OK(n) <=> timely(n))
        BY <1>2, <2>2, TestsAreExact
      <3> HIDE DEF timely
      <3> QED
        BY <3>1, <3>2
    <2>4. ASSUME NEW n \in Timed
          PROVE  (Enabled(n) => MayIncr(n))
                   <=> ~(age[n] = net.trans[n].lft /\ MayOccur(net.trans[n], marking))
      <3>1. n \in TransitionsOf(net)
        BY DEF Timed
      <3> QED
        BY <1>2, <2>2, <3>1, ElapseIsExact
    <2>5. MayElapse = \A n \in Timed : ~(age[n] = net.trans[n].lft /\ MayOccur(net.trans[n], marking))
      BY <2>4 DEF MayElapse
    <2> QED
      BY <2>3, <2>5 DEF StepsAreExact
  <1>3. ASSUME Inv, MarkingTyped, [Next]_vars PROVE MarkingTyped'
    BY <1>3, NextMarking
  <1> QED
    BY InitialInv, InductiveInv, <1>1, <1>2, <1>3, PTL DEF Spec
=============================================================================
