---------------------------- MODULE Explain_proofs ----------------------------
(***************************************************************************)
(* What its-ctl --witness says and prints is right, for every finite state *)
(* space, model, labelling and formula: Explain implements CtlCheck, and   *)
(* the invariant below says what each call, search and return that remains *)
(* to be made is about.  A search is a call of findPath, whose invariant   *)
(* comes from FindPath_proofs: it succeeds when it can, and what it finds  *)
(* can be played.  What the checker finds comes from CtlCheck_proofs.      *)
(***************************************************************************)
EXTENDS Explain, CtlCheck_proofs

(* The searches: those for some states in some set of states, which is a   *)
(* part of the states that are searched backward.                          *)
Proper ==
  {q \in F!Arguments : q.reach # {} /\ q.toreach # {} /\ q.reach \subseteq q.pot}

FP == INSTANCE FindPath_proofs WITH pc <- fpc, TransChoices <- Systems, Queries <- Proper

(* The searches of findPath are those that FindPath_proofs is about: the   *)
(* two instances name the same things.                                     *)
LEMMA ArgumentsSame == F!Arguments = FP!Arguments
BY DEF F!Arguments, FP!Arguments

(* The same relations and the same names of transitions.                   *)
LEMMA SameOperators ==
  /\ \A h, S : F!Post(h, S) = FP!Post(h, S) /\ F!Post(h, S) = Post(h, S)
  /\ \A h, S : F!Invert(h, S) = FP!Invert(h, S) /\ F!Invert(h, S) = Invert(h, S)
  /\ F!Names = FP!Names /\ F!Names = Names
BY Zenon DEF Post, F!Post, FP!Post, Invert, F!Invert, FP!Invert, Names, F!Names, FP!Names

(* The same backward layers.                                               *)
LEMMA SameLayer ==
   /\ F!revTrans = FP!revTrans
   /\ F!M2 = FP!M2 /\ \A i : F!Matches(i) = FP!Matches(i)
<1>1. F!revTrans = FP!revTrans
  BY DEF F!revTrans, FP!revTrans, F!PredRel, FP!PredRel,
   F!NextRel, FP!NextRel, F!ToAdd, FP!ToAdd, F!ToProtect, FP!ToProtect, F!Live, FP!Live,
   F!InvertAll, FP!InvertAll, F!IsExact, FP!IsExact, F!Within, FP!Within,
   F!Post, FP!Post, F!Invert, FP!Invert, F!Names, FP!Names
<1>2. F!M2 = FP!M2
  BY <1>1, SameOperators DEF F!M2, FP!M2
<1>. QED
  BY <1>1, <1>2, SameOperators DEF F!Matches, FP!Matches

(* A step of a search is a step of the other instance.                     *)
LEMMA NextSame == F!Next => FP!Next
<1> USE SameLayer, SameOperators DEF F!input, FP!input, F!search, FP!search, F!vars, FP!vars
<1>1. F!AlreadyThere => FP!AlreadyThere
  BY DEF F!AlreadyThere, FP!AlreadyThere
<1>2. F!StartSearch => FP!StartSearch
  BY DEF F!StartSearch, FP!StartSearch
<1>3. F!SearchFails => FP!SearchFails
  BY DEF F!SearchFails, FP!SearchFails
<1>4. F!SearchBack => FP!SearchBack
  BY DEF F!SearchBack, FP!SearchBack
<1>5. F!SearchMeetsInit => FP!SearchMeetsInit
  BY DEF F!SearchMeetsInit, FP!SearchMeetsInit
<1>6. ASSUME F!StepForward
      PROVE  FP!StepForward
  <2>1. PICK n \in F!Matches(cur) :
          /\ \A m \in F!Matches(cur) : n <= m
          /\ witness' = Append(witness, n)
          /\ rev' = [rev EXCEPT ![cur + 1] = F!Post(trans[n], rev[cur]) \cap @]
    BY <1>6, Zenon DEF F!StepForward
  <2>2. F!Matches(cur) = FP!Matches(cur)
    BY Zenon
  <2>3. F!Post(trans[n], rev[cur]) = FP!Post(trans[n], rev[cur])
    BY Zenon
  <2>4. \E i \in FP!Matches(cur) :
          /\ \A m \in FP!Matches(cur) : i <= m
          /\ witness' = Append(witness, i)
          /\ rev' = [rev EXCEPT ![cur + 1] = FP!Post(trans[i], rev[cur]) \cap @]
    BY <2>1, <2>2, <2>3, Zenon
  <2>. QED
    BY <1>6, <2>4, Zenon DEF F!StepForward, FP!StepForward
<1>7. F!EndForward => FP!EndForward
  BY DEF F!EndForward, FP!EndForward
<1>8. F!StepPrecise => FP!StepPrecise
  BY DEF F!StepPrecise, FP!StepPrecise
<1>9. F!EndPrecise => FP!EndPrecise
  BY DEF F!EndPrecise, FP!EndPrecise
<1>10. F!Returned => FP!Returned
  BY DEF F!Returned, FP!Returned
<1>. QED
  BY <1>1, <1>2, <1>3, <1>4, <1>5, <1>6, <1>7, <1>8, <1>9, <1>10 DEF F!Next, FP!Next

(* The same systems and states.                                            *)
LEMMA SameKernel ==
  /\ Systems = FP!Systems
  /\ IsFiniteSet(States) <=> FP!IsFiniteSet(States)
BY Zenon DEF Systems, FP!Systems, Relations, FP!Relations, Names, FP!Names, IsFiniteSet, FP!IsFiniteSet

(* The invariant of a call of findPath is kept.                            *)
LEMMA SearchKept ==
  ASSUME FP!CallInv, [FP!Next]_(FP!vars)
  PROVE  FP!CallInv'
<1>2. /\ Proper \subseteq FP!Arguments
      /\ \A q \in Proper : q.reach \subseteq q.pot /\ q.reach # {} /\ q.toreach # {}
  BY ArgumentsSame DEF Proper
<1>3. Systems \subseteq FP!Systems /\ FP!IsFiniteSet(States) /\ NbTrans \in Nat
  BY SameKernel, StatesFinite, NbTransIsNat
<1>. QED
  BY <1>2, <1>3, FP!CallStep

(* The states from which T can be reached by states of R.                  *)
Backward(T, R) ==
  {s \in States :
     \A X \in SUBSET States :
        (T \subseteq X /\ Pre(NextRel(trans), X) \cap R \subseteq X) => s \in X}

(* They are the least such set.                                            *)
LEMMA BackwardIs ==
  ASSUME NEW T \in SUBSET States, NEW R
  PROVE  /\ Backward(T, R) \in SUBSET States /\ T \subseteq Backward(T, R)
         /\ Pre(NextRel(trans), Backward(T, R)) \cap R \subseteq Backward(T, R)
         /\ \A X \in SUBSET States :
               T \subseteq X /\ Pre(NextRel(trans), X) \cap R \subseteq X
                 => Backward(T, R) \subseteq X
<1>1. Backward(T, R) \in SUBSET States /\ T \subseteq Backward(T, R)
  BY DEF Backward
<1>2. \A X \in SUBSET States :
        T \subseteq X /\ Pre(NextRel(trans), X) \cap R \subseteq X => Backward(T, R) \subseteq X
  BY DEF Backward
<1>3. ASSUME NEW s \in Pre(NextRel(trans), Backward(T, R)) \cap R,
             NEW X \in SUBSET States,
             T \subseteq X, Pre(NextRel(trans), X) \cap R \subseteq X
      PROVE  s \in X
  <2>1. Backward(T, R) \subseteq X
    BY <1>2, <1>3
  <2>. QED
    BY <1>3, <2>1 DEF Pre
<1>4. Pre(NextRel(trans), Backward(T, R)) \subseteq States
  BY DEF Pre
<1>. QED
  BY <1>1, <1>2, <1>3, <1>4 DEF Backward

(* What holds of a search, of nothing too, which the code looks for when   *)
(* EG is true because of a deadlock.                                       *)
Looking ==
  /\ args \in F!Arguments
  /\ args.toreach # {} => args \in Proper /\ FP!CallInv
  /\ args.toreach = {} =>
       fpc \in {"start", "back", "done"} /\ (fpc = "back" => M3 = {}) /\ status # "path"
  /\ status = "failed" => rev = <<args.init, args.toreach>>
  /\ fpc # "done" => status = "none"

(* A step of a search.                                                     *)
LEMMA LookingStep ==
  ASSUME Looking, fpc # "done", F!Next
  PROVE  /\ Looking' /\ args' = args
         /\ fpc' = "done" => status' \in {"path", "failed"}
<1> USE DEF Looking
<1>1. UNCHANGED <<trans, args>>
  BY DEF F!Next, F!AlreadyThere, F!StartSearch, F!SearchFails, F!SearchBack, F!SearchMeetsInit,
         F!StepForward, F!EndForward, F!StepPrecise, F!EndPrecise, F!Returned, F!input, F!vars
<1>2. /\ fpc' = "done" => status' \in {"path", "failed"}
      /\ fpc' # "done" => status' = "none"
      /\ status' = "failed" => rev' = <<args.init, args.toreach>>
  BY DEF F!Next, F!AlreadyThere, F!StartSearch, F!SearchFails, F!SearchBack, F!SearchMeetsInit,
         F!StepForward, F!EndForward, F!StepPrecise, F!EndPrecise, F!Returned
<1>3. CASE args.toreach # {}
  <2>1. FP!CallInv'
    BY <1>3, NextSame, SearchKept
  <2>. QED
    BY <1>1, <1>2, <1>3, <2>1 DEF Proper
<1>4. CASE args.toreach = {}
  <2>1. fpc = "back" => F!M2 = {}
    BY <1>4 DEF F!M2, F!Post
  <2>2. /\ fpc' \in {"start", "back", "done"} /\ (fpc' = "back" => M3' = {})
        /\ status' # "path"
    BY <1>4, <2>1
    DEF F!Next, F!AlreadyThere, F!StartSearch, F!SearchFails, F!SearchBack, F!SearchMeetsInit,
        F!StepForward, F!EndForward, F!StepPrecise, F!EndPrecise, F!Returned
  <2>. QED
    BY <1>1, <1>2, <1>4, <2>2
<1>. QED
  BY <1>3, <1>4

(* A step outside of the search.                                           *)
LEMMA LookingStays ==
  ASSUME Looking, UNCHANGED <<trans, findPath>>
  PROVE  Looking'
<1>1. UNCHANGED FP!vars
  BY DEF findPath, FP!vars
<1>2. FP!CallInv => FP!CallInv'
  BY <1>1, SearchKept
<1>3. UNCHANGED <<args, fpc, M3, status, rev>>
  BY DEF findPath
<1>. QED
  BY <1>2, <1>3 DEF Looking, Proper

(* A search that starts.                                                   *)
LEMMA SearchStarts == FP!Init => FP!CallInv
<1>1. /\ Proper \subseteq FP!Arguments
      /\ \A q \in Proper : q.reach \subseteq q.pot /\ q.reach # {} /\ q.toreach # {}
  BY ArgumentsSame DEF Proper
<1>2. Systems \subseteq FP!Systems /\ FP!IsFiniteSet(States) /\ NbTrans \in Nat
  BY SameKernel, StatesFinite, NbTransIsNat
<1>. QED
  BY <1>1, <1>2, FP!CallStart

(* Find starts a search.                                                   *)
LEMMA FindStarts ==
  ASSUME trans \in Systems, trans' = trans,
         NEW i \in SUBSET States, NEW t \in SUBSET States, NEW r \in SUBSET States,
         NEW p \in BOOLEAN, t # {} => r # {}, Find(i, t, r, p)
  PROVE  /\ Looking' /\ fpc' = "start"
         /\ args' = [init |-> i, toreach |-> t, reach |-> r, pot |-> States, precise |-> p]
<1>1. /\ args' = [init |-> i, toreach |-> t, reach |-> r, pot |-> States, precise |-> p]
      /\ fpc' = "start" /\ M3' = {} /\ seen' = {} /\ rev' = <<>> /\ witness' = <<>>
      /\ cur' = 0 /\ status' = "none"
  BY DEF Find
<1>2. args' \in F!Arguments
  BY <1>1 DEF F!Arguments
<1>3. ASSUME t # {}
      PROVE  args' \in Proper /\ FP!CallInv'
  <2>1. args' \in Proper
    BY <1>1, <1>2, <1>3 DEF Proper
  <2>2. FP!Init'
    BY <1>1, <2>1 DEF FP!Init, Proper, F!Arguments
  <2>3. FP!Init' => FP!CallInv'
    BY SearchStarts, PTL
  <2>. QED
    BY <2>1, <2>2, <2>3
<1>. QED
  BY <1>1, <1>2, <1>3 DEF Looking

(* What a search that ends leaves: the first layer is made of states of    *)
(* init, the last one of states of the goal.                               *)
LEMMA SearchEnds ==
  ASSUME Looking, fpc = "done", status \in {"path", "failed"}
  PROVE  /\ rev \in Seq(SUBSET States) /\ Len(rev) \in Nat /\ Len(rev) >= 1
         /\ pathInit \subseteq args.init /\ (pathInit = {} => args.init = {})
         /\ pathFinal \subseteq args.toreach /\ (pathFinal = {} => args.toreach = {})
<1> USE DEF Looking, pathInit, pathFinal
<1>1. CASE status = "failed"
  <2>1. rev = <<args.init, args.toreach>> /\ args.init \in SUBSET States /\ args.toreach \in SUBSET States
    BY <1>1 DEF F!Arguments
  <2>2. rev \in Seq(SUBSET States) /\ Len(rev) = 2 /\ rev[1] = args.init /\ rev[2] = args.toreach
    BY <2>1
  <2>. QED
    BY <2>2
<1>2. CASE status = "path"
  <2>1. FP!CallInv /\ args.toreach # {}
    BY <1>2
  <2>2. /\ rev \in Seq(SUBSET States) /\ Len(rev) >= 1 /\ rev[1] \subseteq args.init
        /\ rev[Len(rev)] \subseteq args.toreach
        /\ \A i \in 1 .. Len(rev) : rev[i] # {}
    BY <1>2, <2>1 DEF FP!CallInv, FP!IInv, FP!PathInv, FP!TypeOK, FP!Layers, FP!Driven,
       FP!Playing, FP!HasWitness
  <2>3. Len(rev) \in Nat
    BY <2>2
  <2>4. 1 \in 1 .. Len(rev) /\ Len(rev) \in 1 .. Len(rev)
    BY <2>2, <2>3
  <2>. QED
    BY <2>2, <2>3, <2>4
<1>. QED
  BY <1>1, <1>2

(* The trace of a search that succeeds can be played, and it is empty when *)
(* one of the initial states is a goal.                                    *)
LEMMA TraceIsPlayed ==
  ASSUME Looking, fpc = "done", status = "path"
  PROVE  /\ witness \in Seq(Names) /\ Len(witness) \in Nat /\ Len(rev) = Len(witness) + 1
         /\ pathInit # {} /\ pathFinal # {}
         /\ \A i \in 1 .. Len(witness) : rev[i + 1] \subseteq Post(trans[witness[i]], rev[i])
         /\ pathFinal \subseteq Played(trans, witness, States, pathInit)
         /\ args.init \cap args.toreach # {} => Len(rev) = 1
<1> USE DEF Looking, pathInit, pathFinal
<1>1. FP!CallInv
  OBVIOUS
<1>2. /\ witness \in Seq(Names) /\ Len(witness) = Len(rev) - 1 /\ rev \in Seq(SUBSET States)
      /\ Len(rev) >= 1
      /\ \A i \in 1 .. Len(rev) : rev[i] # {}
      /\ \A i \in 1 .. Len(witness) : rev[i + 1] \subseteq FP!Post(trans[witness[i]], rev[i])
      /\ \A n \in Nat : n + 1 < Len(rev) => args.init \cap FP!Near[n] = {}
  BY <1>1, SameOperators
  DEF FP!CallInv, FP!IInv, FP!Positions, FP!PathInv, FP!TypeOK, FP!Layers, FP!Driven, FP!Nearest,
      FP!Playing, FP!HasWitness
<1>3. /\ Len(rev) \in Nat /\ Len(witness) \in Nat /\ Len(rev) = Len(witness) + 1
      /\ 1 \in 1 .. Len(rev) /\ Len(rev) \in 1 .. Len(rev)
  BY <1>2
<1>4. /\ rev[1] # {} /\ rev[Len(rev)] # {} /\ rev[1] \in SUBSET States
      /\ \A i \in 1 .. Len(rev) : rev[i] \in SUBSET States
  BY <1>2, <1>3
<1>5. \A i \in 1 .. Len(witness) : rev[i + 1] \subseteq Post(trans[witness[i]], rev[i]) \cap States
  <2>1. \A i \in 1 .. Len(witness) : i + 1 \in 1 .. Len(rev)
    BY <1>3
  <2>. QED
    BY <1>2, <1>4, <2>1, SameOperators
<1>6. rev[Len(witness) + 1] \subseteq Played(trans, witness, States, rev[1])
  BY <1>3, <1>4, <1>5, LayersArePlayed
<1>7. ASSUME args.init \cap args.toreach # {}
      PROVE  Len(rev) = 1
  <2>1. FP!TypeOK
    BY <1>1 DEF FP!CallInv, FP!IInv
  <2>2. /\ Proper \subseteq FP!Arguments
        /\ \A q \in Proper : q.reach \subseteq q.pot /\ q.reach # {} /\ q.toreach # {}
    BY ArgumentsSame DEF Proper
  <2>3. Systems \subseteq FP!Systems /\ FP!IsFiniteSet(States) /\ NbTrans \in Nat
    BY SameKernel, StatesFinite, NbTransIsNat
  <2>4. FP!Near[0] = args.toreach
    BY <2>1, <2>2, <2>3, FP!NearUnfolds
  <2>5. ~(0 + 1 < Len(rev))
    BY <1>2, <1>7, <2>4
  <2>. QED
    BY <1>2, <1>3, <2>5
<1>. QED
  BY <1>2, <1>3, <1>4, <1>5, <1>6, <1>7

(* A search succeeds when the goal can be reached from an initial state.   *)
LEMMA SearchSucceeds ==
  ASSUME Looking, fpc = "done", status \in {"path", "failed"},
         args.init \cap Backward(args.toreach, args.reach) # {}
  PROVE  status = "path"
<1> SUFFICES ASSUME status = "failed" PROVE FALSE
  OBVIOUS
<1>1. args.toreach \in SUBSET States
  BY DEF Looking, F!Arguments
<1>2. CASE args.toreach = {}
  <2>1. Pre(NextRel(trans), {}) = {}
    BY DEF Pre
  <2>2. Backward(args.toreach, args.reach) \subseteq {}
    BY <1>1, <1>2, <2>1, BackwardIs
  <2>. QED
    BY <2>2
<1>3. CASE args.toreach # {}
  <2>1. args.init \cap FP!CanReach = {}
    BY <1>3 DEF Looking, FP!CallInv, FP!IInv, FP!FailureIsJustified
  <2>2. FP!CanReach = Backward(args.toreach, args.reach)
    BY DEF FP!CanReach, Backward, FP!Pre, Pre, FP!NextRel, NextRel, FP!Names, Names
  <2>. QED
    BY <2>1, <2>2
<1>. QED
  BY <1>2, <1>3

(* A fixpoint meets the states that can reach a goal only if its start does.*)
LEMMA FixpointBacktracks ==
  ASSUME NEW h, h \subseteq NextRel(trans), NEW S \in SUBSET States, NEW R, NEW T \in SUBSET States,
         Fixpoint(h, S) \subseteq R, Fixpoint(h, S) \cap Backward(T, R) # {}
  PROVE  S \cap Backward(T, R) # {}
<1> DEFINE B == Backward(T, R)
           Y == Fixpoint(h, S) \ B
<1> SUFFICES ASSUME S \cap B = {} PROVE FALSE
  OBVIOUS
<1>1. Fixpoint(h, S) \in SUBSET States /\ S \subseteq Fixpoint(h, S) /\ Closed(h, Fixpoint(h, S))
  BY FixpointTyped, FixpointContains, FixpointClosed
<1>2. Pre(NextRel(trans), B) \cap R \subseteq B /\ B \in SUBSET States
  BY BackwardIs
<1>3. Closed(h, Y)
  <2> SUFFICES ASSUME NEW s \in Y, NEW t \in States, <<s, t>> \in h PROVE t \in Y
    BY DEF Closed, Post
  <2>1. t \in Fixpoint(h, S) /\ s \in States /\ s \in R
    BY <1>1 DEF Closed, Post
  <2>2. t \notin B
    BY <1>2, <2>1 DEF Pre
  <2>. QED
    BY <2>1, <2>2
<1>4. S \subseteq Y /\ Y \in SUBSET States
  BY <1>1
<1>5. Fixpoint(h, S) \subseteq Y
  BY <1>3, <1>4, FixpointLeast
<1>. QED
  BY <1>5

-----------------------------------------------------------------------------
(***************************************************************************)
(* The formulas that are explained: those that are evaluated backward, and *)
(* those that are made of the initial states.                              *)
(***************************************************************************)
Eforms == {f \in Forms : HasTypes(f, ExistentialTypes)}

(* The sets computed from the initial states, that a forward form extends. *)
Extends(is, f) ==
  \/ f = Start
  \/ f[1] = "EY" /\ is[f[2]]
  \/ f[1] \in {"AND", "FWDU"} /\ is[f[2]] /\ f[3] \in Eforms

Based[f \in Forms] ==
  \/ f = Start
  \/ f[1] = "EY" /\ Based[f[2]]
  \/ f[1] \in {"AND", "FWDU"} /\ Based[f[2]] /\ f[3] \in Eforms

(* Based is what its definition says.                                      *)
LEMMA BasedUnfolds ==
  ASSUME FormsAreAll
  PROVE  Based \in [Forms -> BOOLEAN] /\ \A f \in Forms : Based[f] = Extends(Based, f)
<1> DEFINE V == [Forms -> BOOLEAN]
           B == [g \in V |-> [f \in Forms |-> Extends(g, f)]]
<1>1. Height \in [Forms -> Nat]
  BY HeightTyped DEF IsHeight
<1>2. B \in [V -> V]
  BY DEF Extends
<1>3. IsContractive(Forms, BOOLEAN, Height, B)
  <2> SUFFICES ASSUME NEW g \in V, NEW h \in V, NEW f \in Forms,
                      \A e \in Forms : Height[e] < Height[f] => g[e] = h[e]
               PROVE  Extends(g, f) = Extends(h, f)
    BY DEF IsContractive
  <2>1. f[1] \in Unary \cup Binary => g[f[2]] = h[f[2]]
    BY Children DEF HasChild
  <2>. QED
    BY <2>1 DEF Unary, Binary, Extends
<1>4. HasFixedPoint(Forms, BOOLEAN, B)
  BY <1>1, <1>2, <1>3, RankedRecursion
<1>5. \E g : g = [f \in Forms |-> Extends(g, f)]
  BY <1>4 DEF HasFixedPoint
<1>6. Based = [f \in Forms |-> Extends(Based, f)]
  BY <1>5 DEF Based, Extends
<1>. QED
  BY <1>6 DEF Extends

Bases == {f \in Forms : Based[f]}

FwdGs == {f \in Forms : f[1] = "FWDG" /\ f[2] \in Bases /\ f[3] \in Eforms}

Explainable == Eforms \cup Bases \cup FwdGs

(* What a formula that is explained is made of.                            *)
LEMMA ExplainableParts ==
  ASSUME FormsAreAll, NEW f \in Explainable
  PROVE  /\ f \in Forms
         /\ f[1] \in {"ID", "TRUE", "FALSE", "NOT", "THEN", "OR", "EX", "EU", "EG"} => f \in Eforms
         /\ f[1] \in {"NOT", "THEN", "OR", "EX", "EU", "EG"} => f[2] \in Eforms
         /\ f[1] \in {"THEN", "OR", "EU"} => f[3] \in Eforms
         /\ f[1] = "AND" => /\ f = And(f[2], f[3]) /\ f[3] \in Eforms
                            /\ \/ f \in Eforms /\ f[2] \in Eforms
                               \/ f \in Bases /\ f[2] \in Bases
         /\ f[1] \in {"EY", "FWDU"} => f \in Bases /\ f[2] \in Bases
         /\ f[1] = "FWDU" => f[3] \in Eforms /\ f = <<"FWDU", f[2], f[3]>>
         /\ f[1] = "INIT" => f = Start
         /\ f[1] = "FWDG" => f \in FwdGs /\ f = <<"FWDG", f[2], f[3]>>
         /\ f[1] \in ExistentialTypes \cup {"INIT", "EY", "FWDU", "FWDG"}
<1>0. f \in Forms
  BY DEF Explainable, Eforms, Bases, FwdGs
<1>1. CASE f \in Eforms
  <2>1. /\ f[1] \in ExistentialTypes
        /\ f[1] \notin Leaves => f[2] \in Eforms
        /\ f[1] \in Binary => f[3] \in Eforms
    BY <1>0, <1>1, HasTypesIs DEF Eforms
  <2>2. f[1] \in Binary => f = <<f[1], f[2], f[3]>>
    BY <1>0, FormShape DEF Leaves, Unary, Binary
  <2>. QED
    BY <1>0, <1>1, <2>1, <2>2 DEF ExistentialTypes, Leaves, Binary, And
<1>2. CASE f \in Bases
  <2>1. Extends(Based, f)
    BY <1>0, <1>2, BasedUnfolds DEF Bases
  <2>2. f[1] \in {"EY", "AND", "FWDU"} => f[2] \in Forms
    BY <1>0, Children DEF HasChild, Unary, Binary
  <2>3. f[1] \in Binary => f = <<f[1], f[2], f[3]>>
    BY <1>0, FormShape DEF Leaves, Unary, Binary
  <2>4. Start[1] = "INIT"
    BY DEF Start
  <2>. QED
    BY <1>0, <1>2, <2>1, <2>2, <2>3, <2>4 DEF Extends, Bases, ExistentialTypes, Binary, And
<1>3. CASE f \in FwdGs
  <2>1. f = <<f[1], f[2], f[3]>>
    BY <1>0, <1>3, FormShape DEF FwdGs, Leaves, Unary, Binary
  <2>. QED
    BY <1>0, <1>3, <2>1 DEF FwdGs
<1>. QED
  BY <1>1, <1>2, <1>3 DEF Explainable

(* The sets that the forward form builds.                                  *)
LEMMA BasesBuilt ==
  ASSUME FormsAreAll
  PROVE  /\ Start \in Bases
         /\ \A r \in Bases : /\ <<"EY", r>> \in Bases
                             /\ \A e \in Eforms : /\ And(r, e) \in Bases /\ <<"FWDU", r, e>> \in Bases
                                                  /\ <<"FWDG", r, e>> \in FwdGs
<1>1. Start \in Bases
  BY FormsClosed, BasedUnfolds DEF Bases, Extends
<1>2. ASSUME NEW r \in Bases
      PROVE  <<"EY", r>> \in Bases
  <2>1. <<"EY", r>> \in Forms /\ Based[r]
    BY <1>2, FormsClosed DEF Bases
  <2>2. Extends(Based, <<"EY", r>>)
    BY <2>1 DEF Extends
  <2>. QED
    BY <2>1, <2>2, BasedUnfolds DEF Bases
<1>3. ASSUME NEW r \in Bases, NEW e \in Eforms, NEW op \in {"AND", "FWDU"}
      PROVE  <<op, r, e>> \in Bases
  <2>1. <<op, r, e>> \in Forms /\ Based[r]
    BY <1>3, FormsClosed DEF Bases, Eforms, And
  <2>2. Extends(Based, <<op, r, e>>)
    BY <1>3, <2>1 DEF Extends
  <2>. QED
    BY <2>1, <2>2, BasedUnfolds DEF Bases
<1>4. ASSUME NEW r \in Bases, NEW e \in Eforms
      PROVE  <<"FWDG", r, e>> \in FwdGs
  <2>1. <<"FWDG", r, e>> \in Forms
    BY <1>4, FormsClosed DEF Bases, Eforms
  <2>. QED
    BY <1>4, <2>1 DEF FwdGs
<1>. QED
  BY <1>1, <1>2, <1>3, <1>4 DEF And

(* The forward form, when it is a single comparison.                       *)
Compared == {f \in Forms : f[1] = "CMP" /\ f[2] \in Bases \cup FwdGs}

IsShaped(f) ==
  \A r \in Bases : \A c \in {0, 1} :
     Forward[<<r, f, c>>] \in Forms /\ Forward[<<r, f, c>>][1] = "CMP"
       => Forward[<<r, f, c>>] \in Compared

(* A comparison of what is built.                                          *)
LEMMA ComparisonIsShaped ==
  ASSUME NEW g \in Bases \cup FwdGs, NEW c, NEW f, f = Cmp(g, c), f \in Forms
  PROVE  f \in Compared
BY DEF Compared, Cmp

(* The forward form of a disjunction, which is cut in two, is not a        *)
(* comparison.                                                             *)
LEMMA EitherIsNotCmp ==
  ASSUME NEW f, NEW g, NEW c
  PROVE  Either(f, g, c)[1] # "CMP"
BY DEF Either, Or, And

(* The formulas evaluated backward are closed.                             *)
LEMMA EformsBuilt ==
  ASSUME FormsAreAll, NEW e \in Eforms
  PROVE  /\ e \in Forms /\ Not(e) \in Eforms /\ True \in Eforms
         /\ e[1] \in ExistentialTypes
         /\ e[1] \notin Leaves => e[2] \in Eforms /\ HasChild(e, e[2])
         /\ e[1] \in Binary => e[3] \in Eforms /\ HasChild(e, e[3])
<1>1. e \in Forms /\ HasTypes(e, ExistentialTypes)
  BY DEF Eforms
<1>2. Not(e) \in Forms /\ HasTypes(Not(e), ExistentialTypes) /\ HasTypes(True, ExistentialTypes)
  BY <1>1, BuiltTypes DEF Not
<1>3. /\ e[1] \in ExistentialTypes
      /\ e[1] \notin Leaves => e[2] \in Forms /\ HasTypes(e[2], ExistentialTypes)
      /\ e[1] \in Binary => e[3] \in Forms /\ HasTypes(e[3], ExistentialTypes)
  BY <1>1, HasTypesIs
<1>4. /\ e[1] \in Unary \cup Binary => HasChild(e, e[2])
      /\ e[1] \in Binary => HasChild(e, e[3])
      /\ e[1] \in Leaves \cup Unary \cup Binary
  BY <1>1, Children
<1>. QED
  BY <1>1, <1>2, <1>3, <1>4, FormsClosed DEF Eforms

(* The forward form of a formula, when it is a single comparison, compares *)
(* a set computed from the initial states.                                 *)
LEMMA ForwardIsShaped ==
  ASSUME FormsAreAll, NEW f \in Eforms
  PROVE  IsShaped(f) /\ IsShaped(Not(f))
<1> DEFINE T == {e \in Forms : e \in Eforms => IsShaped(e) /\ IsShaped(Not(e))}
<1>1. ASSUME NEW e \in Forms, \A x \in Forms : HasChild(e, x) => x \in T, e \in Eforms
      PROVE  IsShaped(e) /\ IsShaped(Not(e))
  <2> DEFINE p == e[2]
             q == e[3]
  <2>1. /\ Not(e) \in Eforms /\ Not(e) \in Forms /\ Not(e)[1] = "NOT" /\ Not(e)[2] = e
        /\ e[1] \in ExistentialTypes
        /\ e[1] \notin Leaves => /\ p \in Eforms /\ p \in Forms /\ HasChild(e, p)
                                 /\ Not(p) \in Eforms
        /\ e[1] \in Binary => /\ q \in Eforms /\ q \in Forms /\ HasChild(e, q)
                              /\ Not(q) \in Eforms
    BY <1>1, EformsBuilt DEF Not
  <2>2. /\ e[1] \notin Leaves => IsShaped(p) /\ IsShaped(Not(p))
        /\ e[1] \in Binary => IsShaped(q) /\ IsShaped(Not(q))
    BY <1>1, <2>1
  <2> HIDE DEF T
  <2>3. ASSUME NEW r \in Bases, NEW c \in {0, 1}
        PROVE  /\ Forward[<<r, e, c>>] = ForwardOf(Forward, <<r, e, c>>)
               /\ Forward[<<r, Not(e), c>>] = ForwardOf(Forward, <<r, Not(e), c>>)
               /\ And(r, e) \in Bases /\ And(r, Not(e)) \in Bases /\ <<"EY", r>> \in Bases
               /\ e[1] \notin Leaves => /\ <<"FWDU", r, p>> \in Bases /\ <<"FWDG", r, p>> \in FwdGs
                                        /\ And(r, p) \in Bases /\ And(r, Not(p)) \in Bases
               /\ e[1] \in Binary => And(r, q) \in Bases /\ And(r, Not(q)) \in Bases
    <3>1. r \in Forms
      BY DEF Bases
    <3>. QED
      BY <1>1, <2>1, <3>1, BasesBuilt, ForwardUnfolds
  <2>4. ASSUME NEW r \in Bases, NEW c \in {0, 1},
               Forward[<<r, e, c>>] \in Forms, Forward[<<r, e, c>>][1] = "CMP"
        PROVE  Forward[<<r, e, c>>] \in Compared
    <3> DEFINE F0 == Forward[<<r, e, c>>]
    <3>1. CASE QuantifierFree[e]
      <4>1. F0 = Cmp(And(r, e), c)
        <5>1. F0 = ForwardOf(Forward, <<r, e, c>>)
          BY <2>3, <2>4
        <5>2. ForwardOf(Forward, <<r, e, c>>) = Cmp(And(r, e), c)
          BY <3>1 DEF ForwardOf
        <5>. QED
          BY <5>1, <5>2
      <4>. QED
        BY <2>3, <2>4, <4>1, ComparisonIsShaped
    <3>2. CASE ~QuantifierFree[e] /\ e[1] = "EX"
      <4>1. F0 = Forward[<<(<<"EY", r>>), p, c>>]
        BY <2>3, <2>4, <3>2 DEF ForwardOf
      <4>. QED
        BY <2>2, <2>3, <2>4, <3>2, <4>1 DEF IsShaped, Leaves
    <3>3. CASE ~QuantifierFree[e] /\ e[1] = "EU"
      <4>1. F0 = Forward[<<(<<"FWDU", r, p>>), q, c>>]
        BY <2>3, <2>4, <3>3 DEF ForwardOf
      <4>2. <<"FWDU", r, p>> \in Bases /\ IsShaped(q)
        BY <2>2, <2>3, <2>4, <3>3 DEF Leaves, Binary
      <4>. QED
        BY <2>4, <4>1, <4>2 DEF IsShaped
    <3>4. CASE ~QuantifierFree[e] /\ e[1] = "EG"
      <4>1. F0 = Cmp(<<"FWDG", r, p>>, c)
        BY <2>3, <2>4, <3>4 DEF ForwardOf
      <4>. QED
        BY <2>3, <2>4, <3>4, <4>1, ComparisonIsShaped DEF Leaves
    <3>5. CASE e[1] = "NOT"
      <4>1. e = Not(p)
        BY <1>1, <3>5, FormShape DEF Leaves, Unary, Binary, Not
      <4>. QED
        BY <2>2, <2>4, <3>5, <4>1 DEF IsShaped, Leaves
    <3>6. CASE ~QuantifierFree[e] /\ e[1] \in {"THEN", "OR"}
      <4>1. F0 = ForwardConnective(Forward, r, e, c)
        BY <2>3, <2>4, <3>6 DEF ForwardOf
      <4>. QED
        BY <2>4, <3>6, <4>1, EitherIsNotCmp DEF ForwardConnective
    <3>7. CASE ~QuantifierFree[e] /\ e[1] = "AND"
      <4>1. F0 = Forward[<<And(r, Other(p, q, LastConjunct(p, q))), LastConjunct(p, q), c>>]
        BY <2>3, <2>4, <3>7 DEF ForwardOf, ForwardConnective
      <4>2. LastConjunct(p, q) \in {p, q} /\ Other(p, q, LastConjunct(p, q)) \in {p, q}
        BY DEF LastConjunct, Other
      <4>3. /\ And(r, Other(p, q, LastConjunct(p, q))) \in Bases
            /\ IsShaped(LastConjunct(p, q))
        BY <2>2, <2>3, <2>4, <3>7, <4>2 DEF Leaves, Binary
      <4>. QED
        BY <2>4, <4>1, <4>3 DEF IsShaped
    <3>8. CASE ~QuantifierFree[e] /\ e[1] \in {"ID", "TRUE", "FALSE"}
      BY <1>1, <3>8, QuantifierFreeUnfolds DEF QuantifierFreeIs
    <3>. QED
      BY <2>1, <3>1, <3>2, <3>3, <3>4, <3>5, <3>6, <3>7, <3>8 DEF ExistentialTypes
  <2>5. ASSUME NEW r \in Bases, NEW c \in {0, 1},
               Forward[<<r, Not(e), c>>] \in Forms, Forward[<<r, Not(e), c>>][1] = "CMP"
        PROVE  Forward[<<r, Not(e), c>>] \in Compared
    <3> DEFINE F0 == Forward[<<r, Not(e), c>>]
               g == LastOfNor(p, q)
    <3>1. CASE QuantifierFree[Not(e)]
      <4>1. F0 = Cmp(And(r, Not(e)), c)
        <5>1. F0 = ForwardOf(Forward, <<r, Not(e), c>>)
          BY <2>3, <2>5
        <5>2. ForwardOf(Forward, <<r, Not(e), c>>) = Cmp(And(r, Not(e)), c)
          BY <3>1 DEF ForwardOf
        <5>. QED
          BY <5>1, <5>2
      <4>. QED
        BY <2>3, <2>5, <4>1, ComparisonIsShaped
    <3>2. CASE ~QuantifierFree[Not(e)]
      <4>0. F0 = ForwardNegation(Forward, r, e, c)
        <5>1. F0 = ForwardOf(Forward, <<r, Not(e), c>>)
          BY <2>3, <2>5
        <5>2. ForwardOf(Forward, <<r, Not(e), c>>) = ForwardNegation(Forward, r, Not(e)[2], c)
          BY <2>1, <3>2 DEF ForwardOf
        <5>. QED
          BY <2>1, <5>1, <5>2
      <4>1. CASE e[1] = "NOT"
        <5>1. F0 = Forward[<<r, p, c>>]
          BY <4>0, <4>1 DEF ForwardNegation
        <5>. QED
          BY <2>2, <2>5, <4>1, <5>1 DEF IsShaped, Leaves
      <4>2. CASE e[1] = "AND"
        BY <2>5, <4>0, <4>2, EitherIsNotCmp DEF ForwardNegation
      <4>3. CASE e[1] = "OR"
        <5>1. F0 = Forward[<<And(r, Not(Other(p, q, g))), Not(g), c>>]
          BY <4>0, <4>3 DEF ForwardNegation
        <5>2. g \in {p, q} /\ Other(p, q, g) \in {p, q}
          BY DEF LastOfNor, Other
        <5>3. And(r, Not(Other(p, q, g))) \in Bases /\ IsShaped(Not(g))
          BY <2>2, <2>3, <2>5, <4>3, <5>2 DEF Leaves, Binary
        <5>. QED
          BY <2>5, <5>1, <5>3 DEF IsShaped
      <4>4. CASE e[1] = "THEN"
        <5>1. \/ F0 = Forward[<<And(r, p), Not(q), c>>]
              \/ F0 = Forward[<<And(r, Not(q)), p, c>>]
          BY <4>0, <4>4 DEF ForwardNegation
        <5>2. /\ And(r, p) \in Bases /\ And(r, Not(q)) \in Bases
              /\ IsShaped(Not(q)) /\ IsShaped(p)
          BY <2>2, <2>3, <2>5, <4>4 DEF Leaves, Binary
        <5>. QED
          BY <2>5, <5>1, <5>2 DEF IsShaped
      <4>5. CASE e[1] \notin {"NOT", "AND", "OR", "THEN"}
        <5>1. F0 = Cmp(And(r, Not(e)), c)
          BY <4>0, <4>5 DEF ForwardNegation
        <5>. QED
          BY <2>3, <2>5, <5>1, ComparisonIsShaped
      <4>. QED
        BY <4>1, <4>2, <4>3, <4>4, <4>5
    <3>. QED
      BY <3>1, <3>2
  <2>. QED
    BY <2>4, <2>5 DEF IsShaped
<1>2. \A e \in Forms : (\A x \in Forms : HasChild(e, x) => x \in T) => e \in T
  BY <1>1
<1> HIDE DEF T
<1>3. T \subseteq Forms
  BY DEF T
<1>4. T = Forms
  BY <1>2, <1>3, FormInduction
<1>. QED
  BY <1>4 DEF T, Eforms

(* The states that the checker finds for them.                             *)
LEMMA BasesAreFound ==
  ASSUME FormsAreAll, Kept, NEW f \in Bases
  PROVE  IsBase(f)
<1> DEFINE T == {e \in Forms : e \in Bases => IsBase(e)}
<1>1. ASSUME NEW e \in Forms, \A x \in Forms : HasChild(e, x) => x \in T, e \in Bases
      PROVE  IsBase(e)
  <2>1. Extends(Based, e)
    BY <1>1, BasedUnfolds DEF Bases
  <2>2. e[1] \in {"EY", "AND", "FWDU"} => HasChild(e, e[2]) /\ e[2] \in Forms
    BY <1>1, Children DEF HasChild, Unary, Binary
  <2>3. e[1] \in {"EY", "AND", "FWDU"} /\ Based[e[2]] => IsBase(e[2])
    BY <1>1, <2>2 DEF Bases
  <2>4. /\ e[1] = "EY" => e = <<"EY", e[2]>>
        /\ e[1] \in {"AND", "FWDU"} => e = <<e[1], e[2], e[3]>>
    BY <1>1, FormShape DEF Leaves, Unary, Binary
  <2>5. CASE e = Start
    BY <2>5, StartIsBase
  <2>6. CASE e[1] = "EY" /\ Based[e[2]]
    BY <2>3, <2>4, <2>6, NextIs
  <2>7. CASE e[1] = "AND" /\ Based[e[2]] /\ e[3] \in Eforms
    <3>1. e = And(e[2], e[3]) /\ IsBase(e[2]) /\ e[3] \in Forms /\ HasTypes(e[3], ExistentialTypes)
      BY <2>3, <2>4, <2>7 DEF Eforms, And
    <3>2. IsBase(And(e[2], e[3]))
      BY <3>1, ConjunctionIs
    <3>. QED
      BY <3>1, <3>2
  <2>8. CASE e[1] = "FWDU" /\ Based[e[2]] /\ e[3] \in Eforms
    <3>1. /\ e = <<"FWDU", e[2], e[3]>> /\ IsBase(e[2]) /\ e[3] \in Forms
          /\ HasTypes(e[3], ExistentialTypes)
      BY <2>3, <2>4, <2>8 DEF Eforms
    <3>2. IsBase(<<"FWDU", e[2], e[3]>>)
      BY <3>1, FwdUIs
    <3>. QED
      BY <3>1, <3>2
  <2>. QED
    BY <2>1, <2>5, <2>6, <2>7, <2>8 DEF Extends
<1>2. \A e \in Forms : (\A x \in Forms : HasChild(e, x) => x \in T) => e \in T
  BY <1>1
<1> HIDE DEF T
<1>3. T \subseteq Forms
  BY DEF T
<1>4. T = Forms
  BY <1>2, <1>3, FormInduction
<1>. QED
  BY <1>4 DEF T, Bases

(* The checker finds the states that satisfy a formula evaluated backward. *)
LEMMA EformsAreFound ==
  ASSUME FormsAreAll, Kept, NEW f \in Eforms
  PROVE  /\ Exact(f) = Sat[f] /\ Exact(f) \in SUBSET reachable
         /\ ChildStates(Verify, f) = Exact(f)
<1>1. f \in Forms /\ HasTypes(f, ExistentialTypes)
  BY DEF Eforms
<1>2. IsFound(f) /\ Sat[f] \in SUBSET reachable
  BY <1>1, VerifyIs, SatUnfolds
<1>3. QuantifierFree[f] => Selected[f] \cap reachable = Sat[f]
  BY <1>1, SelectedIs
<1>. QED
  BY <1>2, <1>3 DEF IsFound, Exact, ChildStates

(* FwdU finds what is reached from its left child.                         *)
LEMMA FwdUFound ==
  ASSUME FormsAreAll, Kept, NEW r \in Bases, NEW p \in Eforms
  PROVE  LET f == <<"FWDU", r, p>>
         IN  /\ r = Start /\ p = True => Exact(f) = reachable
             /\ ~(r = Start /\ p = True) =>
                  \E h \in SUBSET next : Exact(f) = Fixpoint(h, Exact(r))
<1> DEFINE f == <<"FWDU", r, p>>
           h == {e \in next : e[1] \in Guard(p, Exact(p))}
<1>1. f \in Forms
  BY BasesBuilt DEF Bases
<1>2. Verify[<<f, TRUE>>] = VerifyOf(Verify, <<f, TRUE>>)
  BY <1>1, VerifyUnfolds
<1>3. ChildStates(Verify, p) = Exact(p) /\ ChildStates(Verify, r) = Exact(r)
  BY EformsAreFound, BasesAreFound DEF IsBase, ChildStates, Exact
<1>4. VerifyOf(Verify, <<f, TRUE>>) =
        IF r = Start /\ p = True THEN reachable
        ELSE FwdUStates(Exact(r), Guard(p, Exact(p)))
  BY <1>3 DEF VerifyOf
<1>5. Exact(f) = IF r = Start /\ p = True THEN reachable
                 ELSE FwdUStates(Exact(r), Guard(p, Exact(p)))
  BY <1>2, <1>4 DEF Exact
<1>6. FwdUStates(Exact(r), Guard(p, Exact(p))) = Fixpoint(h, Exact(r)) /\ h \in SUBSET next
  BY DEF FwdUStates
<1> HIDE DEF f, h
<1>. QED
  BY <1>5, <1>6 DEF f

(* FwdG finds reachable states.                                            *)
LEMMA FwdGFound ==
  ASSUME FormsAreAll, Kept, NEW r \in Bases, NEW p \in Eforms
  PROVE  Exact(<<"FWDG", r, p>>) \in SUBSET reachable
<1> DEFINE f == <<"FWDG", r, p>>
<1>1. f \in Forms
  BY BasesBuilt DEF FwdGs
<1>2. Verify[<<f, TRUE>>] = VerifyOf(Verify, <<f, TRUE>>)
  BY <1>1, VerifyUnfolds
<1>3. /\ ChildStates(Verify, p) = Sat[p] /\ ChildStates(Verify, r) = Exact(r)
      /\ Exact(r) \in SUBSET reachable
  BY EformsAreFound, BasesAreFound DEF IsBase, ChildStates, Exact
<1>4. Exact(f) = FwdGStates(Exact(r), Sat[p], Guard(p, Sat[p]))
  BY <1>2, <1>3 DEF VerifyOf, Exact
<1>5. p \in Forms /\ Sat[p] \in SUBSET reachable /\ Guard(p, Sat[p]) \cap reachable = Sat[p]
  BY SatUnfolds, GuardIs DEF Eforms
<1>. QED
  BY <1>3, <1>4, <1>5, FwdGMeetsGlobally

(* The states of a formula that is explained, from those of its children.  *)
LEMMA ExactIs ==
  ASSUME FormsAreAll, Kept, NEW f \in Explainable
  PROVE  /\ Exact(f) \in SUBSET reachable
         /\ f[1] = "NOT" => Exact(f) = reachable \ Exact(f[2])
         /\ f[1] = "AND" => Exact(f) = Exact(f[2]) \cap Exact(f[3])
         /\ f[1] = "OR" => Exact(f) = Exact(f[2]) \cup Exact(f[3])
         /\ f[1] = "EX" => Exact(f) = {s \in reachable : After(s) \cap Exact(f[2]) # {}}
         /\ f[1] = "EU" => Exact(f) = Until(Exact(f[2]), Exact(f[3]))
         /\ f[1] = "EG" => Exact(f) = Globally(Exact(f[2]))
         /\ f[1] = "FWDU" =>
              /\ f[2] = Start /\ f[3] = True => Exact(f) = reachable
              /\ ~(f[2] = Start /\ f[3] = True) =>
                   \E h \in SUBSET next : Exact(f) = Fixpoint(h, Exact(f[2]))
<1>1. Exact(f) \in SUBSET reachable
  <2>1. f \in Bases => IsBase(f)
    BY BasesAreFound
  <2>2. f \in FwdGs => f = <<"FWDG", f[2], f[3]>> /\ f[2] \in Bases /\ f[3] \in Eforms
    BY ExplainableParts DEF FwdGs
  <2>3. f \in FwdGs => Exact(f) \in SUBSET reachable
    BY <2>2, FwdGFound
  <2>. QED
    BY <2>1, <2>3, EformsAreFound DEF Explainable, IsBase, Exact
<1>2. CASE f \in Eforms
  <2>1. f \in Forms /\ Exact(f) = Sat[f] /\ Sat[f] = SatOf(Sat, f)
    BY <1>2, EformsAreFound, SatUnfolds DEF Eforms
  <2>2. /\ f[1] \notin Leaves => Exact(f[2]) = Sat[f[2]]
        /\ f[1] \in Binary => Exact(f[3]) = Sat[f[3]]
        /\ f[1] # "FWDU"
    BY <1>2, EformsBuilt, EformsAreFound DEF ExistentialTypes
  <2>. QED
    BY <1>1, <2>1, <2>2 DEF SatOf, Leaves, Binary
<1>3. CASE f \in Bases /\ f[1] = "AND" /\ f[2] \in Bases
  <2>1. f = And(f[2], f[3]) /\ f[3] \in Eforms
    BY <1>3, ExplainableParts
  <2>2. Exact(f) = Exact(f[2]) \cap Exact(f[3])
    <3>1. IsBase(f[2]) /\ f[3] \in Forms /\ HasTypes(f[3], ExistentialTypes) /\ Exact(f[3]) = Sat[f[3]]
      BY <1>3, <2>1, BasesAreFound, EformsAreFound DEF Eforms
    <3>2. Verify[<<And(f[2], f[3]), TRUE>>] = Verify[<<f[2], TRUE>>] \cap Sat[f[3]]
      BY <3>1, ConjunctionIs
    <3>. QED
      BY <2>1, <3>1, <3>2 DEF Exact
  <2>. QED
    BY <1>1, <1>3, <2>2
<1>4. CASE f[1] = "FWDU"
  <2>1. f[2] \in Bases /\ f[3] \in Eforms /\ f = <<"FWDU", f[2], f[3]>>
    BY <1>4, ExplainableParts
  <2>. QED
    BY <1>1, <1>4, <2>1, FwdUFound
<1>5. CASE f \notin Eforms /\ ~(f \in Bases /\ f[1] = "AND" /\ f[2] \in Bases) /\ f[1] # "FWDU"
  <2>1. f[1] \notin {"NOT", "AND", "OR", "EX", "EU", "EG", "FWDU"}
    BY <1>5, ExplainableParts
  <2>. QED
    BY <1>1, <2>1
<1>. QED
  BY <1>2, <1>3, <1>4, <1>5

(* They are what the formulas mean.                                        *)
LEMMA MeaningIs ==
  ASSUME FormsAreAll, Kept, NEW f \in Explainable
  PROVE  Meaning(f) = Exact(f)
<1> DEFINE T == {e \in Forms : e \in Bases => Start \in Subformulas[e]}
<1>1. CASE f \in Eforms
  <2>1. \A h \in Subformulas[f] : h[1] \in ExistentialTypes
    BY <1>1 DEF Eforms, HasTypes
  <2>. QED
    BY <1>1, <2>1, EformsAreFound DEF Meaning, ExistentialTypes
<1>2. CASE f \in FwdGs
  <2>1. f \in Subformulas[f] /\ f[1] = "FWDG"
    BY <1>2, SubformulasUnfolds DEF SubformulasOf, FwdGs
  <2>. QED
    BY <2>1 DEF Meaning
<1>3. ASSUME NEW e \in Forms, \A x \in Forms : HasChild(e, x) => x \in T, e \in Bases
      PROVE  Start \in Subformulas[e]
  <2>1. Extends(Based, e)
    BY <1>3, BasedUnfolds DEF Bases
  <2>2. Subformulas[e] = SubformulasOf(Subformulas, e)
    BY <1>3, SubformulasUnfolds
  <2>3. e[1] \in {"EY", "AND", "FWDU"} => HasChild(e, e[2]) /\ e[2] \in Forms
    BY <1>3, Children DEF HasChild, Unary, Binary
  <2>. QED
    BY <1>3, <2>1, <2>2, <2>3 DEF Extends, Bases, SubformulasOf, Leaves
<1>4. \A e \in Forms : (\A x \in Forms : HasChild(e, x) => x \in T) => e \in T
  BY <1>3
<1> HIDE DEF T
<1>5. T \subseteq Forms
  BY DEF T
<1>6. T = Forms
  BY <1>4, <1>5, FormInduction
<1>7. CASE f \in Bases
  <2>1. Start \in Subformulas[f] /\ Start[1] = "INIT"
    BY <1>6, <1>7 DEF T, Bases, Start
  <2>. QED
    BY <2>1 DEF Meaning
<1>. QED
  BY <1>1, <1>2, <1>7 DEF Explainable

-----------------------------------------------------------------------------
(***************************************************************************)
(* What remains to be done.  A task hands a set of states to the next one, *)
(* its own or what the last call returned; a call may return fewer states, *)
(* but some if there are any, until an implication is explained.           *)
(***************************************************************************)
Shows == {"EU", "notEU", "EG", "notEG", "cycle", "FWDU", "dead"}

Tasks ==
  [do : {"explain", "again", "aside", "return"} \cup Shows, states : SUBSET States,
   formula : Forms, said : BOOLEAN, of : {"main"} \cup Leaves \cup Unary \cup Binary]

Implied ==
  \/ \E c \in calls : c.formula[1] = "THEN"
  \/ todo # <<>> /\ Head(todo).do = "explain" /\ form[1] = "THEN"

Delivers(S, X) == S \subseteq X /\ (S = {} => X = {} \/ Implied)

(* Once an implication is explained, it has been.                          *)
LEMMA ImpliedStays ==
  ASSUME todo # <<>>, calls \subseteq calls',
         Head(todo).do = "explain" => Head(todo) \in calls'
  PROVE  Implied => Implied'
BY DEF Implied, form

(* A task that is given some states of A hands over some states of B.      *)
Serves(A, t, B) ==
  /\ Delivers(IF t.do \in {"again", "aside"} THEN A ELSE t.states, B)
  /\ t.do = "again" => A \subseteq Exact(t.formula)

(* So does a sequence of tasks.                                            *)
Leads(A, ts, B) ==
  \E b \in [0 .. Len(ts) -> SUBSET States] :
    b[0] = A /\ b[Len(ts)] = B /\ \A i \in 1 .. Len(ts) : Serves(b[i - 1], ts[i], b[i])

(* No task hands over what it is given.                                    *)
LEMMA LeadsNowhere ==
  ASSUME NEW A \in SUBSET States
  PROVE  /\ Leads(A, <<>>, A)
         /\ \A B : Leads(A, <<>>, B) => A = B
<1>1. Len(<<>>) = 0 /\ 1 .. 0 = {} /\ 0 \in 0 .. 0
  OBVIOUS
<1>2. Leads(A, <<>>, A)
  <2> DEFINE b == [i \in 0 .. 0 |-> A]
  <2>1. b \in [0 .. 0 -> SUBSET States] /\ b[0] = A
    OBVIOUS
  <2> HIDE DEF b
  <2>. QED
    BY <1>1, <2>1 DEF Leads
<1>3. \A B : Leads(A, <<>>, B) => A = B
  BY <1>1 DEF Leads
<1>. QED
  BY <1>2, <1>3

(* A single task.                                                          *)
LEMMA LeadsByOne ==
  ASSUME NEW A \in SUBSET States, NEW B \in SUBSET States, NEW t, Serves(A, t, B)
  PROVE  Leads(A, <<t>>, B)
<1> DEFINE b == [i \in 0 .. 1 |-> IF i = 0 THEN A ELSE B]
<1>1. b \in [0 .. Len(<<t>>) -> SUBSET States] /\ b[0] = A /\ b[Len(<<t>>)] = B
  OBVIOUS
<1>2. \A i \in 1 .. Len(<<t>>) : Serves(b[i - 1], <<t>>[i], b[i])
  OBVIOUS
<1> HIDE DEF b
<1>. QED
  BY <1>1, <1>2 DEF Leads

(* The first task, then the others.                                        *)
LEMMA LeadsFirst ==
  ASSUME NEW A, NEW B, NEW T, NEW ts \in Seq(T), ts # <<>>, Leads(A, ts, B)
  PROVE  \E M \in SUBSET States : Serves(A, Head(ts), M) /\ Leads(M, Tail(ts), B)
<1>1. PICK b \in [0 .. Len(ts) -> SUBSET States] :
         b[0] = A /\ b[Len(ts)] = B /\ \A i \in 1 .. Len(ts) : Serves(b[i - 1], ts[i], b[i])
  BY DEF Leads
<1>2. /\ Len(ts) \in Nat /\ Len(ts) >= 1 /\ Len(Tail(ts)) = Len(ts) - 1 /\ Head(ts) = ts[1]
      /\ \A i \in 1 .. Len(ts) - 1 : Tail(ts)[i] = ts[i + 1]
  OBVIOUS
<1> DEFINE c == [i \in 0 .. Len(ts) - 1 |-> b[i + 1]]
<1>3. Serves(A, Head(ts), b[1]) /\ b[1] \in SUBSET States
  <2>1. Serves(b[1 - 1], ts[1], b[1])
    BY <1>1, <1>2
  <2>. QED
    BY <1>1, <1>2, <2>1
<1>4. c \in [0 .. Len(Tail(ts)) -> SUBSET States] /\ c[0] = b[1] /\ c[Len(Tail(ts))] = B
  BY <1>1, <1>2
<1>5. ASSUME NEW i \in 1 .. Len(Tail(ts))
      PROVE  Serves(c[i - 1], Tail(ts)[i], c[i])
  <2>1. i \in 1 .. Len(ts) - 1 /\ i + 1 \in 1 .. Len(ts)
    BY <1>2
  <2>2. Serves(b[(i + 1) - 1], ts[i + 1], b[i + 1])
    BY <1>1, <2>1
  <2>3. c[i - 1] = b[(i + 1) - 1] /\ c[i] = b[i + 1] /\ Tail(ts)[i] = ts[i + 1]
    BY <1>2, <2>1
  <2>. QED
    BY <2>2, <2>3
<1> HIDE DEF c
<1>6. Leads(b[1], Tail(ts), B)
  BY <1>4, <1>5 DEF Leads
<1>. QED
  BY <1>3, <1>6

(* One sequence of tasks, then another.                                    *)
LEMMA LeadsOn ==
  ASSUME NEW A, NEW B, NEW M, NEW T, NEW s \in Seq(T), NEW ts \in Seq(T),
         Leads(A, s, M), Leads(M, ts, B)
  PROVE  Leads(A, s \o ts, B)
<1>1. PICK b \in [0 .. Len(s) -> SUBSET States] :
         b[0] = A /\ b[Len(s)] = M /\ \A i \in 1 .. Len(s) : Serves(b[i - 1], s[i], b[i])
  BY DEF Leads
<1>2. PICK c \in [0 .. Len(ts) -> SUBSET States] :
         c[0] = M /\ c[Len(ts)] = B /\ \A i \in 1 .. Len(ts) : Serves(c[i - 1], ts[i], c[i])
  BY DEF Leads
<1> DEFINE n == Len(s)
           m == Len(ts)
           d == [i \in 0 .. n + m |-> IF i <= n THEN b[i] ELSE c[i - n]]
<1>3. /\ n \in Nat /\ m \in Nat /\ Len(s \o ts) = n + m
      /\ \A i \in 1 .. n : (s \o ts)[i] = s[i]
      /\ \A i \in n + 1 .. n + m : (s \o ts)[i] = ts[i - n]
  OBVIOUS
<1> HIDE DEF n, m
<1>4. \A i \in 0 .. n + m : i > n => i - n \in 0 .. m
  BY <1>3
<1>5. d \in [0 .. n + m -> SUBSET States]
  BY <1>1, <1>2, <1>3, <1>4 DEF n, m
<1>6. d[0] = A /\ d[n + m] = B
  <2>1. d[0] = A
    BY <1>1, <1>3
  <2>2. ASSUME m = 0
        PROVE  d[n + m] = B
    <3>1. d[n + m] = b[n] /\ b[n] = M /\ c[0] = M /\ c[m] = B
      BY <1>1, <1>2, <1>3, <2>2 DEF n, m
    <3>. QED
      BY <2>2, <3>1
  <2>3. ASSUME m # 0
        PROVE  d[n + m] = B
    <3>1. n + m \in 0 .. n + m /\ ~(n + m <= n) /\ (n + m) - n = m
      BY <1>3, <2>3
    <3>2. d[n + m] = c[m]
      BY <3>1
    <3>. QED
      BY <1>2, <3>2 DEF m
  <2>. QED
    BY <2>1, <2>2, <2>3
<1>7. ASSUME NEW i \in 1 .. n + m
      PROVE  Serves(d[i - 1], (s \o ts)[i], d[i])
  <2>1. CASE i <= n
    <3>1. i \in 1 .. n /\ d[i - 1] = b[i - 1] /\ d[i] = b[i]
      BY <1>3, <2>1
    <3>. QED
      BY <1>1, <1>3, <3>1 DEF n
  <2>2. CASE i > n
    <3>1. i - n \in 1 .. m /\ i \in n + 1 .. n + m
      BY <1>3, <2>2
    <3>2. d[i] = c[i - n]
      BY <1>3, <2>2
    <3>3. d[i - 1] = c[(i - n) - 1]
      <4>1. CASE i - 1 = n
        <5>1. d[i - 1] = b[n] /\ (i - n) - 1 = 0
          BY <1>3, <4>1
        <5>. QED
          BY <1>1, <1>2, <5>1 DEF n
      <4>2. CASE i - 1 > n
        <5>1. i - 1 \in 0 .. n + m /\ ~(i - 1 <= n) /\ (i - 1) - n = (i - n) - 1
          BY <1>3, <4>2
        <5>. QED
          BY <5>1
      <4>. QED
        BY <1>3, <2>2, <4>1, <4>2
    <3>4. Serves(c[(i - n) - 1], ts[i - n], c[i - n])
      BY <1>2, <3>1 DEF m
    <3>. QED
      BY <1>3, <3>1, <3>2, <3>3, <3>4
  <2>. QED
    BY <1>3, <2>1, <2>2
<1> HIDE DEF d
<1>. QED
  BY <1>3, <1>5, <1>6, <1>7 DEF Leads

(* What the first task hands to the next one.                              *)
Handed(td, r, a) ==
  CASE Head(td).do \in {"again", "aside"} -> r
    [] Head(td).do \in {"EU", "EG", "notEG"} -> a.init
    [] OTHER -> Head(td).states

(* All that remains ends with some states of B.                            *)
Chained(td, r, a, B) ==
  IF td = <<>> THEN Delivers(r, B)
  ELSE /\ \E M \in SUBSET States : Delivers(Handed(td, r, a), M) /\ Leads(M, Tail(td), B)
       /\ Head(td).do = "again" => r \subseteq Exact(Head(td).formula)

(* Two sequences, one after the other.                                     *)
LEMMA JoinIs ==
  ASSUME NEW T, NEW s \in Seq(T), s # <<>>, NEW ts \in Seq(T)
  PROVE  /\ s \o ts \in Seq(T) /\ s \o ts # <<>> /\ Head(s \o ts) = Head(s)
         /\ Tail(s \o ts) = Tail(s) \o ts /\ Len(s \o ts) = Len(s) + Len(ts)
         /\ \A i \in 1 .. Len(s \o ts) :
               (s \o ts)[i] = IF i <= Len(s) THEN s[i] ELSE ts[i - Len(s)]
<1>1. /\ s \o ts \in Seq(T) /\ Len(s \o ts) = Len(s) + Len(ts) /\ Len(s) >= 1
      /\ Len(s) \in Nat /\ Len(ts) \in Nat
      /\ \A i \in 1 .. Len(s \o ts) :
            (s \o ts)[i] = IF i <= Len(s) THEN s[i] ELSE ts[i - Len(s)]
  BY ConcatProperties
<1>2. s \o ts # <<>> /\ Head(s \o ts) = (s \o ts)[1] /\ Head(s) = s[1]
  BY <1>1
<1>3. /\ Tail(s \o ts) \in Seq(T) /\ Len(Tail(s \o ts)) = Len(s) + Len(ts) - 1
      /\ \A i \in 1 .. Len(Tail(s \o ts)) : Tail(s \o ts)[i] = (s \o ts)[i + 1]
  BY <1>1, <1>2, HeadTailProperties
<1>4. /\ Tail(s) \in Seq(T) /\ Len(Tail(s)) = Len(s) - 1
      /\ \A i \in 1 .. Len(Tail(s)) : Tail(s)[i] = s[i + 1]
  BY HeadTailProperties
<1>5. /\ Tail(s) \o ts \in Seq(T) /\ Len(Tail(s) \o ts) = Len(s) - 1 + Len(ts)
      /\ \A i \in 1 .. Len(s) - 1 + Len(ts) :
            (Tail(s) \o ts)[i] = IF i <= Len(s) - 1 THEN Tail(s)[i] ELSE ts[i - (Len(s) - 1)]
  BY <1>1, <1>4, ConcatProperties
<1>6. ASSUME NEW i \in 1 .. Len(s) - 1 + Len(ts)
      PROVE  Tail(s \o ts)[i] = (Tail(s) \o ts)[i]
  <2>1. /\ i \in 1 .. Len(Tail(s \o ts)) /\ i + 1 \in 1 .. Len(s \o ts)
        /\ (i + 1) - Len(s) = i - (Len(s) - 1) /\ (i + 1 <= Len(s) <=> i <= Len(s) - 1)
        /\ i <= Len(s) - 1 => i \in 1 .. Len(Tail(s))
    BY <1>1, <1>3, <1>4
  <2>2. Tail(s \o ts)[i] = IF i <= Len(s) - 1 THEN s[i + 1] ELSE ts[i - (Len(s) - 1)]
    BY <1>1, <1>3, <2>1
  <2>. QED
    BY <1>4, <1>5, <2>1, <2>2
<1>7. Tail(s \o ts) = Tail(s) \o ts
  BY <1>1, <1>3, <1>5, <1>6, SeqEqual
<1>. QED
  BY <1>1, <1>2, <1>7

(* A part of a part.                                                       *)
LEMMA DeliversOn ==
  ASSUME NEW R, NEW S, NEW X, Delivers(R, S), Delivers(S, X)
  PROVE  Delivers(R, X)
BY DEF Delivers

(* A task returns R.                                                       *)
LEMMA ChainReturns ==
  ASSUME NEW td \in Seq(Tasks), td # <<>>, NEW r, NEW a, NEW B \in SUBSET States,
         Chained(td, r, a, B), NEW R, Delivers(R, Handed(td, r, a)),
         \A i \in 2 .. Len(td) : td[i].do \notin Shows, NEW b
  PROVE  Chained(Tail(td), R, b, B)
<1>1. PICK M \in SUBSET States : Delivers(Handed(td, r, a), M) /\ Leads(M, Tail(td), B)
  BY DEF Chained
<1>2. Delivers(R, M)
  BY <1>1, DeliversOn
<1>3. Tail(td) \in Seq(Tasks)
  OBVIOUS
<1>4. CASE Tail(td) = <<>>
  <2>1. M = B
    BY <1>1, <1>4, LeadsNowhere
  <2>. QED
    BY <1>2, <1>4, <2>1 DEF Chained
<1>5. CASE Tail(td) # <<>>
  <2>1. PICK D \in SUBSET States : Serves(M, Head(Tail(td)), D) /\ Leads(D, Tail(Tail(td)), B)
    BY <1>1, <1>3, <1>5, LeadsFirst
  <2> DEFINE t == Head(Tail(td))
  <2>2. t = td[2] /\ 2 \in 2 .. Len(td)
    BY <1>3, <1>5
  <2>3. t.do \notin Shows
    BY <2>2
  <2> HIDE DEF t
  <2>4. Handed(Tail(td), R, b) = IF t.do \in {"again", "aside"} THEN R ELSE t.states
    BY <2>3 DEF Handed, t, Shows
  <2>5. Delivers(Handed(Tail(td), R, b), D)
    BY <1>2, <2>1, <2>4, DeliversOn DEF Serves, t
  <2>6. t.do = "again" => R \subseteq Exact(t.formula)
    BY <1>2, <2>1 DEF Serves, Delivers, t
  <2>. QED
    BY <1>5, <2>1, <2>5, <2>6 DEF Chained, t
<1>. QED
  BY <1>4, <1>5

(* A task is replaced by others.                                           *)
LEMMA ChainContinues ==
  ASSUME NEW td \in Seq(Tasks), td # <<>>, NEW r, NEW a, NEW B \in SUBSET States,
         Chained(td, r, a, B),
         NEW ts \in Seq(Tasks), ts # <<>>, Head(ts).do # "again", NEW R, NEW b,
         \A X \in SUBSET States : Delivers(Handed(td, r, a), X) =>
            \E M \in SUBSET States : Delivers(Handed(ts, R, b), M) /\ Leads(M, Tail(ts), X)
  PROVE  Chained(ts \o Tail(td), R, b, B)
<1>1. PICK X \in SUBSET States : Delivers(Handed(td, r, a), X) /\ Leads(X, Tail(td), B)
  BY DEF Chained
<1>2. PICK M \in SUBSET States : Delivers(Handed(ts, R, b), M) /\ Leads(M, Tail(ts), X)
  BY <1>1
<1>3. Tail(ts) \in Seq(Tasks) /\ Tail(td) \in Seq(Tasks)
  OBVIOUS
<1>4. Leads(M, Tail(ts) \o Tail(td), B)
  BY <1>1, <1>2, <1>3, LeadsOn
<1>5. /\ ts \o Tail(td) # <<>> /\ Head(ts \o Tail(td)) = Head(ts)
      /\ Tail(ts \o Tail(td)) = Tail(ts) \o Tail(td)
  BY <1>3, JoinIs
<1>6. Handed(ts \o Tail(td), R, b) = Handed(ts, R, b)
  BY <1>5 DEF Handed
<1>. QED
  BY <1>2, <1>4, <1>5, <1>6 DEF Chained

-----------------------------------------------------------------------------
(***************************************************************************)
(* The invariant of --witness.                                             *)
(***************************************************************************)
(* What is said before a call, as in ExplanationsAgree, of the states that *)
(* the checker finds.                                                      *)
Agrees(t) ==
  t.of \notin {"THEN", "OR"} /\ t.states # {} => (t.said <=> t.states \cap Exact(t.formula) # {})

(* What is asked of a call: a formula that is not evaluated backward is    *)
(* explained in states that it holds or in all the reachable states.       *)
Asked(t) ==
  /\ t.formula \in Explainable /\ t.states \subseteq reachable /\ Agrees(t)
  /\ t.formula \notin Eforms => t.states \subseteq Exact(t.formula) \/ t.states = reachable

Fits(t) ==
  \/ t.do = "explain" /\ Asked(t)
  \/ t.do \in {"again", "aside"} /\ Asked(t) /\ t.formula \in Eforms /\ t.said
  \/ t.do = "return" /\ t.states \subseteq reachable

Hopeful(a) == a.init \cap Backward(a.toreach, a.reach) # {}

(* What is searched for by the call of findPath that comes before t.       *)
Searched(t, a) ==
  LET f == t.formula
  IN  /\ t.states \subseteq reachable /\ a.init \subseteq reachable
      /\ \/ t.do = "dead" /\ a.toreach = dead /\ Hopeful(a)
         \/ /\ t.do = "EU" /\ f \in Explainable /\ f[1] = "EU" /\ Hopeful(a)
            /\ a.init \subseteq Exact(f) \ Exact(f[3]) /\ a.toreach = Exact(f[3])
         \/ /\ t.do = "notEU" /\ f \in Explainable /\ f[1] = "EU" /\ Hopeful(a)
            /\ a.toreach \subseteq reachable \ (Exact(f[2]) \cup Exact(f[3]))
         \/ /\ t.do = "EG" /\ f \in Explainable /\ f[1] = "EG"
            /\ a.toreach = t.states /\ t.states \subseteq Exact(f[2])
         \/ /\ t.do = "notEG" /\ f \in Explainable /\ f[1] = "EG" /\ Hopeful(a)
            /\ a.toreach \subseteq reachable \ Exact(f[2])
         \/ /\ t.do = "cycle" /\ f \in Explainable /\ f[1] = "EG"
            /\ \E s : a.init \subseteq {s}
         \/ /\ t.do = "FWDU" /\ f \in Explainable /\ f[1] = "FWDU" /\ Hopeful(a)
            /\ a.init \subseteq Exact(f) /\ a.toreach = t.states
            /\ (f[2] = Start /\ f[3] = True) \/ a.init \subseteq Exact(f[2])
            /\ t.states \subseteq Exact(f) \/ t.states = reachable

Stacked(td, a) ==
  /\ td \in Seq(Tasks)
  /\ \A i \in 2 .. Len(td) : Fits(td[i])
  /\ td # <<>> => \/ Fits(Head(td)) \/ Searched(Head(td), a)
                  \/ (Head(td).do = "explain" /\ Head(td).formula \in Compared /\ Len(td) = 1)

(* A verdict found backward is being explained.                            *)
Judging == pc = "forward" /\ cmd.backward /\ cmd.witness

Ends(td, r, a) ==
  \E B \in SUBSET States : Chained(td, r, a, B) /\ (Judging => B = InitialState)

Occupied(td) ==
  td # <<>> =>
    /\ pc # "start"
    /\ Head(td).do = "dead" => pc = "done" /\ Len(td) = 1
    /\ Head(td).do # "dead" => ~cmd.fair
    /\ Head(td).do = "explain" /\ Head(td).formula \in Compared => pc = "formulas"

Seeking ==
  /\ Looking
  /\ fpc # "done" => todo # <<>> /\ Head(todo).do \in Shows
  /\ todo # <<>> /\ Head(todo).do \in Shows /\ fpc = "done" => status \in {"path", "failed"}

CallsAgree(cs) ==
  \A c \in cs : c.formula \in Compared \/ (c.formula \in Explainable /\ Agrees(c))

(* A trace is as PathsAreTraces says.                                      *)
IsTrace(p) ==
  /\ p.why \in Shows \cup {"EX"}
  /\ p.why \in {"EG", "cycle"} \/ p.found
  /\ p.found => EndOf(p) \cap Promised(p) # {}

Traced(ps) == \A p \in ps : IsTrace(p) /\ (p.why = "dead" => pc = "done")

ExplainInv ==
  /\ Inv
  /\ pc = "start" => calls = {} /\ paths = {} /\ result = {}
  /\ pc # "start" => result \subseteq reachable
  /\ Occupied(todo) /\ Stacked(todo, args) /\ Ends(todo, result, args)
  /\ Seeking
  /\ CallsAgree(calls) /\ Traced(paths)

(* All this depends on what the checker keeps.                             *)
LEMMA CheckerKept ==
  ASSUME UNCHANGED <<model, cmd, kept>>
  PROVE  /\ Verify' = Verify /\ InitialState' = InitialState /\ trans' = trans
         /\ reachable' = reachable
<1>1. /\ model' = model /\ cmd' = cmd /\ reachable' = reachable /\ next' = next
      /\ predRel_' = predRel_ /\ deadlocks_' = deadlocks_ /\ scc_' = scc_
  BY DEF kept
<1>2. InitialState' = InitialState
  BY KeptStays
<1>3. trans' = trans
  BY <1>1 DEF trans
<1>4. Verify' = Verify
  BY <1>1, <1>2
  DEF Verify, ChildStates, Some, AndStates, SomeOr, CmpStates, EUStates, Guard, EGStates, SomeEG,
      FwdUStates, FwdGStates
<1>. QED
  BY <1>1, <1>2, <1>3, <1>4

(* What is asked of the tasks does not change while the checker keeps the  *)
(* same sets.                                                              *)
LEMMA StackKept ==
  ASSUME UNCHANGED <<model, cmd, kept, dead>>, Stacked(todo', args')
  PROVE  Stacked(todo, args)'
BY CheckerKept
DEF Stacked, Fits, Searched, Asked, Agrees, Hopeful, Backward, Exact

(* Nor does what they end with.                                            *)
LEMMA EndsKept ==
  ASSUME UNCHANGED <<model, cmd, kept, pc>>, Implied => Implied', Ends(todo', result', args')
  PROVE  Ends(todo, result, args)'
<1>1. \A S, X : Delivers(S, X) => Delivers(S, X)'
  BY DEF Delivers
<1>2. \A ts, A, B : Leads(A, ts, B) => Leads(A, ts, B)'
  BY <1>1, CheckerKept DEF Leads, Serves, Exact
<1>3. InitialState' = InitialState /\ cmd' = cmd /\ pc' = pc
  BY CheckerKept
<1>4. \A B : Chained(todo', result', args', B) => Chained(todo, result, args, B)'
  <2>1. Verify' = Verify
    BY CheckerKept
  <2>2. Handed(todo, result, args)' = Handed(todo', result', args')
    BY DEF Handed
  <2>. QED
    BY <1>1, <1>2, <2>1, <2>2 DEF Chained, Exact
<1>. QED
  BY <1>3, <1>4 DEF Ends, Judging

(* Nor what was said of the calls made.                                    *)
LEMMA CallsKept ==
  ASSUME UNCHANGED <<model, cmd, kept>>, CallsAgree(calls')
  PROVE  CallsAgree(calls)'
BY CheckerKept DEF CallsAgree, Agrees, Exact

(* Nor a trace that was printed.                                           *)
LEMMA TraceKept ==
  ASSUME UNCHANGED <<model, cmd, kept>>, NEW p, IsTrace(p), p.why # "dead" \/ dead' = dead
  PROVE  IsTrace(p)'
<1>1. EndOf(p)' = EndOf(p)
  BY CheckerKept DEF EndOf, Played, Plays
<1>2. Promised(p)' = Promised(p)
  BY CheckerKept DEF IsTrace, Shows, Promised, Exact
<1>. QED
  BY <1>1, <1>2 DEF IsTrace

(* The tasks that a call gives.                                            *)
LEMMA CallFits ==
  ASSUME NEW t, t.do \in {"explain", "again", "aside"},
         t.states \subseteq reachable, t.formula \in Explainable,
         \/ t.of \in {"THEN", "OR"} \/ t.states = {}
         \/ t.said <=> t.states \cap Exact(t.formula) # {},
         t.formula \in Eforms \/ t.states \subseteq Exact(t.formula) \/ t.states = reachable,
         t.do # "explain" => t.formula \in Eforms /\ t.said
  PROVE  Fits(t)
<1>1. Agrees(t)
  BY DEF Agrees
<1>2. Asked(t)
  BY <1>1 DEF Asked
<1>. QED
  BY <1>2 DEF Fits

(* A call for states some of which satisfy the formula.                    *)
LEMMA CallTrue ==
  ASSUME FormsAreAll, Kept, todo # <<>>, form \in Forms,
         NEW d \in {"explain", "again", "aside"},
         NEW S \in SUBSET reachable, NEW g \in Explainable,
         form[1] \in {"THEN", "OR"} \/ S = {} \/ S \cap Exact(g) # {},
         g \in Eforms \/ S \subseteq Exact(g) \/ S = reachable,
         d # "explain" => g \in Eforms,
         NEW t, t = [do |-> d, states |-> S, formula |-> g, said |-> TRUE, of |-> form[1]]
  PROVE  t \in Tasks /\ Fits(t) /\ t.do = d /\ t.states = S /\ t.formula = g
<1>1. S \in SUBSET States /\ g \in Forms /\ form[1] \in Leaves \cup Unary \cup Binary
  BY ExplainableParts, Children DEF Kept
<1>3. /\ t.do = d /\ t.states = S /\ t.formula = g /\ t.of = form[1]
      /\ t.said /\ t.said \in BOOLEAN
  OBVIOUS
<1>5. t \in Tasks
  BY <1>1 DEF Tasks
<1>4. Fits(t)
  BY <1>1, <1>3, CallFits
<1>. QED
  BY <1>3, <1>4, <1>5

(* A call for states none of which does.                                   *)
LEMMA CallFalse ==
  ASSUME FormsAreAll, Kept, todo # <<>>, form \in Forms, NEW S \in SUBSET reachable,
         NEW g \in Explainable,
         form[1] \in {"THEN", "OR"} \/ S = {} \/ S \cap Exact(g) = {},
         g \in Eforms \/ S \subseteq Exact(g) \/ S = reachable,
         NEW t, t = [do |-> "explain", states |-> S, formula |-> g, said |-> FALSE, of |-> form[1]]
  PROVE  t \in Tasks /\ Fits(t) /\ t.do = "explain" /\ t.states = S /\ t.formula = g
<1>1. S \in SUBSET States /\ g \in Forms /\ form[1] \in Leaves \cup Unary \cup Binary
  BY ExplainableParts, Children DEF Kept
<1>3. /\ t.do = "explain" /\ t.states = S /\ t.formula = g /\ t.of = form[1]
      /\ ~t.said /\ t.said \in BOOLEAN
  OBVIOUS
<1>5. t \in Tasks
  BY <1>1 DEF Tasks
<1>4. Fits(t)
  BY <1>1, <1>3, CallFits
<1>. QED
  BY <1>3, <1>4, <1>5

(* The return of some reachable states.                                    *)
LEMMA ReturnFits ==
  ASSUME FormsAreAll, Kept, todo # <<>>, form \in Forms, NEW S \in SUBSET reachable
  PROVE  Return(S) \in Tasks /\ Fits(Return(S)) /\ Return(S).do = "return" /\ Return(S).states = S
<1>1. S \in SUBSET States /\ True \in Forms
  BY FormsClosed DEF Kept
<1>2. Return(S) \in Tasks /\ Return(S).do = "return" /\ Return(S).states = S
  <2>1. form[1] \in Leaves \cup Unary \cup Binary
    BY Children
  <2>2. Return(S) = [do |-> "return", states |-> S, formula |-> True, said |-> TRUE, of |-> form[1]]
    BY DEF Return, Task
  <2>. QED
    BY <1>1, <2>1, <2>2 DEF Tasks
<1>. QED
  BY <1>2 DEF Fits

(* How the tasks that replace one hand over some of the states H.          *)
Joins(ts, r, a, H) ==
  \A X \in SUBSET States : Delivers(H, X) =>
     \E M \in SUBSET States : Delivers(Handed(ts, r, a), M) /\ Leads(M, Tail(ts), X)

(* By a single task, that hands over as many.                              *)
LEMMA JoinsByOne ==
  ASSUME NEW t, NEW r, NEW a, NEW H, Delivers(Handed(<<t>>, r, a), H)
  PROVE  Joins(<<t>>, r, a, H)
<1> SUFFICES ASSUME NEW X \in SUBSET States, Delivers(H, X)
             PROVE  Delivers(Handed(<<t>>, r, a), X) /\ Leads(X, Tail(<<t>>), X)
  BY DEF Joins
<1>1. Tail(<<t>>) = <<>>
  OBVIOUS
<1>. QED
  BY <1>1, DeliversOn, LeadsNowhere

(* By a call and a task after it.                                          *)
LEMMA JoinsByTwo ==
  ASSUME NEW t \in Tasks, NEW u \in Tasks, t.do = "explain", NEW r, NEW a, NEW H,
         Delivers(IF u.do \in {"again", "aside"} THEN t.states ELSE u.states, H),
         u.do = "again" => t.states \subseteq Exact(u.formula)
  PROVE  Joins(<<t, u>>, r, a, H)
<1> SUFFICES ASSUME NEW X \in SUBSET States, Delivers(H, X)
             PROVE  /\ Delivers(Handed(<<t, u>>, r, a), t.states) /\ t.states \in SUBSET States
                    /\ Leads(t.states, Tail(<<t, u>>), X)
  BY DEF Joins
<1>1. Tail(<<t, u>>) = <<u>> /\ Head(<<t, u>>) = t
  OBVIOUS
<1>2. Handed(<<t, u>>, r, a) = t.states
  BY <1>1 DEF Handed
<1>3. t.states \in SUBSET States
  BY DEF Tasks
<1>4. Serves(t.states, u, X)
  BY DeliversOn DEF Serves
<1>5. Leads(t.states, <<u>>, X)
  BY <1>3, <1>4, LeadsByOne
<1>. QED
  BY <1>1, <1>2, <1>3, <1>5 DEF Delivers

(* By two calls and a return.                                              *)
LEMMA JoinsByThree ==
  ASSUME NEW t \in Tasks, NEW u \in Tasks, NEW v \in Tasks, t.do = "explain", u.do = "explain",
         v.do = "return", NEW r, NEW a, NEW H, Delivers(v.states, H)
  PROVE  Joins(<<t, u, v>>, r, a, H)
<1> SUFFICES ASSUME NEW X \in SUBSET States, Delivers(H, X)
             PROVE  /\ Delivers(Handed(<<t, u, v>>, r, a), t.states) /\ t.states \in SUBSET States
                    /\ Leads(t.states, Tail(<<t, u, v>>), X)
  BY DEF Joins
<1>1. Tail(<<t, u, v>>) = <<u>> \o <<v>> /\ Head(<<t, u, v>>) = t
  <2>1. Tail(<<t, u, v>>) = <<u, v>> /\ Head(<<t, u, v>>) = t
    OBVIOUS
  <2>2. <<u>> \o <<v>> = <<u, v>>
    <3>1. /\ <<u>> \in Seq(Tasks) /\ <<v>> \in Seq(Tasks) /\ <<u, v>> \in Seq(Tasks)
          /\ Len(<<u>>) = 1 /\ Len(<<v>>) = 1 /\ Len(<<u, v>>) = 2
      OBVIOUS
    <3>2. /\ <<u>> \o <<v>> \in Seq(Tasks) /\ Len(<<u>> \o <<v>>) = 2
          /\ \A i \in 1 .. 2 : (<<u>> \o <<v>>)[i] = IF i <= 1 THEN <<u>>[i] ELSE <<v>>[i - 1]
      BY <3>1, ConcatProperties
    <3>3. \A i \in 1 .. 2 : (<<u>> \o <<v>>)[i] = <<u, v>>[i]
      BY <3>2
    <3>. QED
      BY <3>1, <3>2, <3>3, SeqEqual
  <2>. QED
    BY <2>1, <2>2
<1>2. Handed(<<t, u, v>>, r, a) = t.states
  BY <1>1 DEF Handed
<1>3. t.states \in SUBSET States /\ u.states \in SUBSET States
  BY DEF Tasks
<1>4. Serves(t.states, u, u.states) /\ Serves(u.states, v, X)
  BY DeliversOn DEF Serves, Delivers
<1>5. Leads(t.states, <<u>>, u.states) /\ Leads(u.states, <<v>>, X)
  BY <1>3, <1>4, LeadsByOne
<1>6. Leads(t.states, <<u>> \o <<v>>, X)
  <2>1. <<u>> \in Seq(Tasks) /\ <<v>> \in Seq(Tasks)
    OBVIOUS
  <2>. QED
    BY <1>5, <2>1, LeadsOn
<1>. QED
  BY <1>1, <1>2, <1>3, <1>6 DEF Delivers

-----------------------------------------------------------------------------
(***************************************************************************)
(* The steps of an explanation, which change nothing that the checker      *)
(* keeps.                                                                  *)
(***************************************************************************)
LEMMA InvMoves ==
  ASSUME FormsAreAll, ExplainInv, UNCHANGED vars, pc # "start", Implied => Implied',
         result' \subseteq reachable, Occupied(todo'), Stacked(todo', args'),
         Ends(todo', result', args'), Seeking', CallsAgree(calls'), Traced(paths')
  PROVE  ExplainInv'
<1>1. UNCHANGED <<model, cmd, kept>> /\ UNCHANGED <<pc, dead>>
  BY DEF vars
<1>2. Inv'
  BY NextInv DEF ExplainInv
<1>3. Occupied(todo)'
  BY <1>1 DEF Occupied
<1>4. Stacked(todo, args)'
  BY <1>1, StackKept
<1>5. Ends(todo, result, args)'
  BY <1>1, EndsKept
<1>6. CallsAgree(calls)'
  BY <1>1, CallsKept
<1>7. Traced(paths)'
  BY <1>1, TraceKept DEF Traced
<1>8. pc' # "start" /\ result' \subseteq reachable'
  BY <1>1 DEF kept
<1>. QED
  BY <1>2, <1>3, <1>4, <1>5, <1>6, <1>7, <1>8 DEF ExplainInv

(* A task that fits is no search, and explains no comparison.              *)
LEMMA FitsIs ==
  ASSUME FormsAreAll, NEW t, Fits(t)
  PROVE  /\ t.do \in {"explain", "again", "aside", "return"} /\ t.do \notin Shows
         /\ t.do = "explain" => t.formula \notin Compared
<1>1. t.formula \in Explainable => t.formula[1] # "CMP"
  BY ExplainableParts DEF ExistentialTypes
<1>. QED
  BY <1>1 DEF Fits, Shows, Asked, Compared

(* A task returns some states of those it was to hand over.                *)
LEMMA Returning ==
  ASSUME FormsAreAll, ExplainInv, todo # <<>>, UNCHANGED vars, UNCHANGED findPath, fpc = "done",
         todo' = Tail(todo), result' \subseteq reachable,
         Delivers(result', Handed(todo, result, args)),
         calls \subseteq calls', Head(todo).do = "explain" => Head(todo) \in calls',
         CallsAgree(calls'), Traced(paths')
  PROVE  ExplainInv'
<1>0. Implied => Implied'
  BY ImpliedStays
<1>1. /\ todo \in Seq(Tasks) /\ Tail(todo) \in Seq(Tasks) /\ Len(todo) \in Nat /\ Len(todo) >= 1
      /\ Len(Tail(todo)) = Len(todo) - 1
      /\ \A i \in 1 .. Len(todo) - 1 : Tail(todo)[i] = todo[i + 1]
      /\ \A i \in 2 .. Len(todo) : Fits(todo[i])
  BY DEF ExplainInv, Stacked
<1>2. \A i \in 1 .. Len(Tail(todo)) : Fits(Tail(todo)[i])
  <2> SUFFICES ASSUME NEW i \in 1 .. Len(Tail(todo)) PROVE Fits(Tail(todo)[i])
    OBVIOUS
  <2>1. i \in 1 .. Len(todo) - 1 /\ i + 1 \in 2 .. Len(todo)
    BY <1>1
  <2>. QED
    BY <1>1, <2>1
<1>3. Tail(todo) # <<>> => Head(Tail(todo)) = Tail(todo)[1] /\ Fits(Head(Tail(todo)))
  <2>1. Tail(todo) # <<>> => Head(Tail(todo)) = Tail(todo)[1] /\ 1 \in 1 .. Len(Tail(todo))
    BY <1>1
  <2>. QED
    BY <1>2, <2>1
<1>4. args' = args /\ fpc' = "done" /\ trans' = trans
  BY DEF findPath, vars, trans
<1>5. Stacked(todo', args')
  <2>1. \A i \in 2 .. Len(Tail(todo)) : i \in 1 .. Len(Tail(todo))
    BY <1>1
  <2>. QED
    BY <1>1, <1>2, <1>3, <2>1 DEF Stacked
<1>6. pc # "start" /\ Occupied(todo')
  <2>1. /\ pc # "start"
        /\ Head(todo).do = "dead" => Len(todo) = 1
        /\ Head(todo).do # "dead" => ~cmd.fair
    BY DEF ExplainInv, Occupied
  <2>2. Tail(todo) # <<>> => Len(todo) # 1
    BY <1>1
  <2>3. Tail(todo) # <<>> => /\ Head(Tail(todo)).do # "dead"
                             /\ Head(Tail(todo)).do = "explain" =>
                                  Head(Tail(todo)).formula \notin Compared
    BY <1>3, FitsIs DEF Shows
  <2>. QED
    BY <2>1, <2>2, <2>3 DEF Occupied
<1>7. Ends(todo', result', args')
  <2>1. PICK B \in SUBSET States : Chained(todo, result, args, B) /\ (Judging => B = InitialState)
    BY DEF ExplainInv, Ends
  <2>2. \A i \in 2 .. Len(todo) : todo[i].do \notin Shows
    BY <1>1, FitsIs
  <2>3. Chained(Tail(todo), result', args', B)
    BY <1>1, <2>1, <2>2, ChainReturns
  <2>. QED
    BY <2>1, <2>3 DEF Ends
<1>8. Seeking'
  <2>1. Looking'
    BY <1>4, LookingStays DEF ExplainInv, Seeking
  <2>2. todo' # <<>> => Head(todo').do \notin Shows
    BY <1>3, FitsIs
  <2>. QED
    BY <1>4, <2>1, <2>2 DEF Seeking
<1>. QED
  BY <1>0, <1>5, <1>6, <1>7, <1>8, InvMoves

(* A task is replaced by others, the first of which may be a search.       *)
LEMMA Replacing ==
  ASSUME FormsAreAll, ExplainInv, todo # <<>>, Head(todo).do # "dead", UNCHANGED vars,
         NEW ts \in Seq(Tasks), ts # <<>>, Head(ts).do \notin {"again", "dead"},
         Fits(Head(ts)) \/ (Searched(Head(ts), args') /\ Head(ts).do \in Shows),
         \A i \in 2 .. Len(ts) : Fits(ts[i]),
         Joins(ts, result, args', Handed(todo, result, args)),
         todo' = ts \o Tail(todo), result' = result, Looking',
         IF fpc' = "done" THEN Fits(Head(ts)) ELSE Head(ts).do \in Shows,
         calls \subseteq calls', Head(todo).do = "explain" => Head(todo) \in calls',
         CallsAgree(calls'), Traced(paths')
  PROVE  ExplainInv'
<1>0. Implied => Implied'
  BY ImpliedStays
<1>1. /\ todo \in Seq(Tasks) /\ Tail(todo) \in Seq(Tasks) /\ Len(todo) \in Nat /\ Len(todo) >= 1
      /\ Len(Tail(todo)) = Len(todo) - 1
      /\ \A i \in 1 .. Len(todo) - 1 : Tail(todo)[i] = todo[i + 1]
      /\ \A i \in 2 .. Len(todo) : Fits(todo[i])
      /\ Len(ts) \in Nat /\ Len(ts) >= 1
  BY DEF ExplainInv, Stacked
<1>2. /\ todo' \in Seq(Tasks) /\ todo' # <<>> /\ Head(todo') = Head(ts)
      /\ Len(todo') = Len(ts) + Len(Tail(todo))
      /\ \A i \in 1 .. Len(todo') :
            todo'[i] = IF i <= Len(ts) THEN ts[i] ELSE Tail(todo)[i - Len(ts)]
  BY <1>1, JoinIs
<1>3. Stacked(todo', args')
  <2> SUFFICES ASSUME NEW i \in 2 .. Len(todo') PROVE Fits(todo'[i])
    BY <1>2 DEF Stacked
  <2>1. CASE i <= Len(ts)
    BY <1>1, <1>2, <2>1
  <2>2. CASE i > Len(ts)
    <3>1. /\ i - Len(ts) \in 1 .. Len(todo) - 1 /\ (i - Len(ts)) + 1 \in 2 .. Len(todo)
          /\ i \in 1 .. Len(todo') /\ ~(i <= Len(ts))
      BY <1>1, <1>2, <2>2
    <3>2. todo'[i] = todo[(i - Len(ts)) + 1]
      BY <1>1, <1>2, <3>1
    <3>. QED
      BY <1>1, <3>1, <3>2
  <2>. QED
    BY <1>1, <1>2, <2>1, <2>2
<1>4. pc # "start" /\ Occupied(todo')
  <2>1. pc # "start" /\ ~cmd.fair
    BY DEF ExplainInv, Occupied
  <2>2. Head(ts).do = "explain" => Head(ts).formula \notin Compared
    BY FitsIs DEF Shows
  <2>. QED
    BY <1>2, <2>1, <2>2 DEF Occupied
<1>5. Ends(todo', result', args')
  <2>1. PICK B \in SUBSET States : Chained(todo, result, args, B) /\ (Judging => B = InitialState)
    BY DEF ExplainInv, Ends
  <2>2. Chained(ts \o Tail(todo), result, args', B)
    BY <1>1, <2>1, ChainContinues DEF Joins
  <2>. QED
    BY <2>1, <2>2 DEF Ends
<1>6. Seeking'
  <2>1. fpc' = "done" => Head(todo').do \notin Shows
    BY <1>2, FitsIs
  <2>. QED
    BY <1>2, <2>1 DEF Seeking
<1>7. result' \subseteq reachable
  BY <1>4 DEF ExplainInv
<1>. QED
  BY <1>0, <1>3, <1>4, <1>5, <1>6, <1>7, InvMoves

-----------------------------------------------------------------------------
(* What is known when a task is done, and when a call is made.             *)
LEMMA AtTask ==
  ASSUME FormsAreAll, ExplainInv, todo # <<>>
  PROVE  /\ todo \in Seq(Tasks) /\ Head(todo) \in Tasks /\ form \in Forms /\ sat \in SUBSET States
         /\ Kept /\ IsAsked /\ trans \in Systems /\ result \in SUBSET reachable
         /\ reachable = Fixpoint(NextRel(trans), InitialStates)
         /\ InitialStates \in SUBSET States /\ InitialStates \subseteq InitialState
         /\ Head(todo).do # "dead" => next = NextRel(trans) /\ InitialState = InitialStates
<1>1. /\ todo \in Seq(Tasks) /\ pc # "start" /\ IsAsked /\ Computed /\ result \subseteq reachable
      /\ Head(todo).do # "dead" => ~cmd.fair
  BY DEF ExplainInv, Inv, InvAsked, InvKept, Stacked, Occupied
<1>2. Head(todo) \in Tasks
  BY <1>1
<1>3. Kept
  BY <1>1, ComputedIsKept
<1>4. trans \in Systems /\ InitialStates \in SUBSET States /\ reachable = Fixpoint(NextRel(trans), InitialStates)
  BY <1>1, ModelTyped DEF Computed
<1>5. InitialStates \subseteq InitialState
  BY <1>4, FixpointContains DEF InitialState, ElapseFrom
<1>6. Head(todo).do # "dead" => next = NextRel(trans) /\ InitialState = InitialStates
  BY <1>1 DEF Computed, CheckerNext, InitialState
<1>. QED
  BY <1>1, <1>2, <1>3, <1>4, <1>5, <1>6 DEF Tasks, form, sat

(* What is known when a call is made, but for a comparison.                *)
LEMMA AtCall ==
  ASSUME FormsAreAll, ExplainInv, NEW types, Explaining(types), "CMP" \notin types
  PROVE  /\ todo # <<>> /\ fpc = "done" /\ Head(todo).do = "explain" /\ Asked(Head(todo))
         /\ form[1] \in types /\ form \in Explainable /\ sat \in SUBSET reachable
         /\ form \notin Eforms => sat \subseteq Exact(form) \/ sat = reachable
         /\ Exact(form) \in SUBSET reachable
         /\ Kept /\ Handed(todo, result, args) = sat
         /\ UNCHANGED vars /\ CallsAgree(calls') /\ calls \subseteq calls' /\ Head(todo) \in calls'
<1>1. /\ todo # <<>> /\ fpc = "done" /\ Head(todo).do = "explain" /\ form[1] \in types
      /\ calls' = calls \cup {Head(todo)} /\ UNCHANGED vars
  BY DEF Explaining, Ready
<1>2. form \notin Compared
  BY <1>1 DEF Compared
<1>3. Fits(Head(todo))
  BY <1>1, <1>2 DEF ExplainInv, Stacked, Searched, form
<1>4. Asked(Head(todo))
  BY <1>1, <1>3 DEF Fits
<1>5. Kept
  BY <1>1, AtTask
<1>6. /\ form \in Explainable /\ sat \in SUBSET reachable
      /\ form \notin Eforms => sat \subseteq Exact(form) \/ sat = reachable
  BY <1>4 DEF Asked, form, sat
<1>7. CallsAgree(calls')
  BY <1>1, <1>4 DEF ExplainInv, CallsAgree, Asked
<1>8. Exact(form) \in SUBSET reachable
  BY <1>5, <1>6, ExactIs
<1>9. Handed(todo, result, args) = sat
  BY <1>1 DEF Handed, sat
<1>. QED
  BY <1>1, <1>4, <1>5, <1>6, <1>7, <1>8, <1>9

(* A call that makes others.                                               *)
LEMMA Continuing ==
  ASSUME FormsAreAll, ExplainInv, NEW types, Explaining(types), "CMP" \notin types,
         UNCHANGED findPath, Traced(paths'),
         NEW ts \in Seq(Tasks), ts # <<>>, Fits(Head(ts)), Head(ts).do = "explain",
         \A i \in 2 .. Len(ts) : Fits(ts[i]),
         Continue(ts), Joins(ts, result, args, sat)
  PROVE  ExplainInv'
<1>1. /\ todo # <<>> /\ fpc = "done" /\ Head(todo).do = "explain"
      /\ Handed(todo, result, args) = sat /\ UNCHANGED vars /\ CallsAgree(calls')
      /\ calls \subseteq calls' /\ Head(todo) \in calls'
  BY AtCall
<1>2. args' = args /\ fpc' = fpc /\ trans' = trans
  BY <1>1 DEF findPath, vars, trans
<1>3. Looking'
  BY <1>2, LookingStays DEF ExplainInv, Seeking
<1>4. todo' = ts \o Tail(todo) /\ result' = result
  BY DEF Continue
<1>. QED
  BY <1>1, <1>2, <1>3, <1>4, Replacing

(* A call that makes one other.                                            *)
LEMMA ContinuingOne ==
  ASSUME FormsAreAll, ExplainInv, NEW types, Explaining(types), "CMP" \notin types,
         UNCHANGED findPath, Traced(paths'),
         NEW t \in Tasks, Fits(t), t.do = "explain", Delivers(t.states, sat), Continue(<<t>>)
  PROVE  ExplainInv'
<1>1. <<t>> \in Seq(Tasks) /\ <<t>> # <<>> /\ Head(<<t>>) = t /\ Len(<<t>>) = 1
  OBVIOUS
<1>2. Handed(<<t>>, result, args) = t.states
  BY <1>1 DEF Handed
<1>3. Joins(<<t>>, result, args, sat)
  BY <1>2, JoinsByOne
<1> DEFINE ts == <<t>>
<1>4. /\ ts \in Seq(Tasks) /\ ts # <<>> /\ Head(ts).do = "explain" /\ Continue(ts)
      /\ Fits(Head(ts)) /\ Joins(ts, result, args, sat) /\ \A i \in 2 .. Len(ts) : Fits(ts[i])
  BY <1>1, <1>3
<1> HIDE DEF ts
<1>. QED
  BY <1>4, Continuing

(* A call that makes another, with a task after it.                        *)
LEMMA ContinuingTwo ==
  ASSUME FormsAreAll, ExplainInv, NEW types, Explaining(types), "CMP" \notin types,
         UNCHANGED findPath, Traced(paths'),
         NEW t \in Tasks, Fits(t), t.do = "explain", NEW u \in Tasks, Fits(u),
         Delivers(IF u.do \in {"again", "aside"} THEN t.states ELSE u.states, sat),
         u.do = "again" => t.states \subseteq Exact(u.formula),
         Continue(<<t, u>>)
  PROVE  ExplainInv'
<1>1. <<t, u>> \in Seq(Tasks) /\ <<t, u>> # <<>> /\ Head(<<t, u>>) = t /\ Len(<<t, u>>) = 2
      /\ \A i \in 2 .. 2 : <<t, u>>[i] = u
  OBVIOUS
<1>2. Joins(<<t, u>>, result, args, sat)
  BY JoinsByTwo
<1>3. Fits(Head(<<t, u>>)) /\ \A i \in 2 .. Len(<<t, u>>) : Fits(<<t, u>>[i])
  BY <1>1
<1> DEFINE ts == <<t, u>>
<1>4. /\ ts \in Seq(Tasks) /\ ts # <<>> /\ Head(ts).do = "explain" /\ Continue(ts)
      /\ Fits(Head(ts)) /\ Joins(ts, result, args, sat) /\ \A i \in 2 .. Len(ts) : Fits(ts[i])
  BY <1>1, <1>2, <1>3
<1> HIDE DEF ts
<1>. QED
  BY <1>4, Continuing

(* A call that makes two others, and returns.                              *)
LEMMA ContinuingThree ==
  ASSUME FormsAreAll, ExplainInv, NEW types, Explaining(types), "CMP" \notin types,
         UNCHANGED findPath, Traced(paths'),
         NEW t \in Tasks, Fits(t), t.do = "explain", NEW u \in Tasks, Fits(u), u.do = "explain",
         NEW v \in Tasks, Fits(v), v.do = "return", Delivers(v.states, sat),
         Continue(<<t, u, v>>)
  PROVE  ExplainInv'
<1>1. /\ <<t, u, v>> \in Seq(Tasks) /\ <<t, u, v>> # <<>> /\ Head(<<t, u, v>>) = t
      /\ Len(<<t, u, v>>) = 3 /\ \A i \in 2 .. 3 : <<t, u, v>>[i] = u \/ <<t, u, v>>[i] = v
  OBVIOUS
<1>2. Joins(<<t, u, v>>, result, args, sat)
  BY JoinsByThree
<1>3. Fits(Head(<<t, u, v>>)) /\ \A i \in 2 .. Len(<<t, u, v>>) : Fits(<<t, u, v>>[i])
  BY <1>1
<1> DEFINE ts == <<t, u, v>>
<1>4. /\ ts \in Seq(Tasks) /\ ts # <<>> /\ Head(ts).do = "explain" /\ Continue(ts)
      /\ Fits(Head(ts)) /\ Joins(ts, result, args, sat) /\ \A i \in 2 .. Len(ts) : Fits(ts[i])
  BY <1>1, <1>2, <1>3
<1> HIDE DEF ts
<1>. QED
  BY <1>4, Continuing

(* A call that returns.                                                    *)
LEMMA CallReturns ==
  ASSUME FormsAreAll, ExplainInv, NEW types, Explaining(types), "CMP" \notin types, NoSearch,
         NEW S, Returns(S), Delivers(S, sat)
  PROVE  ExplainInv'
<1>1. /\ todo # <<>> /\ fpc = "done" /\ Handed(todo, result, args) = sat /\ UNCHANGED vars
      /\ calls \subseteq calls' /\ Head(todo) \in calls' /\ CallsAgree(calls') /\ sat \in SUBSET reachable
  BY AtCall
<1>2. UNCHANGED findPath /\ paths' = paths /\ Traced(paths')
  BY DEF NoSearch, ExplainInv
<1>3. todo' = Tail(todo) /\ result' = S
  BY DEF Returns
<1>4. result' \subseteq reachable
  BY <1>1, <1>3 DEF Delivers
<1>. QED
  BY <1>1, <1>2, <1>3, <1>4, Returning

(* An atom holds in some of the states, or in none: nothing else is said.  *)
LEMMA AtomStep ==
  ASSUME FormsAreAll, ExplainInv, ExplainAtom
  PROVE  ExplainInv'
<1> DEFINE T == {"ID", "TRUE", "FALSE", "INIT"}
           S == IF form[1] \in {"ID", "INIT"} /\ IsTrue THEN satF ELSE sat
<1>1. Explaining(T) /\ NoSearch /\ Returns(S)
  BY DEF ExplainAtom
<1>2. Delivers(S, sat)
  BY DEF Delivers, IsTrue, satF
<1> HIDE DEF S
<1>. QED
  BY <1>1, <1>2, CallReturns

(* The forward formulas that are not explained.                            *)
LEMMA NothingStep ==
  ASSUME FormsAreAll, ExplainInv, ExplainNothing
  PROVE  ExplainInv'
<1>1. Explaining({"FWDU", "FWDG", "EY"}) /\ NoSearch /\ Returns(sat)
  BY DEF ExplainNothing
<1>2. Delivers(sat, sat)
  BY DEF Delivers
<1>. QED
  BY <1>1, <1>2, CallReturns

(* A negation is explained by its operand, of which the contrary is said.  *)
LEMMA NotStep ==
  ASSUME FormsAreAll, ExplainInv, ExplainNot
  PROVE  ExplainInv'
<1> DEFINE S == IF IsTrue THEN satF ELSE sat
           t == Call(S, form[2], ~IsTrue)
<1>1. Explaining({"NOT"}) /\ NoSearch /\ Continue(<<t>>)
  BY DEF ExplainNot
<1>2. /\ todo # <<>> /\ form \in Explainable /\ form \in Forms /\ form[1] = "NOT"
      /\ sat \in SUBSET reachable /\ Kept
  BY <1>1, AtCall, AtTask
<1>3. form[2] \in Eforms /\ form[2] \in Explainable
  BY <1>2, ExplainableParts DEF Explainable
<1>4. Exact(form) = reachable \ Exact(form[2])
  BY <1>2, ExactIs
<1>5. S \in SUBSET reachable /\ Delivers(S, sat)
  BY <1>2 DEF satF, IsTrue, Delivers
<1>6. S = {} \/ (~IsTrue <=> S \cap Exact(form[2]) # {})
  BY <1>2, <1>4 DEF satF, IsTrue
<1>7. t \in Tasks /\ Fits(t) /\ t.do = "explain" /\ t.states = S
  <2> HIDE DEF S
  <2>1. CASE IsTrue
    <3>1. t = [do |-> "explain", states |-> S, formula |-> form[2], said |-> FALSE, of |-> form[1]]
      BY <1>2, <2>1 DEF Call, Task
    <3>. QED
      BY <1>2, <1>3, <1>5, <1>6, <2>1, <3>1, CallFalse
  <2>2. CASE ~IsTrue
    <3>1. t = [do |-> "explain", states |-> S, formula |-> form[2], said |-> TRUE, of |-> form[1]]
      BY <1>2, <2>2 DEF Call, Task
    <3>. QED
      BY <1>2, <1>3, <1>5, <1>6, <2>2, <3>1, CallTrue
  <2>. QED
    BY <2>1, <2>2
<1>8. UNCHANGED findPath /\ paths' = paths /\ Traced(paths')
  BY <1>1 DEF NoSearch, ExplainInv
<1> HIDE DEF t, S
<1>. QED
  BY <1>1, <1>5, <1>7, <1>8, ContinuingOne

(* The part of AtCall that the steps need most.                            *)
LEMMA CallFacts ==
  ASSUME FormsAreAll, ExplainInv, NEW types, Explaining(types), "CMP" \notin types
  PROVE  /\ todo # <<>> /\ form \in Forms /\ form \in Explainable /\ form[1] \in types
         /\ sat \in SUBSET reachable /\ reachable \in SUBSET States /\ Kept
         /\ form \notin Eforms => sat \subseteq Exact(form) \/ sat = reachable
         /\ Exact(form) \in SUBSET reachable /\ Traced(paths)
<1>1. todo # <<>>
  BY AtCall
<1>2. form \in Forms /\ Kept
  BY <1>1, AtTask
<1>. QED
  BY <1>1, <1>2, AtCall DEF Kept, ExplainInv

(* A conjunction that is true: the left operand is explained where both    *)
(* hold, then the right one in what was explained.                         *)
LEMMA AndStep ==
  ASSUME FormsAreAll, ExplainInv, ExplainAnd
  PROVE  ExplainInv'
<1> DEFINE t == Call(satF, form[2], TRUE)
           u == CallAgain(form[3], TRUE)
<1>1. Explaining({"AND"}) /\ IsTrue /\ NoSearch /\ Continue(<<t, u>>)
  BY DEF ExplainAnd
<1>2. /\ todo # <<>> /\ form \in Forms /\ form \in Explainable /\ form[1] = "AND"
      /\ sat \in SUBSET reachable /\ Kept
  BY <1>1, CallFacts
<1>3. /\ form[3] \in Eforms /\ form[3] \in Explainable /\ form[2] \in Explainable
      /\ Exact(form) = Exact(form[2]) \cap Exact(form[3])
  BY <1>2, ExplainableParts, ExactIs DEF Explainable
<1>4. /\ satF \in SUBSET reachable /\ satF # {} /\ Delivers(satF, sat)
      /\ satF \subseteq Exact(form[2]) /\ satF \subseteq Exact(form[3])
  BY <1>1, <1>2, <1>3 DEF IsTrue, satF, Delivers
<1>5. t \in Tasks /\ Fits(t) /\ t.do = "explain" /\ t.states = satF
  <2>1. t = [do |-> "explain", states |-> satF, formula |-> form[2], said |-> TRUE, of |-> form[1]]
    BY <1>2 DEF Call, Task
  <2> HIDE DEF t
  <2>. QED
    BY <1>2, <1>3, <1>4, <2>1, CallTrue
<1>6. u \in Tasks /\ Fits(u) /\ u.do = "again" /\ u.formula = form[3]
  <2>1. u = [do |-> "again", states |-> {}, formula |-> form[3], said |-> TRUE, of |-> form[1]]
    BY <1>2 DEF CallAgain, Task
  <2> HIDE DEF u
  <2>. QED
    BY <1>2, <1>3, <2>1, CallTrue
<1>7. UNCHANGED findPath /\ paths' = paths /\ Traced(paths')
  BY <1>1 DEF NoSearch, ExplainInv
<1> HIDE DEF t, u
<1>8. Delivers(IF u.do \in {"again", "aside"} THEN t.states ELSE u.states, sat)
  BY <1>4, <1>5, <1>6
<1>. QED
  BY <1>1, <1>4, <1>5, <1>6, <1>7, <1>8, ContinuingTwo

(* A conjunction that is false: one operand is false everywhere, or both   *)
(* hold somewhere but never in the same state.                             *)
LEMMA NoAndStep ==
  ASSUME FormsAreAll, ExplainInv, ExplainNoAnd
  PROVE  ExplainInv'
<1> DEFINE a == Call(sat, form[2], FALSE)
           b == Call(sat, form[3], FALSE)
           t == Call(sat, form[2], TRUE)
           u == Call(sat, form[3], TRUE)
           v == Return(sat)
<1>1. /\ Explaining({"AND"}) /\ ~IsTrue /\ NoSearch
      /\ Continue(IF left \cap sat = {} THEN <<a>> ELSE IF right \cap sat = {} THEN <<b>>
                  ELSE <<t, u, v>>)
  BY DEF ExplainNoAnd
<1>2. /\ todo # <<>> /\ form \in Forms /\ form \in Explainable /\ form[1] = "AND"
      /\ sat \in SUBSET reachable /\ Kept
      /\ form \notin Eforms => sat \subseteq Exact(form) \/ sat = reachable
  BY <1>1, CallFacts
<1>3. /\ form[3] \in Eforms /\ form[3] \in Explainable /\ form[2] \in Explainable
      /\ Exact(form) = Exact(form[2]) \cap Exact(form[3])
      /\ form \in Eforms => form[2] \in Eforms
  BY <1>2, ExplainableParts, ExactIs, EformsBuilt DEF Explainable, Leaves
<1>4. form[2] \in Eforms \/ sat \subseteq Exact(form[2]) \/ sat = reachable
  BY <1>2, <1>3
<1>5. UNCHANGED findPath /\ paths' = paths /\ Traced(paths')
  BY <1>1 DEF NoSearch, ExplainInv
<1>6. Delivers(sat, sat)
  BY DEF Delivers
<1>7. CASE left \cap sat = {}
  <2>1. a = [do |-> "explain", states |-> sat, formula |-> form[2], said |-> FALSE, of |-> form[1]]
    BY <1>2 DEF Call, Task
  <2> HIDE DEF a
  <2>2. sat \cap Exact(form[2]) = {}
    BY <1>7 DEF left
  <2>3. a \in Tasks /\ Fits(a) /\ a.do = "explain" /\ a.states = sat
    BY <1>2, <1>3, <1>4, <2>1, <2>2, CallFalse
  <2>. QED
    BY <1>1, <1>5, <1>6, <1>7, <2>3, ContinuingOne
<1>8. CASE left \cap sat # {} /\ right \cap sat = {}
  <2>1. b = [do |-> "explain", states |-> sat, formula |-> form[3], said |-> FALSE, of |-> form[1]]
    BY <1>2 DEF Call, Task
  <2> HIDE DEF b
  <2>2. sat \cap Exact(form[3]) = {}
    BY <1>8 DEF right
  <2>3. form[3] \in Eforms /\ form[3] \in Explainable
    BY <1>3
  <2>4. todo # <<>> /\ form \in Forms /\ sat \in SUBSET reachable /\ Kept
    BY <1>2
  <2>5. b \in Tasks /\ Fits(b) /\ b.do = "explain" /\ b.states = sat
    BY <2>1, <2>2, <2>3, <2>4, CallFalse
  <2>. QED
    BY <1>1, <1>5, <1>6, <1>8, <2>5, ContinuingOne
<1>9. CASE left \cap sat # {} /\ right \cap sat # {}
  <2>1. /\ t = [do |-> "explain", states |-> sat, formula |-> form[2], said |-> TRUE, of |-> form[1]]
        /\ u = [do |-> "explain", states |-> sat, formula |-> form[3], said |-> TRUE, of |-> form[1]]
    BY <1>2 DEF Call, Task
  <2>2. v \in Tasks /\ Fits(v) /\ v.do = "return" /\ v.states = sat
    BY <1>2, ReturnFits
  <2> HIDE DEF t, u, v
  <2>3. sat \cap Exact(form[2]) # {} /\ sat \cap Exact(form[3]) # {}
    BY <1>9 DEF left, right
  <2>4. t \in Tasks /\ Fits(t) /\ t.do = "explain"
    BY <1>2, <1>3, <1>4, <2>1, <2>3, CallTrue
  <2>5. u \in Tasks /\ Fits(u) /\ u.do = "explain"
    BY <1>2, <1>3, <2>1, <2>3, CallTrue
  <2>. QED
    BY <1>1, <1>5, <1>6, <1>9, <2>2, <2>4, <2>5, ContinuingThree
<1>. QED
  BY <1>7, <1>8, <1>9

(* An implication that is true.                                            *)
LEMMA ThenStep ==
  ASSUME FormsAreAll, ExplainInv, ExplainThen
  PROVE  ExplainInv'
<1> DEFINE a == Call(left \cap sat, form[2], FALSE)
           b == Call(right \cap sat, form[2], TRUE)
<1>1. /\ Explaining({"THEN"}) /\ NoSearch
      /\ Continue(IF left \cap sat # {} THEN <<a>> ELSE <<b>>)
  BY DEF ExplainThen
<1>2. /\ todo # <<>> /\ form \in Forms /\ form \in Explainable /\ form[1] = "THEN"
      /\ sat \in SUBSET reachable /\ Kept
  BY <1>1, CallFacts
<1>3. form[2] \in Eforms /\ form[2] \in Explainable
  BY <1>2, ExplainableParts DEF Explainable
<1>4. /\ left \cap sat \in SUBSET reachable /\ right \cap sat \in SUBSET reachable
      /\ left \cap sat # {} => Delivers(left \cap sat, sat)
  BY <1>2 DEF Delivers
<1>5. Delivers(right \cap sat, sat)
  <2>1. Implied
    BY <1>1, <1>2, AtCall DEF Implied
  <2>. QED
    BY <2>1 DEF Delivers
<1>6. UNCHANGED findPath /\ paths' = paths /\ Traced(paths')
  BY <1>1 DEF NoSearch, ExplainInv
<1>7. CASE left \cap sat # {}
  <2>1. a = [do |-> "explain", states |-> left \cap sat, formula |-> form[2], said |-> FALSE,
             of |-> form[1]]
    BY <1>2 DEF Call, Task
  <2> HIDE DEF a
  <2>2. a \in Tasks /\ Fits(a) /\ a.do = "explain" /\ a.states = left \cap sat
    BY <1>2, <1>3, <1>4, <2>1, CallFalse
  <2>. QED
    BY <1>1, <1>4, <1>6, <1>7, <2>2, ContinuingOne
<1>8. CASE left \cap sat = {}
  <2>1. b = [do |-> "explain", states |-> right \cap sat, formula |-> form[2], said |-> TRUE,
             of |-> form[1]]
    BY <1>2 DEF Call, Task
  <2> HIDE DEF b
  <2>2. b \in Tasks /\ Fits(b) /\ b.do = "explain" /\ b.states = right \cap sat
    BY <1>2, <1>3, <1>4, <2>1, CallTrue
  <2>. QED
    BY <1>1, <1>5, <1>6, <1>8, <2>2, ContinuingOne
<1>. QED
  BY <1>7, <1>8

(* A disjunction that is true.                                             *)
LEMMA OrStep ==
  ASSUME FormsAreAll, ExplainInv, ExplainOr
  PROVE  ExplainInv'
<1> DEFINE a == Call(left \cap sat, form[2], TRUE)
           b == Call(right \cap sat, form[2], TRUE)
<1>1. /\ Explaining({"OR"}) /\ IsTrue /\ NoSearch
      /\ Continue(IF left \cap sat # {} THEN <<a>> ELSE <<b>>)
  BY DEF ExplainOr
<1>2. /\ todo # <<>> /\ form \in Forms /\ form \in Explainable /\ form[1] = "OR"
      /\ sat \in SUBSET reachable /\ Kept
  BY <1>1, CallFacts
<1>3. form[2] \in Eforms /\ form[2] \in Explainable /\ Exact(form) = left \cup right
  BY <1>2, ExplainableParts, ExactIs DEF Explainable, left, right
<1>4. /\ left \cap sat \in SUBSET reachable /\ right \cap sat \in SUBSET reachable
      /\ left \cap sat # {} => Delivers(left \cap sat, sat)
      /\ left \cap sat = {} => Delivers(right \cap sat, sat)
  BY <1>1, <1>2, <1>3 DEF Delivers, IsTrue, satF
<1>5. UNCHANGED findPath /\ paths' = paths /\ Traced(paths')
  BY <1>1 DEF NoSearch, ExplainInv
<1>6. CASE left \cap sat # {}
  <2>1. a = [do |-> "explain", states |-> left \cap sat, formula |-> form[2], said |-> TRUE,
             of |-> form[1]]
    BY <1>2 DEF Call, Task
  <2> HIDE DEF a
  <2>2. a \in Tasks /\ Fits(a) /\ a.do = "explain" /\ a.states = left \cap sat
    BY <1>2, <1>3, <1>4, <2>1, CallTrue
  <2>. QED
    BY <1>1, <1>4, <1>5, <1>6, <2>2, ContinuingOne
<1>7. CASE left \cap sat = {}
  <2>1. b = [do |-> "explain", states |-> right \cap sat, formula |-> form[2], said |-> TRUE,
             of |-> form[1]]
    BY <1>2 DEF Call, Task
  <2> HIDE DEF b
  <2>2. b \in Tasks /\ Fits(b) /\ b.do = "explain" /\ b.states = right \cap sat
    BY <1>2, <1>3, <1>4, <2>1, CallTrue
  <2>. QED
    BY <1>1, <1>4, <1>5, <1>7, <2>2, ContinuingOne
<1>. QED
  BY <1>6, <1>7

(* An implication or a disjunction that is false: both operands are        *)
(* explained.                                                              *)
LEMMA NeitherStep ==
  ASSUME FormsAreAll, ExplainInv, ExplainNeither
  PROVE  ExplainInv'
<1> DEFINE t == Call(sat, form[2], form[1] = "THEN")
           u == Call(sat, form[3], FALSE)
           v == Return(sat)
<1>1. Explaining({"THEN", "OR"}) /\ NoSearch /\ Continue(<<t, u, v>>)
  BY DEF ExplainNeither
<1>2. /\ todo # <<>> /\ form \in Forms /\ form \in Explainable /\ form[1] \in {"THEN", "OR"}
      /\ sat \in SUBSET reachable /\ Kept
  BY <1>1, CallFacts
<1>3. form[2] \in Eforms /\ form[2] \in Explainable /\ form[3] \in Eforms /\ form[3] \in Explainable
  BY <1>2, ExplainableParts DEF Explainable
<1>4. t \in Tasks /\ Fits(t) /\ t.do = "explain"
  <2>1. CASE form[1] = "THEN"
    <3>1. t = [do |-> "explain", states |-> sat, formula |-> form[2], said |-> TRUE, of |-> form[1]]
      BY <1>2, <2>1 DEF Call, Task
    <3> HIDE DEF t
    <3>. QED
      BY <1>2, <1>3, <3>1, CallTrue
  <2>2. CASE form[1] # "THEN"
    <3>1. t = [do |-> "explain", states |-> sat, formula |-> form[2], said |-> FALSE, of |-> form[1]]
      BY <1>2, <2>2 DEF Call, Task
    <3> HIDE DEF t
    <3>. QED
      BY <1>2, <1>3, <3>1, CallFalse
  <2>. QED
    BY <2>1, <2>2
<1>5. u \in Tasks /\ Fits(u) /\ u.do = "explain"
  <2>1. u = [do |-> "explain", states |-> sat, formula |-> form[3], said |-> FALSE, of |-> form[1]]
    BY <1>2 DEF Call, Task
  <2> HIDE DEF u
  <2>. QED
    BY <1>2, <1>3, <2>1, CallFalse
<1>6. v \in Tasks /\ Fits(v) /\ v.do = "return" /\ v.states = sat
  BY <1>2, ReturnFits
<1>7. UNCHANGED findPath /\ paths' = paths /\ Traced(paths')
  BY <1>1 DEF NoSearch, ExplainInv
<1> HIDE DEF t, u, v
<1>8. Delivers(v.states, sat)
  BY <1>6 DEF Delivers
<1>. QED
  BY <1>1, <1>4, <1>5, <1>6, <1>7, <1>8, ContinuingThree

(* EX is false: no successor satisfies its operand.                        *)
LEMMA NoEXStep ==
  ASSUME FormsAreAll, ExplainInv, ExplainNoEX
  PROVE  ExplainInv'
<1> DEFINE t == Call(Post(next, sat), form[2], FALSE)
           v == Return(sat)
<1>1. Explaining({"EX"}) /\ ~IsTrue /\ NoSearch /\ Continue(<<t, v>>)
  BY DEF ExplainNoEX
<1>2. /\ todo # <<>> /\ form \in Forms /\ form \in Explainable /\ form[1] = "EX"
      /\ sat \in SUBSET reachable /\ Kept
  BY <1>1, CallFacts
<1>3. /\ form[2] \in Eforms /\ form[2] \in Explainable
      /\ Exact(form) = {s \in reachable : After(s) \cap Exact(form[2]) # {}}
  BY <1>2, ExplainableParts, ExactIs DEF Explainable
<1>4. /\ Post(next, sat) \in SUBSET reachable
      /\ \A x \in Post(next, sat) : \E s \in sat : x \in After(s)
  BY <1>2 DEF Kept, Closed, Post, After
<1>5. Post(next, sat) \cap Exact(form[2]) = {}
  BY <1>1, <1>2, <1>3, <1>4 DEF IsTrue, satF
<1>6. t \in Tasks /\ Fits(t) /\ t.do = "explain"
  <2>1. t = [do |-> "explain", states |-> Post(next, sat), formula |-> form[2], said |-> FALSE,
             of |-> form[1]]
    BY <1>2 DEF Call, Task
  <2>2. todo # <<>> /\ form \in Forms /\ Kept /\ form[2] \in Eforms /\ form[2] \in Explainable
    BY <1>2, <1>3
  <2> HIDE DEF t
  <2>. QED
    BY <1>4, <1>5, <2>1, <2>2, CallFalse
<1>7. v \in Tasks /\ Fits(v) /\ v.do = "return" /\ v.states = sat
  BY <1>2, ReturnFits
<1>8. UNCHANGED findPath /\ paths' = paths /\ Traced(paths')
  BY <1>1 DEF NoSearch, ExplainInv
<1> HIDE DEF t, v
<1>9. Delivers(IF v.do \in {"again", "aside"} THEN t.states ELSE v.states, sat)
  BY <1>7 DEF Delivers
<1>. QED
  BY <1>1, <1>6, <1>7, <1>8, <1>9, ContinuingTwo

(* What the transition of EX leads to, and the states that it comes from.  *)
LEMMA OneStep ==
  ASSUME Kept, next = NextRel(trans), NEW S \in SUBSET reachable, NEW L \in SUBSET reachable,
         NEW n \in FirstName(S, L)
  PROVE  LET target == Post(trans[n], S) \cap L
             init == Post(predRel_, target) \cap S
         IN  /\ target \in SUBSET reachable /\ target # {}
             /\ init \in SUBSET reachable /\ init # {}
             /\ target \subseteq Played(trans, <<n>>, States, init)
<1> SUFFICES ASSUME NEW target, target = Post(trans[n], S) \cap L,
                    NEW init, init = Post(predRel_, target) \cap S
             PROVE  /\ target \in SUBSET reachable /\ target # {}
                    /\ init \in SUBSET reachable /\ init # {}
                    /\ target \subseteq Played(trans, <<n>>, States, init)
  OBVIOUS
<1>1. n \in Names /\ target # {} /\ target \in SUBSET reachable /\ reachable \in SUBSET States
  BY DEF FirstName, Kept
<1>2. Post(predRel_, target) = {s \in reachable : After(s) \cap target # {}}
  BY <1>1, BeforeIs
<1>3. ASSUME NEW t \in target
      PROVE  \E s \in init : <<s, t>> \in trans[n]
  <2>1. PICK s \in S : <<s, t>> \in trans[n]
    BY DEF Post
  <2>2. <<s, t>> \in next /\ t \in States
    BY <1>1, <2>1 DEF NextRel
  <2>3. t \in After(s)
    BY <2>2 DEF After, Post
  <2>. QED
    BY <1>2, <2>1, <2>3
<1>4. init \in SUBSET States
  BY <1>1
<1> DEFINE layer == <<init, target>>
<1>5. /\ Len(<<n>>) = 1 /\ Len(<<n>>) \in Nat /\ layer[1] \subseteq init /\ layer[2] = target
      /\ layer[1] = init /\ <<n>>[1] = n
  OBVIOUS
<1>6. \A i \in 1 .. Len(<<n>>) : layer[i + 1] \subseteq Post(trans[<<n>>[i]], layer[i]) \cap States
  <2>1. target \subseteq Post(trans[n], init) \cap States
    BY <1>1, <1>3 DEF Post
  <2>2. \A i \in 1 .. 1 : i = 1
    OBVIOUS
  <2> HIDE DEF layer
  <2>3. layer[1 + 1] \subseteq Post(trans[<<n>>[1]], layer[1]) \cap States
    <3>1. 1 + 1 = 2 /\ layer[2] = target /\ layer[1] = init /\ <<n>>[1] = n
      BY <1>5
    <3>2. layer[2] \subseteq Post(trans[<<n>>[1]], layer[1]) \cap States
      BY <2>1, <3>1
    <3>. QED
      BY <3>1, <3>2
  <2>. QED
    BY <1>5, <2>2, <2>3
<1> HIDE DEF layer
<1>7. layer[Len(<<n>>) + 1] \subseteq Played(trans, <<n>>, States, init)
  BY <1>4, <1>5, <1>6, LayersArePlayed
<1>8. layer[Len(<<n>>) + 1] = target
  BY <1>5
<1>. QED
  BY <1>1, <1>3, <1>7, <1>8

(* EX is true: one transition is shown, and its ends are what the text     *)
(* says.                                                                   *)
LEMMA EXStep ==
  ASSUME FormsAreAll, ExplainInv, ExplainEX
  PROVE  ExplainInv'
<1>1. Explaining({"EX"}) /\ IsTrue /\ UNCHANGED findPath
  BY DEF ExplainEX
<1>2. /\ todo # <<>> /\ form \in Forms /\ form \in Explainable /\ form[1] = "EX"
      /\ sat \in SUBSET reachable /\ Kept /\ Traced(paths)
  BY <1>1, CallFacts
<1>3. PICK n \in FirstName(satF, left) :
        LET target == Post(trans[n], satF) \cap left
            init == Post(predRel_, target) \cap satF
        IN  /\ Continue(<<Call(target, form[2], TRUE), Return(init)>>)
            /\ paths' = paths \cup {[why |-> "EX", formula |-> form, found |-> TRUE,
                                     layers |-> <<init, target>>, names |-> <<n>>]}
  BY DEF ExplainEX
<1> DEFINE target == Post(trans[n], satF) \cap left
           init == Post(predRel_, target) \cap satF
           t == Call(target, form[2], TRUE)
           v == Return(init)
           p == [why |-> "EX", formula |-> form, found |-> TRUE,
                 layers |-> <<init, target>>, names |-> <<n>>]
<1>4. Continue(<<t, v>>) /\ paths' = paths \cup {p}
  BY <1>3
<1>5. form[2] \in Eforms /\ form[2] \in Explainable /\ Exact(form[2]) \in SUBSET reachable
  BY <1>2, ExplainableParts, ExactIs DEF Explainable
<1>6. satF \in SUBSET reachable /\ left \in SUBSET reachable
  BY <1>2, <1>5 DEF satF, left
<1>7. /\ target \in SUBSET reachable /\ target # {} /\ init \in SUBSET reachable /\ init # {}
      /\ target \subseteq Played(trans, <<n>>, States, init)
  <2>1. next = NextRel(trans)
    BY <1>1, <1>2, AtTask, AtCall
  <2>2. n \in FirstName(satF, left) /\ Kept
    BY <1>2, <1>3
  <2>. QED
    BY <1>6, <2>1, <2>2, OneStep
<1>8. target \subseteq Exact(form[2]) /\ init \subseteq sat
  BY DEF left, satF
<1>9. t \in Tasks /\ Fits(t) /\ t.do = "explain"
  <2>1. t = [do |-> "explain", states |-> target, formula |-> form[2], said |-> TRUE, of |-> form[1]]
    BY <1>2 DEF Call, Task
  <2> HIDE DEF t, target
  <2>2. target \cap Exact(form[2]) # {}
    BY <1>7, <1>8
  <2>3. todo # <<>> /\ form \in Forms /\ Kept /\ form[2] \in Eforms /\ form[2] \in Explainable
    BY <1>2, <1>5
  <2>. QED
    BY <1>7, <2>1, <2>2, <2>3, CallTrue
<1>10. v \in Tasks /\ Fits(v) /\ v.do = "return" /\ v.states = init
  BY <1>2, <1>7, ReturnFits
<1>11. IsTrace(p) /\ p.why # "dead"
  <2>1. p.why = "EX" /\ p.found /\ p.names = <<n>> /\ p.layers[1] = init /\ p.formula = form
    OBVIOUS
  <2> HIDE DEF p, init, target
  <2>2. EndOf(p) = Played(trans, <<n>>, States, init)
    BY <2>1 DEF EndOf
  <2>3. Promised(p) = Exact(form[2])
    BY <2>1 DEF Promised
  <2>. QED
    BY <1>7, <1>8, <2>1, <2>2, <2>3 DEF IsTrace
<1> HIDE DEF t, v, p, init
<1>12. Delivers(IF v.do \in {"again", "aside"} THEN t.states ELSE v.states, sat)
  BY <1>7, <1>8, <1>10 DEF Delivers
<1>13. Traced(paths')
  BY <1>2, <1>4, <1>11 DEF Traced
<1>14. v.do # "again"
  BY <1>10
<1>. QED
  BY <1>1, <1>4, <1>9, <1>10, <1>12, <1>13, <1>14, ContinuingTwo

(* A call that searches.                                                   *)
LEMMA Searching ==
  ASSUME FormsAreAll, ExplainInv, NEW types, Explaining(types), "CMP" \notin types,
         UNCHANGED paths, NEW t \in Tasks, t.do \in Shows \ {"dead", "cycle"},
         NEW i \in SUBSET reachable, NEW g \in SUBSET States, NEW r \in SUBSET States,
         g # {} => r # {}, Find(i, g, r, TRUE),
         Searched(t, [init |-> i, toreach |-> g, reach |-> r, pot |-> States, precise |-> TRUE]),
         Delivers(IF t.do \in {"EU", "EG", "notEG"} THEN i ELSE t.states, sat),
         Continue(<<t>>)
  PROVE  ExplainInv'
<1>1. /\ todo # <<>> /\ fpc = "done" /\ Head(todo).do = "explain"
      /\ Handed(todo, result, args) = sat /\ UNCHANGED vars /\ CallsAgree(calls')
      /\ calls \subseteq calls' /\ Head(todo) \in calls'
  BY AtCall
<1>2. trans \in Systems /\ trans' = trans /\ i \in SUBSET States
  BY <1>1, AtTask DEF vars, trans, Kept
<1>3. /\ Looking' /\ fpc' = "start"
      /\ args' = [init |-> i, toreach |-> g, reach |-> r, pot |-> States, precise |-> TRUE]
  BY <1>2, FindStarts
<1>4. <<t>> \in Seq(Tasks) /\ <<t>> # <<>> /\ Head(<<t>>) = t /\ Len(<<t>>) = 1
  OBVIOUS
<1>5. Handed(<<t>>, result, args') = IF t.do \in {"EU", "EG", "notEG"} THEN i ELSE t.states
  BY <1>3, <1>4 DEF Handed, Shows
<1>6. Joins(<<t>>, result, args', sat)
  BY <1>5, JoinsByOne
<1>7. todo' = <<t>> \o Tail(todo) /\ result' = result
  BY DEF Continue
<1>8. Traced(paths')
  BY DEF ExplainInv
<1> DEFINE ts == <<t>>
<1>9. /\ ts \in Seq(Tasks) /\ ts # <<>> /\ Head(ts).do \notin {"again", "dead"}
      /\ Head(ts).do \in Shows /\ Searched(Head(ts), args')
      /\ \A j \in 2 .. Len(ts) : Fits(ts[j])
      /\ Joins(ts, result, args', Handed(todo, result, args))
      /\ todo' = ts \o Tail(todo)
  BY <1>1, <1>3, <1>4, <1>6, <1>7 DEF Shows
<1> HIDE DEF ts
<1>10. fpc' # "done" /\ Head(todo).do # "dead"
  BY <1>1, <1>3
<1>. QED
  BY <1>1, <1>3, <1>7, <1>8, <1>9, <1>10, Replacing

(* Without --fair-time, the steps are the transitions.                     *)
LEMMA NextOfCall ==
  ASSUME FormsAreAll, ExplainInv, NEW types, Explaining(types)
  PROVE  /\ next = NextRel(trans) /\ InitialState = InitialStates
         /\ reachable = Fixpoint(next, InitialState)
<1>1. todo # <<>> /\ Head(todo).do # "dead"
  BY DEF Explaining, Ready
<1>. QED
  BY <1>1, AtTask

(* The states that satisfy an until can reach its goal.                    *)
LEMMA UntilIsBackward ==
  ASSUME next = NextRel(trans), NEW a \in SUBSET States, NEW b \in SUBSET States
  PROVE  Until(a, b) \subseteq Backward(b, a)
<1>1. /\ Backward(b, a) \in SUBSET States /\ b \subseteq Backward(b, a)
      /\ Pre(next, Backward(b, a)) \cap a \subseteq Backward(b, a)
  BY BackwardIs
<1>2. UntilStep(a, b, Backward(b, a)) \subseteq Backward(b, a)
  BY <1>1 DEF UntilStep
<1>. QED
  BY <1>1, <1>2, UntilIs

(* The states reached through states of the left child.                    *)
LEMMA ReachableAIs ==
  ASSUME Kept, next = NextRel(trans), left \in SUBSET reachable, NEW S \in SUBSET reachable,
         S \subseteq left
  PROVE  /\ ReachableA(S) \in SUBSET States /\ ReachableA(S) \in SUBSET reachable
         /\ S \subseteq ReachableA(S) /\ ReachableA(S) \subseteq left
         /\ \A s \in ReachableA(S) : After(s) \cap left \subseteq ReachableA(S)
         /\ \A X \in SUBSET States :
               S \subseteq X /\ (\A s \in X : After(s) \cap left \subseteq X)
                 => ReachableA(S) \subseteq X
         /\ \A T \in SUBSET States :
               ReachableA(S) \cap Backward(T, ReachableA(S)) # {}
                 => S \cap Backward(T, ReachableA(S)) # {}
<1> DEFINE h == Within(next, left)
           A == ReachableA(S)
<1>1. S \in SUBSET States /\ left \in SUBSET States /\ A = Fixpoint(h, S)
  BY DEF Kept, ReachableA
<1>2. A \in SUBSET States /\ S \subseteq A /\ Closed(h, A)
  BY <1>1, FixpointTyped, FixpointContains, FixpointClosed
<1>3. ASSUME NEW X \in SUBSET States
      PROVE  Closed(h, X) <=> \A s \in X : After(s) \cap left \subseteq X
  BY <1>1 DEF Closed, Post, Within, After
<1>4. ASSUME NEW X \in SUBSET States, S \subseteq X, \A s \in X : After(s) \cap left \subseteq X
      PROVE  A \subseteq X
  BY <1>1, <1>3, <1>4, FixpointLeast
<1>5. A \subseteq left
  BY <1>1, <1>4
<1>6. h \subseteq NextRel(trans)
  BY DEF Within
<1>7. ASSUME NEW T \in SUBSET States, A \cap Backward(T, A) # {}
      PROVE  S \cap Backward(T, A) # {}
  <2> HIDE DEF h
  <2>. QED
    BY <1>1, <1>6, <1>7, FixpointBacktracks
<1> HIDE DEF h, A
<1>. QED
  BY <1>2, <1>3, <1>4, <1>5, <1>7 DEF A

(* A state with a successor in the goal can reach it.                      *)
LEMMA BackwardByOne ==
  ASSUME next = NextRel(trans), NEW R, NEW T \in SUBSET States,
         NEW s \in R, s \in States, NEW t \in After(s), t \in T
  PROVE  s \in Backward(T, R)
<1>1. /\ T \subseteq Backward(T, R) /\ Pre(next, Backward(T, R)) \cap R \subseteq Backward(T, R)
  BY BackwardIs
<1>2. s \in Pre(next, Backward(T, R))
  BY <1>1 DEF Pre, After, Post
<1>. QED
  BY <1>1, <1>2

(* A trace that is to be shown.                                            *)
LEMMA ShowIs ==
  ASSUME FormsAreAll, todo # <<>>, form \in Forms, NEW reason \in Shows, NEW S \in SUBSET States
  PROVE  LET w == Show(reason, form, S)
         IN  w \in Tasks /\ w.do = reason /\ w.states = S /\ w.formula = form
<1>1. form[1] \in Leaves \cup Unary \cup Binary
  BY Children
<1>2. Show(reason, form, S)
        = [do |-> reason, states |-> S, formula |-> form, said |-> TRUE, of |-> form[1]]
  BY DEF Show, Task
<1> DEFINE w == Show(reason, form, S)
<1>3. w.do = reason /\ w.states = S /\ w.formula = form
  BY <1>2
<1>4. w \in Tasks
  BY <1>1, <1>2 DEF Tasks
<1>. QED
  BY <1>3, <1>4

(* EU is true: in some of the states already, or a path is searched for    *)
(* from all those that satisfy it.                                         *)
LEMMA EUStep ==
  ASSUME FormsAreAll, ExplainInv, ExplainEU
  PROVE  ExplainInv'
<1> DEFINE satB == satF \cap right
           t == Call(satB, form[3], TRUE)
           v == Return(sat)
           w == Show("EU", form, sat)
<1>1. /\ Explaining({"EU"}) /\ IsTrue
      /\ satB # {} => NoSearch /\ Continue(<<t, v>>)
      /\ satB = {} => Continue(<<w>>) /\ Search(satF, right, left)
  BY DEF ExplainEU
<1>2. /\ todo # <<>> /\ form \in Forms /\ form \in Explainable /\ form[1] = "EU"
      /\ sat \in SUBSET reachable /\ reachable \in SUBSET States /\ Kept
  BY <1>1, CallFacts
<1>3. /\ form[2] \in Eforms /\ form[3] \in Eforms /\ form[2] \in Explainable /\ form[3] \in Explainable
      /\ Exact(form) = Until(left, right)
      /\ left \in SUBSET reachable /\ right \in SUBSET reachable
  BY <1>2, ExplainableParts, ExactIs DEF Explainable, left, right
<1>4. satF \in SUBSET reachable /\ satF # {} /\ Delivers(satF, sat) /\ satF \subseteq Exact(form)
  BY <1>1, <1>2 DEF IsTrue, satF, Delivers
<1>5. CASE satB # {}
  <2>1. t \in Tasks /\ Fits(t) /\ t.do = "explain"
    <3>1. t = [do |-> "explain", states |-> satB, formula |-> form[3], said |-> TRUE, of |-> form[1]]
      BY <1>2 DEF Call, Task
    <3>2. satB \in SUBSET reachable /\ satB \cap Exact(form[3]) # {}
      BY <1>4, <1>5 DEF right
    <3> HIDE DEF t, satB
    <3>. QED
      BY <1>2, <1>3, <3>1, <3>2, CallTrue
  <2>2. v \in Tasks /\ Fits(v) /\ v.do = "return" /\ v.states = sat
    BY <1>2, ReturnFits
  <2>3. NoSearch /\ Continue(<<t, v>>)
    BY <1>1, <1>5
  <2>4. UNCHANGED findPath /\ paths' = paths /\ Traced(paths')
    BY <2>3 DEF NoSearch, ExplainInv
  <2> HIDE DEF t, v
  <2>5. Delivers(IF v.do \in {"again", "aside"} THEN t.states ELSE v.states, sat) /\ v.do # "again"
    BY <2>2 DEF Delivers
  <2>. QED
    BY <1>1, <2>1, <2>2, <2>3, <2>4, <2>5, ContinuingTwo
<1>6. CASE satB = {}
  <2> DEFINE a == [init |-> satF, toreach |-> right, reach |-> left, pot |-> States, precise |-> TRUE]
  <2>3. w \in Tasks /\ w.do = "EU" /\ w.states = sat /\ w.formula = form
    <3>1. "EU" \in Shows /\ sat \in SUBSET States
      BY <1>2 DEF Shows
    <3>. QED
      BY <1>2, <3>1, ShowIs
  <2>4. next = NextRel(trans) /\ left \in SUBSET States /\ right \in SUBSET States
    BY <1>1, <1>2, <1>3, NextOfCall
  <2>5. satF \cap Backward(right, left) # {}
    BY <1>3, <1>4, <2>4, UntilIsBackward
  <2>6. left # {}
    <3>1. ASSUME left = {}
          PROVE  Until(left, right) \subseteq right
      BY <2>4, <3>1, UntilIs DEF UntilStep
    <3>. QED
      BY <1>3, <1>4, <1>6, <3>1
  <2>7. satF \subseteq Exact(form) \ Exact(form[3]) /\ right = Exact(form[3])
    BY <1>4, <1>6 DEF right
  <2>8. Continue(<<w>>) /\ Find(satF, right, left, TRUE) /\ UNCHANGED paths
    BY <1>1, <1>6 DEF Search
  <2> HIDE DEF w, satB
  <2>9. Searched(w, a)
    BY <1>2, <1>4, <2>3, <2>5, <2>7 DEF Searched, Hopeful
  <2>10. Delivers(IF w.do \in {"EU", "EG", "notEG"} THEN satF ELSE w.states, sat)
    BY <1>4, <2>3
  <2>11. w.do \in Shows \ {"dead", "cycle"}
    BY <2>3 DEF Shows
  <2>. QED
    BY <1>1, <1>4, <2>3, <2>4, <2>6, <2>8, <2>9, <2>10, <2>11, Searching
<1>. QED
  BY <1>5, <1>6

(* A call that makes another, of a formula that is false.                  *)
LEMMA CallingFalse ==
  ASSUME FormsAreAll, ExplainInv, NEW types, Explaining(types), "CMP" \notin types, NoSearch,
         NEW S \in SUBSET reachable, NEW g \in Eforms, S \cap Exact(g) = {}, Delivers(S, sat),
         Continue(<<Call(S, g, FALSE)>>)
  PROVE  ExplainInv'
<1> DEFINE t == Call(S, g, FALSE)
<1>1. todo # <<>> /\ form \in Forms /\ Kept /\ g \in Explainable
  BY CallFacts DEF Explainable
<1>2. t = [do |-> "explain", states |-> S, formula |-> g, said |-> FALSE, of |-> form[1]]
  BY <1>1 DEF Call, Task
<1>3. Continue(<<t>>) /\ UNCHANGED findPath /\ paths' = paths /\ Traced(paths')
  BY DEF NoSearch, ExplainInv
<1> HIDE DEF t
<1>4. t \in Tasks /\ Fits(t) /\ t.do = "explain" /\ t.states = S
  BY <1>1, <1>2, CallFalse
<1>. QED
  BY <1>3, <1>4, ContinuingOne

(* A call that makes another, of a formula that is true.                   *)
LEMMA CallingTrue ==
  ASSUME FormsAreAll, ExplainInv, NEW types, Explaining(types), "CMP" \notin types, NoSearch,
         NEW S \in SUBSET reachable, NEW g \in Eforms, S \cap Exact(g) # {}, Delivers(S, sat),
         Continue(<<Call(S, g, TRUE)>>)
  PROVE  ExplainInv'
<1> DEFINE t == Call(S, g, TRUE)
<1>1. todo # <<>> /\ form \in Forms /\ Kept /\ g \in Explainable
  BY CallFacts DEF Explainable
<1>2. t = [do |-> "explain", states |-> S, formula |-> g, said |-> TRUE, of |-> form[1]]
  BY <1>1 DEF Call, Task
<1>3. Continue(<<t>>) /\ UNCHANGED findPath /\ paths' = paths /\ Traced(paths')
  BY DEF NoSearch, ExplainInv
<1> HIDE DEF t
<1>4. t \in Tasks /\ Fits(t) /\ t.do = "explain" /\ t.states = S
  BY <1>1, <1>2, CallTrue
<1>. QED
  BY <1>3, <1>4, ContinuingOne

(* EU is false: no state satisfies the left operand, or none the right     *)
(* one, or there is a cycle in the states that are reached, or none leaves *)
(* them, or there is a path that does.                                     *)
LEMMA NoEUStep ==
  ASSUME FormsAreAll, ExplainInv, ExplainNoEU
  PROVE  ExplainInv'
<1> DEFINE satA == sat \cap left
           A == ReachableA(satA)
           goal == (Post(next, A) \ left) \ right
           w == Show("notEU", form, sat)
<1>1. /\ Explaining({"EU"})
      /\ IF satA = {} THEN Continue(<<Call(sat, form[2], FALSE)>>) /\ NoSearch
         ELSE IF right = {} THEN Continue(<<Call(sat, form[3], FALSE)>>) /\ NoSearch
         ELSE IF GreatestFixpoint(next, A) # {} THEN Returns(satA) /\ NoSearch
         ELSE IF goal = {} THEN Continue(<<Call(satA, form[2], TRUE)>>) /\ NoSearch
         ELSE Continue(<<w>>) /\ Search(satA, goal, A)
  BY DEF ExplainNoEU
<1>2. /\ todo # <<>> /\ form \in Forms /\ form \in Explainable /\ form[1] = "EU"
      /\ sat \in SUBSET reachable /\ reachable \in SUBSET States /\ Kept
  BY <1>1, CallFacts
<1>3. /\ form[2] \in Eforms /\ form[3] \in Eforms /\ form[2] \in Explainable /\ form[3] \in Explainable
      /\ left = Exact(form[2]) /\ right = Exact(form[3])
      /\ left \in SUBSET reachable /\ right \in SUBSET reachable
  BY <1>2, ExplainableParts, ExactIs DEF Explainable, left, right
<1>4. /\ satA \in SUBSET reachable /\ Delivers(sat, sat)
      /\ satA # {} => Delivers(satA, sat)
  BY <1>2 DEF Delivers
<1>5. CASE satA = {}
  <2>1. sat \cap Exact(form[2]) = {} /\ Continue(<<Call(sat, form[2], FALSE)>>) /\ NoSearch
    BY <1>1, <1>3, <1>5
  <2>. QED
    BY <1>1, <1>2, <1>3, <1>4, <2>1, CallingFalse
<1>6. CASE satA # {} /\ right = {}
  <2>1. sat \cap Exact(form[3]) = {} /\ Continue(<<Call(sat, form[3], FALSE)>>) /\ NoSearch
    BY <1>1, <1>3, <1>6
  <2>. QED
    BY <1>1, <1>2, <1>3, <1>4, <2>1, CallingFalse
<1>7. CASE satA # {} /\ right # {} /\ GreatestFixpoint(next, A) # {}
  <2>1. Returns(satA) /\ NoSearch
    BY <1>1, <1>7
  <2> HIDE DEF satA
  <2>. QED
    BY <1>1, <1>4, <1>7, <2>1, CallReturns
<1>8. CASE satA # {} /\ right # {} /\ GreatestFixpoint(next, A) = {} /\ goal = {}
  <2>1. satA \cap Exact(form[2]) # {} /\ Continue(<<Call(satA, form[2], TRUE)>>) /\ NoSearch
    BY <1>1, <1>3, <1>8
  <2> HIDE DEF satA
  <2>. QED
    BY <1>1, <1>3, <1>4, <1>8, <2>1, CallingTrue
<1>9. CASE satA # {} /\ right # {} /\ GreatestFixpoint(next, A) = {} /\ goal # {}
  <2>1. Continue(<<w>>) /\ Find(satA, goal, A, TRUE) /\ UNCHANGED paths
    BY <1>1, <1>9 DEF Search
  <2> DEFINE a == [init |-> satA, toreach |-> goal, reach |-> A, pot |-> States, precise |-> TRUE]
  <2>2. next = NextRel(trans)
    BY <1>1, NextOfCall
  <2>3. w \in Tasks /\ w.do = "notEU" /\ w.states = sat /\ w.formula = form
    <3>1. "notEU" \in Shows /\ sat \in SUBSET States
      BY <1>2 DEF Shows
    <3>. QED
      BY <1>2, <3>1, ShowIs
  <2>4. satA \subseteq left /\ satA # {}
    BY <1>9
  <2> HIDE DEF satA, A
  <2>5. /\ A \in SUBSET States /\ A \in SUBSET reachable /\ satA \subseteq A
        /\ \A T \in SUBSET States : A \cap Backward(T, A) # {} => satA \cap Backward(T, A) # {}
    BY <1>2, <1>3, <1>4, <2>2, <2>4, ReachableAIs DEF A
  <2>6. goal \in SUBSET States /\ goal \subseteq reachable \ (left \cup right)
    BY <1>2, <2>5 DEF Kept, Closed, Post
  <2>7. A \cap Backward(goal, A) # {}
    <3>1. PICK t \in goal, s \in A : <<s, t>> \in next
      BY <1>9 DEF Post
    <3>2. t \in After(s) /\ s \in States
      BY <2>5, <2>6, <3>1 DEF After, Post
    <3> HIDE DEF goal
    <3>3. s \in Backward(goal, A)
      BY <2>2, <2>6, <3>1, <3>2, BackwardByOne
    <3>. QED
      BY <3>1, <3>3
  <2> HIDE DEF goal, w
  <2>8. satA \cap Backward(goal, A) # {}
    BY <2>5, <2>6, <2>7
  <2>9. Searched(w, a)
    BY <1>2, <1>3, <1>4, <2>3, <2>6, <2>8 DEF Searched, Hopeful
  <2>10. Delivers(IF w.do \in {"EU", "EG", "notEG"} THEN satA ELSE w.states, sat)
    BY <1>4, <2>3
  <2>11. w.do \in Shows \ {"dead", "cycle"} /\ (goal # {} => A # {})
    BY <2>3, <2>4, <2>5 DEF Shows
  <2>. QED
    BY <1>1, <1>4, <2>1, <2>3, <2>5, <2>6, <2>9, <2>10, <2>11, Searching
<1>. QED
  BY <1>5, <1>6, <1>7, <1>8, <1>9

(* EG is true: a path to a cycle is searched for; there may be none.       *)
LEMMA EGStep ==
  ASSUME FormsAreAll, ExplainInv, ExplainEG
  PROVE  ExplainInv'
<1> DEFINE scc == SCCHull(ReachableA(satF))
           w == Show("EG", form, scc)
           a == [init |-> satF, toreach |-> scc, reach |-> reachable, pot |-> States,
                 precise |-> TRUE]
<1>1. /\ Explaining({"EG"}) /\ IsTrue /\ Continue(<<w>>)
      /\ Find(satF, scc, reachable, TRUE) /\ UNCHANGED paths
  BY DEF ExplainEG, Search
<1>2. /\ todo # <<>> /\ form \in Forms /\ form \in Explainable /\ form[1] = "EG"
      /\ sat \in SUBSET reachable /\ reachable \in SUBSET States /\ Kept
  BY <1>1, CallFacts
<1>3. /\ form[2] \in Explainable /\ Exact(form) = Globally(left)
      /\ left = Exact(form[2]) /\ left \in SUBSET reachable
  BY <1>2, ExplainableParts, ExactIs DEF Explainable, left
<1>4. satF \in SUBSET reachable /\ satF # {} /\ Delivers(satF, sat) /\ satF \subseteq Exact(form)
  BY <1>1, <1>2 DEF IsTrue, satF, Delivers
<1>5. satF \subseteq left
  <2>1. Globally(left) = LongerStep(left, Globally(left))
    BY <1>2, <1>3, GloballyIs
  <2>2. LongerStep(left, Globally(left)) \subseteq left
    BY DEF LongerStep
  <2>. QED
    BY <1>3, <1>4, <2>1, <2>2
<1>6. next = NextRel(trans)
  BY <1>1, NextOfCall
<1>7. scc \subseteq ReachableA(satF)
  BY DEF SCCHull
<1> HIDE DEF scc
<1>8. scc \in SUBSET left
  BY <1>2, <1>3, <1>4, <1>5, <1>6, <1>7, ReachableAIs
<1>9. scc \in SUBSET States /\ scc \in SUBSET reachable
  BY <1>2, <1>3, <1>8
<1>10. w \in Tasks /\ w.do = "EG" /\ w.states = scc /\ w.formula = form
  <2>1. "EG" \in Shows
    BY DEF Shows
  <2>. QED
    BY <1>2, <1>9, <2>1, ShowIs
<1> HIDE DEF w
<1>11. Searched(w, a)
  BY <1>2, <1>3, <1>4, <1>8, <1>9, <1>10 DEF Searched
<1>12. Delivers(IF w.do \in {"EU", "EG", "notEG"} THEN satF ELSE w.states, sat)
  BY <1>4, <1>10
<1>13. w.do \in Shows \ {"dead", "cycle"} /\ (scc # {} => reachable # {})
  BY <1>9, <1>10 DEF Shows
<1>. QED
  BY <1>1, <1>2, <1>4, <1>9, <1>10, <1>11, <1>12, <1>13, Searching

(* Where EG is false, the states reached through states of the left child  *)
(* are not deadlocks, and one can leave them.                              *)
LEMMA NoEGReaches ==
  ASSUME Kept, next = NextRel(trans), left \in SUBSET reachable, NEW S \in SUBSET reachable,
         S \subseteq left, S # {}, S \cap Globally(left) = {}
  PROVE  LET A == ReachableA(S)
         IN  /\ \A s \in A : After(s) # {}
             /\ A \cap Backward(reachable \ left, A) # {}
<1> DEFINE A == ReachableA(S)
           G == Globally(left)
           Y == A \ G
<1>1. reachable \in SUBSET States /\ left \in SUBSET States /\ reachable \ left \in SUBSET States
  BY DEF Kept
<1>2. /\ G = LongerStep(left, G)
      /\ \A X \in SUBSET States : X \subseteq LongerStep(left, X) => X \subseteq G
  BY <1>1, GloballyIs
<1>3. /\ A \in SUBSET States /\ A \in SUBSET reachable /\ S \subseteq A /\ A \subseteq left
      /\ \A s \in A : After(s) \cap left \subseteq A
      /\ \A X \in SUBSET States :
            S \subseteq X /\ (\A s \in X : After(s) \cap left \subseteq X) => A \subseteq X
  BY ReachableAIs
<1> HIDE DEF A, G
<1>4. ASSUME NEW s \in Y, NEW t \in After(s) \cap left
      PROVE  t \in Y
  <2>1. t \in A /\ s \in left /\ s \notin G
    BY <1>3, <1>4
  <2>2. t \notin G
    BY <1>2, <1>4, <2>1 DEF LongerStep
  <2>. QED
    BY <2>1, <2>2
<1>5. S \subseteq Y /\ Y \in SUBSET States
  BY <1>3 DEF G
<1>6. A \subseteq Y
  BY <1>3, <1>4, <1>5
<1>7. A \cap G = {}
  BY <1>6
<1>8. ASSUME NEW s \in A
      PROVE  After(s) # {}
  BY <1>2, <1>3, <1>7 DEF LongerStep
<1>9. PICK s \in A : \E t \in After(s) : t \notin left
  <2> SUFFICES ASSUME \A s \in A : After(s) \subseteq left
               PROVE  FALSE
    OBVIOUS
  <2>1. \A s \in A : After(s) \cap A # {}
    BY <1>3, <1>8
  <2>2. A \subseteq LongerStep(left, A)
    BY <1>3, <2>1 DEF LongerStep
  <2>. QED
    BY <1>2, <1>3, <1>7, <2>2
<1>10. PICK t \in After(s) : t \notin left
  BY <1>9
<1>11. t \in reachable \ left /\ s \in States
  BY <1>3, <1>10, AfterIs
<1>12. s \in Backward(reachable \ left, A)
  BY <1>1, <1>10, <1>11, BackwardByOne
<1>. QED
  BY <1>8, <1>12 DEF A

(* EG is false: a path to a state that does not satisfy its operand is     *)
(* searched for, and found.                                                *)
LEMMA NoEGStep ==
  ASSUME FormsAreAll, ExplainInv, ExplainNoEG
  PROVE  ExplainInv'
<1> DEFINE satA == sat \cap left
           A == ReachableA(satA)
           deadA == (reachable \ Post(predRel_, reachable)) \cap A
           goal == IF deadA # {} THEN deadA ELSE reachable \ left
           w == Show("notEG", form, sat)
<1>1. /\ Explaining({"EG"}) /\ ~IsTrue
      /\ IF satA = {} THEN Continue(<<Call(sat, form[2], FALSE)>>) /\ NoSearch
         ELSE Continue(<<w>>) /\ Search(satA, goal, A)
  BY DEF ExplainNoEG
<1>2. /\ todo # <<>> /\ form \in Forms /\ form \in Explainable /\ form[1] = "EG"
      /\ sat \in SUBSET reachable /\ reachable \in SUBSET States /\ Kept
  BY <1>1, CallFacts
<1>3. /\ form[2] \in Eforms /\ form[2] \in Explainable /\ Exact(form) = Globally(left)
      /\ left = Exact(form[2]) /\ left \in SUBSET reachable
  BY <1>2, ExplainableParts, ExactIs DEF Explainable, left
<1>4. /\ satA \in SUBSET reachable /\ Delivers(sat, sat)
      /\ satA # {} => Delivers(satA, sat)
  BY <1>2 DEF Delivers
<1>5. CASE satA = {}
  <2>1. sat \cap Exact(form[2]) = {} /\ Continue(<<Call(sat, form[2], FALSE)>>) /\ NoSearch
    BY <1>1, <1>3, <1>5
  <2>. QED
    BY <1>1, <1>2, <1>3, <1>4, <2>1, CallingFalse
<1>6. CASE satA # {}
  <2>1. Continue(<<w>>) /\ Find(satA, goal, A, TRUE) /\ UNCHANGED paths
    BY <1>1, <1>6 DEF Search
  <2> DEFINE away == reachable \ left
             a == [init |-> satA, toreach |-> away, reach |-> A, pot |-> States, precise |-> TRUE]
  <2>2. next = NextRel(trans)
    BY <1>1, NextOfCall
  <2>3. w \in Tasks /\ w.do = "notEG" /\ w.states = sat /\ w.formula = form
    <3>1. "notEG" \in Shows /\ sat \in SUBSET States
      BY <1>2 DEF Shows
    <3>. QED
      BY <1>2, <3>1, ShowIs
  <2>4. satA \subseteq left /\ satA # {} /\ satA \cap Globally(left) = {}
    BY <1>1, <1>3, <1>6 DEF IsTrue, satF
  <2> HIDE DEF satA, A
  <2>5. /\ A \in SUBSET States /\ A \in SUBSET reachable /\ satA \subseteq A
        /\ \A T \in SUBSET States : A \cap Backward(T, A) # {} => satA \cap Backward(T, A) # {}
    BY <1>2, <1>3, <1>4, <2>2, <2>4, ReachableAIs DEF A
  <2>6. /\ \A s \in A : After(s) # {}
        /\ A \cap Backward(away, A) # {}
    BY <1>2, <1>3, <1>4, <2>2, <2>4, NoEGReaches DEF A
  <2>7. deadA = {}
    <3>1. Post(predRel_, reachable) = {s \in reachable : After(s) \cap reachable # {}}
      BY <1>2, BeforeIs
    <3>2. \A s \in A : After(s) \cap reachable # {}
      BY <1>2, <2>5, <2>6, AfterIs
    <3>. QED
      BY <2>5, <3>1, <3>2
  <2>8. goal = away /\ away \in SUBSET States /\ away \subseteq reachable \ left
    BY <1>2, <2>7
  <2>9. Find(satA, away, A, TRUE)
    BY <2>1, <2>8
  <2> HIDE DEF goal, w, deadA, away
  <2>10. satA \cap Backward(away, A) # {}
    BY <2>5, <2>6, <2>8
  <2>11. Searched(w, a)
    BY <1>2, <1>3, <1>4, <2>3, <2>8, <2>10 DEF Searched, Hopeful
  <2>12. Delivers(IF w.do \in {"EU", "EG", "notEG"} THEN satA ELSE w.states, sat)
    BY <1>4, <1>6, <2>3
  <2>13. w.do \in Shows \ {"dead", "cycle"} /\ (away # {} => A # {})
    BY <2>3, <2>4, <2>5 DEF Shows
  <2>. QED
    BY <1>1, <1>4, <2>1, <2>3, <2>5, <2>8, <2>9, <2>11, <2>12, <2>13, Searching
<1>. QED
  BY <1>5, <1>6

(* FwdU: a path is searched for in the states that were reached forward.   *)
LEMMA FwdUStep ==
  ASSUME FormsAreAll, ExplainInv, ExplainFwdU
  PROVE  ExplainInv'
<1> DEFINE all == form[2] = Start /\ form[3] = True
           from == IF all THEN InitialState ELSE left
           R == Exact(form)
           w == Show("FWDU", form, sat)
           a == [init |-> from, toreach |-> sat, reach |-> R, pot |-> States, precise |-> TRUE]
<1>1. /\ Explaining({"FWDU"}) /\ IsTrue /\ Continue(<<w>>)
      /\ Find(from, sat, R, TRUE) /\ UNCHANGED paths
  BY DEF ExplainFwdU, Search
<1>2. /\ todo # <<>> /\ form \in Forms /\ form \in Explainable /\ form[1] = "FWDU"
      /\ sat \in SUBSET reachable /\ reachable \in SUBSET States /\ Kept
      /\ form \notin Eforms => sat \subseteq R \/ sat = reachable
  BY <1>1, CallFacts
<1>3. /\ next = NextRel(trans) /\ reachable = Fixpoint(next, InitialState)
      /\ InitialState \in SUBSET reachable
  BY <1>1, <1>2, NextOfCall DEF Kept
<1>4. /\ form[2] \in Explainable /\ left = Exact(form[2])
      /\ R \in SUBSET reachable
      /\ all => R = reachable
      /\ ~all => \E h \in SUBSET next : R = Fixpoint(h, left)
  BY <1>2, ExplainableParts, ExactIs DEF Explainable, left
<1>5. left \in SUBSET reachable
  BY <1>2, <1>4, ExactIs
<1>6. from \in SUBSET States /\ \E h \in SUBSET next : R = Fixpoint(h, from)
  BY <1>2, <1>3, <1>4, <1>5
<1>7. from \subseteq R /\ (all \/ from \subseteq Exact(form[2]))
  BY <1>4, <1>6, FixpointContains
<1>8. sat \subseteq R \/ sat = reachable
  <2>1. form \notin Eforms
    BY <1>2, EformsBuilt DEF ExistentialTypes
  <2>. QED
    BY <1>2, <2>1
<1> HIDE DEF R, from, all
<1>9. R \cap sat # {}
  BY <1>1 DEF IsTrue, satF, R
<1>10. from \cap Backward(sat, R) # {}
  <2>1. PICK h \in SUBSET next : R = Fixpoint(h, from)
    BY <1>6
  <2>2. sat \in SUBSET States /\ h \subseteq NextRel(trans)
    BY <1>2, <1>3
  <2>3. sat \subseteq Backward(sat, R)
    BY <2>2, BackwardIs
  <2>4. Fixpoint(h, from) \subseteq R /\ Fixpoint(h, from) \cap Backward(sat, R) # {}
    BY <1>9, <2>1, <2>3
  <2>. QED
    BY <1>6, <2>2, <2>4, FixpointBacktracks
<1>11. w \in Tasks /\ w.do = "FWDU" /\ w.states = sat /\ w.formula = form
  <2>1. "FWDU" \in Shows /\ sat \in SUBSET States
    BY <1>2 DEF Shows
  <2>. QED
    BY <1>2, <2>1, ShowIs
<1> HIDE DEF w
<1>12. from \in SUBSET reachable /\ R \in SUBSET States /\ sat \in SUBSET States
  BY <1>2, <1>4, <1>7
<1>13. Searched(w, a)
  BY <1>2, <1>7, <1>8, <1>10, <1>11, <1>12 DEF Searched, Hopeful, all, R
<1>14. Delivers(IF w.do \in {"EU", "EG", "notEG"} THEN from ELSE w.states, sat)
  BY <1>11 DEF Delivers
<1>15. w.do \in Shows \ {"dead", "cycle"} /\ (sat # {} => R # {})
  BY <1>9, <1>11 DEF Shows
<1>. QED
  BY <1>1, <1>11, <1>12, <1>13, <1>14, <1>15, Searching

(* A single task, from which nothing in particular is expected.            *)
LEMMA EndsByOne ==
  ASSUME NEW t, NEW r, NEW a, NEW B \in SUBSET States, Delivers(Handed(<<t>>, r, a), B),
         t.do # "again"
  PROVE  Chained(<<t>>, r, a, B)
<1>1. <<t>> # <<>> /\ Head(<<t>>) = t /\ Tail(<<t>>) = <<>>
  OBVIOUS
<1>2. Leads(B, <<>>, B)
  BY LeadsNowhere
<1>. QED
  BY <1>1, <1>2 DEF Chained

(* A comparison: its operand is explained in all the reachable states.     *)
LEMMA CmpStep ==
  ASSUME FormsAreAll, ExplainInv, ExplainCmp
  PROVE  ExplainInv'
<1> DEFINE t == Call(reachable, form[2], left # {})
<1>1. /\ Explaining({"CMP"}) /\ NoSearch /\ Continue(<<t>>)
      /\ todo # <<>> /\ fpc = "done" /\ Head(todo).do = "explain" /\ form[1] = "CMP"
      /\ calls' = calls \cup {Head(todo)} /\ UNCHANGED vars
  BY DEF ExplainCmp, Explaining, Ready
<1>2. ~Fits(Head(todo)) /\ ~Searched(Head(todo), args)
  <2>1. form \notin Explainable
    BY <1>1, ExplainableParts DEF ExistentialTypes
  <2>. QED
    BY <1>1, <2>1 DEF Fits, Asked, Searched, form
<1>3. /\ todo \in Seq(Tasks) /\ form \in Compared /\ Len(todo) = 1 /\ pc = "formulas" /\ ~cmd.fair
  BY <1>1, <1>2 DEF ExplainInv, Stacked, Occupied, form
<1>4. Kept /\ reachable \in SUBSET States /\ form \in Forms
  BY <1>1, AtTask DEF Kept
<1>5. form[2] \in Explainable /\ left = Exact(form[2]) /\ left \in SUBSET reachable
  BY <1>3, <1>4, ExactIs DEF Compared, Explainable, left
<1>6. t = [do |-> "explain", states |-> reachable, formula |-> form[2], said |-> left # {},
           of |-> form[1]]
  BY <1>1 DEF Call, Task
<1>7. /\ t.do = "explain" /\ t.states = reachable /\ t.formula = form[2] /\ t.said = (left # {})
      /\ t.of = form[1]
  BY <1>6
<1>8. Continue(<<t>>)
  BY <1>1
<1>9. t \in Tasks
  <2>1. form[2] \in Forms /\ form[1] \in Leaves \cup Unary \cup Binary
    BY <1>4, <1>5, Children, ExplainableParts
  <2>2. PICK b \in BOOLEAN : t = [do |-> "explain", states |-> reachable, formula |-> form[2],
                                 said |-> b, of |-> form[1]]
    BY Zenon, <1>6
  <2> HIDE DEF t
  <2>. QED
    BY <1>4, <2>1, <2>2 DEF Tasks
<1> HIDE DEF t
<1>10. Fits(t)
  <2>1. t.said <=> t.states \cap Exact(t.formula) # {}
    BY <1>5, <1>7
  <2>2. t.formula \in Explainable /\ t.states \subseteq reachable /\ t.states = reachable
    BY <1>5, <1>7
  <2>. QED
    BY <1>7, <2>1, <2>2, CallFits
<1>11. todo' = <<t>> /\ result' = result
  <2>1. Tail(todo) \in Seq(Tasks) /\ Len(Tail(todo)) = 0
    BY <1>1, <1>3, HeadTailProperties
  <2>2. Tail(todo) = <<>>
    BY <2>1, EmptySeq
  <2>3. <<t>> \o <<>> = <<t>>
    BY <1>9, ConcatEmptySeq
  <2>. QED
    BY <1>8, <2>2, <2>3 DEF Continue
<1>12. args' = args /\ fpc' = "done" /\ paths' = paths /\ trans' = trans /\ UNCHANGED findPath
  BY <1>1 DEF NoSearch, findPath, vars, trans
<1>13. <<t>> \in Seq(Tasks) /\ <<t>> # <<>> /\ Len(<<t>>) = 1 /\ Head(<<t>>) = t
  BY <1>9
<1>14. t.formula \notin Compared /\ t.do \notin Shows
  <2>1. t.formula[1] # "CMP"
    BY <1>5, <1>7, ExplainableParts DEF ExistentialTypes
  <2>. QED
    BY <1>7, <2>1 DEF Compared, Shows
<1>15. Occupied(todo')
  BY <1>3, <1>7, <1>11, <1>13, <1>14 DEF Occupied
<1>16. Stacked(todo', args')
  BY <1>10, <1>11, <1>13 DEF Stacked
<1>17. Ends(todo', result', args')
  <2>1. Handed(<<t>>, result, args) = reachable
    BY <1>7, <1>13 DEF Handed
  <2>2. Delivers(reachable, reachable) /\ t.do # "again"
    BY <1>7 DEF Delivers
  <2>3. Chained(<<t>>, result, args, reachable)
    BY <1>4, <2>1, <2>2, EndsByOne
  <2>4. ~Judging
    BY <1>3 DEF Judging
  <2>. QED
    BY <1>4, <1>11, <1>12, <2>3, <2>4 DEF Ends
<1>18. Seeking'
  <2>1. Looking'
    BY <1>12, LookingStays DEF ExplainInv, Seeking
  <2>2. Head(todo)'.do \notin Shows /\ fpc' = "done"
    BY <1>11, <1>12, <1>13, <1>14
  <2>. QED
    BY <2>1, <2>2 DEF Seeking
<1>19. CallsAgree(calls')
  <2>1. Head(todo).formula \in Compared
    BY <1>3 DEF form
  <2>. QED
    BY <1>1, <2>1 DEF ExplainInv, CallsAgree
<1>20. Traced(paths') /\ result' \subseteq reachable /\ pc # "start"
  BY <1>3, <1>11, <1>12 DEF ExplainInv
<1>21. Implied => Implied'
  BY <1>1, ImpliedStays
<1>. QED
  BY <1>1, <1>15, <1>16, <1>17, <1>18, <1>19, <1>20, <1>21, InvMoves

(* A step of a search changes nothing else.                                *)
LEMMA SearchStepKeeps ==
  ASSUME FormsAreAll, ExplainInv, SearchStep
  PROVE  ExplainInv'
<1>1. fpc # "done" /\ UNCHANGED vars /\ UNCHANGED <<todo, result, calls, paths>> /\ F!Next
  BY DEF SearchStep, explanation
<1>2. Looking /\ todo # <<>> /\ Head(todo).do \in Shows
  BY <1>1 DEF ExplainInv, Seeking
<1>3. Looking' /\ args' = args /\ (fpc' = "done" => status' \in {"path", "failed"})
  BY <1>1, <1>2, LookingStep
<1>4. Seeking'
  BY <1>1, <1>2, <1>3 DEF Seeking
<1>5. Implied => Implied'
  BY <1>1 DEF Implied, form
<1>6. /\ pc # "start" /\ result' \subseteq reachable /\ Occupied(todo') /\ Stacked(todo', args')
      /\ Ends(todo', result', args') /\ CallsAgree(calls') /\ Traced(paths')
  <2>1. pc # "start" /\ result \subseteq reachable /\ Occupied(todo)
    BY <1>2 DEF ExplainInv, Occupied
  <2>2. Stacked(todo, args) /\ Ends(todo, result, args) /\ CallsAgree(calls) /\ Traced(paths)
    BY DEF ExplainInv
  <2>. QED
    BY <1>1, <1>3, <2>1, <2>2
<1>. QED
  BY <1>1, <1>4, <1>5, <1>6, InvMoves

-----------------------------------------------------------------------------
(* What is known when a search has ended.                                  *)
LEMMA AtPrint ==
  ASSUME FormsAreAll, ExplainInv, NEW reason \in Shows, Ready(reason)
  PROVE  /\ todo # <<>> /\ fpc = "done" /\ Head(todo).do = reason /\ form \in Forms
         /\ Looking /\ status \in {"path", "failed"} /\ Searched(Head(todo), args)
         /\ Kept /\ reachable \in SUBSET States /\ sat \in SUBSET reachable
         /\ pathInit \subseteq args.init /\ (pathInit = {} => args.init = {})
         /\ pathInit \in SUBSET reachable
         /\ pathFinal \subseteq args.toreach /\ pathFinal \in SUBSET States
         /\ status = "path" => pathInit # {} /\ pathFinal # {}
         /\ Hopeful(args) => status = "path"
<1>1. todo # <<>> /\ fpc = "done" /\ Head(todo).do = reason
  BY DEF Ready
<1>2. Looking /\ status \in {"path", "failed"}
  BY <1>1 DEF ExplainInv, Seeking
<1>3. Searched(Head(todo), args)
  <2>1. ~Fits(Head(todo)) /\ Head(todo).do # "explain"
    BY <1>1, FitsIs DEF Shows
  <2>. QED
    BY <1>1, <2>1 DEF ExplainInv, Stacked
<1>4. Kept /\ form \in Forms /\ reachable \in SUBSET States
  BY <1>1, AtTask DEF Kept
<1>5. sat \in SUBSET reachable /\ args.init \in SUBSET reachable
  BY <1>3 DEF Searched, sat
<1>6. /\ pathInit \subseteq args.init /\ (pathInit = {} => args.init = {})
      /\ pathFinal \subseteq args.toreach /\ args.toreach \in SUBSET States
  BY <1>1, <1>2, SearchEnds DEF Looking, F!Arguments
<1>7. status = "path" => pathInit # {} /\ pathFinal # {}
  BY <1>1, <1>2, TraceIsPlayed
<1>8. Hopeful(args) => status = "path"
  BY <1>1, <1>2, SearchSucceeds DEF Hopeful
<1>. QED
  BY <1>1, <1>2, <1>3, <1>4, <1>5, <1>6, <1>7, <1>8

(* The trace that is printed.                                              *)
LEMMA TraceIs ==
  ASSUME FormsAreAll, ExplainInv, NEW reason \in Shows, Ready(reason),
         NEW p, p = [why |-> reason, formula |-> form, found |-> status = "path",
                     layers |-> rev, names |-> witness],
         reason = "EG" \/ status = "path",
         status = "path" => pathFinal \cap Promised(p) # {}
  PROVE  IsTrace(p) /\ p.why = reason
<1>1. p.why = reason /\ (p.found <=> status = "path") /\ p.layers = rev /\ p.names = witness
  BY Zenon
<1>2. ASSUME status = "path"
      PROVE  EndOf(p) \cap Promised(p) # {}
  <2>1. pathFinal \subseteq Played(trans, witness, States, pathInit)
    BY <1>2, AtPrint, TraceIsPlayed
  <2>2. EndOf(p) = Played(trans, witness, States, pathInit)
    BY <1>1 DEF EndOf, pathInit
  <2>. QED
    BY <1>2, <2>1, <2>2
<1>. QED
  BY <1>1, <1>2 DEF IsTrace

(* What each text promises.                                                *)
LEMMA PromisedIs ==
  ASSUME NEW p, NEW why, NEW g, p.why = why, p.formula = g
  PROVE  /\ why = "EG" => Promised(p) = Exact(g[2])
         /\ why = "EU" => Promised(p) = Exact(g[3])
         /\ why = "notEU" => Promised(p) = reachable \ (Exact(g[2]) \cup Exact(g[3]))
         /\ why = "notEG" => Promised(p) = reachable \ Exact(g[2])
         /\ why = "FWDU" => Promised(p) = Exact(g)
         /\ why = "dead" => Promised(p) = dead
BY DEF Promised

(* A task that is printed and returns.                                     *)
LEMMA PrintReturns ==
  ASSUME FormsAreAll, ExplainInv, NEW reason \in Shows, reason # "dead", Printing(reason),
         UNCHANGED findPath,
         IsTrace([why |-> reason, formula |-> form, found |-> status = "path",
                  layers |-> rev, names |-> witness]),
         NEW S \in SUBSET reachable, Delivers(S, Handed(todo, result, args)), Returns(S)
  PROVE  ExplainInv'
<1> DEFINE p == [why |-> reason, formula |-> form, found |-> status = "path",
                 layers |-> rev, names |-> witness]
<1>1. /\ Ready(reason) /\ paths' = paths \cup {p} /\ UNCHANGED vars /\ calls' = calls
      /\ IsTrace(p) /\ p.why # "dead"
  BY DEF Printing
<1> HIDE DEF p
<1>2. todo # <<>> /\ fpc = "done" /\ Head(todo).do # "explain"
  BY <1>1, AtPrint DEF Shows
<1>3. Traced(paths') /\ CallsAgree(calls')
  BY <1>1 DEF ExplainInv, Traced
<1>4. todo' = Tail(todo) /\ result' = S
  BY DEF Returns
<1>. QED
  BY <1>1, <1>2, <1>3, <1>4, Returning

(* The path to a state where neither operand of EU holds.                  *)
LEMMA PrintNoUntilStep ==
  ASSUME FormsAreAll, ExplainInv, PrintNoUntil
  PROVE  ExplainInv'
<1> DEFINE p == [why |-> "notEU", formula |-> form, found |-> status = "path",
                 layers |-> rev, names |-> witness]
<1>1. Printing("notEU") /\ Ready("notEU") /\ Returns(sat) /\ UNCHANGED findPath /\ "notEU" \in Shows
  BY DEF PrintNoUntil, Printing, Shows
<1>2. /\ Head(todo).do = "notEU" /\ Searched(Head(todo), args) /\ sat \in SUBSET reachable
      /\ pathFinal \subseteq args.toreach /\ (status = "path" => pathFinal # {})
      /\ Hopeful(args) => status = "path"
  BY <1>1, AtPrint
<1>3. /\ Hopeful(args) /\ args.toreach \subseteq reachable \ (Exact(form[2]) \cup Exact(form[3]))
  BY <1>2 DEF Searched, form
<1>4. p.why = "notEU" /\ p.formula = form
  OBVIOUS
<1>5. Promised(p) = reachable \ (Exact(form[2]) \cup Exact(form[3]))
  <2> HIDE DEF p
  <2>. QED
    BY <1>4, PromisedIs
<1>6. IsTrace(p)
  BY <1>1, <1>2, <1>3, <1>5, TraceIs
<1>7. Delivers(sat, Handed(todo, result, args))
  BY <1>2 DEF Handed, Delivers, sat
<1>. QED
  BY <1>1, <1>2, <1>6, <1>7, PrintReturns

(* The path to a state where the operand of EG does not hold.              *)
LEMMA PrintNoEGStep ==
  ASSUME FormsAreAll, ExplainInv, PrintNoEG
  PROVE  ExplainInv'
<1> DEFINE p == [why |-> "notEG", formula |-> form, found |-> status = "path",
                 layers |-> rev, names |-> witness]
<1>1. /\ Printing("notEG") /\ Ready("notEG") /\ Returns(pathInit) /\ UNCHANGED findPath
      /\ "notEG" \in Shows
  BY DEF PrintNoEG, Printing, Shows
<1>2. /\ Head(todo).do = "notEG" /\ Searched(Head(todo), args) /\ pathInit \in SUBSET reachable
      /\ pathInit \subseteq args.init /\ (pathInit = {} => args.init = {})
      /\ pathFinal \subseteq args.toreach /\ (status = "path" => pathFinal # {})
      /\ Hopeful(args) => status = "path"
  BY <1>1, AtPrint
<1>3. /\ Hopeful(args) /\ args.toreach \subseteq reachable \ Exact(form[2])
  BY <1>2 DEF Searched, form
<1>4. p.why = "notEG" /\ p.formula = form
  OBVIOUS
<1>5. Promised(p) = reachable \ Exact(form[2])
  <2> HIDE DEF p
  <2>. QED
    BY <1>4, PromisedIs
<1>6. IsTrace(p)
  BY <1>1, <1>2, <1>3, <1>5, TraceIs
<1>7. Delivers(pathInit, Handed(todo, result, args))
  BY <1>2 DEF Handed, Delivers
<1>. QED
  BY <1>1, <1>2, <1>6, <1>7, PrintReturns

(* A task that is printed and followed by a call and another task.         *)
LEMMA PrintContinues ==
  ASSUME FormsAreAll, ExplainInv, NEW reason \in Shows, reason # "dead", Printing(reason),
         UNCHANGED findPath,
         IsTrace([why |-> reason, formula |-> form, found |-> status = "path",
                  layers |-> rev, names |-> witness]),
         NEW t \in Tasks, Fits(t), t.do = "explain", NEW u \in Tasks, Fits(u),
         Delivers(IF u.do \in {"again", "aside"} THEN t.states ELSE u.states,
                  Handed(todo, result, args)),
         u.do # "again", Continue(<<t, u>>)
  PROVE  ExplainInv'
<1> DEFINE p == [why |-> reason, formula |-> form, found |-> status = "path",
                 layers |-> rev, names |-> witness]
<1>1. /\ Ready(reason) /\ paths' = paths \cup {p} /\ UNCHANGED vars /\ calls' = calls
      /\ IsTrace(p) /\ p.why # "dead"
  BY DEF Printing
<1> HIDE DEF p
<1>2. todo # <<>> /\ fpc = "done" /\ Head(todo).do # "explain" /\ Head(todo).do # "dead"
  BY <1>1, AtPrint DEF Shows
<1>3. Traced(paths') /\ CallsAgree(calls')
  BY <1>1 DEF ExplainInv, Traced
<1>4. <<t, u>> \in Seq(Tasks) /\ <<t, u>> # <<>> /\ Head(<<t, u>>) = t /\ Len(<<t, u>>) = 2
      /\ \A i \in 2 .. 2 : <<t, u>>[i] = u
  OBVIOUS
<1>5. Joins(<<t, u>>, result, args, Handed(todo, result, args))
  BY JoinsByTwo
<1>6. todo' = <<t, u>> \o Tail(todo) /\ result' = result
  BY DEF Continue
<1> DEFINE ts == <<t, u>>
<1>7. /\ ts \in Seq(Tasks) /\ ts # <<>> /\ Head(ts) = t /\ \A i \in 2 .. Len(ts) : Fits(ts[i])
      /\ Joins(ts, result, args, Handed(todo, result, args)) /\ todo' = ts \o Tail(todo)
  BY <1>4, <1>5, <1>6
<1> HIDE DEF ts
<1>8. args' = args /\ fpc' = "done" /\ trans' = trans
  BY <1>1, <1>2 DEF findPath, vars, trans
<1>9. Looking'
  BY <1>8, LookingStays DEF ExplainInv, Seeking
<1>10. Head(ts).do \notin {"again", "dead"} /\ Fits(Head(ts)) /\ calls \subseteq calls'
  BY <1>1, <1>7
<1>. QED
  BY <1>1, <1>2, <1>3, <1>6, <1>7, <1>8, <1>9, <1>10, Replacing

(* The path of EU; both operands are explained at its ends.                *)
LEMMA PrintUntilStep ==
  ASSUME FormsAreAll, ExplainInv, PrintUntil
  PROVE  ExplainInv'
<1> DEFINE p == [why |-> "EU", formula |-> form, found |-> status = "path",
                 layers |-> rev, names |-> witness]
           t == Call(pathInit, form[2], TRUE)
           u == CallAside(pathFinal, form[3], TRUE)
<1>1. /\ Printing("EU") /\ Ready("EU") /\ Continue(<<t, u>>) /\ UNCHANGED findPath
      /\ "EU" \in Shows
  BY DEF PrintUntil, Printing, Shows
<1>2. /\ todo # <<>> /\ form \in Forms /\ Kept
      /\ Head(todo).do = "EU" /\ Searched(Head(todo), args) /\ pathInit \in SUBSET reachable
      /\ pathInit \subseteq args.init /\ (pathInit = {} => args.init = {})
      /\ pathFinal \subseteq args.toreach
      /\ (status = "path" => pathFinal # {} /\ pathInit # {})
      /\ (Hopeful(args) => status = "path") /\ reachable \in SUBSET States
  BY <1>1, AtPrint
<1>3. /\ Hopeful(args) /\ args.init \subseteq Exact(form) \ Exact(form[3])
      /\ args.toreach = Exact(form[3]) /\ form \in Explainable /\ form[1] = "EU"
  BY <1>2 DEF Searched, form
<1>4. /\ form[2] \in Eforms /\ form[3] \in Eforms /\ form[2] \in Explainable /\ form[3] \in Explainable
      /\ Exact(form) = Until(Exact(form[2]), Exact(form[3]))
      /\ Exact(form[2]) \in SUBSET reachable /\ Exact(form[3]) \in SUBSET reachable
  BY <1>2, <1>3, ExplainableParts, ExactIs DEF Explainable
<1>5. p.why = "EU" /\ p.formula = form
  OBVIOUS
<1>6. Promised(p) = Exact(form[3])
  <2> HIDE DEF p
  <2>. QED
    BY <1>5, PromisedIs
<1>7. IsTrace(p)
  BY <1>1, <1>2, <1>3, <1>6, TraceIs
<1>8. pathInit \subseteq Exact(form[2]) /\ pathInit # {}
  <2>1. Exact(form[2]) \in SUBSET States /\ Exact(form[3]) \in SUBSET States
    BY <1>2, <1>4
  <2>2. Exact(form) \subseteq Exact(form[3]) \cup Exact(form[2])
    BY <1>4, <2>1, UntilIs DEF UntilStep
  <2>. QED
    BY <1>2, <1>3, <2>2
<1>9. pathFinal \subseteq Exact(form[3]) /\ pathFinal # {} /\ pathFinal \in SUBSET reachable
  BY <1>2, <1>3, <1>4
<1>10. t \in Tasks /\ Fits(t) /\ t.do = "explain" /\ t.states = pathInit
  <2>1. t = [do |-> "explain", states |-> pathInit, formula |-> form[2], said |-> TRUE,
             of |-> form[1]]
    BY <1>2 DEF Call, Task
  <2>2. pathInit \cap Exact(form[2]) # {}
    BY <1>8
  <2> HIDE DEF t
  <2>. QED
    BY <1>2, <1>4, <2>1, <2>2, CallTrue
<1>11. u \in Tasks /\ Fits(u) /\ u.do = "aside"
  <2>1. u = [do |-> "aside", states |-> pathFinal, formula |-> form[3], said |-> TRUE,
             of |-> form[1]]
    BY <1>2 DEF CallAside, Task
  <2>2. pathFinal \cap Exact(form[3]) # {}
    BY <1>9
  <2> HIDE DEF u
  <2>. QED
    BY <1>2, <1>4, <1>9, <2>1, <2>2, CallTrue
<1>12. Delivers(pathInit, Handed(todo, result, args))
  BY <1>2 DEF Handed, Delivers
<1> HIDE DEF t, u, p
<1>13. /\ Delivers(IF u.do \in {"again", "aside"} THEN t.states ELSE u.states,
                   Handed(todo, result, args))
       /\ u.do # "again"
  BY <1>10, <1>11, <1>12
<1>. QED
  BY <1>1, <1>7, <1>10, <1>11, <1>13, PrintContinues DEF p

(* The path of FwdU; its left operand is explained where it starts.        *)
LEMMA PrintFwdUStep ==
  ASSUME FormsAreAll, ExplainInv, PrintFwdU
  PROVE  ExplainInv'
<1> DEFINE p == [why |-> "FWDU", formula |-> form, found |-> status = "path",
                 layers |-> rev, names |-> witness]
           all == form[2] = Start /\ form[3] = True
           t == Call(pathInit, form[2], TRUE)
           u == Return(pathFinal)
<1>1. /\ Printing("FWDU") /\ Ready("FWDU") /\ UNCHANGED findPath /\ "FWDU" \in Shows
      /\ IF all THEN Returns(pathFinal) ELSE Continue(<<t, u>>)
  BY DEF PrintFwdU, Printing, Shows
<1>2. /\ todo # <<>> /\ form \in Forms /\ Kept /\ Looking /\ fpc = "done"
      /\ Head(todo).do = "FWDU" /\ Searched(Head(todo), args)
      /\ pathInit \in SUBSET reachable /\ sat \in SUBSET reachable
      /\ pathInit \subseteq args.init /\ (pathInit = {} => args.init = {})
      /\ pathFinal \subseteq args.toreach
      /\ (status = "path" => pathFinal # {} /\ pathInit # {})
      /\ Hopeful(args) => status = "path"
  BY <1>1, AtPrint
<1>3. /\ Hopeful(args) /\ args.init \subseteq Exact(form) /\ args.toreach = sat
      /\ all \/ args.init \subseteq Exact(form[2])
      /\ sat \subseteq Exact(form) \/ sat = reachable
      /\ form \in Explainable /\ form[1] = "FWDU"
  BY <1>2 DEF Searched, form, sat
<1>4. status = "path" /\ pathFinal # {} /\ pathInit # {}
  BY <1>2, <1>3
<1>5. p.why = "FWDU" /\ p.formula = form
  OBVIOUS
<1>6. Promised(p) = Exact(form)
  <2> HIDE DEF p
  <2>. QED
    BY <1>5, PromisedIs
<1>7. pathFinal \cap Exact(form) # {}
  <2>1. CASE sat \subseteq Exact(form)
    BY <1>2, <1>3, <1>4, <2>1
  <2>2. CASE sat = reachable
    <3>1. args.init \cap args.toreach # {}
      BY <1>2, <1>3, <1>4, <2>2
    <3>2. Len(rev) = 1
      BY <1>2, <1>4, <3>1, TraceIsPlayed
    <3>3. pathFinal = pathInit
      BY <3>2 DEF pathFinal, pathInit
    <3>. QED
      BY <1>2, <1>3, <1>4, <3>3
  <2>. QED
    BY <1>3, <2>1, <2>2
<1>8. IsTrace(p)
  BY <1>1, <1>4, <1>6, <1>7, TraceIs
<1>9. pathFinal \in SUBSET reachable /\ Delivers(pathFinal, Handed(todo, result, args))
  BY <1>2, <1>3, <1>4 DEF Handed, Delivers, sat
<1>10. CASE all
  <2>1. Returns(pathFinal) /\ "FWDU" # "dead"
    BY <1>1, <1>10
  <2>. QED
    BY <1>1, <1>8, <1>9, <2>1, PrintReturns
<1>11. CASE ~all
  <2>1. Continue(<<t, u>>)
    BY <1>1, <1>11
  <2>2. form[2] \in Explainable
    BY <1>3, ExplainableParts DEF Explainable
  <2>3. pathInit \subseteq Exact(form[2])
    BY <1>2, <1>3, <1>11
  <2>4. t \in Tasks /\ Fits(t) /\ t.do = "explain" /\ t.states = pathInit
    <3>1. t = [do |-> "explain", states |-> pathInit, formula |-> form[2], said |-> TRUE,
               of |-> form[1]]
      BY <1>2 DEF Call, Task
    <3>2. pathInit \cap Exact(form[2]) # {}
      BY <1>4, <2>3
    <3> HIDE DEF t
    <3>. QED
      BY <1>2, <2>2, <2>3, <3>1, <3>2, CallTrue
  <2>5. u \in Tasks /\ Fits(u) /\ u.do = "return" /\ u.states = pathFinal
    BY <1>2, <1>9, ReturnFits
  <2> HIDE DEF t, u, p, all
  <2>6. /\ Delivers(IF u.do \in {"again", "aside"} THEN t.states ELSE u.states,
                    Handed(todo, result, args))
        /\ u.do # "again"
    BY <1>9, <2>5
  <2>. QED
    BY <1>1, <1>8, <2>1, <2>4, <2>5, <2>6, PrintContinues DEF p
<1>. QED
  BY <1>10, <1>11

(* The path to a deadlock or a timelock.                                   *)
LEMMA PrintDeadStep ==
  ASSUME FormsAreAll, ExplainInv, PrintDead
  PROVE  ExplainInv'
<1> DEFINE p == [why |-> "dead", formula |-> form, found |-> status = "path",
                 layers |-> rev, names |-> witness]
<1>1. /\ Ready("dead") /\ UNCHANGED findPath /\ "dead" \in Shows /\ Continue(<<>>)
      /\ paths' = paths \cup {p} /\ UNCHANGED vars /\ calls' = calls
  BY DEF PrintDead, Printing, Shows
<1>2. /\ todo # <<>> /\ fpc = "done" /\ Head(todo).do = "dead" /\ Searched(Head(todo), args)
      /\ pathFinal \subseteq args.toreach /\ (status = "path" => pathFinal # {})
      /\ Hopeful(args) => status = "path"
  BY <1>1, AtPrint
<1>3. Hopeful(args) /\ args.toreach = dead
  BY <1>2 DEF Searched
<1>4. p.why = "dead" /\ p.formula = form
  OBVIOUS
<1>5. Promised(p) = dead
  <2> HIDE DEF p
  <2>. QED
    BY <1>4, PromisedIs
<1>6. IsTrace(p)
  BY <1>1, <1>2, <1>3, <1>5, TraceIs
<1>7. todo \in Seq(Tasks) /\ Len(todo) = 1 /\ pc = "done"
  BY <1>2 DEF ExplainInv, Stacked, Occupied
<1>8. todo' = <<>> /\ result' = result
  <2>1. Tail(todo) \in Seq(Tasks) /\ Len(Tail(todo)) = 0
    BY <1>2, <1>7, HeadTailProperties
  <2>2. Tail(todo) = <<>>
    BY <2>1, EmptySeq
  <2>3. <<>> \in Seq(Tasks) /\ <<>> \o <<>> = <<>>
    BY EmptySeq, ConcatEmptySeq
  <2>. QED
    BY <1>1, <2>2, <2>3 DEF Continue
<1>9. args' = args /\ fpc' = fpc /\ trans' = trans /\ UNCHANGED findPath
  BY <1>1 DEF findPath, vars, trans
<1>10. Seeking'
  <2>1. Looking'
    BY <1>9, LookingStays DEF ExplainInv, Seeking
  <2>. QED
    BY <1>2, <1>8, <1>9, <2>1 DEF Seeking
<1> HIDE DEF p
<1>11. Traced(paths') /\ CallsAgree(calls')
  BY <1>1, <1>6, <1>7 DEF ExplainInv, Traced
<1>12. Occupied(todo') /\ Stacked(todo', args')
  BY <1>8 DEF Occupied, Stacked
<1>13. result' \subseteq reachable /\ pc # "start"
  BY <1>7, <1>8 DEF ExplainInv
<1>14. Ends(todo', result', args')
  <2>1. result \in SUBSET States
    BY <1>2, AtTask DEF Kept
  <2>2. Chained(<<>>, result, args', result)
    BY DEF Chained, Delivers
  <2>3. ~Judging
    BY <1>7 DEF Judging
  <2>. QED
    BY <1>8, <2>1, <2>2, <2>3 DEF Ends
<1>15. Implied => Implied'
  BY <1>1, <1>2, ImpliedStays
<1>. QED
  BY <1>1, <1>10, <1>11, <1>12, <1>13, <1>14, <1>15, InvMoves

(* The prefix of a lasso; the cycle is searched for.                       *)
LEMMA PrintPrefixStep ==
  ASSUME FormsAreAll, ExplainInv, PrintPrefix
  PROVE  ExplainInv'
<1> DEFINE p == [why |-> "EG", formula |-> form, found |-> status = "path",
                 layers |-> rev, names |-> witness]
           w == Show("cycle", form, pathInit)
<1>1. /\ Printing("EG") /\ Ready("EG") /\ Continue(<<w>>) /\ "EG" \in Shows /\ "cycle" \in Shows
      /\ paths' = paths \cup {p} /\ UNCHANGED vars /\ calls' = calls
  BY DEF PrintPrefix, Printing, Shows
<1>2. /\ todo # <<>> /\ form \in Forms /\ Kept /\ reachable \in SUBSET States
      /\ Head(todo).do = "EG" /\ Searched(Head(todo), args)
      /\ pathInit \in SUBSET reachable /\ sat \in SUBSET reachable
      /\ pathInit \subseteq args.init /\ (pathInit = {} => args.init = {})
      /\ pathFinal \subseteq args.toreach /\ pathFinal \in SUBSET States
      /\ (status = "path" => pathFinal # {})
  BY <1>1, AtPrint
<1>3. /\ args.toreach = sat /\ sat \subseteq Exact(form[2])
      /\ form \in Explainable /\ form[1] = "EG"
  BY <1>2 DEF Searched, form, sat
<1>4. p.why = "EG" /\ p.formula = form
  OBVIOUS
<1>5. Promised(p) = Exact(form[2])
  <2> HIDE DEF p
  <2>. QED
    BY <1>4, PromisedIs
<1>6. IsTrace(p)
  BY <1>1, <1>2, <1>3, <1>5, TraceIs
<1>7. PICK one \in SUBSET States, g \in SUBSET sat :
         (\E s : one \subseteq {s}) /\ one \subseteq pathFinal /\ Find(one, g, sat, TRUE)
  <2>1. PICK one \in IF pathFinal = {} THEN {{}} ELSE {{s} : s \in pathFinal} :
           Find(one, Post(PredRel(trans, reachable, States), one) \cap sat, sat, TRUE)
    BY DEF PrintPrefix
  <2>2. one \subseteq pathFinal /\ \E s : one \subseteq {s}
    OBVIOUS
  <2>3. one \in SUBSET States
    BY <1>2, <2>2
  <2>. QED
    BY <2>1, <2>2, <2>3
<1>8. one \in SUBSET reachable /\ g \in SUBSET States /\ sat \in SUBSET States /\ (g # {} => sat # {})
  BY <1>2, <1>3, <1>7
<1>9. w \in Tasks /\ w.do = "cycle" /\ w.states = pathInit /\ w.formula = form
  <2>1. pathInit \in SUBSET States
    BY <1>2
  <2>. QED
    BY <1>1, <1>2, <2>1, ShowIs
<1> HIDE DEF w, p
<1>10. trans \in Systems /\ trans' = trans
  BY <1>1, <1>2, AtTask DEF vars, trans
<1>11. /\ Looking' /\ fpc' = "start"
       /\ args' = [init |-> one, toreach |-> g, reach |-> sat, pot |-> States, precise |-> TRUE]
  BY <1>7, <1>8, <1>10, FindStarts
<1>12. Searched(w, args')
  <2>1. args'.init = one
    BY <1>11
  <2>. QED
    BY <1>2, <1>3, <1>7, <1>8, <1>9, <2>1 DEF Searched
<1>13. <<w>> \in Seq(Tasks) /\ <<w>> # <<>> /\ Head(<<w>>) = w /\ Len(<<w>>) = 1
  BY <1>9
<1>14. Joins(<<w>>, result, args', Handed(todo, result, args))
  <2>1. Handed(<<w>>, result, args') = pathInit
    BY <1>9, <1>13 DEF Handed
  <2>2. Delivers(pathInit, Handed(todo, result, args))
    BY <1>2 DEF Handed, Delivers
  <2>. QED
    BY <2>1, <2>2, JoinsByOne
<1>15. Traced(paths') /\ CallsAgree(calls') /\ calls \subseteq calls'
  BY <1>1, <1>4, <1>6 DEF ExplainInv, Traced
<1>16. todo' = <<w>> \o Tail(todo) /\ result' = result
  BY <1>1 DEF Continue
<1> DEFINE ts == <<w>>
<1>17. /\ ts \in Seq(Tasks) /\ ts # <<>> /\ Head(ts) = w /\ \A i \in 2 .. Len(ts) : Fits(ts[i])
       /\ Joins(ts, result, args', Handed(todo, result, args)) /\ todo' = ts \o Tail(todo)
  BY <1>13, <1>14, <1>16
<1> HIDE DEF ts
<1>18. /\ Head(ts).do \notin {"again", "dead"} /\ Head(ts).do \in Shows
       /\ Searched(Head(ts), args') /\ fpc' # "done"
       /\ Head(todo).do # "dead" /\ Head(todo).do # "explain"
  BY <1>1, <1>2, <1>9, <1>11, <1>12, <1>17
<1>. QED
  BY <1>1, <1>2, <1>11, <1>15, <1>16, <1>17, <1>18, Replacing

(* A path that is closed by one more transition comes back.                *)
LEMMA CycleCloses ==
  ASSUME FormsAreAll, ExplainInv, Ready("cycle"), Cycle.found
  PROVE  EndOf(Cycle) \cap Cycle.layers[1] # {}
<1> DEFINE ns == FirstName(pathFinal, pathInit)
           target == UNION {Post(trans[m], pathFinal) \cap pathInit : m \in ns}
           back == Post(PredRel(trans, reachable, States), target)
<1>1. /\ "cycle" \in Shows
      /\ todo # <<>> /\ fpc = "done" /\ Head(todo).do = "cycle" /\ Looking
      /\ Searched(Head(todo), args) /\ Kept /\ reachable \in SUBSET States
      /\ pathInit \subseteq args.init /\ pathInit \in SUBSET reachable
      /\ pathFinal \in SUBSET States
  BY AtPrint DEF Shows
<1>2. Cycle = [why |-> "cycle", formula |-> form, found |-> status = "path" /\ ns # {},
               layers |-> Append([rev EXCEPT ![Len(rev)] = @ \cap back], target),
               names |-> witness \o [i \in 1 .. Cardinality(ns) |-> CHOOSE m \in ns : TRUE]]
  BY DEF Cycle
<1> HIDE DEF ns, target, back
<1>3. status = "path" /\ ns # {}
  BY Zenon, <1>2
<1>4. /\ Cycle.layers = Append([rev EXCEPT ![Len(rev)] = @ \cap back], target)
      /\ Cycle.names = witness \o [i \in 1 .. Cardinality(ns) |-> CHOOSE m \in ns : TRUE]
  BY <1>2
<1>5. PICK n \in Names : ns = {n} /\ Post(trans[n], pathFinal) \cap pathInit # {}
  <2>1. PICK n \in ns : TRUE
    BY <1>3
  <2>2. /\ n \in Names /\ Post(trans[n], pathFinal) \cap pathInit # {}
        /\ \A m \in 1 .. n - 1 : Post(trans[m], pathFinal) \cap pathInit = {}
    BY <2>1 DEF ns, FirstName
  <2>3. ASSUME NEW k \in ns
        PROVE  k = n
    <3>1. /\ k \in Names /\ Post(trans[k], pathFinal) \cap pathInit # {}
          /\ \A m \in 1 .. k - 1 : Post(trans[m], pathFinal) \cap pathInit = {}
      BY <2>3 DEF ns, FirstName
    <3>2. k \in Nat /\ n \in Nat /\ k >= 1 /\ n >= 1
      BY <2>2, <3>1, NbTransIsNat DEF Names
    <3>3. ~(k < n) /\ ~(n < k)
      BY <2>2, <3>1, <3>2
    <3>. QED
      BY <3>2, <3>3
  <2>. QED
    BY <2>1, <2>2, <2>3
<1>6. Cardinality(ns) = 1 /\ (CHOOSE m \in ns : TRUE) = n
  BY <1>5, FS_Singleton
<1>7. /\ witness \in Seq(Names) /\ Len(witness) \in Nat /\ Len(rev) = Len(witness) + 1
      /\ rev \in Seq(SUBSET States) /\ pathInit # {} /\ pathFinal # {}
      /\ \A i \in 1 .. Len(witness) : rev[i + 1] \subseteq Post(trans[witness[i]], rev[i])
  BY <1>1, <1>3, TraceIsPlayed, SearchEnds
<1>8. PICK s \in States : pathInit = {s} /\ s \in reachable
  <2>1. \E x : args.init \subseteq {x}
    BY <1>1 DEF Searched
  <2>. QED
    BY <1>1, <1>7, <2>1
<1>9. target = {s} /\ \E x \in pathFinal : <<x, s>> \in trans[n]
  <2>1. target = Post(trans[n], pathFinal) \cap pathInit
    BY <1>5 DEF target
  <2>. QED
    BY <1>5, <1>8, <2>1 DEF Post
<1>10. Cycle.names = Append(witness, n)
  <2>1. [i \in 1 .. Cardinality(ns) |-> CHOOSE m \in ns : TRUE] = <<n>>
    BY <1>6
  <2>2. witness \o <<n>> = Append(witness, n)
    BY <1>7
  <2>. QED
    BY <1>4, <2>1, <2>2
<1>11. Cycle.layers[1] = {s}
  <2> DEFINE cut == [rev EXCEPT ![Len(rev)] = @ \cap back]
  <2>0. Len(rev) \in Nat /\ Len(rev) >= 1
    BY <1>7
  <2>1. cut \in Seq(SUBSET States) /\ Len(cut) = Len(rev)
    BY <1>7, <2>0
  <2>2. Cycle.layers[1] = cut[1]
    BY <1>4, <2>0, <2>1
  <2>3. CASE Len(rev) # 1
    <3>1. cut[1] = rev[1]
      BY <2>0, <2>3, <1>7
    <3>. QED
      BY <1>8, <2>2, <3>1 DEF pathInit
  <2>4. CASE Len(rev) = 1
    <3>1. cut[1] = rev[1] \cap back
      BY <1>7, <2>4
    <3>2. pathFinal = {s}
      BY <1>8, <2>4 DEF pathFinal, pathInit
    <3>3. s \in Pre(NextRel(trans), target) \cap reachable
      BY <1>8, <1>9, <3>2, <1>5 DEF Pre, NextRel
    <3>4. s \in back
      BY <1>1, <1>9, <3>3, AtTask, PredRelComplete DEF back
    <3>. QED
      BY <1>8, <2>2, <3>1, <3>4 DEF pathInit
  <2>. QED
    BY <2>3, <2>4
<1>12. s \in Played(trans, Append(witness, n), States, {s})
  <2> DEFINE v == Append(witness, n)
             L == Len(witness)
             layer == [i \in 1 .. L + 2 |-> IF i <= L + 1 THEN rev[i] ELSE {s}]
  <2>1. /\ v \in Seq(Names) /\ Len(v) = L + 1 /\ L \in Nat /\ v[L + 1] = n
        /\ \A i \in 1 .. L : v[i] = witness[i]
    BY <1>5, <1>7
  <2>2. rev[1] = {s}
    BY <1>8 DEF pathInit
  <2>3. layer[1] \subseteq {s} /\ layer[L + 2] = {s}
    BY <2>1, <2>2
  <2>4. ASSUME NEW i \in 1 .. Len(v)
        PROVE  layer[i + 1] \subseteq Post(trans[v[i]], layer[i]) \cap States
    <3>1. CASE i \in 1 .. L
      <4>1. layer[i + 1] = rev[i + 1] /\ layer[i] = rev[i] /\ v[i] = witness[i]
        BY <2>1, <3>1
      <4>2. rev[i + 1] \subseteq Post(trans[witness[i]], rev[i])
        BY <1>7, <3>1
      <4>3. Post(trans[witness[i]], rev[i]) \subseteq States
        BY DEF Post
      <4> HIDE DEF layer, v, L
      <4>. QED
        BY <4>1, <4>2, <4>3
    <3>2. CASE i = L + 1
      <4>1. layer[i + 1] = {s} /\ layer[i] = rev[L + 1] /\ v[i] = n
        BY <2>1, <3>2
      <4>2. rev[L + 1] = pathFinal
        BY <1>7 DEF pathFinal
      <4>3. {s} \subseteq Post(trans[n], pathFinal) \cap States
        BY <1>9 DEF Post
      <4> HIDE DEF layer, v, L
      <4>. QED
        BY <4>1, <4>2, <4>3
    <3>3. i \in 1 .. L \/ i = L + 1
      <4>1. i \in 1 .. L + 1
        BY <2>1
      <4> HIDE DEF layer, v, L
      <4>. QED
        BY <2>1, <4>1
    <3> HIDE DEF layer, v, L
    <3>. QED
      BY <3>1, <3>2, <3>3
  <2> HIDE DEF layer, v
  <2>5. Len(v) \in Nat /\ {s} \in SUBSET States
    BY <2>1
  <2>6. layer[Len(v) + 1] \subseteq Played(trans, v, States, {s})
    BY <2>3, <2>4, <2>5, LayersArePlayed
  <2>7. Len(v) + 1 = L + 2
    BY <2>1
  <2>. QED
    BY <2>3, <2>6, <2>7 DEF v
<1>13. EndOf(Cycle) = Played(trans, Append(witness, n), States, {s})
  BY <1>10, <1>11 DEF EndOf
<1>. QED
  BY <1>11, <1>12, <1>13

(* The cycle of a lasso.                                                   *)
LEMMA PrintCycleStep ==
  ASSUME FormsAreAll, ExplainInv, PrintCycle
  PROVE  ExplainInv'
<1>1. /\ Ready("cycle") /\ Returns(sat) /\ "cycle" \in Shows
      /\ paths' = paths \cup {Cycle} /\ UNCHANGED vars /\ UNCHANGED findPath /\ calls' = calls
  BY DEF PrintCycle, Shows
<1>2. /\ todo # <<>> /\ fpc = "done" /\ Head(todo).do = "cycle" /\ sat \in SUBSET reachable
  BY <1>1, AtPrint
<1>3. Cycle.why = "cycle"
  BY DEF Cycle
<1>4. Promised(Cycle) = Cycle.layers[1]
  <2> DEFINE p == Cycle
  <2>1. p.why = "cycle"
    BY <1>3
  <2> HIDE DEF p
  <2>2. Promised(p) = p.layers[1]
    BY <2>1 DEF Promised
  <2>. QED
    BY <2>2 DEF p
<1>5. IsTrace(Cycle)
  <2>1. Cycle.found => EndOf(Cycle) \cap Promised(Cycle) # {}
    BY <1>1, <1>4, CycleCloses
  <2>. QED
    BY <1>3, <2>1 DEF IsTrace, Shows
<1>6. Traced(paths') /\ CallsAgree(calls') /\ calls \subseteq calls'
  BY <1>1, <1>3, <1>5 DEF ExplainInv, Traced
<1>7. Delivers(sat, Handed(todo, result, args))
  BY <1>2 DEF Handed, Delivers, sat
<1>. QED
  BY <1>1, <1>2, <1>6, <1>7, Returning DEF Returns

(* What is known of a task that is neither a search nor a comparison.      *)
LEMMA AtOther ==
  ASSUME FormsAreAll, ExplainInv, NEW reason \in {"return", "again", "aside"}, Ready(reason)
  PROVE  /\ todo # <<>> /\ fpc = "done" /\ Head(todo).do = reason /\ Head(todo) \in Tasks
         /\ Fits(Head(todo)) /\ sat \in SUBSET reachable /\ Looking
         /\ reachable \in SUBSET States /\ result \in SUBSET reachable
<1>1. todo # <<>> /\ fpc = "done" /\ Head(todo).do = reason
  BY DEF Ready
<1>2. Stacked(todo, args) /\ Looking
  BY DEF ExplainInv, Seeking
<1>3. ~Searched(Head(todo), args)
  BY <1>1 DEF Searched
<1>4. Fits(Head(todo))
  BY <1>1, <1>2, <1>3 DEF Stacked
<1>5. sat \subseteq reachable
  BY <1>4 DEF Fits, Asked, sat
<1>6. Head(todo) \in Tasks /\ result \in SUBSET reachable /\ reachable \in SUBSET States
  BY <1>1, AtTask, FixpointTyped
<1>. QED
  BY <1>1, <1>2, <1>4, <1>5, <1>6

(* The states of a task are returned.                                      *)
LEMMA ReturnStep ==
  ASSUME FormsAreAll, ExplainInv, ReturnStates
  PROVE  ExplainInv'
<1>1. Ready("return") /\ Returns(sat) /\ UNCHANGED <<vars, calls, paths, findPath>>
  BY DEF ReturnStates
<1>2. todo # <<>> /\ fpc = "done" /\ Head(todo).do = "return" /\ sat \in SUBSET reachable
  BY <1>1, AtOther
<1>3. Delivers(sat, Handed(todo, result, args))
  BY <1>2 DEF Handed, Delivers, sat
<1>4. Traced(paths') /\ CallsAgree(calls')
  BY <1>1 DEF ExplainInv
<1>. QED
  BY <1>1, <1>2, <1>3, <1>4, Returning DEF Returns

(* The right operand of a conjunction, in what the left one returned.      *)
LEMMA OnResultStep ==
  ASSUME FormsAreAll, ExplainInv, CallOnResult
  PROVE  ExplainInv'
<1> DEFINE t == [Head(todo) EXCEPT !.do = "explain", !.states = result]
<1>1. Ready("again") /\ Continue(<<t>>) /\ UNCHANGED <<vars, calls, paths, findPath>>
  BY DEF CallOnResult
<1>2. /\ todo # <<>> /\ fpc = "done" /\ Head(todo).do = "again" /\ Head(todo) \in Tasks
      /\ Fits(Head(todo)) /\ Looking /\ reachable \in SUBSET States /\ result \in SUBSET reachable
  BY <1>1, AtOther
<1>3. t \in Tasks /\ t.do = "explain" /\ t.states = result
      /\ t.formula = Head(todo).formula /\ t.said = Head(todo).said
  BY <1>2 DEF Tasks
<1> HIDE DEF t
<1>4. result \subseteq Exact(t.formula)
  BY <1>2, <1>3 DEF ExplainInv, Ends, Chained
<1>5. Asked(Head(todo)) /\ t.formula \in Eforms /\ t.said
  BY <1>2, <1>3 DEF Fits
<1>6. Fits(t)
  <2>1. t.states = {} \/ t.states \cap Exact(t.formula) # {}
    BY <1>3, <1>4
  <2>2. Agrees(t)
    BY <1>5, <2>1 DEF Agrees
  <2>3. t.formula \in Explainable /\ t.states \subseteq reachable
    BY <1>2, <1>3, <1>5 DEF Asked
  <2>. QED
    BY <1>3, <1>5, <2>2, <2>3 DEF Fits, Asked
<1>7. Joins(<<t>>, result, args', Handed(todo, result, args))
  <2>1. Head(<<t>>) = t
    OBVIOUS
  <2>2. Handed(<<t>>, result, args') = result /\ Handed(todo, result, args) = result
    BY <1>2, <1>3, <2>1 DEF Handed
  <2>3. Delivers(result, result)
    BY DEF Delivers
  <2>. QED
    BY <2>2, <2>3, JoinsByOne
<1> DEFINE ts == <<t>>
<1>8. /\ ts \in Seq(Tasks) /\ ts # <<>> /\ Head(ts) = t
      /\ \A i \in 2 .. Len(ts) : Fits(ts[i])
      /\ Joins(ts, result, args', Handed(todo, result, args))
      /\ todo' = ts \o Tail(todo) /\ result' = result
  BY <1>1, <1>3, <1>7 DEF Continue
<1> HIDE DEF ts
<1>9. Looking' /\ fpc' = "done"
  BY <1>1, <1>2, LookingStays, CheckerKept DEF findPath, vars
<1>10. Traced(paths') /\ CallsAgree(calls') /\ calls \subseteq calls'
  BY <1>1 DEF ExplainInv
<1>11. /\ Fits(Head(ts)) /\ Head(ts).do = "explain"
       /\ Head(todo).do # "dead" /\ Head(todo).do # "explain"
  BY <1>2, <1>3, <1>6, <1>8
<1>. QED
  BY <1>1, <1>2, <1>8, <1>9, <1>10, <1>11, Replacing

(* The right operand of EU, and what the left one returned after it.       *)
LEMMA ForSideStep ==
  ASSUME FormsAreAll, ExplainInv, CallForSide
  PROVE  ExplainInv'
<1> DEFINE t == [Head(todo) EXCEPT !.do = "explain"]
           u == Return(result)
<1>1. Ready("aside") /\ Continue(<<t, u>>) /\ UNCHANGED <<vars, calls, paths, findPath>>
  BY DEF CallForSide
<1>2. /\ todo # <<>> /\ fpc = "done" /\ Head(todo).do = "aside" /\ Head(todo) \in Tasks
      /\ Fits(Head(todo)) /\ Looking /\ reachable \in SUBSET States /\ result \in SUBSET reachable
  BY <1>1, AtOther
<1>3. t \in Tasks /\ t.do = "explain" /\ t.states = Head(todo).states
      /\ t.formula = Head(todo).formula /\ t.said = Head(todo).said /\ t.of = Head(todo).of
  BY <1>2 DEF Tasks
<1> HIDE DEF t
<1>4. Fits(t)
  <2>1. Asked(Head(todo))
    BY <1>2 DEF Fits
  <2>2. Asked(t)
    BY <1>3, <2>1 DEF Asked, Agrees
  <2>. QED
    BY <1>3, <2>2 DEF Fits
<1>5. u \in Tasks /\ Fits(u) /\ u.do = "return" /\ u.states = result
  <2>1. form \in Forms /\ Kept
    BY <1>2, AtTask
  <2>. QED
    BY <1>2, <2>1, ReturnFits
<1> HIDE DEF u
<1>6. Joins(<<t, u>>, result, args', Handed(todo, result, args))
  <2>1. Handed(todo, result, args) = result
    BY <1>2 DEF Handed
  <2>2. Delivers(result, result)
    BY DEF Delivers
  <2>. QED
    BY <1>3, <1>5, <2>1, <2>2, JoinsByTwo
<1> DEFINE ts == <<t, u>>
<1>7. /\ ts \in Seq(Tasks) /\ ts # <<>> /\ Head(ts) = t
      /\ \A i \in 2 .. Len(ts) : Fits(ts[i])
      /\ Joins(ts, result, args', Handed(todo, result, args))
      /\ todo' = ts \o Tail(todo) /\ result' = result
  BY <1>1, <1>3, <1>5, <1>6 DEF Continue
<1> HIDE DEF ts
<1>8. Looking' /\ fpc' = "done"
  BY <1>1, <1>2, LookingStays, CheckerKept DEF findPath, vars
<1>9. Traced(paths') /\ CallsAgree(calls') /\ calls \subseteq calls'
  BY <1>1 DEF ExplainInv
<1>10. /\ Fits(Head(ts)) /\ Head(ts).do = "explain"
       /\ Head(todo).do # "dead" /\ Head(todo).do # "explain"
  BY <1>2, <1>3, <1>4, <1>7
<1>. QED
  BY <1>1, <1>2, <1>7, <1>8, <1>9, <1>10, Replacing

-----------------------------------------------------------------------------
(***************************************************************************)
(* The steps of the checker between two explanations.                      *)
(***************************************************************************)
(* Nothing has been explained yet.                                         *)
Unused ==
  /\ todo = <<>> /\ result = {} /\ calls = {} /\ paths = {}
  /\ Looking /\ fpc = "done" /\ pc # "forward"

(* When nothing remains, what was returned is what it ends with.           *)
LEMMA NothingEnds ==
  ASSUME todo = <<>>, NEW B \in SUBSET States, result \subseteq B, B \subseteq result
  PROVE  Chained(todo, result, args, B)
BY DEF Chained, Delivers

(* The invariant holds then.                                               *)
LEMMA UnusedIsRight ==
  ASSUME Inv, Unused
  PROVE  ExplainInv
<1>1. Occupied(todo) /\ Stacked(todo, args)
  BY DEF Unused, Occupied, Stacked
<1>2. Ends(todo, result, args)
  <2>1. Chained(todo, result, args, {})
    BY NothingEnds DEF Unused
  <2>2. ~Judging
    BY DEF Unused, Judging
  <2>. QED
    BY <2>1, <2>2 DEF Ends
<1>3. Seeking
  BY DEF Unused, Seeking
<1>4. CallsAgree(calls) /\ Traced(paths) /\ result \subseteq reachable
  BY DEF Unused, CallsAgree, Traced
<1>. QED
  BY <1>1, <1>2, <1>3, <1>4 DEF ExplainInv, Unused

(* The same in the next state.                                             *)
LEMMA UnusedNext ==
  ASSUME Inv', Unused'
  PROVE  ExplainInv'
BY UnusedIsRight, PTL

(* As when its-ctl starts.                                                 *)
LEMMA NothingStarts == ExplainInit => Unused
<1> SUFFICES ASSUME ExplainInit PROVE Unused
  OBVIOUS
<1>1. /\ todo = <<>> /\ result = {} /\ calls = {} /\ paths = {} /\ fpc = "done" /\ M3 = {}
      /\ status = "none" /\ pc = "start"
      /\ args = [init |-> {}, toreach |-> {}, reach |-> {}, pot |-> {}, precise |-> TRUE]
  BY DEF ExplainInit, Init
<1>2. args \in F!Arguments /\ args.toreach = {}
  BY <1>1 DEF F!Arguments
<1>. QED
  BY <1>1, <1>2 DEF Unused, Looking

(* Steps that keep what the checker found.                                 *)
LEMMA CheckMoves ==
  ASSUME FormsAreAll, ExplainInv, [Next]_vars, UNCHANGED <<model, cmd, kept>>,
         pc # "start", pc' # "start", pc = "done" => pc' = "done" /\ dead' = dead,
         UNCHANGED <<result, calls, paths>>,
         Occupied(todo)', Stacked(todo, args)', Ends(todo, result, args)', Seeking'
  PROVE  ExplainInv'
<1>1. Inv'
  BY NextInv DEF ExplainInv
<1>2. reachable' = reachable
  BY CheckerKept
<1>3. result' \subseteq reachable'
  BY <1>2 DEF ExplainInv
<1>4. CallsAgree(calls)'
  BY CallsKept DEF ExplainInv
<1>5. Traced(paths)'
  <2> SUFFICES ASSUME NEW p \in paths
               PROVE  IsTrace(p)' /\ (p.why = "dead" => pc' = "done")
    BY DEF Traced
  <2>1. IsTrace(p) /\ (p.why = "dead" => pc = "done")
    BY DEF ExplainInv, Traced
  <2>2. p.why # "dead" \/ dead' = dead
    BY <2>1
  <2>. QED
    BY <2>1, <2>2, TraceKept
<1>. QED
  BY <1>1, <1>3, <1>4, <1>5 DEF ExplainInv

(* As in EndsKept, for a step of the checker.                              *)
LEMMA EndsMoves ==
  ASSUME UNCHANGED <<model, cmd, kept>>, Implied => Implied', NEW B \in SUBSET States,
         Chained(todo', result', args', B),
         pc' = "forward" /\ cmd.backward /\ cmd.witness => B = InitialState
  PROVE  Ends(todo, result, args)'
<1>1. \A S, X : Delivers(S, X) => Delivers(S, X)'
  BY DEF Delivers
<1>2. \A ts, A, C : Leads(A, ts, C) => Leads(A, ts, C)'
  <2>1. Verify' = Verify
    BY CheckerKept
  <2>2. \A A, u, C : Serves(A, u, C) => Serves(A, u, C)'
    BY <1>1, <2>1 DEF Serves, Exact
  <2>. QED
    BY <2>2 DEF Leads
<1>3. InitialState' = InitialState /\ cmd' = cmd
  BY CheckerKept
<1>4. \A C : Chained(todo', result', args', C) => Chained(todo, result, args, C)'
  <2>1. Verify' = Verify
    BY CheckerKept
  <2>2. Handed(todo, result, args)' = Handed(todo', result', args')
    BY DEF Handed
  <2>. QED
    BY <1>1, <1>2, <2>1, <2>2 DEF Chained, Exact
<1>. QED
  BY <1>3, <1>4 DEF Ends, Judging

(* Such a step makes no call.                                              *)
LEMMA ImpliedAsBefore ==
  ASSUME todo = <<>>, calls' = calls
  PROVE  Implied => Implied'
BY DEF Implied

(* Nothing is to be done, before and after.                                *)
LEMMA StillNothing ==
  ASSUME FormsAreAll, ExplainInv, [Next]_vars, UNCHANGED <<model, cmd, kept>>,
         pc # "start", pc' # "start", pc = "done" => pc' = "done" /\ dead' = dead,
         UNCHANGED <<result, calls, paths>>, UNCHANGED findPath, todo = <<>>, todo' = <<>>,
         ~(pc' = "forward" /\ cmd.backward /\ cmd.witness)
  PROVE  ExplainInv'
<1>1. Occupied(todo)' /\ Stacked(todo, args)'
  BY DEF Occupied, Stacked
<1>2. trans' = trans
  BY CheckerKept
<1>3. Seeking'
  <2>1. Looking'
    BY <1>2, LookingStays DEF ExplainInv, Seeking
  <2>2. fpc = "done" /\ fpc' = fpc
    BY DEF ExplainInv, Seeking, findPath
  <2>. QED
    BY <2>1, <2>2 DEF Seeking
<1>4. Ends(todo, result, args)'
  <2>1. result \in SUBSET States
    <3>1. result \subseteq reachable /\ IsAsked /\ Computed
      BY DEF ExplainInv, Inv, InvAsked, InvKept
    <3>. QED
      BY <3>1, ComputedIsKept DEF Kept
  <2>2. Chained(todo', result', args', result)
    BY DEF Chained, Delivers
  <2>3. Implied => Implied'
    BY ImpliedAsBefore
  <2>. QED
    BY <2>1, <2>2, <2>3, EndsMoves
<1>. QED
  BY <1>1, <1>3, <1>4, CheckMoves

(* A formula is to be explained in the initial states.                     *)
LEMMA CallOfMain ==
  ASSUME FormsAreAll, ExplainInv, [Next]_vars, UNCHANGED <<model, cmd, kept>>, dead' = dead,
         pc \in {"formulas", "forward"}, pc' \in {"formulas", "forward"}, ~cmd.fair,
         UNCHANGED <<result, calls, paths>>, UNCHANGED findPath, todo = <<>>,
         NEW t \in Tasks, t.do = "explain", t.states = InitialState, todo' = <<t>>,
         Fits(t) \/ (t.formula \in Compared /\ pc' = "formulas")
  PROVE  ExplainInv'
<1>1. Kept /\ InitialState \in SUBSET States
  <2>1. IsAsked /\ Computed
    BY DEF ExplainInv, Inv, InvAsked, InvKept
  <2>. QED
    BY <2>1, ComputedIsKept DEF Kept
<1>2. <<t>> \in Seq(Tasks) /\ <<t>> # <<>> /\ Len(<<t>>) = 1 /\ Head(<<t>>) = t
  OBVIOUS
<1>3. "explain" \notin Shows /\ "explain" # "dead"
  BY DEF Shows
<1>4. Occupied(todo)'
  <2>1. t.formula \in Compared => pc' = "formulas"
    BY FitsIs
  <2>2. cmd' = cmd
    OBVIOUS
  <2>3. Compared' = Compared
    BY DEF Compared, Bases, FwdGs, Eforms
  <2>. QED
    BY <1>2, <1>3, <2>1, <2>2, <2>3 DEF Occupied
<1>5. Stacked(todo, args)'
  <2>1. Stacked(todo', args')
    BY <1>2 DEF Stacked
  <2>. QED
    BY <2>1, StackKept
<1>6. trans' = trans
  BY CheckerKept
<1>7. Seeking'
  <2>1. Looking'
    BY <1>6, LookingStays DEF ExplainInv, Seeking
  <2>2. fpc' = "done"
    BY DEF ExplainInv, Seeking, findPath
  <2>3. Head(todo').do \notin Shows
    BY <1>2, <1>3
  <2>. QED
    BY <2>1, <2>2, <2>3 DEF Seeking
<1>8. Ends(todo, result, args)'
  <2>1. Handed(<<t>>, result, args) = InitialState
    BY <1>2 DEF Handed
  <2>2. Delivers(InitialState, InitialState) /\ t.do # "again"
    BY DEF Delivers
  <2>3. Chained(<<t>>, result, args, InitialState)
    BY <1>1, <2>1, <2>2, EndsByOne
  <2>4. args' = args /\ result' = result
    BY DEF findPath
  <2>5. Chained(todo', result', args', InitialState)
    BY <2>3, <2>4
  <2>6. Implied => Implied'
    BY ImpliedAsBefore
  <2>. QED
    BY <1>1, <2>5, <2>6, EndsMoves
<1>. QED
  BY <1>4, <1>5, <1>7, <1>8, CheckMoves

(* What is known while formulas are checked.                               *)
LEMMA AtFormula ==
  ASSUME FormsAreAll, ExplainInv, CheckBackward \/ CheckForward
  PROVE  LET f == cmd.formulas[index]
         IN  /\ Kept /\ IsAsked /\ f \in Forms /\ IsParsed(f)
             /\ index \in 1 .. Len(cmd.formulas) /\ cmd.ask = "formulas"
             /\ Existential[f] \in Eforms /\ Sat[Existential[f]] = Sat[f]
             /\ InitialState \in SUBSET reachable /\ reachable \in SUBSET States
<1> DEFINE f == cmd.formulas[index]
<1>1. /\ pc \in {"formulas", "forward"} /\ IsAsked /\ Computed
      /\ index \in 1 .. Len(cmd.formulas) + 1
      /\ pc = "forward" => index <= Len(cmd.formulas)
      /\ cmd.ask = "formulas" /\ (pc = "formulas" => index <= Len(cmd.formulas))
  BY DEF CheckBackward, CheckForward, ExplainInv, Inv, InvAsked, InvKept
<1>2. /\ Len(cmd.formulas) \in Nat
      /\ \A i \in 1 .. Len(cmd.formulas) : cmd.formulas[i] \in Forms /\ IsParsed(cmd.formulas[i])
  BY <1>1, CommandTyped
<1>3. index \in 1 .. Len(cmd.formulas)
  BY <1>1, <1>2
<1>4. f \in Forms /\ IsParsed(f)
  BY <1>2, <1>3
<1>5. Kept
  BY <1>1, ComputedIsKept
<1> HIDE DEF f
<1>6. Existential[f] \in Eforms
  BY <1>4, ExistentialIs DEF Eforms
<1>7. Sat[Existential[f]] = Sat[f]
  BY <1>4, <1>5, SatExistential
<1>8. InitialState \in SUBSET reachable /\ reachable \in SUBSET States
  BY <1>5 DEF Kept
<1>. QED
  BY <1>1, <1>3, <1>4, <1>5, <1>6, <1>7, <1>8 DEF f

(* The call of main.                                                       *)
LEMMA MainCalls ==
  ASSUME todo = <<>>, NEW g \in Forms, NEW holds \in BOOLEAN, InitialState \in SUBSET States
  PROVE  LET t == Call(InitialState, g, holds)
         IN  /\ t \in Tasks /\ t.do = "explain" /\ t.states = InitialState /\ t.formula = g
             /\ t.said = holds
<1>1. Call(InitialState, g, holds) =
        [do |-> "explain", states |-> InitialState, formula |-> g, said |-> holds, of |-> "main"]
  BY DEF Call, Task
<1>. QED
  BY <1>1 DEF Tasks

(* A verdict is true or false.                                             *)
LEMMA VerdictIsBoolean ==
  ASSUME NEW g
  PROVE  Verdict(g) \in BOOLEAN
BY Zenon DEF Verdict

(* What is to be done after a verdict.                                     *)
LEMMA ExplainedIs ==
  ASSUME NEW g, NEW holds
  PROVE  Explained(g, holds) = IF cmd.witness THEN <<Call(InitialState, g, holds)>> ELSE <<>>
BY DEF Explained

(* The backward verdict says whether some initial state satisfies the      *)
(* existential form, which is explained in them.                           *)
LEMMA BackwardVerifiedStep ==
  ASSUME FormsAreAll, ExplainInv, Verified, CheckBackward
  PROVE  ExplainInv'
<1> DEFINE f == cmd.formulas[index]
           e == Existential[f]
           v == Verdict(BackwardFormula(f))
           t == Call(InitialState, e, v)
<1>1. /\ todo = <<>> /\ UNCHANGED <<result, calls, paths>> /\ UNCHANGED findPath
      /\ pc = "formulas" /\ pc' = "forward" /\ UNCHANGED <<model, cmd, kept>> /\ dead' = dead
      /\ [Next]_vars
  BY DEF Verified, CheckBackward, Next
<1>2. todo' = IF cmd.witness THEN <<t>> ELSE <<>>
  <2>1. ~CheckForward
    BY <1>1 DEF CheckForward
  <2>2. todo' = Explained(e, v)
    BY <2>1 DEF Verified
  <2>. QED
    BY <2>2, ExplainedIs
<1>3. /\ Kept /\ IsAsked /\ f \in Forms /\ IsParsed(f) /\ cmd.ask = "formulas"
      /\ e \in Eforms /\ Sat[e] = Sat[f]
      /\ InitialState \in SUBSET reachable /\ reachable \in SUBSET States
  BY AtFormula
<1>4. v <=> InitialState \cap Sat[f] # {}
  BY <1>3, BackwardVerdict
<1>5. v \in BOOLEAN
  BY VerdictIsBoolean
<1> HIDE DEF f, e, v
<1>6. Exact(e) = Sat[f] /\ e \in Explainable /\ e \in Forms
  BY <1>3, EformsAreFound DEF Explainable, Eforms
<1>7. t \in Tasks /\ t.do = "explain" /\ t.states = InitialState /\ t.formula = e /\ t.said = v
  BY <1>1, <1>3, <1>5, <1>6, MainCalls
<1> HIDE DEF t
<1>8. CASE cmd.witness
  <2>1. Fits(t)
    <3>1. t.said <=> t.states \cap Exact(t.formula) # {}
      BY <1>4, <1>6, <1>7
    <3>. QED
      BY <1>3, <1>6, <1>7, <3>1, CallFits
  <2>2. ~cmd.fair
    BY <1>3, <1>8, ExplainedCommands DEF IsAsked
  <2>3. todo' = <<t>>
    BY <1>2, <1>8
  <2>. QED
    BY <1>1, <1>7, <2>1, <2>2, <2>3, CallOfMain
<1>9. CASE ~cmd.witness
  BY <1>1, <1>2, <1>9, StillNothing
<1>. QED
  BY <1>8, <1>9

(* A forward form that is a comparison compares what can be explained.     *)
LEMMA ForwardIsCompared ==
  ASSUME FormsAreAll, Kept, NEW f \in Forms, IsParsed(f), ForwardFormula(f)[1] = "CMP"
  PROVE  ForwardFormula(f) \in Compared
<1> DEFINE e == Existential[f]
           c == CompareValue(e)
           g == IF c = 0 THEN Not(e) ELSE e
<1>1. e \in Eforms
  BY ExistentialIs DEF Eforms
<1>2. c \in {0, 1}
  BY DEF CompareValue
<1>3. ForwardFormula(f) = Forward[<<Start, g, c>>]
  BY DEF ForwardFormula
<1> HIDE DEF e, c
<1>4. IsShaped(g)
  BY <1>1, ForwardIsShaped
<1>5. IsConverted(e) /\ IsConverted(Not(e))
  BY <1>1, ForwardIs DEF Eforms
<1>6. IsConverted(g)
  BY <1>5
<1> HIDE DEF g
<1>7. Forward[<<Start, g, c>>] \in Forms
  BY <1>2, <1>6, StartIsBase DEF IsConverted, Says, Gives
<1>8. Start \in Bases
  BY BasesBuilt
<1>. QED
  BY <1>2, <1>3, <1>4, <1>7, <1>8 DEF IsShaped

(* After the forward verdict, the comparison is explained.                 *)
LEMMA ForwardVerifiedStep ==
  ASSUME FormsAreAll, ExplainInv, Verified, CheckForward
  PROVE  ExplainInv'
<1> DEFINE f == cmd.formulas[index]
           g == ForwardFormula(f)
           v == Verdict(g)
           t == Call(InitialState, g, v)
<1>1. /\ todo = <<>> /\ UNCHANGED <<result, calls, paths>> /\ UNCHANGED findPath
      /\ pc = "forward" /\ pc' = "formulas" /\ UNCHANGED <<model, cmd, kept>> /\ dead' = dead
      /\ [Next]_vars
  BY DEF Verified, CheckForward, Next
<1>2. todo' = IF (cmd.forward \/ ~cmd.backward) /\ cmd.witness THEN <<t>> ELSE <<>>
  <2>1. ~CheckBackward
    BY <1>1 DEF CheckBackward
  <2>2. todo' = IF cmd.forward \/ ~cmd.backward THEN Explained(g, v) ELSE <<>>
    BY <2>1 DEF Verified
  <2>. QED
    BY <2>2, ExplainedIs
<1>3. /\ Kept /\ IsAsked /\ f \in Forms /\ IsParsed(f) /\ cmd.ask = "formulas"
      /\ index \in 1 .. Len(cmd.formulas)
      /\ InitialState \in SUBSET reachable /\ reachable \in SUBSET States
  BY AtFormula
<1>4. v \in BOOLEAN
  BY VerdictIsBoolean
<1>5. CASE (cmd.forward \/ ~cmd.backward) /\ cmd.witness
  <2>1. ~cmd.fair /\ g[1] = "CMP"
    <3>1. cmd.formulas \in Seq(Forms) /\ DOMAIN cmd.formulas = 1 .. Len(cmd.formulas)
      BY <1>3, CommandTyped
    <3>. QED
      BY <1>3, <1>5, <3>1, ExplainedCommands DEF IsAsked
  <2>2. g \in Compared
    BY <1>3, <2>1, ForwardIsCompared
  <2> HIDE DEF f, g, v
  <2>3. g \in Forms
    BY <2>2 DEF Compared
  <2>4. t \in Tasks /\ t.do = "explain" /\ t.states = InitialState /\ t.formula = g
    BY <1>1, <1>3, <1>4, <2>3, MainCalls
  <2> HIDE DEF t
  <2>5. todo' = <<t>>
    BY <1>2, <1>5
  <2>. QED
    BY <1>1, <2>1, <2>2, <2>4, <2>5, CallOfMain
<1>6. CASE ~((cmd.forward \/ ~cmd.backward) /\ cmd.witness)
  BY <1>1, <1>2, <1>6, StillNothing
<1>. QED
  BY <1>5, <1>6

(* A verdict, and what it makes to explain.                                *)
LEMMA VerifiedStep ==
  ASSUME FormsAreAll, ExplainInv, Verified
  PROVE  ExplainInv'
BY BackwardVerifiedStep, ForwardVerifiedStep DEF Verified

(* A path to one of the deadlocks, or timelocks, is to be shown.           *)
LEMMA ShowDead ==
  ASSUME FormsAreAll, ExplainInv, [Next]_vars, UNCHANGED <<model, cmd, kept>>,
         pc \notin {"start", "done"}, pc' = "done", todo = <<>>,
         UNCHANGED <<result, calls, paths>>, dead' \in SUBSET reachable, dead' # {},
         NEW t, t = Show("dead", True, dead'), todo' = <<t>>,
         NEW b \in BOOLEAN, Find(InitialState, dead', reachable, b)
  PROVE  ExplainInv'
<1>1. IsAsked /\ Computed
  BY DEF ExplainInv, Inv, InvAsked, InvKept
<1>2. /\ Kept /\ trans \in Systems /\ InitialStates \in SUBSET States
      /\ reachable = Fixpoint(NextRel(trans), InitialStates)
      /\ InitialStates \subseteq InitialState
  BY <1>1, ComputedIsKept, ModelTyped, FixpointContains DEF Computed, InitialState, ElapseFrom
<1>3. InitialState \in SUBSET reachable /\ reachable \in SUBSET States
  BY <1>2 DEF Kept
<1>4. trans' = trans /\ InitialState' = InitialState /\ reachable' = reachable
  BY CheckerKept
<1>5. dead' \in SUBSET States
  BY <1>3
<1> DEFINE a == [init |-> InitialState, toreach |-> dead', reach |-> reachable,
                 pot |-> States, precise |-> b]
<1>6. Looking' /\ fpc' = "start" /\ args' = a
  <2>1. InitialState \in SUBSET States /\ (dead' # {} => reachable # {})
    BY <1>3
  <2>. QED
    BY <1>2, <1>3, <1>4, <1>5, <2>1, FindStarts
<1>7. InitialState \cap Backward(dead', reachable) # {}
  <2>1. dead' \subseteq Backward(dead', reachable)
    BY <1>5, BackwardIs
  <2>2. reachable \cap Backward(dead', reachable) # {}
    BY <2>1
  <2>3. InitialStates \cap Backward(dead', reachable) # {}
    BY <1>2, <1>5, <2>2, FixpointBacktracks
  <2>. QED
    BY <1>2, <2>3
<1>8. /\ t \in Tasks /\ t.do = "dead" /\ t.states = dead'
  <2>1. t = [do |-> "dead", states |-> dead', formula |-> True, said |-> TRUE, of |-> "main"]
    BY DEF Show, Task
  <2>2. True \in Forms
    BY FormsClosed
  <2>3. "dead" \in Shows
    BY DEF Shows
  <2>4. ASSUME NEW S \in SUBSET States
        PROVE  [do |-> "dead", states |-> S, formula |-> True, said |-> TRUE, of |-> "main"] \in Tasks
    <3> HIDE DEF a
    <3>. QED
      BY <2>2, <2>3 DEF Tasks
  <2>5. t \in Tasks
    BY <1>5, <2>1, <2>4
  <2>. QED
    BY <2>1, <2>5
<1>9. <<t>> \in Seq(Tasks) /\ <<t>> # <<>> /\ Len(<<t>>) = 1 /\ Head(<<t>>) = t
  BY <1>8
<1>10. Occupied(todo)'
  BY <1>8, <1>9 DEF Occupied
<1>11. Stacked(todo, args)'
  <2>1. Backward(dead, reachable)' = Backward(dead', reachable)
    BY <1>4 DEF Backward
  <2>2. Hopeful(args)'
    <3>1. /\ args'.init = InitialState /\ args'.toreach = dead' /\ args'.reach = reachable
      BY <1>6
    <3>2. Backward(args.toreach, args.reach)' = Backward(dead', reachable)
      BY <1>4, <3>1 DEF Backward
    <3>. QED
      BY <1>7, <3>1, <3>2 DEF Hopeful
  <2>3. Searched(t, args)'
    <3>1. args'.init \subseteq reachable' /\ args'.toreach = dead'
      BY <1>3, <1>4, <1>6
    <3>2. t.states \subseteq reachable' /\ t.do = "dead"
      BY <1>4, <1>8
    <3>. QED
      BY <2>2, <3>1, <3>2 DEF Searched
  <2>. QED
    BY <1>9, <2>3 DEF Stacked
<1>12. Seeking'
  <2>1. Head(todo').do \in Shows /\ todo' # <<>>
    BY <1>8, <1>9 DEF Shows
  <2>. QED
    BY <1>6, <2>1 DEF Seeking
<1>13. Ends(todo, result, args)'
  <2>1. Handed(<<t>>, result', args') = dead'
    BY <1>8, <1>9 DEF Handed
  <2>2. Delivers(dead', dead') /\ t.do # "again"
    BY <1>8 DEF Delivers
  <2>3. Chained(todo', result', args', dead')
    BY <1>5, <2>1, <2>2, EndsByOne
  <2>4. Implied => Implied'
    BY ImpliedAsBefore
  <2>. QED
    BY <1>5, <2>3, <2>4, EndsMoves
<1>. QED
  BY <1>10, <1>11, <1>12, <1>13, CheckMoves

(* The deadlocks, or the timelocks: one is reached from an initial state.  *)
LEMMA DeadStep ==
  ASSUME FormsAreAll, ExplainInv, Dead
  PROVE  ExplainInv'
<1>1. /\ todo = <<>> /\ UNCHANGED <<result, calls>> /\ [Next]_vars
      /\ UNCHANGED <<model, cmd, kept>> /\ pc \in {"deadlock", "timelock"} /\ pc' = "done"
  BY DEF Dead, FindDeadlocks, FindTimelocks, Next
<1>2. dead' \in SUBSET reachable
  <2>1. IsAsked /\ Computed
    BY <1>1 DEF ExplainInv, Inv, InvAsked, InvKept
  <2>2. deadlocks_ \subseteq reachable
    BY <2>1, ComputedIsKept DEF Kept
  <2>3. GreatestFixpoint(Elapse, reachable) \subseteq reachable
    BY DEF GreatestFixpoint
  <2>. QED
    BY <2>2, <2>3 DEF Dead, FindDeadlocks, FindTimelocks
<1>3. CASE dead' = {} \/ ~cmd.witness
  <2>1. todo' = todo /\ paths' = paths /\ UNCHANGED findPath
    BY <1>3 DEF Dead
  <2>. QED
    BY <1>1, <2>1, StillNothing
<1>4. CASE ~(dead' = {} \/ ~cmd.witness)
  <2>1. todo' = <<Show("dead", True, dead')>> /\ paths' = paths
    BY <1>4 DEF Dead
  <2>2. PICK b \in BOOLEAN : Find(InitialState, dead', reachable, b)
    BY <1>4 DEF Dead
  <2>3. PICK t : t = Show("dead", True, dead')
    OBVIOUS
  <2>4. todo' = <<t>>
    BY <2>1, <2>3
  <2>. QED
    BY <1>1, <1>2, <1>4, <2>1, <2>2, <2>3, <2>4, ShowDead
<1>. QED
  BY <1>3, <1>4

(* A step that keeps all that is explained, when nothing was.              *)
LEMMA StillUnused ==
  ASSUME FormsAreAll, ExplainInv, [Next]_vars, UNCHANGED <<explanation, findPath>>,
         pc = "start", trans' = trans, pc' # "forward"
  PROVE  ExplainInv'
<1>1. todo = <<>> /\ calls = {} /\ paths = {} /\ result = {} /\ Looking /\ fpc = "done"
  BY DEF ExplainInv, Occupied, Seeking
<1>2. Looking' /\ fpc' = fpc
  BY <1>1, LookingStays DEF findPath
<1>3. Unused'
  BY <1>1, <1>2 DEF Unused, explanation
<1>4. Inv'
  BY NextInv DEF ExplainInv
<1>. QED
  BY <1>3, <1>4, UnusedNext

(* A step that changes nothing.                                            *)
LEMMA StutterStep ==
  ASSUME FormsAreAll, ExplainInv, UNCHANGED explainVars
  PROVE  ExplainInv'
<1>1. UNCHANGED vars /\ UNCHANGED <<explanation, findPath>> /\ [Next]_vars
  BY DEF explainVars
<1>2. UNCHANGED <<model, cmd, kept>> /\ pc' = pc /\ dead' = dead
  BY <1>1 DEF vars
<1>3. trans' = trans
  BY <1>2, CheckerKept
<1>4. CASE pc = "start"
  BY <1>1, <1>2, <1>3, <1>4, StillUnused
<1>5. CASE pc # "start"
  <2>1. /\ todo' = todo /\ result' = result /\ calls' = calls /\ paths' = paths
        /\ args' = args /\ fpc' = fpc /\ status' = status
    BY <1>1 DEF explanation, findPath
  <2>2. Implied => Implied'
    BY <2>1 DEF Implied, form
  <2>3. Looking'
    BY <1>1, <1>3, LookingStays DEF ExplainInv, Seeking
  <2>4. Seeking'
    BY <2>1, <2>3 DEF ExplainInv, Seeking
  <2>5. /\ result' \subseteq reachable /\ Occupied(todo') /\ Stacked(todo', args')
        /\ Ends(todo', result', args') /\ CallsAgree(calls') /\ Traced(paths')
    BY <1>5, <2>1 DEF ExplainInv
  <2>. QED
    BY <1>1, <1>5, <2>2, <2>4, <2>5, InvMoves
<1>. QED
  BY <1>4, <1>5

(* The other steps of the checker.                                         *)
LEMMA UnexplainedStep ==
  ASSUME FormsAreAll, ExplainInv, Unexplained
  PROVE  ExplainInv'
<1>1. /\ todo = <<>> /\ UNCHANGED <<explanation, findPath>>
      /\ ComputeReachable \/ SkipBackward \/ Exit \/ Exited
  BY DEF Unexplained
<1>2. /\ [Next]_vars /\ UNCHANGED <<result, calls, paths>> /\ UNCHANGED findPath /\ todo' = <<>>
  BY <1>1 DEF Next, explanation
<1>3. CASE ComputeReachable
  <2>1. pc = "start" /\ model' = model /\ pc' = cmd.ask
    BY <1>3 DEF ComputeReachable
  <2>2. pc' # "forward"
    BY <2>1, CommandTyped DEF ExplainInv, Inv, InvAsked
  <2>3. trans' = trans
    BY <2>1 DEF trans
  <2>. QED
    BY <1>1, <1>2, <2>1, <2>2, <2>3, StillUnused
<1>4. CASE SkipBackward
  <2>1. /\ UNCHANGED <<model, cmd, kept>> /\ pc = "formulas" /\ pc' = "forward" /\ ~cmd.backward
    BY <1>4 DEF SkipBackward
  <2>. QED
    BY <1>1, <1>2, <2>1, StillNothing
<1>5. CASE Exit
  <2>1. /\ UNCHANGED <<model, cmd, kept>> /\ pc = "formulas" /\ pc' = "done"
    BY <1>5 DEF Exit
  <2>. QED
    BY <1>1, <1>2, <2>1, StillNothing
<1>6. CASE Exited
  <2>1. UNCHANGED explainVars
    BY <1>1, <1>6 DEF Exited, explainVars
  <2>. QED
    BY <2>1, StutterStep
<1>. QED
  BY <1>1, <1>3, <1>4, <1>5, <1>6

-----------------------------------------------------------------------------
(* Every step keeps the invariant.                                         *)
LEMMA ExplainStep ==
  ASSUME FormsAreAll, ExplainInv, [ExplainNext]_explainVars
  PROVE  ExplainInv'
<1>1. CASE UNCHANGED explainVars
  BY <1>1, StutterStep
<1>2. CASE Verified \/ Dead \/ Unexplained \/ SearchStep
  BY <1>2, VerifiedStep, DeadStep, UnexplainedStep, SearchStepKeeps
<1>3. CASE ExplainAtom \/ ExplainNot \/ ExplainAnd \/ ExplainNoAnd \/ ExplainThen
  BY <1>3, AtomStep, NotStep, AndStep, NoAndStep, ThenStep
<1>4. CASE ExplainOr \/ ExplainNeither \/ ExplainEX \/ ExplainNoEX \/ ExplainEU
  BY <1>4, OrStep, NeitherStep, EXStep, NoEXStep, EUStep
<1>5. CASE ExplainNoEU \/ ExplainEG \/ ExplainNoEG \/ ExplainCmp \/ ExplainFwdU \/ ExplainNothing
  BY <1>5, NoEUStep, EGStep, NoEGStep, CmpStep, FwdUStep, NothingStep
<1>6. CASE PrintUntil \/ PrintFwdU \/ PrintNoUntil \/ PrintNoEG \/ PrintDead
  BY <1>6, PrintUntilStep, PrintFwdUStep, PrintNoUntilStep, PrintNoEGStep, PrintDeadStep
<1>7. CASE PrintPrefix \/ PrintCycle \/ ReturnStates \/ CallOnResult \/ CallForSide
  BY <1>7, PrintPrefixStep, PrintCycleStep, ReturnStep, OnResultStep, ForSideStep
<1>. QED
  BY <1>1, <1>2, <1>3, <1>4, <1>5, <1>6, <1>7 DEF ExplainNext

(* The inductive invariant of its-ctl --witness (CTLChecker::explain,      *)
(* CTL/src/mc/ctlCheck.cpp): what was said of the calls made and the traces *)
(* printed is right; each task that remains is a call for states and a     *)
(* subformula of which the same is true, or shows a search that looks for  *)
(* what the text promises, and succeeds; each task hands to the next one a *)
(* part of its states, so that the last call returns initial states.       *)
THEOREM ExplanationInvariance ==
  ASSUME FormsAreAll
  PROVE  ExplainSpec => []ExplainInv
<1>1. ExplainInit => ExplainInv
  BY NothingStarts, UnusedIsRight, InitInv DEF ExplainInit
<1>2. ExplainInv /\ [ExplainNext]_explainVars => ExplainInv'
  BY ExplainStep
<1>. QED
  BY <1>1, <1>2, PTL DEF ExplainSpec

(* What is said of a subformula before it is explained is what its         *)
(* evaluation finds (ctlCheck.cpp 266-520), but for the operands of an     *)
(* implication or a disjunction, for every finite state space, model,      *)
(* labelling and formula, and for forward and backward forms.              *)
THEOREM ExplanationsAreRight ==
  ASSUME FormsAreAll
  PROVE  ExplainSpec => []ExplanationsAgree
<1>1. ExplainInv => ExplanationsAgree
  <2> SUFFICES ASSUME ExplainInv, NEW c \in calls,
                      c.of \notin {"THEN", "OR"}, c.formula[1] # "CMP", c.states # {}
               PROVE  c.said <=> c.states \cap Meaning(c.formula) # {}
    BY DEF ExplanationsAgree
  <2>1. IsAsked /\ Computed
    BY DEF ExplainInv, Inv, InvAsked, InvKept
  <2>2. Kept
    BY <2>1, ComputedIsKept
  <2>3. c.formula \in Explainable /\ Agrees(c)
    BY DEF ExplainInv, CallsAgree, Compared
  <2>4. Meaning(c.formula) = Exact(c.formula)
    BY <2>2, <2>3, MeaningIs
  <2>. QED
    BY <2>3, <2>4 DEF Agrees
<1>. QED
  BY <1>1, ExplanationInvariance, PTL

(* Every trace printed can be played, from the states it starts with to    *)
(* states where the subformula it explains is as the text says, and only   *)
(* those of EG may be missing (printPath, findCycle).                      *)
THEOREM TracesAreRight ==
  ASSUME FormsAreAll
  PROVE  ExplainSpec => []PathsAreTraces
<1>1. ExplainInv => PathsAreTraces
  BY DEF ExplainInv, Traced, IsTrace, PathsAreTraces
<1>. QED
  BY <1>1, ExplanationInvariance, PTL

(* The states returned when a formula was explained after its backward     *)
(* verdict are initial ones, and there are some unless an implication was  *)
(* explained on the way.                                                   *)
THEOREM InputsAreExplained ==
  ASSUME FormsAreAll
  PROVE  ExplainSpec => []ExplainedAreInputs
<1>1. ExplainInv => ExplainedAreInputs
  <2> SUFFICES ASSUME ExplainInv, pc = "forward", todo = <<>>, cmd.backward, cmd.witness
               PROVE  /\ result \subseteq InitialState
                      /\ result = {} => \E c \in calls : c.formula[1] = "THEN"
    BY DEF ExplainedAreInputs
  <2>1. IsAsked /\ Computed
    BY DEF ExplainInv, Inv, InvAsked, InvKept
  <2>2. InitialState # {}
    BY <2>1, ComputedIsKept DEF Kept
  <2>3. Chained(todo, result, args, InitialState)
    BY DEF ExplainInv, Ends, Judging
  <2>4. Delivers(result, InitialState)
    BY <2>3 DEF Chained
  <2>. QED
    BY <2>2, <2>4 DEF Delivers, Implied
<1>. QED
  BY <1>1, ExplanationInvariance, PTL

(* With --witness its-ctl answers as it does without: explaining changes   *)
(* nothing that the checker keeps, so that all that is proved of the       *)
(* answers holds of it.                                                    *)
THEOREM ExplainingIsChecking == ExplainSpec => Spec
<1>1. ExplainInit => Init
  BY DEF ExplainInit
<1>2. [ExplainNext]_explainVars => [Next]_vars
  <2> SUFFICES ASSUME [ExplainNext]_explainVars
               PROVE  [Next]_vars
    OBVIOUS
  <2>1. CASE UNCHANGED explainVars
    BY <2>1 DEF explainVars
  <2>2. CASE Verified \/ Dead \/ Unexplained
    BY <2>2 DEF Verified, Dead, Unexplained, Next
  <2>3. CASE SearchStep
    BY <2>3 DEF SearchStep
  <2>4. CASE \/ ExplainAtom \/ ExplainNot \/ ExplainAnd \/ ExplainNoAnd \/ ExplainThen \/ ExplainOr
             \/ ExplainNeither \/ ExplainEX \/ ExplainNoEX \/ ExplainEU \/ ExplainNoEU
             \/ ExplainEG \/ ExplainNoEG \/ ExplainCmp \/ ExplainFwdU \/ ExplainNothing
    BY <2>4 DEF ExplainAtom, ExplainNot, ExplainAnd, ExplainNoAnd, ExplainThen, ExplainOr,
       ExplainNeither, ExplainEX, ExplainNoEX, ExplainEU, ExplainNoEU, ExplainEG, ExplainNoEG,
       ExplainCmp, ExplainFwdU, ExplainNothing, Explaining
  <2>5. CASE \/ PrintUntil \/ PrintFwdU \/ PrintNoUntil \/ PrintNoEG \/ PrintDead \/ PrintPrefix
             \/ PrintCycle \/ ReturnStates \/ CallOnResult \/ CallForSide
    BY <2>5 DEF PrintUntil, PrintFwdU, PrintNoUntil, PrintNoEG, PrintDead, PrintPrefix, Printing,
       PrintCycle, ReturnStates, CallOnResult, CallForSide
  <2>. QED
    BY <2>1, <2>2, <2>3, <2>4, <2>5 DEF ExplainNext
<1>. QED
  BY <1>1, <1>2, PTL DEF ExplainSpec, Spec

(* So the answers, the states found and the deadlocks are right with       *)
(* --witness too.                                                          *)
THEOREM ExplainedAnswersAreCorrect ==
  ASSUME FormsAreAll
  PROVE  ExplainSpec => [](AnswersAreCorrect /\ StatesAreExact /\ DeadAreStuck)
BY ExplainingIsChecking, CorrectAnswers, ExactStates, DeadlocksAndTimelocks, PTL

(* What is printed of a search, and its traces, have the types expected.   *)
SearchTyped ==
  /\ rev \in Seq(SUBSET States) /\ witness \in Seq(Names)
  /\ status \in {"none", "path", "failed"}

PathTyped(p) == p.layers \in Seq(SUBSET States) /\ p.names \in Seq(Names)

Typed == ExplainInv /\ SearchTyped /\ \A p \in paths : PathTyped(p)

(* A step of a search.                                                     *)
LEMMA SearchStaysTyped ==
  ASSUME Looking, SearchTyped, fpc # "done", F!Next
  PROVE  SearchTyped'
<1>1. Looking' /\ args' = args
  BY LookingStep
<1>2. CASE args.toreach # {}
  <2>1. FP!CallInv'
    BY <1>1, <1>2 DEF Looking
  <2>. QED
    BY <2>1 DEF FP!CallInv, FP!IInv, FP!TypeOK, SearchTyped, FP!Names, Names
<1>3. CASE args.toreach = {}
  <2>1. /\ fpc \in {"start", "back"} /\ (fpc = "back" => F!M2 = {})
        /\ args.init \in SUBSET States
    BY <1>3 DEF Looking, F!M2, F!Post, F!Arguments
  <2>2. UNCHANGED <<witness, status, rev>> \/ F!StartSearch \/ F!SearchFails
    BY <1>3, <2>1
    DEF F!Next, F!AlreadyThere, F!SearchBack, F!SearchMeetsInit,
        F!StepForward, F!EndForward, F!StepPrecise, F!EndPrecise, F!Returned
  <2>3. CASE F!StartSearch
    <3>1. witness' = witness /\ status' = status /\ rev' = <<{}>>
      BY <1>3, <2>3 DEF F!StartSearch
    <3>. QED
      BY <3>1 DEF SearchTyped
  <2>4. CASE F!SearchFails
    <3>1. witness' = witness /\ status' = "failed" /\ rev' = <<args.init, {}>>
      BY <1>3, <2>4 DEF F!SearchFails
    <3>. QED
      BY <2>1, <3>1 DEF SearchTyped
  <2>. QED
    BY <2>2, <2>3, <2>4 DEF SearchTyped
<1>. QED
  BY <1>2, <1>3

(* A transition that is shown.                                             *)
LEMMA EXIsTyped ==
  ASSUME ExplainEX, NEW p \in paths', p \notin paths
  PROVE  PathTyped(p)
<1>1. PICK n \in FirstName(satF, left) :
        LET target == Post(trans[n], satF) \cap left
            init == Post(predRel_, target) \cap satF
        IN  paths' = paths \cup {[why |-> "EX", formula |-> form, found |-> TRUE,
                                  layers |-> <<init, target>>, names |-> <<n>>]}
  BY DEF ExplainEX
<1> DEFINE target == Post(trans[n], satF) \cap left
           init == Post(predRel_, target) \cap satF
<1>2. p.layers = <<init, target>> /\ p.names = <<n>>
  BY <1>1
<1>3. target \in SUBSET States /\ init \in SUBSET States
  BY DEF Post
<1>4. n \in Names
  BY DEF FirstName
<1> HIDE DEF target, init
<1>. QED
  BY <1>2, <1>3, <1>4 DEF PathTyped

(* A trace that was searched for.                                          *)
LEMMA PrintIsTyped ==
  ASSUME SearchTyped, NEW reason, Printing(reason), NEW p \in paths', p \notin paths
  PROVE  PathTyped(p)
<1>1. p.layers = rev /\ p.names = witness
  BY DEF Printing
<1>. QED
  BY <1>1 DEF PathTyped, SearchTyped

(* A cycle.                                                                *)
LEMMA CycleIsTyped ==
  ASSUME SearchTyped, IsFiniteSet(States)
  PROVE  PathTyped(Cycle)
<1> DEFINE ns == FirstName(pathFinal, pathInit)
           target == UNION {Post(trans[m], pathFinal) \cap pathInit : m \in ns}
           back == Post(PredRel(trans, reachable, States), target)
           k == Cardinality(ns)
           added == [i \in 1 .. k |-> CHOOSE m \in ns : TRUE]
           cut == [rev EXCEPT ![Len(rev)] = @ \cap back]
<1>1. Cycle.layers = Append(cut, target) /\ Cycle.names = witness \o added
  BY DEF Cycle
<1>2. ns \subseteq Names /\ target \in SUBSET States
  BY DEF FirstName, Post
<1>3. k \in Nat /\ (k # 0 => ns # {})
  <2>1. IsFiniteSet(Names)
    BY NbTransIsNat, FS_Interval DEF Names
  <2>2. IsFiniteSet(ns)
    BY <1>2, <2>1, FS_Subset
  <2>. QED
    BY <2>2, FS_CardinalityType, FS_EmptySet
<1>4. added \in Seq(Names)
  <2>1. ASSUME NEW i \in 1 .. k
        PROVE  (CHOOSE m \in ns : TRUE) \in Names
    <3> HIDE DEF ns
    <3>. QED
      BY <1>2, <1>3, <2>1
  <2> HIDE DEF k, ns
  <2>. QED
    BY <1>3, <2>1
<1>5. cut \in Seq(SUBSET States)
  <2> HIDE DEF back
  <2>1. Len(rev) \in Nat /\ rev \in [1 .. Len(rev) -> SUBSET States]
    BY DEF SearchTyped
  <2>2. ASSUME NEW i \in 1 .. Len(rev)
        PROVE  cut[i] \in SUBSET States
    <3>1. rev[i] \in SUBSET States /\ (i = Len(rev) => cut[i] = rev[i] \cap back)
      BY <2>1, <2>2
    <3>2. i # Len(rev) => cut[i] = rev[i]
      BY <2>1, <2>2
    <3>. QED
      BY <3>1, <3>2
  <2>3. cut \in [1 .. Len(rev) -> SUBSET States]
    BY <2>1, <2>2
  <2> HIDE DEF cut
  <2>. QED
    BY <2>1, <2>3
<1> HIDE DEF cut, target, added
<1>6. Append(cut, target) \in Seq(SUBSET States) /\ witness \o added \in Seq(Names)
  BY <1>2, <1>4, <1>5 DEF SearchTyped
<1>. QED
  BY <1>1, <1>6 DEF PathTyped

(* The other steps print nothing.                                          *)
LEMMA NewPathsAreTyped ==
  ASSUME SearchTyped, [ExplainNext]_explainVars, NEW p \in paths', p \notin paths
  PROVE  PathTyped(p)
<1>1. CASE ExplainEX
  BY <1>1, EXIsTyped
<1>2. CASE \/ PrintUntil \/ PrintFwdU \/ PrintNoUntil \/ PrintNoEG \/ PrintDead \/ PrintPrefix
  BY <1>2, PrintIsTyped DEF PrintUntil, PrintFwdU, PrintNoUntil, PrintNoEG, PrintDead, PrintPrefix
<1>3. CASE PrintCycle
  BY <1>3, CycleIsTyped, StatesFinite DEF PrintCycle
<1>4. CASE UNCHANGED explainVars \/ Verified \/ Dead \/ Unexplained \/ SearchStep
  BY <1>4 DEF explainVars, explanation, Verified, Dead, Unexplained, SearchStep
<1>5. CASE \/ ExplainAtom \/ ExplainNot \/ ExplainAnd \/ ExplainNoAnd \/ ExplainThen \/ ExplainOr
           \/ ExplainNeither \/ ExplainNoEX \/ ExplainEU \/ ExplainNoEU
           \/ ExplainEG \/ ExplainNoEG \/ ExplainCmp \/ ExplainFwdU \/ ExplainNothing
  BY <1>5 DEF ExplainAtom, ExplainNot, ExplainAnd, ExplainNoAnd, ExplainThen, ExplainOr,
     ExplainNeither, ExplainNoEX, ExplainEU, ExplainNoEU, ExplainEG, ExplainNoEG,
     ExplainCmp, ExplainFwdU, ExplainNothing, NoSearch, Search
<1>6. CASE ReturnStates \/ CallOnResult \/ CallForSide
  BY <1>6 DEF ReturnStates, CallOnResult, CallForSide
<1>. QED
  BY <1>1, <1>2, <1>3, <1>4, <1>5, <1>6 DEF ExplainNext

(* Only a search changes what it has found, but for one that starts.       *)
LEMMA SearchChanges ==
  ASSUME [ExplainNext]_explainVars
  PROVE  UNCHANGED findPath \/ (\E i, t, r, b : Find(i, t, r, b)) \/ SearchStep
<1>1. CASE UNCHANGED explainVars \/ Verified \/ Unexplained
  BY <1>1 DEF explainVars, Verified, Unexplained
<1>2. CASE Dead
  BY <1>2 DEF Dead
<1>3. CASE \/ ExplainAtom \/ ExplainNot \/ ExplainAnd \/ ExplainNoAnd \/ ExplainThen \/ ExplainOr
           \/ ExplainNeither \/ ExplainEX \/ ExplainNoEX \/ ExplainCmp \/ ExplainNothing
  BY <1>3 DEF ExplainAtom, ExplainNot, ExplainAnd, ExplainNoAnd, ExplainThen, ExplainOr,
     ExplainNeither, ExplainEX, ExplainNoEX, ExplainCmp, ExplainNothing, NoSearch
<1>4. CASE ExplainEU
  BY <1>4 DEF ExplainEU, NoSearch, Search
<1>5. CASE ExplainNoEU
  BY <1>5 DEF ExplainNoEU, NoSearch, Search
<1>6. CASE ExplainEG
  BY <1>6 DEF ExplainEG, Search
<1>7. CASE ExplainNoEG
  BY <1>7 DEF ExplainNoEG, NoSearch, Search
<1>8. CASE ExplainFwdU
  BY <1>8 DEF ExplainFwdU, Search
<1>9. CASE PrintPrefix
  BY <1>9 DEF PrintPrefix
<1>10. CASE \/ PrintUntil \/ PrintFwdU \/ PrintNoUntil \/ PrintNoEG \/ PrintDead \/ PrintCycle
            \/ ReturnStates \/ CallOnResult \/ CallForSide
  BY <1>10 DEF PrintUntil, PrintFwdU, PrintNoUntil, PrintNoEG, PrintDead, PrintCycle,
     ReturnStates, CallOnResult, CallForSide
<1>. QED
  BY <1>1, <1>2, <1>3, <1>4, <1>5, <1>6, <1>7, <1>8, <1>9, <1>10 DEF ExplainNext

(* Type correctness of --witness: the layers and the names of the traces,  *)
(* those of the searches and the tasks that remain are what they should be.*)
THEOREM ExplainTypeCorrect ==
  ASSUME FormsAreAll
  PROVE  ExplainSpec => []ExplainTypeOK
<1>1. ExplainInit => Typed
  <2> SUFFICES ASSUME ExplainInit PROVE Typed
    OBVIOUS
  <2>1. ExplainInv
    BY NothingStarts, UnusedIsRight, InitInv DEF ExplainInit
  <2>2. rev = <<>> /\ witness = <<>> /\ status = "none" /\ paths = {}
    BY DEF ExplainInit
  <2>. QED
    BY <2>1, <2>2 DEF Typed, SearchTyped
<1>2. Typed /\ [ExplainNext]_explainVars => Typed'
  <2> SUFFICES ASSUME Typed, [ExplainNext]_explainVars PROVE Typed'
    OBVIOUS
  <2>1. ExplainInv'
    BY ExplainStep DEF Typed
  <2>2. SearchTyped'
    <3>1. CASE UNCHANGED findPath
      BY <3>1 DEF findPath, Typed, SearchTyped
    <3>2. CASE \E i, t, r, b : Find(i, t, r, b)
      <4>1. rev' = <<>> /\ witness' = <<>> /\ status' = "none"
        BY <3>2 DEF Find
      <4>. QED
        BY <4>1 DEF SearchTyped
    <3>3. CASE SearchStep
      BY <3>3, SearchStaysTyped DEF SearchStep, Typed, ExplainInv, Seeking
    <3>. QED
      BY <3>1, <3>2, <3>3, SearchChanges
  <2>3. \A p \in paths' : PathTyped(p)
    BY NewPathsAreTyped DEF Typed
  <2>. QED
    BY <2>1, <2>2, <2>3 DEF Typed, PathTyped
<1>3. Typed => ExplainTypeOK
  <2> SUFFICES ASSUME Typed PROVE ExplainTypeOK
    OBVIOUS
  <2>1. todo \in Seq(Tasks) /\ args \in F!Arguments /\ result \in SUBSET States
    <3>1. IsAsked /\ (pc # "start" => Computed)
      BY DEF Typed, ExplainInv, Inv, InvAsked, InvKept
    <3>2. result \subseteq States
      BY <3>1, ComputedIsKept DEF Typed, ExplainInv, Kept
    <3>. QED
      BY <3>2 DEF Typed, ExplainInv, Stacked, Seeking, Looking
  <2>2. \A i \in DOMAIN todo : todo[i].states \subseteq States /\ todo[i].said \in BOOLEAN
    <3>1. \A task \in Tasks : task.states \subseteq States /\ task.said \in BOOLEAN
      BY Zenon DEF Tasks
    <3>2. \A i \in DOMAIN todo : todo[i] \in Tasks
      BY <2>1
    <3>. QED
      BY <3>1, <3>2, Zenon
  <2>. QED
    BY <2>1, <2>2 DEF ExplainTypeOK, Typed, SearchTyped, PathTyped
<1>. QED
  BY <1>1, <1>2, <1>3, PTL DEF ExplainSpec

-----------------------------------------------------------------------------
(***************************************************************************)
(* Explaining ends: the work that a call leaves is less than its own.      *)
(***************************************************************************)
SizeOf(size, g) ==
  6 + (CASE g[1] \in Leaves -> 0
         [] g[1] \in Unary -> size[g[2]]
         [] OTHER -> size[g[2]] + size[g[3]])

(* The size by the type of the formula.                                    *)
LEMMA SizeByType ==
  ASSUME NEW size, NEW f
  PROVE  /\ f[1] \in Leaves => SizeOf(size, f) = 6 + 0
         /\ f[1] \in Unary => SizeOf(size, f) = 6 + size[f[2]]
         /\ f[1] \in Binary => SizeOf(size, f) = 6 + (size[f[2]] + size[f[3]])
<1>1. CASE f[1] \in Leaves
  BY <1>1 DEF SizeOf, Leaves, Unary, Binary
<1>2. CASE f[1] \in Unary
  BY <1>2 DEF SizeOf, Leaves, Unary, Binary
<1>3. CASE f[1] \in Binary
  BY <1>3 DEF SizeOf, Leaves, Unary, Binary
<1>. QED
  BY <1>1, <1>2, <1>3 DEF Leaves, Unary, Binary

(* Size is what its definition says.                                       *)
LEMMA SizeUnfolds ==
  ASSUME FormsAreAll
  PROVE  Size \in [Forms -> Nat] /\ \A f \in Forms : Size[f] = SizeOf(Size, f)
<1> DEFINE V == [Forms -> Nat]
           B == [g \in V |-> [f \in Forms |-> SizeOf(g, f)]]
<1>1. Height \in [Forms -> Nat]
  BY HeightTyped DEF IsHeight
<1>2. ASSUME NEW f \in Forms
      PROVE  /\ f[1] \in Leaves \cup Unary \cup Binary
             /\ f[1] \in Unary \cup Binary => HasChild(f, f[2])
             /\ f[1] \in Binary => HasChild(f, f[3])
  BY Children
<1>3. ASSUME NEW g \in V, NEW f \in Forms
      PROVE  SizeOf(g, f) \in Nat
  <2>1. f[1] \in Unary \cup Binary => g[f[2]] \in Nat
    BY <1>2 DEF HasChild
  <2>2. f[1] \in Binary => g[f[3]] \in Nat
    BY <1>2 DEF HasChild
  <2>. QED
    BY <1>2, <2>1, <2>2, SizeByType
<1>4. B \in [V -> V]
  BY <1>3
<1>5. IsContractive(Forms, Nat, Height, B)
  <2> SUFFICES ASSUME NEW g \in V, NEW h \in V, NEW f \in Forms,
                      \A e \in Forms : Height[e] < Height[f] => g[e] = h[e]
               PROVE  SizeOf(g, f) = SizeOf(h, f)
    BY DEF IsContractive
  <2>1. f[1] \in Unary \cup Binary => g[f[2]] = h[f[2]]
    BY <1>2 DEF HasChild
  <2>2. f[1] \in Binary => g[f[3]] = h[f[3]]
    BY <1>2 DEF HasChild
  <2>. QED
    BY <1>2, <2>1, <2>2, SizeByType
<1>6. HasFixedPoint(Forms, Nat, B)
  BY <1>1, <1>4, <1>5, RankedRecursion
<1>7. PICK r \in V : r = B[r]
  BY <1>6 DEF HasFixedPoint
<1>8. \E g : g = [f \in Forms |-> SizeOf(g, f)]
  BY <1>7
<1>9. Size = [f \in Forms |-> SizeOf(Size, f)]
  BY <1>8, Zenon DEF Size, SizeOf
<1> DEFINE T == {f \in Forms : Size[f] \in Nat}
<1>10. ASSUME NEW f \in Forms, \A e \in Forms : HasChild(f, e) => e \in T
       PROVE  f \in T
  <2>1. Size[f] = SizeOf(Size, f)
    BY <1>9
  <2>2. f[1] \in Unary \cup Binary => Size[f[2]] \in Nat
    BY <1>2, <1>10 DEF HasChild
  <2>3. f[1] \in Binary => Size[f[3]] \in Nat
    BY <1>2, <1>10 DEF HasChild
  <2>. QED
    BY <1>2, <2>1, <2>2, <2>3, SizeByType
<1>11. T = Forms
  <2>1. T \in SUBSET Forms
    OBVIOUS
  <2> HIDE DEF T
  <2>. QED
    BY <1>10, <2>1, FormInduction
<1>. QED
  BY <1>9, <1>11

(* How much a formula takes, more than its children.                       *)
LEMMA SizeIs ==
  ASSUME FormsAreAll, NEW f \in Forms
  PROVE  /\ Size[f] \in Nat /\ Size[f] >= 6
         /\ f[1] \in Unary => /\ f[2] \in Forms /\ Size[f[2]] \in Nat
                              /\ Size[f] = 6 + Size[f[2]]
         /\ f[1] \in Binary => /\ f[2] \in Forms /\ Size[f[2]] \in Nat
                               /\ f[3] \in Forms /\ Size[f[3]] \in Nat
                               /\ Size[f] = 6 + (Size[f[2]] + Size[f[3]])
<1>1. /\ f[1] \in Leaves \cup Unary \cup Binary
      /\ f[1] \in Unary \cup Binary => f[2] \in Forms
      /\ f[1] \in Binary => f[3] \in Forms
  BY Children DEF HasChild
<1>2. Size[f] = SizeOf(Size, f) /\ \A g \in Forms : Size[g] \in Nat
  BY SizeUnfolds
<1>. QED
  BY <1>1, <1>2, SizeByType

(* So does a task.                                                         *)
LEMMA WeightTyped ==
  ASSUME FormsAreAll, NEW t \in Tasks
  PROVE  /\ Weight(t) \in Nat /\ Weight(t) >= 1
         /\ t.do \in {"again", "aside"} => Weight(t) = Size[t.formula] + 2
         /\ t.do = "explain" => Weight(t) = Size[t.formula]
         /\ t.do \in {"cycle", "return"} => Weight(t) = 1
         /\ t.do \in Shows \ {"cycle"} => Weight(t) = Size[t.formula] - 1
<1>1. t.formula \in Forms /\ t.do \in {"explain", "again", "aside", "return"} \cup Shows
  BY Zenon DEF Tasks
<1>2. Size[t.formula] \in Nat /\ Size[t.formula] >= 6
  BY <1>1, SizeIs
<1>3. CASE t.do \in {"again", "aside"}
  BY <1>2, <1>3 DEF Weight, Shows
<1>4. CASE t.do = "explain"
  BY <1>2, <1>4 DEF Weight, Shows
<1>5. CASE t.do \in {"cycle", "return"}
  BY <1>2, <1>5 DEF Weight, Shows
<1>6. CASE t.do \in Shows \ {"cycle"}
  BY <1>2, <1>6 DEF Weight, Shows
<1>. QED
  BY <1>1, <1>3, <1>4, <1>5, <1>6 DEF Shows

(* The sums over a sequence of tasks.                                      *)
SumsOf(s, u) ==
  /\ u \in [0 .. Len(s) -> Nat]
  /\ u[0] = 0 /\ \A k \in 1 .. Len(s) : u[k] = u[k - 1] + Weight(s[k])

(* The work is the last one.                                               *)
LEMMA WorkUnfolds ==
  ASSUME FormsAreAll, NEW s \in Seq(Tasks)
  PROVE  \E u : SumsOf(s, u) /\ WorkOf(s) = u[Len(s)]
<1> DEFINE D == 0 .. Len(s)
           V == [D -> Nat]
           body(g, k) == IF k = 0 THEN 0 ELSE g[k - 1] + Weight(s[k])
           B == [g \in V |-> [k \in D |-> body(g, k)]]
           rank == [k \in D |-> k]
<1>1. rank \in [D -> Nat]
  OBVIOUS
<1>2. \A k \in 1 .. Len(s) : Weight(s[k]) \in Nat
  BY WeightTyped
<1>3. ASSUME NEW g \in V, NEW k \in D
      PROVE  body(g, k) \in Nat
  BY <1>2
<1>4. B \in [V -> V]
  BY <1>3
<1>5. IsContractive(D, Nat, rank, B)
  BY DEF IsContractive
<1>6. HasFixedPoint(D, Nat, B)
  BY <1>1, <1>4, <1>5, RankedRecursion
<1>7. PICK r \in V : r = B[r]
  BY <1>6 DEF HasFixedPoint
<1>8. \E u : u = [k \in D |-> body(u, k)]
  BY <1>7
<1> DEFINE upTo == CHOOSE u : u = [k \in D |-> body(u, k)]
<1>9. upTo = [k \in D |-> body(upTo, k)] /\ WorkOf(s) = upTo[Len(s)]
  BY <1>8, Zenon DEF WorkOf
<1> HIDE DEF upTo
<1> DEFINE T == {n \in Nat : n \in D => upTo[n] \in Nat}
<1>10. T = Nat
  <2>1. 0 \in T
    BY <1>9
  <2>2. ASSUME NEW n \in T
        PROVE  n + 1 \in T
    BY <1>2, <1>9
  <2>3. T \in SUBSET Nat
    OBVIOUS
  <2> HIDE DEF T
  <2>. QED
    BY <2>1, <2>2, <2>3, Induction
<1>11. SumsOf(s, upTo)
  <2>1. \A k \in D : upTo[k] \in Nat
    BY <1>10
  <2>2. upTo \in [D -> Nat]
    <3> HIDE DEF T
    <3>. QED
      BY <1>9, <2>1
  <2>3. 0 \in D /\ \A k \in 1 .. Len(s) : k \in D /\ k # 0
    OBVIOUS
  <2>4. upTo[0] = 0 /\ \A k \in 1 .. Len(s) : upTo[k] = upTo[k - 1] + Weight(s[k])
    BY <1>9, <2>3
  <2>. QED
    BY <2>2, <2>4 DEF SumsOf
<1>. QED
  BY <1>9, <1>11

(* The work of a task and of those after it.                               *)
LEMMA WorkSplits ==
  ASSUME FormsAreAll, NEW s \in Seq(Tasks)
  PROVE  /\ WorkOf(s) \in Nat
         /\ s # <<>> => WorkOf(s) = Weight(Head(s)) + WorkOf(Tail(s))
<1>1. PICK u : SumsOf(s, u) /\ WorkOf(s) = u[Len(s)]
  BY WorkUnfolds
<1>2. WorkOf(s) \in Nat
  BY <1>1 DEF SumsOf
<1>3. ASSUME s # <<>>
      PROVE  WorkOf(s) = Weight(Head(s)) + WorkOf(Tail(s))
  <2>1. /\ Tail(s) \in Seq(Tasks) /\ Len(s) \in Nat /\ Len(s) >= 1 /\ Len(Tail(s)) = Len(s) - 1
        /\ Head(s) = s[1] /\ \A k \in 1 .. Len(s) - 1 : Tail(s)[k] = s[k + 1]
    BY <1>3
  <2>2. PICK v : SumsOf(Tail(s), v) /\ WorkOf(Tail(s)) = v[Len(Tail(s))]
    BY <2>1, WorkUnfolds
  <2>3. \A k \in 1 .. Len(s) : Weight(s[k]) \in Nat
    BY WeightTyped
  <2> DEFINE T == {k \in Nat : k <= Len(s) - 1 => u[k + 1] = Weight(Head(s)) + v[k]}
  <2>4. T = Nat
    <3>1. 0 \in T
      BY <1>1, <2>1, <2>2, <2>3 DEF SumsOf
    <3>2. ASSUME NEW k \in T, k + 1 <= Len(s) - 1
          PROVE  u[(k + 1) + 1] = Weight(Head(s)) + v[k + 1]
      <4>1. k + 1 \in 1 .. Len(s) - 1 /\ (k + 1) + 1 \in 1 .. Len(s) /\ k <= Len(s) - 1
        BY <2>1, <3>2
      <4>2. u[(k + 1) + 1] = u[k + 1] + Weight(s[(k + 1) + 1])
        BY <1>1, <4>1 DEF SumsOf
      <4>3. v[k + 1] = v[k] + Weight(Tail(s)[k + 1]) /\ v[k] \in Nat
        <5>1. k + 1 \in 1 .. Len(Tail(s)) /\ k \in 0 .. Len(Tail(s)) /\ (k + 1) - 1 = k
          BY <2>1, <4>1
        <5>. QED
          BY <2>2, <5>1 DEF SumsOf
      <4>4. u[k + 1] = Weight(Head(s)) + v[k]
        BY <4>1
      <4>5. Tail(s)[k + 1] = s[(k + 1) + 1]
        BY <2>1, <4>1
      <4>. QED
        BY <2>1, <2>3, <4>1, <4>2, <4>3, <4>4, <4>5
    <3>3. T \in SUBSET Nat /\ \A k \in T : k + 1 \in T
      BY <3>2
    <3> HIDE DEF T
    <3>. QED
      BY <3>1, <3>3, Induction
  <2>5. Len(s) - 1 \in T /\ (Len(s) - 1) + 1 = Len(s)
    BY <2>1, <2>4
  <2>. QED
    BY <1>1, <2>1, <2>2, <2>5
<1>. QED
  BY <1>2, <1>3

(* A sequence of tasks without its first one.                              *)
LEMMA JoinAfterFirst ==
  ASSUME NEW a \in Tasks, NEW s \in Seq(Tasks), NEW q \in Seq(Tasks)
  PROVE  (<<a>> \o s) \o q = <<a>> \o (s \o q) /\ s \o q \in Seq(Tasks)
<1>1. <<a>> \in Seq(Tasks) /\ s \o q \in Seq(Tasks)
  OBVIOUS
<1>. QED
  BY <1>1, ConcatAssociative

(* Sequences of a few tasks.                                               *)
LEMMA FewTasks ==
  ASSUME NEW a \in Tasks, NEW b \in Tasks
  PROVE  /\ <<a, b>> = <<a>> \o <<b>>
         /\ \A c \in Tasks : <<a, b, c>> = <<a>> \o <<b, c>>
<1>1. <<a, b>> = <<a>> \o <<b>>
  <2>1. <<a>> \in Seq(Tasks) /\ <<b>> \in Seq(Tasks) /\ <<a, b>> \in Seq(Tasks)
    OBVIOUS
  <2>2. <<a>> \o <<b>> \in Seq(Tasks) /\ Len(<<a>> \o <<b>>) = 2 /\ Len(<<a, b>>) = 2
    BY <2>1
  <2>3. (<<a>> \o <<b>>)[1] = a /\ (<<a>> \o <<b>>)[2] = b
    BY <2>1
  <2>4. \A i \in 1 .. 2 : (<<a>> \o <<b>>)[i] = <<a, b>>[i]
    BY <2>3
  <2>. QED
    BY <2>1, <2>2, <2>4, SeqEqual
<1>2. \A c \in Tasks : <<a, b, c>> = <<a>> \o <<b, c>>
  OBVIOUS
<1>. QED
  BY <1>1, <1>2

(* The work of a task put before others.                                   *)
LEMMA WorkJoins ==
  ASSUME FormsAreAll, NEW a \in Tasks, NEW q \in Seq(Tasks)
  PROVE  /\ Weight(a) \in Nat /\ WorkOf(q) \in Nat
         /\ <<a>> \o q \in Seq(Tasks) /\ WorkOf(<<a>> \o q) = Weight(a) + WorkOf(q)
<1>1. <<a>> \o q # <<>> /\ Head(<<a>> \o q) = a /\ Tail(<<a>> \o q) = q /\ <<a>> \o q \in Seq(Tasks)
  OBVIOUS
<1> DEFINE p == <<a>> \o q
<1> HIDE DEF p
<1>2. WorkOf(p) = Weight(Head(p)) + WorkOf(Tail(p))
  BY <1>1, WorkSplits DEF p
<1>. QED
  BY <1>1, <1>2, WorkSplits, WeightTyped DEF p

(* The work decreases when the first task is replaced by a few smaller     *)
(* ones.                                                                   *)
LEMMA LessWork ==
  ASSUME FormsAreAll, NEW s \in Seq(Tasks), s # <<>>, NEW t \in Seq(Tasks)
  PROVE  /\ t = Tail(s) => WorkOf(t) < WorkOf(s)
         /\ \A a : t = <<a>> \o Tail(s) /\ Weight(a) < Weight(Head(s)) => WorkOf(t) < WorkOf(s)
         /\ \A a, b :
              t = <<a, b>> \o Tail(s) /\ Weight(a) + Weight(b) < Weight(Head(s)) =>
                WorkOf(t) < WorkOf(s)
         /\ \A a, b, c :
              t = <<a, b, c>> \o Tail(s) /\ Weight(a) + (Weight(b) + Weight(c)) < Weight(Head(s)) =>
                WorkOf(t) < WorkOf(s)
<1> DEFINE r == Tail(s)
<1>1. r \in Seq(Tasks) /\ Head(s) \in Tasks
  OBVIOUS
<1> HIDE DEF r
<1>2. /\ WorkOf(r) \in Nat /\ WorkOf(s) = Weight(Head(s)) + WorkOf(r)
      /\ Weight(Head(s)) \in Nat /\ Weight(Head(s)) >= 1
  BY <1>1, WorkSplits, WeightTyped DEF r
<1>3. ASSUME NEW a, t = <<a>> \o r
      PROVE  a \in Tasks /\ WorkOf(t) = Weight(a) + WorkOf(r)
  <2>1. t[1] = a /\ t[1] \in Tasks
    BY <1>1, <1>3
  <2>. QED
    BY <1>1, <1>3, <2>1, WorkJoins
<1>4. ASSUME NEW a, NEW b, t = <<a, b>> \o r
      PROVE  /\ Weight(a) \in Nat /\ Weight(b) \in Nat
             /\ WorkOf(t) = Weight(a) + (Weight(b) + WorkOf(r))
  <2>1. t[1] = a /\ t[2] = b /\ t[1] \in Tasks /\ t[2] \in Tasks
    BY <1>1, <1>4
  <2>2. <<b>> \in Seq(Tasks)
    BY <2>1
  <2>a. <<a, b>> = <<a>> \o <<b>>
    BY <2>1, FewTasks, Zenon
  <2>b. (<<a>> \o <<b>>) \o r = <<a>> \o (<<b>> \o r)
    BY <1>1, <2>1, <2>2, JoinAfterFirst
  <2>3. t = <<a>> \o (<<b>> \o r)
    BY <1>4, <2>a, <2>b, Zenon
  <2>4. WorkOf(<<b>> \o r) = Weight(b) + WorkOf(r) /\ <<b>> \o r \in Seq(Tasks) /\ Weight(b) \in Nat
    BY <1>1, <2>1, WorkJoins
  <2>. QED
    BY <2>1, <2>3, <2>4, WorkJoins
<1>5. ASSUME NEW a, NEW b, NEW c, t = <<a, b, c>> \o r
      PROVE  /\ Weight(a) \in Nat /\ Weight(b) \in Nat /\ Weight(c) \in Nat
             /\ WorkOf(t) = Weight(a) + (Weight(b) + (Weight(c) + WorkOf(r)))
  <2>1. t[1] = a /\ t[2] = b /\ t[3] = c /\ t[1] \in Tasks /\ t[2] \in Tasks /\ t[3] \in Tasks
    BY <1>1, <1>5
  <2>2. <<b, c>> \in Seq(Tasks) /\ <<c>> \in Seq(Tasks)
    BY <2>1
  <2>a. <<a, b, c>> = <<a>> \o <<b, c>> /\ <<b, c>> = <<b>> \o <<c>>
    BY <2>1, FewTasks, Zenon
  <2>3. t = <<a>> \o (<<b, c>> \o r) /\ <<b, c>> \o r = <<b>> \o (<<c>> \o r)
    <3>1. (<<a>> \o <<b, c>>) \o r = <<a>> \o (<<b, c>> \o r)
      BY <1>1, <2>1, <2>2, JoinAfterFirst
    <3>2. (<<b>> \o <<c>>) \o r = <<b>> \o (<<c>> \o r)
      BY <1>1, <2>1, <2>2, JoinAfterFirst
    <3>. QED
      BY <1>5, <2>a, <3>1, <3>2, Zenon
  <2>4. WorkOf(<<c>> \o r) = Weight(c) + WorkOf(r) /\ <<c>> \o r \in Seq(Tasks) /\ Weight(c) \in Nat
    BY <1>1, <2>1, WorkJoins
  <2>5. /\ WorkOf(<<b, c>> \o r) = Weight(b) + WorkOf(<<c>> \o r)
        /\ <<b, c>> \o r \in Seq(Tasks) /\ Weight(b) \in Nat
    BY <2>1, <2>3, <2>4, WorkJoins
  <2>6. WorkOf(t) = Weight(a) + WorkOf(<<b, c>> \o r) /\ Weight(a) \in Nat
    BY <2>1, <2>3, <2>5, WorkJoins
  <2>. QED
    BY <2>4, <2>5, <2>6
<1>6. t = r => WorkOf(t) < WorkOf(s)
  BY <1>2
<1>7. ASSUME NEW a, t = <<a>> \o r, Weight(a) < Weight(Head(s))
      PROVE  WorkOf(t) < WorkOf(s)
  <2>1. WorkOf(t) = Weight(a) + WorkOf(r) /\ Weight(a) \in Nat
    BY <1>3, <1>7, WeightTyped, Zenon
  <2>. QED
    BY ONLY <1>2, <1>7, <2>1
<1>8. ASSUME NEW a, NEW b, t = <<a, b>> \o r, Weight(a) + Weight(b) < Weight(Head(s))
      PROVE  WorkOf(t) < WorkOf(s)
  <2>1. /\ Weight(a) \in Nat /\ Weight(b) \in Nat
        /\ WorkOf(t) = Weight(a) + (Weight(b) + WorkOf(r))
    BY <1>4, <1>8, Zenon
  <2>. QED
    BY ONLY <1>2, <1>8, <2>1
<1>9. ASSUME NEW a, NEW b, NEW c, t = <<a, b, c>> \o r,
             Weight(a) + (Weight(b) + Weight(c)) < Weight(Head(s))
      PROVE  WorkOf(t) < WorkOf(s)
  <2>1. /\ Weight(a) \in Nat /\ Weight(b) \in Nat /\ Weight(c) \in Nat
        /\ WorkOf(t) = Weight(a) + (Weight(b) + (Weight(c) + WorkOf(r)))
    BY <1>5, <1>9, Zenon
  <2>. QED
    BY ONLY <1>2, <1>9, <2>1
<1>. QED
  BY <1>6, <1>7, <1>8, <1>9 DEF r

(* The work of the tasks that a call makes.                                *)
LEMMA WeightIs ==
  ASSUME NEW S, NEW g, NEW said
  PROVE  /\ Weight(Call(S, g, said)) = Size[g]
         /\ Weight(CallAgain(g, said)) = Size[g] + 2 /\ Weight(CallAside(S, g, said)) = Size[g] + 2
         /\ Weight(Return(S)) = 1 /\ Weight(Show("cycle", g, S)) = 1
         /\ \A reason \in Shows \ {"cycle", "dead"} : Weight(Show(reason, g, S)) = Size[g] - 1
<1>1. Weight(Call(S, g, said)) = Size[g]
  BY DEF Weight, Call, Task
<1>2. Weight(CallAgain(g, said)) = Size[g] + 2
  BY DEF Weight, CallAgain, Task
<1>3. Weight(CallAside(S, g, said)) = Size[g] + 2
  BY DEF Weight, CallAside, Task
<1>4. Weight(Return(S)) = 1 /\ Weight(Show("cycle", g, S)) = 1
  BY DEF Weight, Return, Show, Task
<1>5. ASSUME NEW reason \in Shows \ {"cycle", "dead"}
      PROVE  Weight(Show(reason, g, S)) = Size[g] - 1
  <2>1. Show(reason, g, S).do = reason /\ Show(reason, g, S).formula = g
    BY DEF Show, Task
  <2>. QED
    BY <2>1 DEF Weight, Shows
<1>. QED
  BY <1>1, <1>2, <1>3, <1>4, <1>5

(* So a step that replaces the first task leaves less work.                *)
LEMMA LessToDo ==
  ASSUME FormsAreAll, ExplainInv, ExplainInv', todo # <<>>
  PROVE  /\ Returns(result') \/ Continue(<<>>) => Work' < Work
         /\ \A a : Continue(<<a>>) /\ Weight(a) < Weight(Head(todo)) => Work' < Work
         /\ \A a, b : Continue(<<a, b>>) /\ Weight(a) + Weight(b) < Weight(Head(todo)) => Work' < Work
         /\ \A a, b, c :
              Continue(<<a, b, c>>) /\ Weight(a) + (Weight(b) + Weight(c)) < Weight(Head(todo)) =>
                Work' < Work
<1>1. todo \in Seq(Tasks) /\ todo' \in Seq(Tasks)
  BY DEF ExplainInv, Stacked
<1>2. Work = WorkOf(todo) /\ Work' = WorkOf(todo')
  BY DEF Work
<1>3. <<>> \o Tail(todo) = Tail(todo)
  BY <1>1
<1>. QED
  BY <1>1, <1>2, <1>3, LessWork, Zenon DEF Continue, Returns

(* The weight of the first task, and the sizes of what it is about.        *)
LEMMA FirstWeight ==
  ASSUME FormsAreAll, ExplainInv, todo # <<>>
  PROVE  /\ Size[form] \in Nat /\ Size[form] >= 6
         /\ form[1] \in Unary => Size[form[2]] \in Nat /\ Size[form] = 6 + Size[form[2]]
         /\ form[1] \in Binary => /\ Size[form[2]] \in Nat /\ Size[form[3]] \in Nat
                                  /\ Size[form] = 6 + (Size[form[2]] + Size[form[3]])
         /\ Head(todo).do = "explain" => Weight(Head(todo)) = Size[form]
         /\ Head(todo).do \in {"again", "aside"} => Weight(Head(todo)) = Size[form] + 2
         /\ Head(todo).do \in Shows \ {"cycle"} => Weight(Head(todo)) = Size[form] - 1
<1>1. Head(todo) \in Tasks
  BY DEF ExplainInv, Stacked
<1>2. form \in Forms
  BY <1>1, Zenon DEF form, Tasks
<1>. QED
  BY <1>1, <1>2, SizeIs, WeightTyped DEF form

(* A call leaves less work: a trace, or its children and what they return. *)
LEMMA CallsLess ==
  ASSUME FormsAreAll, ExplainInv, ExplainInv', todo # <<>>,
         \/ ExplainAtom \/ ExplainNot \/ ExplainAnd \/ ExplainNoAnd
         \/ ExplainThen \/ ExplainOr \/ ExplainNeither
         \/ ExplainEX \/ ExplainNoEX \/ ExplainEU \/ ExplainNoEU \/ ExplainEG \/ ExplainNoEG
         \/ ExplainCmp \/ ExplainFwdU \/ ExplainNothing
  PROVE  Work' < Work
<1> DEFINE CallsOne(g) == \E S, said : Continue(<<Call(S, g, said)>>)
           CallsTwo(g, h) == \E S, R, b, d, T : Continue(<<Call(S, g, b), Call(R, h, d), Return(T)>>)
           CallReturns_(g) == \E S, T, said : Continue(<<Call(S, g, said), Return(T)>>)
           Traces == \E reason \in Shows \ {"cycle", "dead"} : \E S : Continue(<<Show(reason, form, S)>>)
<1>1. Head(todo).do = "explain"
  BY DEF ExplainAtom, ExplainNot, ExplainAnd, ExplainNoAnd, ExplainThen, ExplainOr, ExplainNeither,
     ExplainEX, ExplainNoEX, ExplainEU, ExplainNoEU, ExplainEG, ExplainNoEG, ExplainCmp,
     ExplainFwdU, ExplainNothing, Explaining, Ready
<1>2. /\ Weight(Head(todo)) = Size[form] /\ Size[form] \in Nat /\ Size[form] >= 6
      /\ form[1] \in Unary => Size[form[2]] \in Nat /\ Size[form] = 6 + Size[form[2]]
      /\ form[1] \in Binary => /\ Size[form[2]] \in Nat /\ Size[form[3]] \in Nat
                               /\ Size[form] = 6 + (Size[form[2]] + Size[form[3]])
  BY <1>1, FirstWeight
<1>3. ASSUME NEW g, CallsOne(g), Size[g] < Size[form]
      PROVE  Work' < Work
  <2>1. PICK S, said : Continue(<<Call(S, g, said)>>)
    BY <1>3
  <2>2. Weight(Call(S, g, said)) = Size[g]
    BY WeightIs
  <2>3. Weight(Call(S, g, said)) < Weight(Head(todo))
    BY ONLY <1>2, <1>3, <2>2
  <2>. QED
    BY <2>1, <2>3, LessToDo, Zenon
<1>4. ASSUME NEW g, CallReturns_(g), Size[g] + 1 < Size[form]
      PROVE  Work' < Work
  <2>1. PICK S, T, said : Continue(<<Call(S, g, said), Return(T)>>)
    BY <1>4
  <2>2. Weight(Call(S, g, said)) = Size[g] /\ Weight(Return(T)) = 1
    <3>1. Weight(Return(T)) = 1
      BY DEF Weight, Return, Task
    <3>2. Weight(Call(S, g, said)) = Size[g]
      BY WeightIs
    <3>. QED
      BY <3>1, <3>2
  <2>3. Weight(Call(S, g, said)) + Weight(Return(T)) < Weight(Head(todo))
    BY ONLY <1>2, <1>4, <2>2
  <2>. QED
    BY <2>1, <2>3, LessToDo, Zenon
<1>5. ASSUME NEW g, NEW h, CallsTwo(g, h), Size[g] + (Size[h] + 1) < Size[form]
      PROVE  Work' < Work
  <2>1. PICK S, R, b, d, T : Continue(<<Call(S, g, b), Call(R, h, d), Return(T)>>)
    BY <1>5
  <2>2. /\ Weight(Call(S, g, b)) = Size[g] /\ Weight(Call(R, h, d)) = Size[h]
        /\ Weight(Return(T)) = 1
    <3>1. Weight(Return(T)) = 1
      BY DEF Weight, Return, Task
    <3>2. Weight(Call(S, g, b)) = Size[g]
      BY WeightIs
    <3>3. Weight(Call(R, h, d)) = Size[h]
      BY WeightIs
    <3>. QED
      BY <3>1, <3>2, <3>3
  <2>3. Weight(Call(S, g, b)) + (Weight(Call(R, h, d)) + Weight(Return(T))) < Weight(Head(todo))
    BY ONLY <1>2, <1>5, <2>2
  <2>. QED
    BY <2>1, <2>3, LessToDo, Zenon
<1>6. ASSUME Traces
      PROVE  Work' < Work
  <2>1. PICK reason \in Shows \ {"cycle", "dead"} : \E S : Continue(<<Show(reason, form, S)>>)
    BY <1>6
  <2>a. PICK S : Continue(<<Show(reason, form, S)>>)
    BY <2>1
  <2>2. Weight(Show(reason, form, S)) = Size[form] - 1
    BY WeightIs
  <2>3. Size[form] - 1 < Size[form]
    BY <1>2
  <2>. QED
    BY <1>2, <2>a, <2>2, <2>3, LessToDo, Zenon
<1> HIDE DEF CallsOne, CallsTwo, CallReturns_, Traces
<1>7. form[1] \in Unary => Size[form[2]] < Size[form] /\ Size[form[2]] + 1 < Size[form]
  BY <1>2
<1>8. form[1] \in Binary =>
        /\ Size[form[2]] < Size[form] /\ Size[form[3]] < Size[form]
        /\ Size[form[2]] + 1 < Size[form] /\ Size[form[3]] + 1 < Size[form]
        /\ Size[form[2]] + (Size[form[3]] + 1) < Size[form]
        /\ Size[form[2]] + (Size[form[3]] + 2) < Size[form]
  <2> SUFFICES ASSUME NEW a \in Nat, NEW b \in Nat, NEW c, c = 6 + (a + b)
               PROVE  /\ a < c /\ b < c /\ a + 1 < c /\ b + 1 < c
                      /\ a + (b + 1) < c /\ a + (b + 2) < c
    BY <1>2
  <2>. QED
    OBVIOUS
<1>9. /\ {"NOT", "EX", "EG", "CMP"} \subseteq Unary
      /\ {"AND", "OR", "THEN", "EU", "FWDU", "FWDG"} \subseteq Binary
      /\ {"EU", "notEU", "EG", "notEG", "FWDU"} \subseteq Shows \ {"cycle", "dead"}
  BY DEF Unary, Binary, Shows
<1>10. CASE ExplainAtom \/ ExplainNothing
  BY <1>10, LessToDo, Zenon DEF ExplainAtom, ExplainNothing, Returns
<1>11. CASE ExplainNot \/ ExplainCmp
  <2>1. form[1] \in Unary /\ CallsOne(form[2])
    BY <1>9, <1>11, Zenon DEF ExplainNot, ExplainCmp, Explaining, CallsOne
  <2>. QED
    BY <1>3, <1>7, <2>1
<1>12. CASE ExplainAnd
  <2>1. form[1] \in Binary /\ Continue(<<Call(satF, form[2], TRUE), CallAgain(form[3], TRUE)>>)
    BY <1>9, <1>12, Zenon DEF ExplainAnd, Explaining
  <2>2. /\ Weight(Call(satF, form[2], TRUE)) = Size[form[2]]
        /\ Weight(CallAgain(form[3], TRUE)) = Size[form[3]] + 2
    BY WeightIs
  <2>. QED
    BY <1>2, <1>8, <2>1, <2>2, LessToDo, Zenon
<1>13. CASE ExplainNoAnd \/ ExplainNeither
  <2>1. form[1] \in Binary /\ (CallsOne(form[2]) \/ CallsOne(form[3]) \/ CallsTwo(form[2], form[3]))
    BY <1>9, <1>13, Zenon DEF ExplainNoAnd, ExplainNeither, Explaining, CallsOne, CallsTwo
  <2>. QED
    BY <1>3, <1>5, <1>8, <2>1
<1>14. CASE ExplainThen \/ ExplainOr
  <2>1. form[1] \in Binary /\ CallsOne(form[2])
    BY <1>9, <1>14, Zenon DEF ExplainThen, ExplainOr, Explaining, CallsOne
  <2>. QED
    BY <1>3, <1>8, <2>1
<1>15. CASE ExplainEX \/ ExplainNoEX
  <2>1. form[1] \in Unary /\ CallReturns_(form[2])
    BY <1>9, <1>15, Zenon DEF ExplainEX, ExplainNoEX, Explaining, CallReturns_
  <2>. QED
    BY <1>4, <1>7, <2>1
<1>16. CASE ExplainEU
  <2>1. form[1] \in Binary /\ (CallReturns_(form[3]) \/ Traces)
    BY <1>9, <1>16, Zenon DEF ExplainEU, Explaining, CallReturns_, Traces
  <2>. QED
    BY <1>4, <1>6, <1>8, <2>1
<1>17. CASE ExplainNoEU
  <2>1. /\ form[1] \in Binary
        /\ CallsOne(form[2]) \/ CallsOne(form[3]) \/ Traces \/ Returns(result')
    BY <1>9, <1>17, Zenon DEF ExplainNoEU, Explaining, CallsOne, Traces, Returns
  <2>. QED
    BY <1>3, <1>6, <1>8, <2>1, LessToDo
<1>18. CASE ExplainEG \/ ExplainNoEG
  <2>1. form[1] \in Unary /\ (CallsOne(form[2]) \/ Traces)
    BY <1>9, <1>18, Zenon DEF ExplainEG, ExplainNoEG, Explaining, CallsOne, Traces
  <2>. QED
    BY <1>3, <1>6, <1>7, <2>1
<1>19. CASE ExplainFwdU
  <2>1. Traces
    BY <1>9, <1>19, Zenon DEF ExplainFwdU, Traces
  <2>. QED
    BY <1>6, <2>1
<1>. QED
  BY <1>10, <1>11, <1>12, <1>13, <1>14, <1>15, <1>16, <1>17, <1>18, <1>19

(* So does what comes after a search or a call.                            *)
LEMMA OthersLess ==
  ASSUME FormsAreAll, ExplainInv, ExplainInv', todo # <<>>,
         \/ PrintUntil \/ PrintFwdU \/ PrintNoUntil \/ PrintNoEG \/ PrintDead \/ PrintPrefix
         \/ PrintCycle \/ ReturnStates \/ CallOnResult \/ CallForSide
  PROVE  Work' < Work
<1>1. CASE PrintNoUntil \/ PrintNoEG \/ PrintDead \/ PrintCycle \/ ReturnStates
  <2>1. Returns(result') \/ Continue(<<>>)
    BY <1>1, Zenon DEF PrintNoUntil, PrintNoEG, PrintDead, PrintCycle, ReturnStates, Returns
  <2>. QED
    BY <2>1, LessToDo
<1>2. CASE PrintUntil \/ PrintFwdU
  <2>1. Head(todo).do \in {"EU", "FWDU"}
    BY <1>2 DEF PrintUntil, PrintFwdU, Printing, Ready
  <2>2. form[1] \in {"EU", "FWDU"} /\ Head(todo).do \in Shows \ {"cycle"}
    BY <2>1 DEF ExplainInv, Stacked, Fits, Searched, Shows, form
  <2>3. /\ Size[form[2]] \in Nat /\ Size[form[3]] \in Nat
        /\ Weight(Head(todo)) = 5 + (Size[form[2]] + Size[form[3]])
    <3>1. /\ Size[form[2]] \in Nat /\ Size[form[3]] \in Nat
          /\ Weight(Head(todo)) = Size[form] - 1
          /\ Size[form] = 6 + (Size[form[2]] + Size[form[3]])
      BY <2>2, FirstWeight DEF Binary
    <3>2. ASSUME NEW a \in Nat, NEW b \in Nat
          PROVE  (6 + (a + b)) - 1 = 5 + (a + b)
      OBVIOUS
    <3>. QED
      BY <3>1, <3>2, Zenon
  <2>4. CASE PrintUntil
    <3>1. Continue(<<Call(pathInit, form[2], TRUE), CallAside(pathFinal, form[3], TRUE)>>)
      BY <2>4 DEF PrintUntil
    <3>2. /\ Weight(Call(pathInit, form[2], TRUE)) = Size[form[2]]
          /\ Weight(CallAside(pathFinal, form[3], TRUE)) = Size[form[3]] + 2
      BY WeightIs
    <3>3. Weight(Call(pathInit, form[2], TRUE)) + Weight(CallAside(pathFinal, form[3], TRUE))
            < Weight(Head(todo))
      <4>1. ASSUME NEW a \in Nat, NEW b \in Nat
            PROVE  a + (b + 2) < 5 + (a + b)
        OBVIOUS
      <4>. QED
        BY <2>3, <3>2, <4>1, Zenon
    <3>. QED
      BY <3>1, <3>3, LessToDo, Zenon
  <2>5. CASE PrintFwdU
    <3>1. \/ Returns(result')
          \/ Continue(<<Call(pathInit, form[2], TRUE), Return(pathFinal)>>)
      BY <2>5, Zenon DEF PrintFwdU, Returns
    <3>2. Weight(Return(pathFinal)) = 1
      BY DEF Weight, Return, Task
    <3>3. Weight(Call(pathInit, form[2], TRUE)) = Size[form[2]]
      BY WeightIs
    <3>4. Weight(Call(pathInit, form[2], TRUE)) + Weight(Return(pathFinal)) < Weight(Head(todo))
      <4>1. ASSUME NEW a \in Nat, NEW b \in Nat
            PROVE  a + 1 < 5 + (a + b)
        OBVIOUS
      <4>. QED
        BY <2>3, <3>2, <3>3, <4>1, Zenon
    <3>. QED
      BY <3>1, <3>4, LessToDo, Zenon
  <2>. QED
    BY <1>2, <2>4, <2>5
<1>3. CASE PrintPrefix
  <2>1. Head(todo).do \in Shows \ {"cycle"} /\ Continue(<<Show("cycle", form, pathInit)>>)
    BY <1>3 DEF PrintPrefix, Printing, Ready, Shows
  <2>2. Weight(Show("cycle", form, pathInit)) = 1
    BY WeightIs
  <2>3. Weight(Head(todo)) = Size[form] - 1 /\ Size[form] \in Nat /\ Size[form] >= 6
    BY <2>1, FirstWeight
  <2>4. Weight(Show("cycle", form, pathInit)) < Weight(Head(todo))
    BY ONLY <2>2, <2>3
  <2>. QED
    BY <2>1, <2>4, LessToDo, Zenon
<1>4. CASE CallOnResult \/ CallForSide
  <2> DEFINE a == [Head(todo) EXCEPT !.do = "explain", !.states = result]
             b == [Head(todo) EXCEPT !.do = "explain"]
  <2>1. Head(todo) \in Tasks /\ Head(todo).do \in {"again", "aside"}
    BY <1>4 DEF ExplainInv, Stacked, CallOnResult, CallForSide, Ready
  <2>2. Weight(Head(todo)) = Size[form] + 2 /\ Size[form] \in Nat
    BY <2>1, FirstWeight
  <2>3. a.do = "explain" /\ a.formula = form /\ b.do = "explain" /\ b.formula = form
    BY <2>1 DEF Tasks, form
  <2> HIDE DEF a, b
  <2>4. Weight(a) = Size[form] /\ Weight(b) = Size[form]
    BY <2>3 DEF Weight
  <2>5. Weight(Return(result)) = 1
    BY DEF Weight, Return, Task
  <2>6. Weight(a) < Weight(Head(todo)) /\ Weight(b) + Weight(Return(result)) < Weight(Head(todo))
    BY ONLY <2>2, <2>4, <2>5
  <2>7. Continue(<<a>>) \/ Continue(<<b, Return(result)>>)
    BY <1>4, Zenon DEF CallOnResult, CallForSide, a, b
  <2>. QED
    BY <2>6, <2>7, LessToDo, Zenon
<1>. QED
  BY <1>1, <1>2, <1>3, <1>4

(* Explaining ends (CTLChecker::explain, which calls itself): every step   *)
(* but those of a search leaves less work, a natural number, for every     *)
(* finite state space, model, labelling and formula.                       *)
THEOREM ExplanationsEnd ==
  ASSUME FormsAreAll
  PROVE  ExplainSpec => ExplainingEnds
<1>1. ASSUME ExplainInv, ExplainInv', [ExplainNext]_explainVars
      PROVE  [fpc = "done" /\ todo # <<>> => Work' < Work]_explainVars
  <2> SUFFICES ASSUME ExplainNext, fpc = "done", todo # <<>>
               PROVE  Work' < Work
    BY <1>1
  <2>1. ~(Verified \/ Dead \/ Unexplained \/ SearchStep)
    BY DEF Verified, Dead, Unexplained, SearchStep
  <2>. QED
    BY <1>1, <2>1, CallsLess, OthersLess DEF ExplainNext
<1>. QED
  BY <1>1, ExplanationInvariance, PTL DEF ExplainSpec, ExplainingEnds
=============================================================================
