------------------------------ MODULE LtlCheck ------------------------------
(***************************************************************************)
(* its-ltl: LTLChecker::model_check (LTL/src/sogtgbautils.cpp) looks for a *)
(* run of the model accepted by an automaton, the negation of a formula.   *)
(* FSOWCTY and FSEL search the whole product (FairCycles).  The others     *)
(* give Spot a product whose states are aggregates of states of the model, *)
(* built when Spot asks for the successors of a state:                     *)
(*   SOG    the symbolic observation graph (sogstate, sogsucciter)         *)
(*   BCZ99  the same without saturation (bczCSD99)                         *)
(*   SOP    an observation graph whose propositions depend on the state of *)
(*          the automaton (dsog)                                           *)
(*   SLAP   self-loop aggregation (slap), alone or, with FST and FSA, with *)
(*          FairCycles from some states of the automaton                   *)
(* The automaton and the emptiness check are those of Spot.  A bdd is the  *)
(* set of the valuations that satisfy it.                                  *)
(***************************************************************************)
EXTENDS FairCycles

CONSTANTS
  SysStates,     \* the potential states of the main instance
  AutStates,     \* the states of automata
  AP,            \* the atomic propositions observed
  Models,        \* the models considered: [next, lab, init]
  Automata,      \* the automata considered, by name: [arcs, init, nbSets]
  Commands       \* the command lines: [aut, method, stutter]

ASSUME ProductStates == States = AutStates \X SysStates

Valuations == SUBSET AP

ASSUME ModelsAreTyped ==
  \A m \in Models : /\ m.next \subseteq SysStates \X SysStates
                    /\ m.lab \in [SysStates -> Valuations]
                    /\ m.init \in SysStates

(* An arc: source, target, condition and acceptance marks.                 *)
ASSUME AutomataAreTyped ==
  \A name \in DOMAIN Automata :
     /\ Automata[name].init \in AutStates
     /\ \A arc \in Automata[name].arcs :
                            /\ arc.src \in AutStates /\ arc.dst \in AutStates
                            /\ arc.cond \in SUBSET Valuations /\ arc.cond # {}
                            /\ arc.acc \subseteq 1 .. Automata[name].nbSets

Symbolic == {"FSOWCTY", "FSEL"}
SlapFs == {"SLAP-FST", "SLAP-FSA"}
Slap == {"SLAP"} \cup SlapFs
Methods == Symbolic \cup Slap \cup {"SOG", "BCZ99", "SOP"}

ASSUME CommandsAreTyped ==
  \A c \in Commands : c.aut \in DOMAIN Automata /\ c.method \in Methods /\ c.stutter \in BOOLEAN

VARIABLES
  model,     \* the main instance
  cmd,       \* the command line
  pc,
  transRel_, \* the next-state relation, once computed
  nodes,     \* the states of the product that Spot has met
  todo,      \* those whose successors it has not asked for
  edges,     \* the arcs it has met: <<source, acceptance marks, target>>
  asked,     \* the state for which FairCycles runs
  answer     \* is there an accepting run?

product == <<nodes, todo, edges>>
input == <<model, cmd>>
vars == <<input, pc, transRel_, product, asked, answer, fsVars>>

aut == Automata[cmd.aut]
ArcsFrom(q) == {a \in aut.arcs : a.src = q}
SelfLoops(q) == {a \in ArcsFrom(q) : a.dst = q}
AllSets == 1 .. aut.nbSets

-----------------------------------------------------------------------------
(* sogIts (LTL/src/sogIts.cpp), over the states of the model.              *)

Sys == INSTANCE TransitionSystem WITH States <- SysStates

Selector(cond) == {s \in SysStates : model.lab[s] \in cond}

(* r & sel: from the states of the selector; sel & r: to them.             *)
From(r, S) == {e \in r : e[1] \in S}
To(r, S) == Sys!Within(r, S)

Reachable == Sys!Fixpoint(model.next, {model.init})
DeadStates == Reachable \ Sys!Post(Sys!Invert(model.next, SysStates), Reachable)

(* Mutant: no loop is added.                                               *)
NextRelPlain == model.next

(* getNextRel, which keeps the relation in transRel_.                      *)
NextRel ==
  IF cmd.stutter THEN model.next \cup {<<s, s>> : s \in DeadStates} ELSE model.next

LeastPostTest(S, cond) ==
  Sys!Fixpoint(To(transRel_, Selector(cond)), S \cap Selector(cond))

(* Mutant: the condition is asked of the successors.                       *)
LeastPreTestOfTargets(S, cond) == Sys!Fixpoint(To(transRel_, Selector(cond)), S)

LeastPreTest(S, cond) == Sys!Fixpoint(From(transRel_, Selector(cond)), S)

SuccSatisfying(S, cond) == Sys!Post(From(transRel_, Selector(cond)), S)

(* The relation is that of the model: it has no loop on dead states.       *)
Divergent(S, cond) == Sys!GreatestFixpoint(To(model.next, Selector(cond)), S)

(* All the conjunctions of the literals of some propositions (APIterator). *)
Cubes(props) == {{v \in Valuations : v \cap props = w} : w \in SUBSET props}

-----------------------------------------------------------------------------
(* The states of the products: an aggregate, or the state in which a run   *)
(* stays for ever in aggregates that verify cond.                          *)
Aggregate(q, S, cond) == [aut |-> q, kind |-> "agg", states |-> S, cond |-> cond]
DivState(q, cond) == [aut |-> q, kind |-> "div", states |-> {}, cond |-> cond]

(* The arcs of a graph, and the nodes that some of its nodes lead to.      *)
Edge(n, acc, m) == <<n, acc, m>>

RECURSIVE ReachedBy(_, _)
ReachedBy(E, S) ==
  LET more == {e[3] : e \in {f \in E : f[1] \in S}} \ S
  IN  IF more = {} THEN S ELSE ReachedBy(E, S \cup more)

(* Divergence and successors of an aggregate of SOG and SOP.               *)
HasDiv(n) == Divergent(n.states, n.cond) # {}
Leaving(n) == Sys!Post(transRel_, n.states) \ Selector(n.cond)

(* SOG and BCZ99: aggregates for all the propositions.                     *)
SogState(S, cube) == IF cmd.method = "SOG" THEN LeastPostTest(S, cube) ELSE S \cap Selector(cube)

(* The successors of a state of the observation graph: conditions and sets *)
(* of states of the aggregates, and the divergent state.                   *)
SogSuccs(n) ==
  LET entry == IF cmd.method = "SOG" THEN Leaving(n) ELSE Sys!Post(transRel_, n.states)
      found == {c \in Cubes(AP) : SogState(entry, c) # {}}
  IN  {<<"agg", SogState(entry, c), c>> : c \in found}
        \cup (IF cmd.method = "SOG" /\ HasDiv(n) THEN {<<"div", {}, n.cond>>} ELSE {})

(* otf_product: the automaton reads the valuation of the aggregate.        *)
SogEdges(n) ==
  {Edge(n, a.acc, [aut |-> a.dst, kind |-> m[1], states |-> m[2], cond |-> m[3]]) :
     a \in {b \in ArcsFrom(n.aut) : b.cond \cap n.cond # {}},
     m \in IF n.kind = "div" THEN {<<"div", {}, n.cond>>} ELSE SogSuccs(n)}

(* The cube of all the propositions that the initial state verifies.       *)
InitialCube(props) == {v \in Valuations : v \cap props = model.lab[model.init] \cap props}

-----------------------------------------------------------------------------
(* SOP: only the propositions that the automaton may still read.           *)

Support(cond) == {x \in AP : \E v \in Valuations : (v \cup {x} \in cond) # (v \ {x} \in cond)}

ReachedFrom(q) == ReachedBy({Edge(a.src, a.acc, a.dst) : a \in aut.arcs}, {q})
ReachableAP(q) == UNION {Support(a.cond) : a \in {b \in aut.arcs : b.src \in ReachedFrom(q)}}

(* bdd_existcomp: the other propositions are forgotten.                    *)
OnlyOf(cond, props) == {v \in Valuations : \E w \in cond : v \cap props = w \cap props}

SopEdges(n) ==
  LET read == {a \in ArcsFrom(n.aut) : n.cond \subseteq a.cond}
      loops == {Edge(n, a.acc, DivState(a.dst, OnlyOf(n.cond, ReachableAP(a.dst)))) : a \in read}
      moves == {Edge(n, a.acc, Aggregate(a.dst, LeastPostTest(Leaving(n), c), c)) :
                  <<a, c>> \in {p \in read \X SUBSET Valuations :
                                  /\ p[2] \in Cubes(ReachableAP(p[1].dst))
                                  /\ LeastPostTest(Leaving(n), p[2]) # {}}}
  IN  IF n.kind = "div" THEN loops
      ELSE moves \cup (IF HasDiv(n) THEN loops ELSE {})

-----------------------------------------------------------------------------
(* SLAP.                                                                   *)

(* The self-loops of the target that carry no more acceptance marks.       *)
WeakerLoop(a) == UNION {b.cond : b \in {c \in SelfLoops(a.dst) : c.acc \subseteq a.acc}}

InitialLoop ==
  IF aut.nbSets = 0 THEN {} ELSE UNION {b.cond : b \in {c \in SelfLoops(aut.init) : c.acc = {}}}

SlapDest(n, a) ==
  LET entry == SuccSatisfying(n.states, a.cond)
  IN  IF entry = {} THEN {} ELSE LeastPreTest(entry, WeakerLoop(a))

(* FSA skips a self-loop that leads to a subset.                           *)
Skipped(n, a, dest) ==
  cmd.method = "SLAP-FSA" /\ a.dst = n.aut /\ dest \subseteq n.states

SlapEdges(n) ==
  LET dests == {<<a, SlapDest(n, a)>> : a \in ArcsFrom(n.aut)}
  IN  {Edge(n, d[1].acc, Aggregate(d[1].dst, d[2], {})) :
         d \in {x \in dests : x[2] # {} /\ ~Skipped(n, x[1], x[2])}}

IsTerminal(q) == ArcsFrom(q) = SelfLoops(q)

(* The states of the automaton from which FairCycles is used.              *)
IsFullAccepting(q) ==
  \/ cmd.method = "SLAP-FST" /\ IsTerminal(q)
  \/ cmd.method = "SLAP-FSA" /\ UNION {a.acc : a \in SelfLoops(q)} = AllSets

-----------------------------------------------------------------------------
(* The argument of FairCycles for some arcs: their product with the model, *)
(* and for each acceptance set that labels one of them its part of it.     *)
ProductOf(arcs, rel) ==
  UNION {{<<<<a.src, e[1]>>, <<a.dst, e[2]>>>> : e \in From(rel, Selector(a.cond))} : a \in arcs}

Labelled(arcs, k) == {a \in arcs : k \in a.acc}

Accs(arcs, rel) ==
  LET used == SelectSeq([k \in AllSets |-> k], LAMBDA k : Labelled(arcs, k) # {})
  IN  [i \in DOMAIN used |-> ProductOf(Labelled(arcs, used[i]), rel)]

FindScc(arcs, rel, init, owcty) ==
  /\ call' = [all |-> ProductOf(arcs, rel), accs |-> Accs(arcs, rel), init |-> init,
              owcty |-> owcty]
  /\ fsPc' = "reach" /\ reach' = {} /\ div' = {} /\ sat' = {} /\ black' = 1

Init ==
  /\ model \in Models
  /\ cmd \in Commands
  /\ pc = "start"
  /\ transRel_ = {}
  /\ nodes = {} /\ todo = {} /\ edges = {}
  /\ asked = {} /\ answer = "none"
  /\ call = [all |-> {}, accs |-> <<>>, init |-> {}, owcty |-> FALSE]
  /\ fsPc = "done" /\ reach = {} /\ div = {} /\ sat = {} /\ black = 1

(* fs_model_check: the relation of the type, without loops on dead states. *)
StartSymbolic ==
  /\ pc = "start" /\ cmd.method \in Symbolic
  /\ FindScc(aut.arcs, model.next, {<<aut.init, model.init>>}, cmd.method = "FSOWCTY")
  /\ pc' = "symbolic"
  /\ UNCHANGED <<input, transRel_, product, asked, answer>>

AnswerSymbolic ==
  /\ pc = "symbolic" /\ fsPc = "done"
  /\ answer' = IF div # {} THEN "run" ELSE "no run"
  /\ pc' = "done"
  /\ UNCHANGED <<input, transRel_, product, asked, fsVars>>

(* get_init_state.                                                         *)
InitialNode ==
  CASE cmd.method \in Slap ->
         Aggregate(aut.init, LeastPreTest({model.init}, InitialLoop), {})
    [] cmd.method = "SOP" ->
         LET c == InitialCube(ReachableAP(aut.init))
         IN  Aggregate(aut.init, LeastPostTest({model.init}, c), c)
    [] OTHER ->
         Aggregate(aut.init, SogState({model.init}, InitialCube(AP)), InitialCube(AP))

(* The relation is computed when it is first needed.                       *)
ComputeNextRel ==
  /\ pc = "start" /\ cmd.method \notin Symbolic
  /\ transRel_' = NextRel
  /\ pc' = "init"
  /\ UNCHANGED <<input, product, asked, answer, fsVars>>

StartProduct ==
  /\ pc = "init"
  /\ nodes' = {InitialNode} /\ todo' = {InitialNode}
  /\ pc' = "explore"
  /\ UNCHANGED <<input, transRel_, edges, asked, answer, fsVars>>

(* Spot follows the arcs given for n.                                      *)
Follow(n, out) ==
  LET targets == {e[3] : e \in out}
  IN  /\ edges' = edges \cup out
      /\ nodes' = nodes \cup targets
      /\ todo' = (todo \ {n}) \cup (targets \ nodes)
      /\ UNCHANGED <<input, transRel_, answer>>

NeedsFs(n) == n.kind = "agg" /\ IsFullAccepting(n.aut)

(* The successors of a state depend on it only: the order in which Spot    *)
(* asks for them is left out.                                              *)
Explored == pc = "explore" /\ todo # {}
Current == CHOOSE n \in todo : TRUE

ExpandSog ==
  /\ Explored /\ cmd.method \in {"SOG", "BCZ99"}
  /\ Follow(Current, SogEdges(Current))
  /\ UNCHANGED <<pc, asked, fsVars>>

ExpandSop ==
  /\ Explored /\ cmd.method = "SOP"
  /\ Follow(Current, SopEdges(Current))
  /\ UNCHANGED <<pc, asked, fsVars>>

ExpandSlap ==
  /\ Explored /\ cmd.method \in Slap
  /\ Current.kind = "agg" /\ ~NeedsFs(Current)
  /\ Follow(Current, SlapEdges(Current))
  /\ UNCHANGED <<pc, asked, fsVars>>

(* The divergent state of SLAP loops with all the acceptance sets.         *)
ExpandSlapDiv ==
  /\ Explored /\ cmd.method \in Slap /\ Current.kind = "div"
  /\ Follow(Current, {Edge(Current, AllSets, Current)})
  /\ UNCHANGED <<pc, asked, fsVars>>

(* FST and FSA: is there a run through the self-loops of the automaton?    *)
AskFs ==
  /\ Explored /\ cmd.method \in SlapFs /\ NeedsFs(Current)
  /\ LET q == Current.aut
     IN  FindScc(SelfLoops(q), transRel_, {q} \X Current.states, TRUE)
  /\ asked' = {Current} /\ pc' = "fs"
  /\ UNCHANGED <<input, transRel_, product, answer>>

Answered == pc = "fs" /\ fsPc = "done" /\ pc' = "explore" /\ asked' = {} /\ UNCHANGED fsVars

FsFindsRun ==
  /\ Answered /\ div # {}
  /\ \E n \in asked : Follow(n, {Edge(n, AllSets, DivState(n.aut, Valuations))})

(* No accepting run through the self-loops, and nothing else to try.       *)
FsFindsNone ==
  /\ Answered /\ div = {}
  /\ \E n \in asked : /\ cmd.method = "SLAP-FST" \/ IsTerminal(n.aut)
                      /\ Follow(n, {})

(* FSA goes on as without FairCycles.                                      *)
FsFallsBack ==
  /\ Answered /\ div = {}
  /\ \E n \in asked : /\ cmd.method = "SLAP-FSA" /\ ~IsTerminal(n.aut)
                      /\ Follow(n, SlapEdges(n))

(* The emptiness check of Spot: a cycle whose component has every mark.    *)
HasAcceptingCycle(E, sets) ==
  \E e \in E :
     LET after == ReachedBy(E, {e[3]})
         component == {f \in E : f[1] \in after /\ e[1] \in ReachedBy(E, {f[3]})}
     IN  e[1] \in after /\ \A k \in sets : \E f \in component : k \in f[2]

(* The product of SOP declares no acceptance set: Spot asks for none.      *)
AskedSets == IF cmd.method = "SOP" THEN {} ELSE AllSets

(* Spot stops at the first accepting cycle, or when it has seen all.       *)
RunFound ==
  /\ pc = "explore" /\ HasAcceptingCycle(edges, AskedSets)
  /\ answer' = "run" /\ pc' = "done"
  /\ UNCHANGED <<input, transRel_, product, asked, fsVars>>

NoRunFound ==
  /\ pc = "explore" /\ todo = {} /\ ~HasAcceptingCycle(edges, AskedSets)
  /\ answer' = "no run" /\ pc' = "done"
  /\ UNCHANGED <<input, transRel_, product, asked, fsVars>>

SearchStep == FsNext /\ UNCHANGED <<input, pc, transRel_, product, asked, answer>>

Next ==
  \/ StartSymbolic \/ ComputeNextRel \/ StartProduct \/ SearchStep \/ AnswerSymbolic
  \/ ExpandSog \/ ExpandSop \/ ExpandSlap \/ ExpandSlapDiv
  \/ AskFs \/ FsFindsRun \/ FsFindsNone \/ FsFallsBack
  \/ RunFound \/ NoRunFound

Spec == Init /\ [][Next]_vars /\ WF_vars(Next)

-----------------------------------------------------------------------------
NodeKinds ==
  [aut : AutStates, kind : {"agg", "div"}, states : SUBSET SysStates, cond : SUBSET Valuations]

TypeOK ==
  /\ model \in Models /\ cmd \in Commands
  /\ pc \in {"start", "symbolic", "init", "explore", "fs", "done"}
  /\ nodes \subseteq NodeKinds /\ todo \subseteq nodes /\ asked \subseteq todo
  /\ \A e \in edges : e[1] \in nodes /\ e[2] \subseteq AllSets /\ e[3] \in nodes
  /\ answer \in {"none", "run", "no run"}

(* The runs of the model: its infinite paths, and with -stutter-deadlock   *)
(* those that stay for ever in a state without successor.                  *)
RunSteps ==
  {e \in SysStates \X SysStates :
     \/ e \in model.next
     \/ cmd.stutter /\ e[1] = e[2] /\ \A t \in SysStates : <<e[1], t>> \notin model.next}

FlatEdges ==
  UNION {{Edge(<<a.src, e[1]>>, a.acc, <<a.dst, e[2]>>) :
            e \in {f \in RunSteps : model.lab[f[1]] \in a.cond}} : a \in aut.arcs}

FlatStates == ReachedBy(FlatEdges, {<<aut.init, model.init>>})

(* The verdict is the one of the flat product: "produce at least one       *)
(* infinite sequence accepted" (sogtgbautils.hh:124).                      *)
AnswersAreCorrect ==
  pc = "done" =>
    (answer = "run") =
      HasAcceptingCycle({e \in FlatEdges : e[1] \in FlatStates}, AllSets)

(* An aggregate is said divergent when a run can stay in it for ever       *)
(* (sogstate.cpp:25), and the runs that leave it go to its successors.     *)
DivergentAggregatesLoop ==
  \A n \in nodes :
     cmd.method \in {"SOG", "SOP"} /\ n.kind = "agg" =>
       LET inside == {Edge(e[1], {}, e[2]) : e \in {f \in RunSteps : f[1] \in n.states /\ f[2] \in n.states}}
           out == {e[2] : e \in {f \in RunSteps : f[1] \in n.states /\ f[2] \notin n.states}}
       IN  /\ HasDiv(n) = HasAcceptingCycle(inside, {})
           /\ Leaving(n) = out

(* An aggregate holds only states that the model can be in when the        *)
(* automaton is in its state; of BCZ99 and SLAP, once all has been asked,  *)
(* the aggregates hold all of them (slap.cpp:190, bczCSD99.cpp:25).        *)
AggregatesAreTheProduct ==
  LET held == UNION {{n.aut} \X n.states : n \in nodes}
  IN  /\ cmd.method \in Slap \cup {"BCZ99"} => held \subseteq FlatStates
      /\ cmd.method \in {"SOG", "SOP"} =>
           \A n \in nodes : n.states \subseteq Reachable \cap Selector(n.cond)
      /\ cmd.method \in {"SLAP", "BCZ99"} /\ pc = "explore" /\ todo = {} => held = FlatStates
      /\ DivergentAggregatesLoop

(* The check ends with a verdict.                                          *)
Terminates == <>(answer # "none")
=============================================================================
