----------------------------- MODULE MCLtlCheck -----------------------------
(* Three states, the first initial, two propositions, two automaton states *)
(* and at most two acceptance sets.                                        *)
EXTENDS LtlCheck

MCSysStates == 1 .. 3
MCAutStates == 0 .. 1
MCStates == MCAutStates \X MCSysStates
MCAP == {"a", "b"}

A == {v \in Valuations : "a" \in v}
B == {v \in Valuations : "b" \in v}
All == Valuations

Arc(q, c, r, m) == [src |-> q, cond |-> c, dst |-> r, acc |-> m]
Automaton(arcs, n) == [arcs |-> arcs, init |-> 0, nbSets |-> n]

(* G a, without acceptance set.                                            *)
Always == Automaton({Arc(0, A, 0, {})}, 0)
(* G F a, and G F a and G F b.                                             *)
Often == Automaton({Arc(0, A, 0, {1}), Arc(0, All \ A, 0, {})}, 1)
OftenBoth ==
  Automaton({Arc(0, A \cap B, 0, {1, 2}), Arc(0, A \ B, 0, {1}), Arc(0, B \ A, 0, {2}),
             Arc(0, All \ (A \cup B), 0, {})}, 2)
(* F G a: the second state is terminal.                                    *)
Finally == Automaton({Arc(0, All, 0, {}), Arc(0, A, 1, {}), Arc(1, A, 1, {1})}, 1)
(* a U b: the second state accepts everything.                             *)
Until == Automaton({Arc(0, A \ B, 0, {}), Arc(0, B, 1, {}), Arc(1, All, 1, {1})}, 1)
(* F (a and G !b).                                                         *)
NoAnswer ==
  Automaton({Arc(0, All, 0, {}), Arc(0, A \ B, 1, {1}), Arc(1, All \ B, 1, {1})}, 1)
(* X a, then anything: reads the number of steps.                          *)
NextA == Automaton({Arc(0, All, 1, {}), Arc(1, A, 1, {1})}, 1)
(* a W (G b): the first state accepts, and is not terminal.                *)
Unless == Automaton({Arc(0, A, 0, {1}), Arc(0, B, 1, {}), Arc(1, B, 1, {1})}, 1)
(* Two states in a cycle: a at every step from the second to the first.    *)
Alternate ==
  Automaton({Arc(0, A, 0, {1}), Arc(0, All \ A, 1, {}), Arc(1, All, 0, {})}, 1)

(* G a, made complete: the second state is a sink that accepts nothing.    *)
AlwaysOrSink ==
  Automaton({Arc(0, A, 0, {1}), Arc(0, All \ A, 1, {}), Arc(1, All, 1, {})}, 1)

MCAutomata ==
  [Always |-> Always, Often |-> Often, OftenBoth |-> OftenBoth, Finally |-> Finally,
   Until |-> Until, Unless |-> Unless, NoAnswer |-> NoAnswer, NextA |-> NextA,
   Alternate |-> Alternate, AlwaysOrSink |-> AlwaysOrSink]

(* The formulas that do not count steps; no cycle has two states.          *)
Stuttering == {"Always", "Often", "OftenBoth", "Finally", "Until", "Unless",
               "NoAnswer"}

Edges == MCSysStates \X MCSysStates
MCLabels ==
  {<<{"a"}, {"a", "b"}, {}>>, <<{"a"}, {}, {"b"}>>, <<{}, {"a"}, {"a"}>>}
(* The edges start from reachable states.                                  *)
MCReached(r) == ReachedBy({Edge(e[1], {}, e[2]) : e \in r}, {1})
MCRelations ==
  {r \in SUBSET Edges : Cardinality(r) <= 3 /\ {e[1] : e \in r} \subseteq MCReached(r)}
MCModels ==
  {[next |-> r, lab |-> l, init |-> 1] : r \in MCRelations, l \in MCLabels}

(* Calls of the search on their own: the products of the automata with the *)
(* models, whatever the labels.                                            *)
MCArcs(arcs, rel) == {<<<<a.src, e[1]>>, <<a.dst, e[2]>>>> : a \in arcs, e \in rel}
MCCalls ==
  {LET x == MCAutomata[n]
   IN  [all |-> MCArcs(x.arcs, r), init |-> {<<x.init, 1>>}, owcty |-> w,
        accs |-> [k \in 1 .. x.nbSets |-> MCArcs({a \in x.arcs : k \in a.acc}, r)]] :
   n \in DOMAIN MCAutomata, r \in MCRelations, w \in BOOLEAN}

Line(m, a, s) == [method |-> m, aut |-> a, stutter |-> s]

(* Every terminal state accepts.                                           *)
MCUsual == DOMAIN MCAutomata \ {"AlwaysOrSink"}

MCCommands ==
  {Line(m, a, s) : m \in {"SLAP", "BCZ99", "SLAP-FST"}, a \in MCUsual, s \in BOOLEAN}
    \cup {Line(m, a, FALSE) : m \in Symbolic, a \in MCUsual}
    \cup {Line("SOG", a, FALSE) : a \in Stuttering}
    \cup {Line("SOP", "Always", FALSE)}
    \cup {Line("SLAP-FSA", a, s) : a \in Stuttering, s \in BOOLEAN}

MCFsaCommands == {Line("SLAP-FSA", "Alternate", FALSE)}
MCSinkCommands == {Line("SLAP-FST", "AlwaysOrSink", FALSE)}
=============================================================================
