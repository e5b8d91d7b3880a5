------------------------------ MODULE MCExplain ------------------------------
(* Three states and three propositions that overlap.  The models with one  *)
(* initial state are checked without --witness, with more formulas; those  *)
(* with two are explained.                                                 *)
EXTENDS Explain, TLC

MCStates == 1 .. 3
MCProps == {"p", "q", "r"}

(* TLC asks of a value whether it is a formula, and never for all of them. *)
MCForms == Any

MCLabel ==
  [ap \in MCProps |->
     CASE ap = "p" -> {1, 2} [] ap = "q" -> {2, 3} [] ap = "r" -> {3}]

P == Id("p")
Q == Id("q")
R == Id("r")

Unaries(S) == {<<op, f>> : op \in {"EX", "EF", "EG", "AX", "AF", "AG", "NOT"}, f \in S}

Binaries(S, T) == {<<op, f, g>> : op \in {"EU", "AU", "AND", "OR", "THEN"}, f \in S, g \in T}

(* One temporal operator, two of them nested, and boolean combinations.    *)
One1 == (Unaries({P, Q}) \cup Binaries({P}, {Q})) \ {Not(P)}

Inner == {EX(P), EG(Q), EU(P, Q), <<"AF", Q>>, Not(EX(Q))}

MCFormulas ==
  One1 \cup Unaries(Inner) \cup Binaries(Inner, {Q}) \cup Binaries({P}, Inner)
    \cup {<<op, f, g>> : op \in {"AND", "OR", "THEN"},
                         f \in {EX(P), Not(EX(Q))}, g \in {EG(Q), <<"AG", Q>>}}
MCNegated == {Not(f) : f \in {g \in MCFormulas : g[1] \in {"AND", "OR", "THEN"}}}

MCExplained ==
  {P, R, True, False, Not(Q), Or(R, P), And(P, R), And(EX(Q), EX(R)), And(Or(P, Q), EX(EX(R))),
   EX(P), EX(R), EX(EX(R)), Not(EX(Q)), <<"AX", Q>>, Or(EX(R), Q), Then(P, EX(Q)), Then(P, R), Then(R, R),
   EU(P, R), EU(Q, R), EU(R, R), EU(Q, False), EU(P, EX(R)), EU(Q, And(R, EX(R))),
   <<"EF", R>>, <<"AG", P>>, EG(P), EG(Q), EG(R), EG(False), <<"AF", R>>,
   <<"AU", P, R>>, EX(EU(Q, P))}

Edges == MCStates \X MCStates

(* Untimed: any relation of four edges at most, cut in two transitions.   *)
MCUntimed(init) ==
  {[trans |-> <<{e \in r : e[1] = 1}, {e \in r : e[1] # 1}>>, timed |-> FALSE, init |-> init] :
     r \in {s \in SUBSET Edges : Cardinality(s) <= 4}}

(* Timed: elapse is a function whose only cycles are loops.                *)
MCElapses ==
  {{<<1, 2>>, <<2, 2>>}, {<<1, 1>>, <<3, 3>>}, {<<1, 2>>, <<2, 3>>, <<3, 3>>}}

MCTimed(init, edges) ==
  {[trans |-> <<el, r>>, timed |-> TRUE, init |-> init] :
     el \in MCElapses, r \in {s \in SUBSET Edges : Cardinality(s) <= edges}}

MCModels ==
  MCUntimed({1}) \cup MCTimed({1}, 2) \cup MCUntimed({1, 2}) \cup MCTimed({1, 2}, 1)

MCCommand(ask, fs) ==
  [ask |-> ask, formulas |-> fs, fair |-> FALSE, forward |-> TRUE, backward |-> TRUE,
   witness |-> FALSE]

MCChecks ==
  {MCCommand("formulas", <<f>>) : f \in MCFormulas \cup MCNegated}
    \cup {[MCCommand("formulas", <<f>>) EXCEPT !.fair = TRUE] : f \in One1 \cup Inner}
    \cup {[MCCommand("formulas", <<EG(P), EX(Q)>>) EXCEPT !.forward = FALSE, !.backward = b] :
            b \in BOOLEAN}
    \cup {[MCCommand(ask, <<>>) EXCEPT !.fair = b] :
            ask \in {"deadlock", "timelock"}, b \in BOOLEAN}

(* The forward form is explained when it is one comparison.                *)
MCExplain(g) ==
  [MCCommand("formulas", <<g>>) EXCEPT !.witness = TRUE, !.forward = ForwardFormula(g)[1] = "CMP"]

MCExplanations ==
  {[MCExplain(g) EXCEPT !.backward = b] :
       g \in {h \in MCExplained : MCExplain(h).forward}, b \in BOOLEAN}
    \cup {MCExplain(g) : g \in MCExplained}
    \cup {[MCCommand(ask, <<>>) EXCEPT !.witness = TRUE, !.fair = b] :
            ask \in {"deadlock", "timelock"}, b \in BOOLEAN}

MCCommands(m) == IF m.init = {1} THEN MCChecks ELSE MCExplanations

(* No state is a deadlock.                                                 *)
MCTotal == {m \in MCUntimed({1, 2}) : Pre(m.trans[1] \cup m.trans[2], MCStates) = MCStates}

MCGlobally(m) == {[MCExplain(EG(True)) EXCEPT !.forward = FALSE]}
=============================================================================
