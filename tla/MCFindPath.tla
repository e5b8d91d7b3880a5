----------------------------- MODULE MCFindPath -----------------------------
(* Instances of FindPath: every pair of transitions that have at most two  *)
(* edges each on four states, of which 4 may be outside the envelope.      *)
EXTENDS FindPath

MCStates == 1 .. 4

MCTransChoices ==
  [Names -> {r \in SUBSET ((MCStates \X MCStates) \ {<<3, 3>>, <<4, 4>>}) : Cardinality(r) <= 2}]

MCQuery(i, t, r, p) ==
  [init |-> i, toreach |-> t, reach |-> r, pot |-> MCStates, precise |-> p]

(* The goal is in the envelope, as in its-reach and in its-ctl's search    *)
(* for a deadlock.                                                         *)
MCQueries ==
  {MCQuery({1}, {3}, 1 .. 3, TRUE), MCQuery({1, 2}, {3, 4}, 1 .. 4, TRUE),
   MCQuery({1, 2}, {2, 3}, 1 .. 3, FALSE), MCQuery({1, 4}, {3}, 1 .. 4, FALSE)}

(* The call its-ctl makes to explain E(a U b): the envelope is the set     *)
(* {1, 2} of the states that satisfy a, the goal the set {3} of those that *)
(* satisfy b, and the formula holds in 1 by the path 1, 2, 3.              *)
MCOutsideQueries == {MCQuery({1}, {3}, {1, 2}, TRUE)}

MCHoldsInOne ==
  {t \in MCTransChoices : {<<1, 2>>, <<2, 3>>} \subseteq NextRel(t)}
=============================================================================
