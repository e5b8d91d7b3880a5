---------------------------- MODULE MCPrintPaths ----------------------------
(* Two transitions of at most two edges each on four states; the goal has  *)
(* no successor.                                                           *)
EXTENDS PrintPaths

MCStates == 1 .. 4

MCEdges == {e \in (1 .. 3) \X MCStates : e[1] # e[2]}

MCTransChoices == [Names -> {r \in SUBSET MCEdges : Cardinality(r) <= 2}]

MCQuery(s, o, g, v, t, l) ==
  [start |-> s, origin |-> o, gadget |-> g, inv |-> v, goal |-> t, limit |-> l]

(* From one state, two, or two selected by a "from" predicate with a low   *)
(* limit; after the gadget; with 3 excluded by the invariant, which lets   *)
(* the last states to treat reach the goal outside the states searched;    *)
(* with an initial state that is a goal.                                   *)
MCQueries ==
  {MCQuery({1}, {1}, FALSE, MCStates, {4}, 9),
   MCQuery({1, 2}, {1, 2}, FALSE, MCStates, {4}, 9),
   MCQuery({1}, {2, 3}, FALSE, MCStates, {4}, 2),
   MCQuery({1}, {1}, TRUE, MCStates, {4}, 9),
   MCQuery({1, 2}, {1, 2}, FALSE, {1, 2, 4}, {4}, 9),
   MCQuery({1, 2}, {1, 2}, FALSE, MCStates, {2, 4}, 9)}
=============================================================================
