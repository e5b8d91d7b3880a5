---------------------------- MODULE MCReachTool -----------------------------
(* Commands on small graphs of five states without a cycle: state 1 is     *)
(* initial, and a property looks for one of the others or for all but some.*)
EXTENDS ReachTool

MCStates == 1 .. 5

MCNextChoices ==
  {r \in SUBSET {e \in MCStates \X MCStates : e[1] < e[2]} : Cardinality(r) <= 4}

(* A non-negative expression, that does not grow along the paths.          *)
MCValue == [s \in MCStates |-> IF s = 3 THEN 3 ELSE 1]

MCProp(t, s) == [type |-> t, pred |-> s]

MCProps ==
  {<<MCProp("REACH", {4})>>,
   <<MCProp("REACH", {2}), MCProp("NEVER", {5})>>,
   <<MCProp("INVARIANT", {1, 2, 3}), MCProp("NEVER", {3}), MCProp("REACH", {5})>>,
   <<MCProp("BOUNDS", {}), MCProp("REACH", {5})>>}

(* its-reach with traces, and the whole state space.                       *)
MCCommand(p) ==
  [props |-> p, maxbound |-> FALSE, init |-> {1}, inv |-> MCStates,
   doFrom |-> FALSE, from |-> {}, bmc |-> -1,
   dowitness |-> TRUE, nbwitness |-> 0, fixpass |-> 2]

MCCommands ==
  UNION {
    {[MCCommand(p) EXCEPT !.dowitness = FALSE, !.fixpass = 1],
     [MCCommand(p) EXCEPT !.dowitness = FALSE, !.fixpass = 0],
     [MCCommand(p) EXCEPT !.bmc = 2],
     [MCCommand(p) EXCEPT !.inv = {1, 2, 4, 5}, !.maxbound = TRUE],
     [MCCommand(p) EXCEPT !.doFrom = TRUE, !.from = {2, 3}],
     [MCCommand(p) EXCEPT !.doFrom = TRUE, !.from = {2, 4}, !.inv = {1, 2, 3, 5},
                          !.dowitness = FALSE, !.nbwitness = 3]} : p \in MCProps}

(* A bound asked for with -maxbound, beside a reachability property, when  *)
(* no trace is.                                                            *)
MCMaxBoundCommands ==
  {[MCCommand(<<MCProp("REACH", {4})>>) EXCEPT
      !.maxbound = TRUE, !.dowitness = FALSE, !.fixpass = 1]}
=============================================================================
