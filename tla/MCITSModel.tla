----------------------------- MODULE MCITSModel -----------------------------
(* Two names and three types of three states: one with a cycle, that a     *)
(* state which is not reachable leads to, a chain, and one without steps.  *)
EXTENDS ITSModel

MCStates == 1 .. 3

MCDef(r1, r2, i) == [trans |-> <<r1, r2>>, inits |-> i]

MCDefinitions ==
  {MCDef({<<1, 2>>, <<3, 2>>}, {<<2, 1>>}, [l \in {"init", "other"} |-> {1}]),
   MCDef({<<3, 2>>}, {<<2, 1>>}, [l \in {"init"} |-> {3}]),
   MCDef({}, {}, [l \in {"other"} |-> {1, 2}])}
=============================================================================
