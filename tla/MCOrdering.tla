----------------------------- MODULE MCOrdering -----------------------------
(* Two types, of three and two variables, and the files of two sections.   *)
EXTENDS Ordering

MCVariables == [t \in {"P", "Q"} |-> IF t = "P" THEN {"a", "b", "c"} ELSE {"x", "y"}]

(* Complete orders, orders that leave variables out, repeat them or name   *)
(* one that is unknown, and a type that is unknown.                        *)
MCSections ==
  [type : {"P"},
   order : OrdersOf({"a", "b", "c"})
             \cup {<<"c", "a">>, <<"b", "b", "a">>, <<"b", "b", "a", "c">>}]
    \cup [type : {"Q"},
          order : OrdersOf({"x", "y"})
                    \cup {<<"x", "z">>, <<"z", "x", "y">>, <<"x", "x", "y">>}]
    \cup {[type |-> "R", order |-> <<"a">>]}

MCFiles == UNION {[1 .. n -> MCSections] : n \in 0 .. 2}
=============================================================================
