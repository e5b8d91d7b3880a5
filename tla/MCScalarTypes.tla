---------------------------- MODULE MCScalarTypes ----------------------------
(* Sets of at most 16 instances of a type with two states and four labels. *)
EXTENDS ScalarTypes

MCBaseLabels == {"give", "take", "test", "reset"}
MCBase ==
  LET free == <<0>>
      busy == <<1>>
  IN  [states |-> {free, busy}, locals |-> {<<free, busy>>}, inits |-> [init |-> free],
       succs |-> [give |-> {<<busy, free>>}, take |-> {<<free, busy>>}, test |-> {<<busy, busy>>},
                  reset |-> {<<free, free>>, <<busy, free>>}]]

Delegate(n, l, a) == [name |-> n, label |-> l, all |-> a]
Ring(cur, next) == [name |-> "pass", label |-> "", cur |-> cur, next |-> next]

(* Delegators and rings whose labels are not used twice.                   *)
MCSyncs ==
  {<<>>, <<Delegate("reset", "", TRUE)>>, <<Delegate("reset", "", FALSE)>>,
   <<Delegate("reset", "reset", FALSE)>>,
   <<Delegate("reset", "reset", TRUE)>>,
   <<Delegate("take", "", TRUE), Delegate("reset", "reset", FALSE)>>}
MCCircs == {<<>>, <<Ring(<<"give">>, <<"take">>)>>, <<Ring(<<"test", "give">>, <<"take">>)>>}

SetOf(n, s, g, syncs, circs) ==
  [size |-> n, strategy |-> s, param |-> g, syncs |-> syncs, circs |-> circs,
   circular |-> circs # <<>>, inits |-> [init |-> [i \in 1 .. n |-> "init"]]]

(* No label of a delegator is one of the ring.                             *)
Apart(syncs, circs) ==
  circs # <<>> => \A k \in DOMAIN syncs : syncs[k].name \notin {"give", "take", "test"}

MCSmall ==
  {SetOf(n, s, g, x[1], x[2]) : n \in 1 .. 6, s \in Strategies, g \in 0 .. 3,
     x \in {y \in MCSyncs \X MCCircs : Apart(y[1], y[2])}}
MCLarge == {SetOf(n, s, g, <<>>, <<>>) : n \in 7 .. 16, s \in Strategies, g \in 0 .. 6}
MCSets == {s \in MCSmall \cup MCLarge :
             s.strategy = "DEPTH1" /\ s.param > 0 =>
               LET g == IF s.param > s.size \div 2 THEN s.size \div 2 ELSE s.param
               IN  s.size = 1 \/ s.size % g <= s.size \div g}

(* -ssD2 4 and eleven instances.                                           *)
MCTooFewBlocks == {SetOf(n, "DEPTH1", 4, <<>>, <<>>) : n \in 8 .. 12}
=============================================================================
