--------------------------- MODULE MCNetHierarchy ---------------------------
(* Time nets with two places and two timed transitions, and nets of four   *)
(* places loaded in all shapes of hierarchies.                             *)
EXTENDS NetHierarchy

In(p, v) == [type |-> "INPUT", places |-> <<<<p, v>>>>]
Out(p, v) == [type |-> "OUTPUT", places |-> <<<<p, v>>>>]
Test(p, v) == [type |-> "TEST", places |-> <<<<p, v>>>>]
Inhibit(p, v) == [type |-> "INHIBITOR", places |-> <<<<p, v>>>>]
Flush(p) == [type |-> "RESET", places |-> <<<<p, 0>>>>]
TestAny(p, q) == [type |-> "TEST", places |-> <<<<p, 1>>, <<q, 1>>>>]

Trans(label, public, arcs, eft, lft) ==
  [label |-> label, public |-> public, arcs |-> arcs, eft |-> eft, lft |-> lft]
Elapses == Trans("elapse", TRUE, <<>>, 0, CLOCK_INFINITY)

(* Time nets: "back" is fired by the model, at any time.                   *)
TimedArcs ==
  {<<In("x", 1), Out("y", 1)>>, <<Out("y", 1), In("x", 2)>>, <<In("x", 1), In("y", 1), Out("x", 1)>>,
   <<Inhibit("y", 1), Out("y", 1)>>, <<In("x", 1), Flush("y"), Out("y", 1)>>, <<TestAny("x", "y")>>}
Clocks == {<<0, CLOCK_INFINITY>>, <<0, 0>>, <<1, 2>>, <<2, CLOCK_INFINITY>>}

TimeNet(a, c, public, b, d) ==
  [places |-> {"x", "y"},
   trans |-> [n \in {"t", "u", "back", "elapse"} |->
                CASE n = "t" -> Trans("a", public, a, c[1], c[2])
                  [] n = "u" -> Trans("u", FALSE, b, d[1], d[2])
                  [] n = "back" -> Trans("b", TRUE, <<Inhibit("x", 2), In("y", 1), Out("x", 1)>>, 0, CLOCK_INFINITY)
                  [] n = "elapse" -> Elapses],
   inits |-> [init |-> [x |-> 1, y |-> 0], two |-> [x |-> 2, y |-> 1]]]
TimeNets == {TimeNet(a, c, v, b, d) : a \in TimedArcs, b \in TimedArcs, c \in Clocks, d \in Clocks, v \in BOOLEAN}

(* Nets to load: p1 to p4.                                                 *)
Private(n, arcs) == Trans(n, FALSE, arcs, 0, CLOCK_INFINITY)
Public(l, arcs) == Trans(l, TRUE, arcs, 0, CLOCK_INFINITY)
NetOf(trans) ==
  [places |-> {"p1", "p2", "p3", "p4"}, trans |-> trans,
   inits |-> [init |-> [p1 |-> 1, p2 |-> 0, p3 |-> 1, p4 |-> 0]]]

LoadedNets ==
  {NetOf([t1 |-> Private("t1", <<In("p1", 1), Out("p2", 1)>>),
          t2 |-> Private("t2", <<In("p2", 1), Out("p3", 1)>>),
          t3 |-> Private("t3", <<In("p3", 1), Out("p4", 1)>>),
          t4 |-> Private("t4", <<In("p4", 1), Out("p1", 1)>>)]),
   NetOf([t1 |-> Private("t1", <<Inhibit("p2", 1), In("p1", 1), In("p3", 1), Out("p4", 1)>>),
          t2 |-> Private("t2", <<Inhibit("p1", 1), In("p4", 1), Out("p2", 1), Out("p1", 1)>>)]),
   NetOf([t1 |-> Private("t1", <<In("p1", 1), In("p2", 1), Out("p1", 1)>>),
          t2 |-> Private("t2", <<In("p3", 1), Out("p2", 1)>>),
          none |-> Private("none", <<>>)]),
   NetOf([t1 |-> Private("t1", <<Test("p1", 1), In("p3", 1), Out("p4", 1)>>),
          t2 |-> Private("t2", <<In("p4", 1), Flush("p1"), Out("p3", 1)>>),
          t3 |-> Public("a", <<In("p1", 1), Out("p2", 1)>>),
          t4 |-> Public("a", <<In("p4", 1), Out("p3", 1)>>),
          t5 |-> Public("b", <<In("p2", 1), In("p3", 1), Out("p1", 1)>>),
          t6 |-> Public("c", <<Test("p4", 1)>>),
          elapse |-> Elapses]),
   NetOf([t1 |-> Public("a", <<In("p1", 1), Out("p2", 1)>>),
          t2 |-> Private("t2", <<In("p2", 1), Out("p1", 1)>>),
          t3 |-> Public("a", <<In("p2", 1), In("p4", 1)>>),
          t4 |-> Public("t4", <<>>)]),
   NetOf([t1 |-> Public("a", <<In("p1", 1), Out("p4", 1)>>),
          t2 |-> Public("b", <<Inhibit("p1", 1), In("p4", 1), Out("p2", 1)>>),
          t3 |-> Public("a", <<In("p2", 1), In("p3", 1), Out("p2", 1)>>),
          t4 |-> Public("c", <<Test("p4", 1), Flush("p3"), Out("p3", 1)>>),
          elapse |-> Elapses])}

MCNets == TimeNets \cup LoadedNets

(* What the theorem about the steps asks for (StepsStayExact).             *)
ASSUME MCNetsArePlain == NetsArePlain

L(places) == [places |-> places]
N(kids) == [kids |-> kids]
MCHierarchies(n) ==
  IF n.places = {"x", "y"} THEN {<<>>} ELSE
  {<<L({"p1", "p2", "p3", "p4"})>>,
   <<L({"p1", "p2", "p3", "p4"}), N(<<1>>)>>,
   <<L({"p1", "p2"}), L({"p3", "p4"}), N(<<1, 2>>)>>,
   <<L({"p1"}), L({"p3", "p2"}), L({"p4"}), N(<<1, 2, 3>>)>>,
   <<L({"p1"}), L({"p2"}), N(<<1, 2>>), L({"p3", "p4"}), N(<<3, 4>>)>>,
   <<L({"p4"}), L({"p1"}), L({"p3"}), N(<<2, 3>>), N(<<4>>), L({"p2"}), N(<<1, 5, 6>>)>>}
=============================================================================
