----------------------------- MODULE MCGalType -----------------------------
(* Two programs over an array of two cells and two variables, with all the *)
(* orders of the four.  The cube reaches all the valuations, and each of   *)
(* its labelled transitions executes one statement; the machine has        *)
(* transient states, calls, conditions, a loop, an abortion and a deadlock.*)
EXTENDS FrontEnds

MCArraySize == [t |-> 2, a |-> 2]

I == Var("i")
X == Var("x")
T(e) == Access("t", e)
N(n) == Const(n)
Plus(l, r) == Bin("plus", l, r)
Minus(l, r) == Bin("minus", l, r)
Mod(l, n) == Bin("mod", l, N(n))
Eq(l, r) == Bin("eq", l, r)
Lt(l, r) == Bin("lt", l, r)
And(b, c) == Nary("and", {b, c})
Or(b, c) == Nary("or", {b, c})

Assign(x, e) == [st |-> "assign", x |-> x, e |-> e]
Incr(x, e) == [st |-> "incr", x |-> x, e |-> e]
Sync(ass) == [st |-> "sync", ass |-> ass]
Sequence(body) == [st |-> "seq", body |-> body]
If(c, t, f) == [st |-> "ite", cond |-> c, ifTrue |-> t, ifFalse |-> f]
Fix(body) == [st |-> "fix", body |-> body]
Call(l) == [st |-> "call", label |-> l]
Abort == [st |-> "abort"]

True == Bool(TRUE)
Trans(label, guard, body) == [label |-> label, guard |-> guard, action |-> Sequence(body)]

MCCells == {T(N(0)), T(N(1)), I, X}
MCZero == [v \in MCCells |-> 0]

(* Every valuation of the variables is reached; i may be no index of t.    *)
Turn(x) == Trans("", True, <<Assign(x, IF x = I THEN Mod(Plus(x, N(1)), 3) ELSE Minus(N(1), x))>>)

MCStatements == <<
  <<Assign(X, T(Minus(N(1), I)))>>,
  <<Assign(T(I), T(T(I)))>>,
  <<Assign(I, Wrap(Eq(T(I), X)))>>,
  <<Incr(X, T(I)), Assign(X, Mod(X, 2))>>,
  <<Sync(<<<<T(N(0)), T(N(1))>>, <<T(N(1)), T(N(0))>>>>)>>,
  <<Sync(<<<<X, I>>, <<I, T(N(0))>>, <<T(N(0)), X>>>>)>>,
  <<Assign(X, T(Plus(X, I)))>>,
  <<If(Eq(T(I), X), <<Assign(I, Minus(N(1), I))>>, <<Assign(X, T(I)), Assign(T(X), N(0))>>)>>,
  <<Assign(X, Bin("div", Minus(I, N(3)), N(2))), Assign(X, Bin("mult", T(T(I)), X))>>,
  <<Sync(<<<<X, I>>, <<I, N(1)>>, <<T(N(0)), X>>>>)>>,
  <<Sync(<<<<X, Wrap(Eq(T(I), N(1)))>>, <<I, X>>>>)>>,
  <<Sync(<<<<X, T(I)>>, <<I, X>>, <<T(N(0)), I>>>>)>>,
  <<Assign(T(I), Minus(N(1), T(I)))>>,
  <<Incr(T(X), T(Minus(N(1), X)))>>,
  <<Assign(T(X), Plus(X, I))>>,
  <<Assign(X, Mod(Bin("bitxor", Bin("pow", Plus(I, N(1)), X), Bin("lshift", T(I), I)), 2))>>,
  <<Assign(X, Mod(Plus(Complement(T(Complement(Minus(N(-1), I)))), N(2)), 2))>>>>

(* These are inverted too.                                                 *)
MCInvertible == <<
  <<Assign(X, N(1))>>,
  <<Assign(X, Minus(N(1), X)), Assign(T(X), I)>>,
  <<Assign(X, Plus(X, I))>>,
  <<Assign(X, Bin("mult", I, T(N(0)))), Incr(I, N(1))>>,
  <<Assign(T(I), Plus(T(I), X))>>,
  <<Assign(X, Wrap(Eq(I, T(N(0)))))>>,
  <<Assign(X, T(Minus(N(1), I))), Assign(I, Mod(Plus(I, X), 2))>>,
  <<Incr(X, T(I))>>,
  <<Assign(X, Minus(Plus(I, N(1)), T(N(0))))>>>>

Labelled(prefix, guard, bodies) ==
  [k \in DOMAIN bodies |-> Trans(prefix \o ToString(k), guard, bodies[k])]

MCCube ==
  [init |-> MCZero,
   trans |-> SetToSeq({Turn(v) : v \in MCCells}) \o Labelled("s", True, MCStatements)
             \o Labelled("r", Or(Eq(I, N(0)), Not(Eq(T(I), X))), MCInvertible),
   transient |-> Bool(FALSE)]

(* i is 1 or 3 in the transient states.                                    *)
MCMachine ==
  [init |-> MCZero,
   trans |-> <<
     Trans("", And(Eq(I, N(0)), Eq(X, N(0))), <<Assign(I, N(1)), Assign(X, N(1))>>),
     Trans("", Eq(I, N(0)), <<Assign(I, N(2))>>),
     Trans("", And(Eq(I, N(1)), Lt(T(X), N(1))), <<Incr(T(X), N(1)), Assign(I, N(3))>>),
     Trans("", And(Eq(I, N(1)), Not(Lt(T(X), N(1)))), <<Call("less"), Assign(I, N(0))>>),
     Trans("", Eq(I, N(3)), <<If(Eq(T(N(0)), T(N(1))), <<Assign(I, N(0)), Assign(X, N(0))>>, <<Assign(I, N(2))>>)>>),
     Trans("", And(Eq(I, N(2)), Not(And(Eq(T(N(0)), N(1)), Eq(T(N(1)), N(1))))), <<Call("fill"), Assign(I, N(0))>>),
     Trans("less", Lt(N(0), T(N(0))), <<Incr(T(N(0)), N(-1))>>),
     Trans("less", Lt(N(0), T(N(1))), <<Incr(T(N(1)), N(-1)), Assign(X, N(0))>>),
     Trans("fill", True, <<Fix(<<If(Lt(T(X), N(1)), <<Incr(T(X), N(1))>>, <<>>)>>)>>),
     Trans("swap", Not(Eq(T(N(0)), T(N(1)))),
           <<If(Eq(X, N(1)), <<Abort>>, <<Sync(<<<<T(N(0)), T(N(1))>>, <<T(N(1)), T(N(0))>>>>)>>)>>)>>,
   transient |-> Or(Eq(I, N(1)), Eq(I, N(3)))]

(* DVE: expressions and transitions.                                       *)
Lit(n) == [op |-> "nat", n |-> n]
Id(v) == [op |-> "id", v |-> v]
At(v, e) == [op |-> "index", v |-> v, r |-> e]
In(p, q) == [op |-> "dot", p |-> p, q |-> q]
Un(op, e) == [op |-> op, r |-> e]
Process(states, init, commit, transient) ==
  [states |-> states, init |-> init, commit |-> commit, transient |-> transient]
Always == Lit(1)
Moves(p, from, to, guard, effects) ==
  [proc |-> p, from |-> from, to |-> to, guard |-> guard, effects |-> effects, sync |-> "none"]
Syncs(p, from, to, guard, sync, chan, exprs, effects) ==
  [proc |-> p, from |-> from, to |-> to, guard |-> guard, effects |-> effects, sync |-> sync,
   chan |-> chan, exprs |-> exprs]

(* A rendezvous that passes two values, the second to a cell of an array;  *)
(* each process then changes what the other one reads.                     *)
MCRendezvous ==
  [global |-> {"w", "a"}, const |-> [k |-> 1],
   type |-> [w |-> "byte", a |-> "byte", y |-> "int"],
   size |-> [w |-> 0, a |-> 2, y |-> 0],
   init |-> [w |-> <<>>, a |-> <<1, 0>>, y |-> <<0>>],
   proc |-> [A |-> Process(2, 0, {}, {}), B |-> Process(2, 0, {}, {}), C |-> Process(1, 0, {}, {})],
   trans |-> {
     Syncs("A", 0, 1, Bin("le", Id("w"), Id("k")), "exclaim", "c",
           <<At("a", Id("w")), Bin("minus", Id("k"), Id("w"))>>,
           <<<<Id("w"), Bin("minus", Lit(1), Id("w"))>>>>),
     Syncs("B", 0, 1, Un("lnot", Un("neg", Id("y"))), "ask", "c", <<Id("y"), At("a", Id("w"))>>,
           <<<<Id("y"), Bin("mod", Bin("plus", Id("y"), Id("w")), Lit(2))>>>>),
     Moves("A", 1, 0, Bin("imply", In("B", 1), Bin("eq", Id("y"), At("a", Lit(1)))),
           <<<<At("a", Id("w")), Bin("bitand", Id("y"), Id("w"))>>>>),
     Moves("B", 1, 0, Bin("lor", In("A", 0), Bin("land", Id("w"), At("a", Id("y")))),
           <<<<Id("y"), Bin("lt", Id("w"), At("a", Id("w")))>>>>),
     Moves("C", 0, 0, Bin("land", At("a", Lit(0)), Un("lnot", At("a", Lit(1)))),
           <<<<At("a", Lit(1)), At("a", Lit(0))>>, <<At("a", Lit(0)), Bin("rshift", At("a", Lit(0)), Lit(1))>>>>)}]

(* Committed and transient states.  A, committed, can synchronize with D   *)
(* but not with B; w may be no index of a.                                 *)
MCCommitted ==
  [global |-> {"w", "a"}, const |-> [k |-> 1],
   type |-> [w |-> "byte", a |-> "byte"], size |-> [w |-> 0, a |-> 2],
   init |-> [w |-> <<1>>, a |-> <<0, 0>>],
   proc |-> [A |-> Process(3, 0, {1}, {2}), B |-> Process(2, 1, {}, {}), D |-> Process(2, 0, {1}, {})],
   trans |-> {
     Syncs("A", 0, 1, Bin("lt", Id("w"), Lit(2)), "exclaim", "e", <<>>, <<>>),
     Syncs("D", 0, 1, Always, "ask", "e", <<>>, <<>>),
     Syncs("D", 0, 1, Always, "exclaim", "e", <<>>, <<>>),
     Moves("A", 1, 2, Bin("ge", Id("w"), Id("k")), <<<<Id("w"), Bin("minus", Id("w"), Id("k"))>>>>),
     Moves("A", 1, 0, Bin("eq", Id("w"), Lit(0)), <<<<Id("w"), Bin("mult", Lit(2), Id("k"))>>>>),
     Moves("A", 2, 0, Bin("ne", At("a", Id("w")), Lit(1)), <<<<At("a", Id("w")), Lit(1)>>>>),
     Moves("A", 2, 0, At("a", Id("w")), <<>>),
     Syncs("A", 1, 0, Always, "ask", "d", <<Id("w")>>, <<>>),
     Syncs("B", 0, 1, Always, "exclaim", "d", <<Lit(0)>>, <<>>),
     Moves("B", 1, 0, Bin("eq", At("a", Id("w")), Lit(0)), <<<<Id("w"), Bin("plus", Id("w"), Id("k"))>>>>),
     Moves("B", 0, 1, Bin("gt", Lit(3), Id("w")), <<<<At("a", Id("w")), Lit(0)>>>>),
     Moves("D", 1, 0, Always, <<<<Id("w"), Bin("bitor", Id("w"), Lit(1))>>>>),
     Syncs("D", 1, 0, Always, "exclaim", "d", <<Bin("div", Lit(3), Bin("plus", Id("w"), Id("k")))>>, <<>>)}]

MCSystems == {MCRendezvous, MCCommitted}

(* AIGER: a counter of two bits, with an overflow that is the last latch,  *)
(* and a latch set by the second input.  The literals 2 and 4 are inputs,  *)
(* 6, 8, 10 and 12 latches, 14 to 20 gates.                                *)
MCCounter ==
  [inputs |-> <<"count", "set">>,
   latches |-> <<[name |-> "low", next |-> 18], [name |-> "high", next |-> 24],
                 [name |-> "seen", next |-> 27], [name |-> "over", next |-> 28]>>,
   ands |-> <<<<6, 2>>, <<7, 3>>, <<15, 17>>, <<8, 14>>, <<9, 15>>, <<21, 23>>, <<5, 11>>, <<20, 10>>>>]

(* A register of two latches, listed from the last, with a pulse between.  *)
MCRegister(second, third) ==
  [inputs |-> <<"in", "set", "other">>, ands |-> <<>>,
   latches |-> <<[name |-> "two", next |-> 12], [name |-> "mid", next |-> second],
                 [name |-> "one", next |-> third], [name |-> "bad", next |-> 0]>>]

(* The latch between is read from the register, or from an input.          *)
MCCircuits == {MCCounter, MCRegister(8, 2)}
MCDelays == {MCRegister(4, 2)}

MCPrograms == {MCCube, MCMachine} \cup Range(DvePrograms) \cup Range(CircuitPrograms)

(* All the orders of a few variables, else some of them.                   *)
Rotations(s) == {SubSeq(s, k + 1, Len(s)) \o SubSeq(s, 1, k) : k \in DOMAIN s}
MCOrders(g) ==
  LET some == SetToSeq(DOMAIN g.init)
  IN  IF Len(some) <= 4 THEN SetToSeqs(DOMAIN g.init) ELSE Rotations(some) \cup Rotations(Reverse(some))

(* Here the latch that is read is assigned first.                          *)
MCDelayPrograms == Range(CircuitPrograms)

(* A cell that is its own index.                                           *)
MCSelfIndex ==
  {[MCCube EXCEPT !.trans = SetToSeq({Turn(v) : v \in MCCells})
      \o <<Trans("s", True, <<Assign(T(T(I)), X)>>)>>]}

MCPreds(g) ==
  IF X \notin DOMAIN g.init THEN {} ELSE
  {Eq(T(I), X), Not(Or(Eq(T(T(I)), N(1)), Eq(X, I))), Lt(T(Plus(X, I)), N(1)),
   Not(Lt(T(Plus(X, I)), N(1))), Not(And(Bin("le", X, I), Bin("ge", T(X), T(N(1)))))}

LabelsOf(g) == {t.label : t \in Range(g.trans)} \ {""}

MCTaus(g) ==
  {<<l>> : l \in LabelsOf(g)}
    \cup IF g = MCMachine THEN {<<"less", "fill">>, <<"fill", "less">>, <<"swap", "swap">>} ELSE {}

MCReversible(g) ==
  IF g = MCCube THEN {t \in Range(g.trans) : \E k \in DOMAIN MCInvertible : t.label = "r" \o ToString(k)}
  ELSE {}
=============================================================================
