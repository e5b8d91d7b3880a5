------------------------------ MODULE GalExpr ------------------------------
(* The expressions of GAL and their partial evaluation                     *)
(* (its/gal/PIntExpression.cpp, PBoolExpression.cpp).  A homomorphism that *)
(* goes down a decision diagram knows the value of one variable at a time: *)
(* it replaces the variable in the expression, and what is left is asked   *)
(* of the variables below.                                                 *)
(*                                                                         *)
(* A variable of the diagram is a plain variable or a cell of an array; an *)
(* access to an array whose index is not known yet concerns all its cells. *)
EXTENDS CArith, FiniteSets

CONSTANT ArraySize   \* the size of each array

Var(v) == [op |-> "var", v |-> v]
Cell(v, i) == [op |-> "cell", v |-> v, i |-> i]
Bin(op, l, r) == [op |-> op, l |-> l, r |-> r]
Complement(e) == [op |-> "bitcomp", b |-> e]   \* UnaryIntExpr
Nary(op, args) == [op |-> op, args |-> args]
Not(b) == [op |-> "not", b |-> b]
Bool(b) == [op |-> "bool", val |-> b]
Undef == [op |-> "undef"]   \* INTNDEF and BOOLNDEF

(* A constant is stored in the bits of a pointer, two of which hold a mark *)
(* and the sign.                                                           *)
Const(n) ==
  LET bits == 2 ^ 30
  IN  [op |-> "const", n |-> IF n < 0 THEN - ((- n) % bits) ELSE n % bits]

(* An index that is out of bounds makes the access undefined.              *)
Access(v, idx) ==
  CASE idx.op # "const" -> [op |-> "array", v |-> v, idx |-> idx]
    [] idx.op = "const" /\ idx.n \in 0 .. ArraySize[v] - 1 -> Cell(v, idx.n)
    [] OTHER -> Undef

Wrap(b) ==
  CASE b.op = "bool" -> Const(Truth(b.val))
    [] b.op = "undef" -> Undef
    [] OTHER -> [op |-> "wrap", b |-> b]

Commutative == {"plus", "mult"}

Binary == {"minus", "div", "mod", "pow", "bitand", "bitor", "bitxor", "lshift", "rshift"}

Arithmetic == Commutative \cup Binary

(* A division by zero gives TOP, the largest integer, which createConstant *)
(* cuts like any other.                                                    *)
TOP == 2 ^ 30 - 1

FoldNary(op, i, j) == IF op = "plus" THEN i + j ELSE i * j

(* An exponent or a shift is not negative.                                 *)
FoldBinary(op, i, j) ==
  CASE op = "minus" -> i - j
    [] op = "div" -> IF j = 0 THEN TOP ELSE Quotient(i, j)
    [] op = "mod" -> IF j = 0 THEN TOP ELSE Remainder(i, j)
    [] op = "pow" -> i ^ j
    [] op = "bitand" -> BitAnd(i, j)
    [] op = "bitor" -> BitOr(i, j)
    [] op = "bitxor" -> BitXor(i, j)
    [] op = "lshift" -> i * 2 ^ j
    [] op = "rshift" -> i \div 2 ^ j

Fold(op, i, j) == IF op \in Commutative THEN FoldNary(op, i, j) ELSE FoldBinary(op, i, j)

Neutral(op) == IF op = "mult" THEN 1 ELSE 0

(* NaryBoolExpr: undefined operands disappear from a disjunction.          *)
Junction(op, args) ==
  LET absorbing == Bool(op = "or")
      rest == args \ {Bool(TRUE), Bool(FALSE), Undef}
  IN  CASE absorbing \in args -> absorbing
        [] absorbing \notin args /\ op = "and" /\ Undef \in args -> Undef
        [] OTHER ->
             IF rest = {} THEN Bool(op = "and")
             ELSE IF Cardinality(rest) = 1 THEN CHOOSE b \in rest : TRUE
             ELSE IF Cardinality(rest) = 2 /\ \E b \in rest : Not(b) \in rest
                  THEN absorbing
             ELSE Nary(op, UNION {IF b.op = op THEN b.args ELSE {b} : b \in rest})

(* setAssertion: e, knowing that x equals c.  For each class of expressions*)
(* that has operands, what it makes of them once they are simplified.      *)
Known(e, x, c) == IF e = x THEN c ELSE e

GivenComplement(l, x, c) ==
  CASE l.op = "const" -> Const(BitNot(l.n))
    [] l.op = "undef" -> Undef
    [] OTHER -> Known(Complement(l), x, c)

(* A sum or a product without its neutral constant is not compared with x. *)
GivenNary(op, l, r, x, c) ==
  LET neutral == Const(Neutral(op))
  IN  CASE "undef" \in {l.op, r.op} -> Undef
        [] {l.op, r.op} = {"const"} -> Const(FoldNary(op, l.n, r.n))
        [] l = neutral /\ r.op \notin {"undef", "const"} -> r
        [] r = neutral /\ l.op \notin {"undef", "const"} -> l
        [] OTHER -> Known(Bin(op, l, r), x, c)

GivenBinary(op, l, r, x, c) ==
  CASE {l.op, r.op} = {"const"} -> Const(FoldBinary(op, l.n, r.n))
    [] "undef" \in {l.op, r.op} -> Undef
    [] OTHER -> Known(Bin(op, l, r), x, c)

GivenComparison(op, l, r) ==
  CASE {l.op, r.op} = {"const"} -> Bool(Compare(op, l.n, r.n))
    [] "undef" \in {l.op, r.op} -> Undef
    [] OTHER -> Bin(op, l, r)

GivenNot(b) ==
  CASE b.op = "bool" -> Bool(~b.val)
    [] b.op = "undef" -> Undef
    [] OTHER -> Not(b)

RECURSIVE Given(_, _, _)
Given(e, x, c) ==
  LET G(f) == Given(f, x, c)
  IN  CASE e.op \in {"const", "bool", "undef"} -> e
        [] e.op \in {"var", "cell"} -> Known(e, x, c)
        [] e.op = "array" -> Known(Access(e.v, G(e.idx)), x, c)
        [] e.op = "wrap" -> Wrap(G(e.b))
        [] e.op = "bitcomp" -> GivenComplement(G(e.b), x, c)
        [] e.op = "not" -> GivenNot(G(e.b))
        [] e.op \in {"and", "or"} -> Junction(e.op, {G(b) : b \in e.args})
        [] e.op \in Commutative -> GivenNary(e.op, G(e.l), G(e.r), x, c)
        [] e.op \in Binary -> GivenBinary(e.op, G(e.l), G(e.r), x, c)
        [] e.op \in Comparisons -> GivenComparison(e.op, G(e.l), G(e.r))

(* eval: the same simplifications, when nothing is known.  It also pushes  *)
(* the negations of a wrapped boolean inwards, which changes neither its   *)
(* value nor the variables it needs.                                       *)
Eval(e) == Given(e, Undef, Undef)

(* Mutant: the opposite of "less" is "greater".                            *)
OppositeStrict == [eq |-> "ne", ne |-> "eq", lt |-> "gt", ge |-> "lt", gt |-> "lt", le |-> "gt"]

(* pushNegations                                                           *)
Opposite == [eq |-> "ne", ne |-> "eq", lt |-> "ge", ge |-> "lt", gt |-> "le", le |-> "gt"]

RECURSIVE Push(_, _)
Push(b, negated) ==
  CASE b.op = "not" -> Push(b.b, ~negated)
    [] b.op \in {"and", "or"} ->
         LET args == {Push(c, negated) : c \in b.args}
             op == IF negated THEN (IF b.op = "or" THEN "and" ELSE "or") ELSE b.op
         IN  IF Cardinality(args) = 1 THEN CHOOSE c \in args : TRUE ELSE Nary(op, args)
    [] b.op \in Comparisons -> IF negated THEN Bin(Opposite[b.op], b.l, b.r) ELSE b
    [] b.op = "bool" -> Bool(b.val # negated)
    [] b.op = "undef" -> Undef

PushNegations(b) == Push(b, FALSE)

(* isSupport: the value of variable x of the diagram may be needed.        *)
RECURSIVE IsSupport(_, _)
IsSupport(e, x) ==
  CASE e.op \in {"const", "bool", "undef"} -> FALSE
    [] e.op \in {"var", "cell"} -> e = x
    [] e.op = "array" -> (x.op = "cell" /\ x.v = e.v) \/ IsSupport(e.idx, x)
    [] e.op \in {"wrap", "not", "bitcomp"} -> IsSupport(e.b, x)
    [] e.op \in {"and", "or"} -> \E b \in e.args : IsSupport(b, x)
    [] OTHER -> IsSupport(e.l, x) \/ IsSupport(e.r, x)

(* getFirstSubExpr: the index of an access that the expression contains;   *)
(* the expression itself, or the constant 0 for booleans, if there is none.*)
RECURSIVE FirstSubExpr(_), FirstOfJunction(_)
FirstSubExpr(e) ==
  LET Inner(f) == FirstSubExpr(f) # f
  IN  CASE e.op \in {"const", "undef", "var", "cell"} -> e
        [] e.op = "bool" -> Const(0)
        [] e.op = "array" -> e.idx
        [] e.op \in {"wrap", "not"} -> FirstSubExpr(e.b)
        [] e.op = "bitcomp" -> IF Inner(e.b) THEN FirstSubExpr(e.b) ELSE e
        [] e.op \in {"and", "or"} -> FirstOfJunction(e.args)
        [] e.op \in Arithmetic \cup Comparisons ->
             IF Inner(e.l) THEN FirstSubExpr(e.l) ELSE IF Inner(e.r) THEN FirstSubExpr(e.r)
             ELSE IF e.op \in Comparisons THEN Const(0) ELSE e

FirstOfJunction(args) ==
  LET found == {FirstSubExpr(b) : b \in args} \ {Const(0)}
  IN  IF found = {} THEN Const(0) ELSE CHOOSE f \in found : TRUE

(* getSubExprExcept: a part of an expression that x does not support, if   *)
(* there is one, else the expression.                                      *)
RECURSIVE SubExprExcept(_, _), ExceptOfNary(_, _), ExceptOfNot(_, _), ExceptOfJunction(_, _)
SubExprExcept(e, x) ==
  CASE ~IsSupport(e, x) \/ e.op \in {"const", "undef", "var", "cell"} -> e
    [] IsSupport(e, x) /\ e.op = "array" ->
         LET sub == SubExprExcept(e.idx, x)
         IN  IF IsSupport(e.idx, x) /\ sub # e.idx THEN sub ELSE e
    [] IsSupport(e, x) /\ e.op \in Commutative -> ExceptOfNary(e, x)
    [] IsSupport(e, x) /\ e.op \in Binary \cup Comparisons ->
         SubExprExcept(IF IsSupport(e.l, x) THEN e.l ELSE e.r, x)
    [] IsSupport(e, x) /\ e.op \in {"wrap", "bitcomp"} -> SubExprExcept(e.b, x)
    [] IsSupport(e, x) /\ e.op = "not" -> ExceptOfNot(e, x)
    [] IsSupport(e, x) /\ e.op \in {"and", "or"} -> ExceptOfJunction(e, x)

(* An operand that x does not support, but no constant; or a part of one.  *)
ExceptOfNary(e, x) ==
  LET Of(f) == SubExprExcept(f, x)
      Found(f) == IF IsSupport(f, x) THEN Of(f) # f ELSE f.op # "const"
  IN  IF Found(e.l) THEN Of(e.l) ELSE IF Found(e.r) THEN Of(e.r) ELSE e

ExceptOfNot(e, x) ==
  LET sub == SubExprExcept(e.b, x)
  IN  IF IsSupport(e.b, x) /\ sub # Wrap(e.b) THEN sub ELSE Wrap(e)

ExceptOfJunction(e, x) ==
  LET on == {b \in e.args : IsSupport(b, x)}
      found == {Wrap(b) : b \in {d \in e.args \ on : d.op # "bool"}}
                 \cup ({SubExprExcept(b, x) : b \in on} \ {Wrap(b) : b \in on})
  IN  IF found = {} THEN Wrap(e) ELSE CHOOSE f \in found : TRUE
-----------------------------------------------------------------------------
(* What an expression means in a state that gives a value to every         *)
(* variable of the diagram.  A condition is undefined when it depends on an*)
(* undefined value; neither it nor its negation is satisfied then.         *)
RECURSIVE Value(_, _)
Value(e, s) ==
  CASE e.op \in {"const", "undef"} -> e
    [] e.op \in {"var", "cell"} -> Const(s[e])
    [] e.op = "array" ->
         LET cell == Access(e.v, Value(e.idx, s))
         IN  IF cell.op = "cell" THEN Const(s[cell]) ELSE Undef
    [] e.op = "wrap" -> Wrap(Value(e.b, s))
    [] e.op = "bitcomp" ->
         LET l == Value(e.b, s) IN IF l.op = "undef" THEN Undef ELSE Const(BitNot(l.n))
    [] e.op = "bool" -> e
    [] e.op = "not" -> LET b == Value(e.b, s) IN IF b.op = "bool" THEN Bool(~b.val) ELSE Undef
    [] e.op \in {"and", "or"} ->
         LET values == {Value(b, s) : b \in e.args}
             absorbing == Bool(e.op = "or")
         IN  IF absorbing \in values THEN absorbing
             ELSE IF Undef \in values THEN Undef ELSE Bool(e.op = "and")
    [] OTHER ->
         LET l == Value(e.l, s)
             r == Value(e.r, s)
         IN  CASE "undef" \in {l.op, r.op} -> Undef
               [] "undef" \notin {l.op, r.op} /\ e.op \in Arithmetic -> Const(Fold(e.op, l.n, r.n))
               [] "undef" \notin {l.op, r.op} /\ e.op \in Comparisons ->
                    Bool(Compare(e.op, l.n, r.n))

Satisfied(b, s) == Value(b, s) = Bool(TRUE)
=============================================================================
