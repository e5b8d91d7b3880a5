------------------------------- MODULE GalHom -------------------------------
(* The homomorphisms of GAL (its/gal/ExprHom.cpp).  A set of states is a   *)
(* decision diagram: eval treats each of its paths on its own.  A path is  *)
(* here a state, and vs the variables from the current node down: what is  *)
(* above cannot be seen or changed any more.                               *)
(*                                                                         *)
(* The homomorphisms of libDDD for the simple cases (setVarConst, incVar,  *)
(* varEqState, varLtVar...) do what _Assign and _Predicate do.             *)
EXTENDS GalExpr, Sequences, SequencesExt

IsConst(e) == e.op = "const"

(* The expression f where sub is replaced by its value; the path is cut    *)
(* where sub has none.                                                     *)
Replaced(f, sub, val) == IF IsConst(val) THEN Given(f, sub, val) ELSE Undef

(* queryEval: the value of an expression on a path, Undef when it has none.*)
(* The value of the current variable simplifies it first; if it still needs*)
(* the variable, it contains an access to an array whose index is asked.   *)
RECURSIVE Query(_, _, _), QuerySimplified(_, _, _)
Query(e, vs, p) ==
  IF vs = <<>> THEN Undef
  ELSE QuerySimplified(Given(e, Head(vs), Const(p[Head(vs)])), vs, p)

QuerySimplified(r, vs, p) ==
  CASE IsConst(r) -> r
    [] ~IsConst(r) /\ ~IsSupport(r, Head(vs)) -> Query(r, Tail(vs), p)
    [] OTHER -> Query(Replaced(r, FirstSubExpr(r), Query(FirstSubExpr(r), vs, p)), vs, p)

(* _Assign::eval: x = e, or x += e, on a path.  The states it gives are    *)
(* none or one.                                                            *)
RECURSIVE Assigned(_, _, _, _, _), AssignSimplified(_, _, _, _, _)
Assigned(x, e, isIncrement, vs, p) ==
  IF vs = <<>> \/ "undef" \in {x.op, e.op} THEN {}
  ELSE LET At(f) == Given(f, Head(vs), Const(p[Head(vs)]))
       IN  AssignSimplified(IF x.op = "array" THEN At(x) ELSE x, At(e), isIncrement, vs, p)

(* What still needs the current variable is asked, on the left first.      *)
AssignSimplified(v, r, isIncrement, vs, p) ==
  LET cur == Head(vs)
      here == v = cur
      Asked(sub) == Query(sub, vs, p)
  IN  CASE here /\ IsConst(r) ->
             {[p EXCEPT ![cur] = IF isIncrement THEN @ + r.n ELSE r.n]}
        [] here /\ ~IsConst(r) -> Assigned(v, Asked(r), isIncrement, vs, p)
        [] ~here /\ v.op = "array" /\ IsSupport(v, cur) ->
             LET sub == FirstSubExpr(v)
             IN  Assigned(Replaced(v, sub, Asked(sub)), Replaced(r, sub, Asked(sub)), isIncrement, vs, p)
        [] ~here /\ ~(v.op = "array" /\ IsSupport(v, cur)) /\ IsSupport(r, cur) ->
             Assigned(v, Replaced(r, FirstSubExpr(r), Asked(FirstSubExpr(r))), isIncrement, vs, p)
        [] OTHER -> Assigned(v, r, isIncrement, Tail(vs), p)

(* _Predicate::eval, for a comparison.                                     *)
RECURSIVE Selected(_, _, _), SelectSimplified(_, _, _)
Selected(c, vs, p) ==
  CASE c.op = "bool" -> c.val
    [] c.op = "undef" -> FALSE
    [] OTHER -> vs # <<>> /\ SelectSimplified(Given(c, Head(vs), Const(p[Head(vs)])), vs, p)

SelectSimplified(r, vs, p) ==
  IF IsSupport(r, Head(vs))
  THEN Selected(Replaced(r, FirstSubExpr(r), Query(FirstSubExpr(r), vs, p)), vs, p)
  ELSE Selected(r, Tail(vs), p)

(* PredHomBuilder: a conjunction is a composition, a disjunction a sum, a  *)
(* negation the homomorphism that selects what the other one does not.     *)
RECURSIVE Predicate(_, _, _)
Predicate(b, vs, p) ==
  CASE b.op = "and" -> \A c \in b.args : Predicate(c, vs, p)
    [] b.op = "or" -> \E c \in b.args : Predicate(c, vs, p)
    [] b.op = "not" -> Predicate(PushNegations(b), vs, p)
    [] OTHER -> Selected(b, vs, p)

-----------------------------------------------------------------------------
(* Synchronous assignments: a sequence of pairs <<x, e>>.                  *)

(* Mutant: without the transitive closure.                                 *)
MatrixDirect(ass) == [i, j \in DOMAIN ass |-> i = j \/ IsSupport(ass[j][2], ass[i][1])]

(* syncAssignExpr: matrix[i][j] holds when i cannot be executed before j.  *)
Matrix(ass) ==
  LET reads == [i, j \in DOMAIN ass |-> i = j \/ IsSupport(ass[j][2], ass[i][1])]
      closure[k \in 0 .. Len(ass)] ==
        IF k = 0 THEN reads
        ELSE [i, j \in DOMAIN ass |->
                closure[k - 1][i, j] \/ (closure[k - 1][i, k] /\ closure[k - 1][k, j])]
  IN  closure[Len(ass)]

(* The blobs, in their order of application: each group of assignments     *)
(* that depend on one another is inserted before the first blob that it    *)
(* may be executed before.                                                 *)
Blobs(ass) ==
  LET m == Matrix(ass)
      Group(i) == SelectSeq([j \in DOMAIN ass |-> j], LAMBDA j : m[i, j] /\ m[j, i])
      Position(blobs, i) ==
        LET after == {k \in DOMAIN blobs : ~m[i, Head(blobs[k])]}
        IN  IF after = {} THEN Len(blobs) + 1 ELSE CHOOSE k \in after : \A l \in after : k <= l
      blobs[i \in 0 .. Len(ass)] ==
        IF i = 0 THEN <<>>
        ELSE IF Head(Group(i)) # i THEN blobs[i - 1]
        ELSE InsertAt(blobs[i - 1], Position(blobs[i - 1], i), Group(i))
  IN  blobs[Len(ass)]

(* The homomorphism of syncAssignExpr: blob after blob; _SyncAssign::eval  *)
(* replaces the first left hand side by its value in all the expressions   *)
(* before it orders the assignments again.                                 *)
RECURSIVE SyncAssigned(_, _, _)
SyncAssigned(ass, vs, p) ==
  LET Apply(S, blob) ==
        LET part == [i \in DOMAIN blob |-> ass[blob[i]]]
            x == part[1][1]
            Rest(q) == [i \in DOMAIN part |-> <<part[i][1], Given(part[i][2], x, Query(x, vs, q))>>]
        IN  IF Len(part) = 1 THEN UNION {Assigned(x, part[1][2], FALSE, vs, q) : q \in S}
            ELSE UNION {SyncAssigned(Rest(q), vs, q) : q \in S}
  IN  FoldLeft(Apply, {p}, Blobs(ass))
-----------------------------------------------------------------------------
(* _InvertExpr::eval: the paths that x = e may come from, for a path p.    *)
(* The values before the assignment are taken from those of the potential  *)
(* states, Domain(x).                                                      *)
Before(S, x, p) == {[p EXCEPT ![x] = n] : n \in S}

(* x = c, or x = f(x).                                                     *)
InvertValue(e, x, p, Domain) ==
  Before({n \in Domain[x] : Given(e, x, Const(n)) = Const(p[x])}, x, p)

(* x = f(y...): f is known below.                                          *)
InvertOther(e, vs, p, Domain) ==
  IF Query(e, Tail(vs), p) = Const(p[Head(vs)]) THEN Before(Domain[Head(vs)], Head(vs), p) ELSE {}

RECURSIVE Inverted(_, _, _, _, _), InvertMixed(_, _, _, _, _), InvertIndex(_, _, _, _, _),
          InvertOperand(_, _, _, _, _)
Inverted(x, e, vs, p, Domain) ==
  IF vs = <<>> \/ "undef" \in {x.op, e.op} THEN {}
  ELSE LET cur == Head(vs)
           At(f) == Given(f, cur, Const(p[cur]))
           v == IF x.op = "array" THEN At(x) ELSE x
           r == At(e)
       IN  IF v = cur
           THEN IF IsConst(r) THEN InvertValue(e, cur, p, Domain)
                ELSE IF ~IsSupport(e, cur) THEN InvertOther(e, vs, p, Domain)
                ELSE InvertMixed(x, e, vs, p, Domain)
           ELSE IF IsSupport(v, cur) THEN InvertIndex(v, e, vs, p, Domain)
           ELSE IF IsSupport(r, cur) THEN InvertOperand(v, r, vs, p, Domain)
           ELSE Inverted(v, r, Tail(vs), p, Domain)

(* x = f(x, y...): what does not depend on x is solved; if there is nothing*)
(* of the kind, all the values of x are tried.  When x is still an access  *)
(* that the expression does not contain, the expression is solved.         *)
InvertMixed(x, e, vs, p, Domain) ==
  LET cur == Head(vs)
      sub == IF IsSupport(e, x) THEN SubExprExcept(e, x) ELSE e
      Below(f) == Query(f, Tail(vs), p)
  IN  IF IsSupport(e, x) /\ sub = e
      THEN UNION {IF Below(Given(e, x, Const(n))) = Const(p[cur])
                  THEN Inverted(x, Const(p[cur]), vs, p, Domain) ELSE {} : n \in Domain[x]}
      ELSE Inverted(cur, Replaced(e, sub, Below(sub)), vs, p, Domain)

(* tab[i] = f: the index is supposed not to depend on the value before.    *)
InvertIndex(v, e, vs, p, Domain) ==
  LET sub == FirstSubExpr(v)
      val == Query(sub, vs, p)
  IN  Inverted(Replaced(v, sub, val), Replaced(e, sub, val), vs, p, Domain)

InvertOperand(v, r, vs, p, Domain) ==
  LET sub == IF IsSupport(r, v) THEN SubExprExcept(r, v) ELSE r
  IN  Inverted(v, Replaced(r, sub, Query(sub, vs, p)), vs, p, Domain)
=============================================================================
