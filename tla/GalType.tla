------------------------------ MODULE GalType ------------------------------
(* GALType (its/gal/GALType.cpp): what a program of guarded actions answers*)
(* to the model that contains it.  The states reached so far are built     *)
(* with getState and getLocals; then transitions are synchronized          *)
(* (getSuccs), predicates are evaluated (getPredicate) and transitions are *)
(* inverted with respect to the potential states.                          *)
(*                                                                         *)
(* A program is a record: init gives a value to each variable of the       *)
(* diagram, trans is a sequence of guarded actions with a label, which is  *)
(* "" when it is private, and transient tells the states that are left at  *)
(* once.                                                                   *)
EXTENDS GalHom

CONSTANTS
  Programs,      \* the programs
  Orders(_),     \* the orders of the variables of each
  Preds(_),      \* the predicates asked of them
  Taus(_),       \* the bags of labels synchronized in them
  Reversible(_)  \* the transitions that are inverted

VARIABLES
  gal,        \* the program
  vo,         \* the order of its variables
  stutterOnDeadlock,
  reached,    \* the states reached so far
  pc,         \* "explore", "leave", "ask" or "done"
  answer      \* the last question and its answer

vars == <<gal, vo, stutterOnDeadlock, reached, pc, answer>>

Private == {t \in Range(gal.trans) : t.label = ""}
WithLabel(l) == {t \in Range(gal.trans) : t.label = l}

(* predicate(b) applied to S.                                              *)
Select(b, S) == {p \in S : Predicate(b, vo, p)}

(* HomBuilder: the homomorphism of a statement, applied to S.  fixpoint(h) *)
(* of libDDD applies h until nothing changes.                              *)
RECURSIVE Apply(_, _), ApplyAction(_, _)
Apply(s, S) ==
  LET Body(body, T) == FoldLeft(LAMBDA U, stat : Apply(stat, U), T, body)
  IN  CASE s.st \in {"assign", "incr"} ->
             UNION {Assigned(s.x, s.e, s.st = "incr", vo, p) : p \in S}
        [] s.st = "sync" -> UNION {SyncAssigned(s.ass, vo, p) : p \in S}
        [] s.st = "seq" -> Body(s.body, S)
        [] s.st = "ite" ->
             Body(s.ifTrue, Select(s.cond, S))
               \cup Body(s.ifFalse, Select(PushNegations(Not(s.cond)), S))
        [] s.st = "fix" ->
             LET T == Body(s.body, S) IN IF T = S THEN S ELSE Apply(s, T)
        [] s.st = "call" -> UNION {ApplyAction(t, S) : t \in WithLabel(s.label)}
        [] s.st = "abort" -> {}

(* buildHom of a guarded action.                                           *)
ApplyAction(t, S) == Apply(t.action, Select(PushNegations(Eval(t.guard)), S))

(* The sum of the private transitions, with a loop where no guard holds if *)
(* it was asked for.                                                       *)
Sum(S) ==
  UNION {ApplyAction(t, S) : t \in Private}
    \cup IF stutterOnDeadlock
         THEN Select(Eval(Nary("and", {Not(t.guard) : t \in Private})), S) ELSE {}

(* getSuccs: the actions with each label, one label after the other.       *)
Succs(tau, S) ==
  FoldLeft(LAMBDA T, l : UNION {ApplyAction(t, T) : t \in WithLabel(l)}, S, tau)

(* getPotentialStates: the product of the domains of the variables.        *)
Domains == [x \in Range(vo) |-> {p[x] : p \in reached}]

PotentialStates == {p \in [Range(vo) -> UNION Range(Domains)] : \A x \in Range(vo) : p[x] \in Domains[x]}

(* invert: the inverse of a composition composes the inverses backwards,   *)
(* that of a selection is itself.  incVar of libDDD subtracts.             *)
Invert(s, S) ==
  CASE s.st = "assign" -> UNION {Inverted(s.x, s.e, vo, p, Domains) : p \in S}
    [] s.st = "incr" /\ s.x.op # "array" /\ IsConst(s.e) ->
         {[p EXCEPT ![s.x] = @ - s.e.n] : p \in S}
    [] OTHER ->
         UNION {Inverted(s.x, Eval(Bin("plus", s.x, s.e)), vo, p, Domains) : p \in S}

(* Mutant: the inverses are composed in the order of the statements.       *)
InvertStatementForwards(s, S) == FoldLeft(LAMBDA T, stat : Invert(stat, T), S, s.body)

InvertStatement(s, S) == FoldLeft(LAMBDA T, stat : Invert(stat, T), S, Reverse(s.body))

InvertAction(t, S) == Select(PushNegations(Eval(t.guard)), InvertStatement(t.action, S))
-----------------------------------------------------------------------------
NoAnswer == [kind |-> "none", arg |-> {}, res |-> {}]

(* getState *)
Init ==
  /\ gal \in Programs
  /\ vo \in Orders(gal)
  /\ stutterOnDeadlock \in BOOLEAN
  /\ reached = {gal.init}
  /\ pc = "explore"
  /\ answer = NoAnswer

(* getLocals: the sum is applied, and then to the transient states that it *)
(* gives until nothing changes.                                            *)
AskLocals ==
  /\ pc = "explore"
  /\ answer' = [kind |-> "locals", arg |-> reached, res |-> Sum(reached)]
  /\ pc' = "leave"
  /\ UNCHANGED <<gal, vo, stutterOnDeadlock, reached>>

LeaveTransient ==
  /\ pc = "leave"
  /\ \E T \in {Select(Eval(gal.transient), answer.res)} :
       \E next \in {Sum(T) \cup (answer.res \ T)} :
         IF next # answer.res
         THEN /\ answer' = [answer EXCEPT !.res = next]
              /\ UNCHANGED <<reached, pc>>
         ELSE /\ reached' = reached \cup next
              /\ pc' = IF next \subseteq reached THEN "ask" ELSE "explore"
              /\ UNCHANGED answer
  /\ UNCHANGED <<gal, vo, stutterOnDeadlock>>

(* The answer to a question depends on the states reached, never on the    *)
(* questions before it: one is asked of each.                              *)
AskSuccs ==
  /\ pc = "ask"
  /\ pc' = "done"
  /\ \E tau \in Taus(gal) :
       answer' = [kind |-> "succs", tau |-> tau, arg |-> reached, res |-> Succs(tau, reached)]
  /\ UNCHANGED <<gal, vo, stutterOnDeadlock, reached>>

AskPredicate ==
  /\ pc = "ask"
  /\ pc' = "done"
  /\ \E b \in Preds(gal) :
       answer' = [kind |-> "predicate", pred |-> b, arg |-> reached,
                  res |-> Select(PushNegations(Eval(b)), reached)]
  /\ UNCHANGED <<gal, vo, stutterOnDeadlock, reached>>

AskInverse ==
  /\ pc = "ask"
  /\ pc' = "done"
  /\ \E t \in Reversible(gal), p \in reached :
       answer' = [kind |-> "inverse", trans |-> t, arg |-> {p}, res |-> InvertAction(t, {p})]
  /\ UNCHANGED <<gal, vo, stutterOnDeadlock, reached>>

Next == AskLocals \/ LeaveTransient \/ AskSuccs \/ AskPredicate \/ AskInverse

Spec == Init /\ [][Next]_vars /\ WF_vars(AskLocals \/ LeaveTransient)
-----------------------------------------------------------------------------
(* What the statements mean, one state at a time: the states a statement   *)
(* may lead to from s.  An undefined value leads nowhere.                  *)
RECURSIVE Exec(_, _), ExecAction(_, _), ExecFix(_, _)
Exec(stat, s) ==
  LET Target(x) == IF x.op = "array" THEN Access(x.v, Value(x.idx, s)) ELSE x
      Put(x, e, plus) ==
        IF "undef" \in {Target(x).op, Value(e, s).op} THEN {}
        ELSE {[s EXCEPT ![Target(x)] = Value(e, s).n + IF plus THEN @ ELSE 0]}
      Then(S, next) == UNION {Exec(next, p) : p \in S}
      Of(x, ass) == CHOOSE i \in DOMAIN ass : ass[i][1] = x
  IN  CASE stat.st = "assign" -> Put(stat.x, stat.e, FALSE)
        [] stat.st = "incr" -> Put(stat.x, stat.e, TRUE)
        [] stat.st = "sync" ->
             IF \E i \in DOMAIN stat.ass : Value(stat.ass[i][2], s).op = "undef" THEN {}
             ELSE {[x \in DOMAIN s |->
                      IF \E i \in DOMAIN stat.ass : stat.ass[i][1] = x
                      THEN Value(stat.ass[Of(x, stat.ass)][2], s).n ELSE s[x]]}
        [] stat.st = "seq" -> FoldLeft(Then, {s}, stat.body)
        [] stat.st = "ite" ->
             FoldLeft(Then, {s}, IF Satisfied(stat.cond, s) THEN stat.ifTrue ELSE stat.ifFalse)
        [] stat.st = "fix" -> ExecFix(stat.body, {s})
        [] stat.st = "call" -> UNION {ExecAction(t, s) : t \in WithLabel(stat.label)}
        [] stat.st = "abort" -> {}

ExecAction(t, s) == IF Satisfied(t.guard, s) THEN Exec(t.action, s) ELSE {}

(* A body is executed until it changes nothing.                            *)
ExecFix(body, S) ==
  LET T == UNION {FoldLeft(LAMBDA U, stat : UNION {Exec(stat, p) : p \in U}, {s}, body) : s \in S}
  IN  IF T = S THEN S ELSE ExecFix(body, T)

Enabled(s) == \E t \in Private : Satisfied(t.guard, s)

Step(s) ==
  UNION {ExecAction(t, s) : t \in Private}
    \cup IF stutterOnDeadlock /\ ~Enabled(s) THEN {s} ELSE {}

Steps(S) == UNION {Step(s) : s \in S}
-----------------------------------------------------------------------------
TypeOK ==
  /\ pc \in {"explore", "leave", "ask", "done"}
  /\ stutterOnDeadlock \in BOOLEAN
  /\ \A p \in reached \cup answer.arg \cup answer.res : DOMAIN p = Range(vo)

(* At most that many transient states follow one another.                  *)
TransientDepth == 3

(* The states that one step, then steps from transient states only, lead   *)
(* to, but the transient ones.                                             *)
StableSteps(S) ==
  LET Transient(T) == {s \in T : Satisfied(gal.transient, s)}
      met[n \in Nat] == IF n = 0 THEN Steps(S) ELSE met[n - 1] \cup Steps(Transient(met[n - 1]))
      all == met[TransientDepth]
  IN  all \ Transient(all)

(* getLocals, "now factor in the transient states", and getSuccs: whatever *)
(* the order of the variables, statements have their meaning, be it arrays *)
(* indexed by arrays, synchronous assignments, conditions, loops or calls; *)
(* transient states are never seen.                                        *)
SuccessorsAreExact ==
  CASE answer.kind = "locals" /\ pc # "leave" -> answer.res = StableSteps(answer.arg)
    [] answer.kind = "succs" ->
         answer.res = FoldLeft(LAMBDA S, l : UNION {ExecAction(t, s) : t \in WithLabel(l), s \in S},
                               answer.arg, answer.tau)
    [] OTHER -> TRUE

(* getPredicate: "selects states verifying the predicate".                 *)
PredicatesAreExact ==
  answer.kind = "predicate" =>
    answer.res = {s \in answer.arg : Satisfied(answer.pred, s)}

(* ITSModel::getPredRel asks for the predecessors that are potential       *)
(* states: each of them, and no state that is not a predecessor.           *)
PredecessorsAreExact ==
  answer.kind = "inverse" =>
    answer.res \cap PotentialStates
      = {q \in PotentialStates : answer.arg \subseteq ExecAction(answer.trans, q)}
=============================================================================
