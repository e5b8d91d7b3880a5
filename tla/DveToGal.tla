------------------------------ MODULE DveToGal ------------------------------
(* DVE systems and their translation to GAL (its/divine/dve2GAL.cpp).      *)
(* First what a system does, according to the interpreter that comes with  *)
(* its parser (dve_explicit_system.cc, dve_system.cc): libITS takes the    *)
(* system that the interpreter has read, and translates it.                *)
(*                                                                         *)
(* A system is a record: type, size (0 for a scalar) and init (the initial *)
(* values) of each variable, const the values of the constants, proc for   *)
(* each process the number of its states, the initial, the committed and   *)
(* the transient ones, and trans the set of transitions.  A transition has *)
(* a process, two states, a guard, effects, and when sync is "ask" or      *)
(* "exclaim" a channel and the expressions received or sent on it.  The    *)
(* channels are neither typed nor buffered, and no process is a property.  *)
(*                                                                         *)
(* A state gives at, the state of each process, and val, the values of each*)
(* variable.  What may be an error is a set, empty when it is one.         *)
EXTENDS GalExpr, Sequences, SequencesExt

DveInit(sys) ==
  [at |-> [p \in DOMAIN sys.proc |-> sys.proc[p].init],
   val |-> [v \in DOMAIN sys.type |->
              [i \in 1 .. IF sys.size[v] = 0 THEN 1 ELSE sys.size[v] |->
                 IF i \in DOMAIN sys.init[v] THEN sys.init[v][i] ELSE 0]]]

(* eval_square_bracket: an index is checked.                               *)
ValueAt(s, v, i) == IF i \in 0 .. Len(s.val[v]) - 1 THEN {s.val[v][i + 1]} ELSE {}

(* fast_eval.  A remainder by zero is not checked, unlike a division.      *)
RECURSIVE FastEval(_, _, _)
FastEval(sys, e, s) ==
  LET V(f) == FastEval(sys, f, s)
      OfRight(f(_)) == {f(i) : i \in V(e.r)}
      OfBoth(f(_, _)) == {f(p[1], p[2]) : p \in V(e.l) \X V(e.r)}
      Stops(i) == IF e.op = "lor" THEN i # 0 ELSE i = 0
  IN  CASE e.op = "nat" -> {e.n}
        [] e.op = "id" -> IF e.v \in DOMAIN sys.const THEN {sys.const[e.v]} ELSE ValueAt(s, e.v, 0)
        [] e.op = "index" -> UNION {ValueAt(s, e.v, i) : i \in V(e.r)}
        [] e.op = "dot" -> {Truth(s.at[e.p] = e.q)}
        [] e.op = "neg" -> OfRight(LAMBDA i : - i)
        [] e.op = "tilde" -> OfRight(BitNot)
        [] e.op = "lnot" -> OfRight(LAMBDA i : Truth(i = 0))
        [] e.op \in {"land", "lor", "imply"} ->
             UNION {IF Stops(i) THEN {Truth(e.op # "land")} ELSE OfRight(LAMBDA j : Truth(j > 0)) : i \in V(e.l)}
        [] e.op \in Comparisons -> OfBoth(LAMBDA i, j : Truth(Compare(e.op, i, j)))
        [] e.op = "plus" -> OfBoth(LAMBDA i, j : i + j)
        [] e.op = "minus" -> OfBoth(LAMBDA i, j : i - j)
        [] e.op = "mult" -> OfBoth(LAMBDA i, j : i * j)
        [] e.op = "div" -> {Quotient(p[1], p[2]) : p \in V(e.l) \X (V(e.r) \ {0})}
        [] e.op = "mod" -> OfBoth(Remainder)
        [] e.op = "bitand" -> OfBoth(BitAnd)
        [] e.op = "bitor" -> OfBoth(BitOr)
        [] e.op = "lshift" -> OfBoth(LAMBDA i, j : i * 2 ^ j)
        [] e.op = "rshift" -> OfBoth(LAMBDA i, j : i \div 2 ^ j)

(* set_state_creator_value: neither the array nor the type is left.        *)
Bounds == [byte |-> 0 .. 255, int |-> - 32768 .. 32767]
SetValue(sys, s, v, i, n) ==
  IF i \in 0 .. Len(s.val[v]) - 1 /\ n \in Bounds[sys.type[v]]
  THEN {[s EXCEPT !.val[v][i + 1] = n]} ELSE {}

Index(sys, lhs, s) == IF lhs.op = "index" THEN FastEval(sys, lhs.r, s) ELSE {0}

(* apply_effect, apply_transition_effects: the process moves first.        *)
ApplyEffect(sys, effect, s) ==
  UNION {SetValue(sys, s, effect[1].v, p[1], p[2]) :
           p \in Index(sys, effect[1], s) \X FastEval(sys, effect[2], s)}

ApplyEffects(sys, t, S) ==
  FoldLeft(LAMBDA T, effect : UNION {ApplyEffect(sys, effect, s) : s \in T},
           {[s EXCEPT !.at[t.proc] = t.to] : s \in S}, t.effects)

(* The values are those of the state under construction, but the indices of*)
(* what receives them are those of the state that is left.                 *)
Transmit(sys, ask, exclaim, s) ==
  LET Item(T, i) ==
        UNION {UNION {SetValue(sys, t, ask.exprs[i].v, j, n) :
                        j \in Index(sys, ask.exprs[i], s), n \in FastEval(sys, exclaim.exprs[i], t)} :
                 t \in T}
  IN  FoldLeft(Item, {s}, [i \in DOMAIN ask.exprs |-> i])

Commits(sys, p, s) == s.at[p] \in sys.proc[p].commit

(* A committed process moves first.  passed_through: a guard in error is   *)
(* not 0.                                                                  *)
Passes(sys, t, s) ==
  /\ (\E p \in DOMAIN sys.proc : Commits(sys, p, s)) => Commits(sys, t.proc, s)
  /\ s.at[t.proc] = t.from
  /\ FastEval(sys, t.guard, s) # {0}

GuardError(sys, t, s) == FastEval(sys, t.guard, s) = {}

(* compute_enabled_stage1: an error in the guard of a transition that asks *)
(* is an error of all those that answer on its channel.                    *)
ChannelError(sys, chan, s) ==
  \E t \in sys.trans : t.sync = "ask" /\ t.chan = chan /\ Passes(sys, t, s) /\ GuardError(sys, t, s)

(* The variables that all processes see and that a transition assigns.     *)
AssignedGlobals(sys, t) == {e[1].v : e \in Range(t.effects)} \cap sys.global

(* compute_enabled_stage2.  Both sides of a pair must not assign the same  *)
(* variable; the pairs that follow such a pair in the loop inherit the     *)
(* error, which is left out.                                               *)
EnabledAlone(sys, s) ==
  {t \in sys.trans : t.sync = "none" /\ Passes(sys, t, s) /\ ~GuardError(sys, t, s)}

EnabledPairs(sys, s) ==
  {p \in sys.trans \X sys.trans :
     /\ p[1].sync = "ask" /\ p[2].sync = "exclaim" /\ p[1].chan = p[2].chan
     /\ p[1].proc # p[2].proc
     /\ \A t \in {p[1], p[2]} : Passes(sys, t, s)
     /\ ~GuardError(sys, p[2], s) /\ ~ChannelError(sys, p[2].chan, s)
     /\ AssignedGlobals(sys, p[1]) \cap AssignedGlobals(sys, p[2]) = {}}

(* get_async_enabled_trans_succ: the receiver's effects, then the sender's.*)
DveSuccs(sys, s) ==
  UNION {ApplyEffects(sys, t, {s}) : t \in EnabledAlone(sys, s)}
    \cup UNION {ApplyEffects(sys, p[2], ApplyEffects(sys, p[1], Transmit(sys, p[1], p[2], s))) :
                  p \in EnabledPairs(sys, s)}

-----------------------------------------------------------------------------
(* The translation.  A process and a variable have different names, and a  *)
(* process with one state has no variable.                                 *)
SingleState(sys, p) == sys.proc[p].states = 1

ProcessState(p) == Var(p)

InState(sys, p, q) ==
  IF SingleState(sys, p) THEN Bool(TRUE) ELSE Bin("eq", ProcessState(p), Const(q))

(* convertInt and convertBool: a boolean is wrapped, an integer is true    *)
(* unless it is 0.  The operators of booleans and those of bits are the    *)
(* same in a condition.  The state of a process is a condition only.       *)
RECURSIVE ConvertInt(_, _), ConvertBool(_, _)
ConvertInt(sys, e) ==
  CASE e.op = "id" -> IF e.v \in DOMAIN sys.const THEN Const(sys.const[e.v]) ELSE Var(e.v)
    [] e.op = "nat" -> Const(e.n)
    [] e.op = "index" -> Access(e.v, ConvertInt(sys, e.r))
    [] e.op \in Arithmetic -> Bin(e.op, ConvertInt(sys, e.l), ConvertInt(sys, e.r))
    [] e.op = "neg" -> Bin("minus", Const(0), ConvertInt(sys, e.r))
    [] e.op = "tilde" -> Bin("bitxor", ConvertInt(sys, e.r), ConvertInt(sys, e.r))
    [] e.op \in Comparisons \cup {"land", "lor", "xor", "imply", "lnot"} -> Wrap(ConvertBool(sys, e))

ConvertBool(sys, e) ==
  LET L == ConvertBool(sys, e.l)
      R == ConvertBool(sys, e.r)
  IN  CASE e.op \in Comparisons -> Bin(e.op, ConvertInt(sys, e.l), ConvertInt(sys, e.r))
        [] e.op \in {"bitand", "land"} -> Nary("and", {L, R})
        [] e.op \in {"bitor", "lor"} -> Nary("or", {L, R})
        [] e.op = "xor" -> Nary("or", {Nary("and", {L, Not(R)}), Nary("and", {Not(L), R})})
        [] e.op = "imply" -> Nary("or", {R, Not(L)})
        [] e.op = "lnot" -> Not(R)
        [] e.op = "dot" -> InState(sys, e.p, e.q)
        [] OTHER -> Bin("ne", ConvertInt(sys, e), Const(0))

ConvertAssign(sys, lhs, rhs) ==
  <<[st |-> "assign", x |-> ConvertInt(sys, lhs), e |-> ConvertInt(sys, rhs)]>>

(* gen_initial_state.  A vector has as many initial values as cells.       *)
GenInitialState(sys) ==
  LET scalars == {v \in DOMAIN sys.type : sys.size[v] = 0}
      cells == UNION {{Cell(v, i) : i \in 0 .. sys.size[v] - 1} : v \in DOMAIN sys.type}
      states == {p \in DOMAIN sys.proc : ~SingleState(sys, p)}
      First(v, i) == IF sys.init[v] = <<>> THEN 0 ELSE sys.init[v][i]
  IN  [x \in {Var(v) : v \in scalars} \cup cells \cup {ProcessState(p) : p \in states} |->
         IF x.op = "cell" THEN First(x.v, x.i + 1)
         ELSE IF x.v \in states THEN sys.proc[x.v].init ELSE First(x.v, 1)]

(* The ext_transitions of analyse_transition: a transition that is not     *)
(* synchronized, or one that asks with one of another process that answers *)
(* on its channel.                                                         *)
ExtTransitions(sys) ==
  {<<t>> : t \in {u \in sys.trans : u.sync = "none"}}
    \cup {p \in sys.trans \X sys.trans :
            /\ p[1].sync = "ask" /\ p[2].sync = "exclaim" /\ p[1].chan = p[2].chan
            /\ p[1].proc # p[2].proc}

(* transition_guard, after the state of the first process.                 *)
TransitionGuard(sys, et) ==
  Nary("and", {ConvertBool(sys, t.guard) : t \in Range(et)}
                \cup {InState(sys, t.proc, t.from) : t \in Range(Tail(et))})

(* The state and the effects of one of the transitions.                    *)
Effects(sys, t) ==
  (IF SingleState(sys, t.proc) \/ t.from = t.to THEN <<>>
   ELSE <<[st |-> "assign", x |-> ProcessState(t.proc), e |-> Const(t.to)]>>)
  \o FlattenSeq([i \in DOMAIN t.effects |-> ConvertAssign(sys, t.effects[i][1], t.effects[i][2])])

(* What is sent is received first.                                         *)
Received(sys, et) ==
  IF Len(et) = 1 THEN <<>>
  ELSE FlattenSeq([i \in DOMAIN et[1].exprs |-> ConvertAssign(sys, et[1].exprs[i], et[2].exprs[i])])

(* Mutant: the effects of the process that sends come first.               *)
SenderFirst(sys, et) ==
  Received(sys, et) \o FlattenSeq([i \in DOMAIN et |-> Effects(sys, Reverse(et)[i])])

TransitionEffect(sys, et) ==
  Received(sys, et) \o FlattenSeq([i \in DOMAIN et |-> Effects(sys, et[i])])

Committed(sys, t) == t.from \in sys.proc[t.proc].commit

(* One of the processes is in one of the states given for each process.    *)
StatesIn(sys, which) ==
  Nary("or", {Bool(FALSE)} \cup UNION {{InState(sys, p, q) : q \in which[p]} : p \in DOMAIN sys.proc})

(* gen_transitions: a transition from a state that is not committed needs  *)
(* that no process is in one; a committed process does not synchronize with*)
(* one that is not.                                                        *)
GenTransitions(sys) ==
  LET committed == StatesIn(sys, [p \in DOMAIN sys.proc |-> sys.proc[p].commit])
      translated == {et \in ExtTransitions(sys) : Committed(sys, et[1]) => Committed(sys, et[Len(et)])}
      Guard(et) == {InState(sys, et[1].proc, et[1].from), TransitionGuard(sys, et)}
                     \cup (IF Committed(sys, et[1]) THEN {} ELSE {Not(committed)})
  IN  {[label |-> "", guard |-> Eval(Nary("and", Guard(et))),
        action |-> [st |-> "seq", body |-> TransitionEffect(sys, et)]] : et \in translated}

(* gen_transient: the states whose name starts with trans_.                *)
GenTransient(sys) == StatesIn(sys, [p \in DOMAIN sys.proc |-> sys.proc[p].transient])

ConvertFromDve(sys) ==
  [init |-> GenInitialState(sys), trans |-> FoldSet(LAMBDA t, all : Append(all, t), <<>>, GenTransitions(sys)),
   transient |-> GenTransient(sys)]
=============================================================================
