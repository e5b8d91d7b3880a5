----------------------------- MODULE AigerToGal -----------------------------
(* The translation of an AIGER circuit to GAL (its/aiger/aigerModel.cpp).  *)
(* A circuit is a record: the names of its inputs, its latches, which have *)
(* a name and a next value, and its and gates, which have two operands.    *)
(*                                                                         *)
(* As in AIGER, a value is a literal: twice the number of an input, a latch*)
(* or a gate, numbered from 1 in this order, plus 1 when it is negated; the*)
(* literals 0 and 1 are false and true.                                    *)
EXTENDS GalExpr, Sequences, SequencesExt

Inputs(c) == Len(c.inputs)
Latches(c) == Len(c.latches)

(* aiger_lit2tag: what a literal without sign denotes.                     *)
Tag(c, lit) ==
  LET k == lit \div 2
  IN  CASE k = 0 -> "constant"
        [] k \in 1 .. Inputs(c) -> "input"
        [] k \in Inputs(c) + 1 .. Inputs(c) + Latches(c) -> "latch"
        [] k > Inputs(c) + Latches(c) -> "and"

InputOf(c, lit) == c.inputs[lit \div 2]
LatchOf(c, lit) == c.latches[lit \div 2 - Inputs(c)]
AndOf(c, lit) == c.ands[lit \div 2 - Inputs(c) - Latches(c)]

IsOne(name) == Bin("eq", Var(name), Const(1))

RECURSIVE GetValue(_, _)
GetValue(c, lit) ==
  IF lit % 2 = 1 THEN Not(GetValue(c, lit - 1))
  ELSE CASE Tag(c, lit) = "constant" -> Bool(FALSE)
         [] Tag(c, lit) = "input" -> IsOne(InputOf(c, lit))
         [] Tag(c, lit) = "latch" -> IsOne(LatchOf(c, lit).name)
         [] Tag(c, lit) = "and" -> Nary("and", {GetValue(c, operand) : operand \in Range(AndOf(c, lit))})

(* collect_variables: the latches are 0, the inputs are no variables.      *)
CollectVariables(c) == [x \in {Var(l.name) : l \in Range(c.latches)} |-> 0]

(* e when input i is 1 and the others are 0.                               *)
WithInput(c, i, e) ==
  FoldLeft(LAMBDA f, j : Given(f, Var(c.inputs[j]), Const(Truth(j = i))), e, [j \in 1 .. Inputs(c) |-> j])

(* gen_transitions: for each input, all the latches change at once, but    *)
(* those that keep their value are not assigned.  The guard is that the    *)
(* last latch becomes 0.                                                   *)
GenTransition(c, i) ==
  LET Next(l) == WithInput(c, i, Eval(Wrap(GetValue(c, l.next))))
      assigns == [k \in 1 .. Latches(c) |-> <<Var(c.latches[k].name), Next(c.latches[k])>>]
      Changes(ass) == ass[2] # Wrap(Bin("eq", ass[1], Const(1)))
  IN  [label |-> "", guard |-> WithInput(c, i, Not(GetValue(c, Last(c.latches).next))),
       action |-> [st |-> "seq", body |-> <<[st |-> "sync", ass |-> SelectSeq(assigns, Changes)]>>]]

ConvertFromAiger(c) ==
  [init |-> CollectVariables(c), trans |-> [i \in 1 .. Inputs(c) |-> GenTransition(c, i)],
   transient |-> Bool(FALSE)]
-----------------------------------------------------------------------------
(* What a circuit does when input i is the one that is 1.                  *)
RECURSIVE Signal(_, _, _, _)
Signal(c, lit, i, s) ==
  IF lit % 2 = 1 THEN 1 - Signal(c, lit - 1, i, s)
  ELSE CASE Tag(c, lit) = "constant" -> 0
         [] Tag(c, lit) = "input" -> Truth(lit \div 2 = i)
         [] Tag(c, lit) = "latch" -> s[Var(LatchOf(c, lit).name)]
         [] Tag(c, lit) = "and" -> Signal(c, AndOf(c, lit)[1], i, s) * Signal(c, AndOf(c, lit)[2], i, s)

Clock(c, i, s) ==
  [x \in DOMAIN s |-> Signal(c, (CHOOSE l \in Range(c.latches) : Var(l.name) = x).next, i, s)]

(* The last latch is never to become 1.                                    *)
CircuitSuccs(c, s) ==
  {t \in {Clock(c, i, s) : i \in 1 .. Inputs(c)} : t[Var(Last(c.latches).name)] = 0}
=============================================================================
