---------------------------- MODULE TypeContract ----------------------------
(***************************************************************************)
(* What an ITS type promises (its/Type.hh): whatever was asked before, a   *)
(* state or a transition relation it returns is encoded with the variable  *)
(* orders that are set now, its own and those of the types nested in it.   *)
(* The types are a composite and the type of the instances it contains.    *)
(***************************************************************************)
EXTENDS Naturals, Sequences, FiniteSets

CONSTANTS
  Orders,         \* the variable orders of a type
  StateLabels,    \* labels of initial states
  TransLabels     \* labels of synchronizable transitions

Types == {"leaf", "comp"}

Nested(t) == IF t = "comp" THEN {"leaf"} ELSE {}

(* Type::getSuccs is asked for a bag of labels.                            *)
TransBags == {b \in [TransLabels -> 0 .. 2] : \E l \in TransLabels : b[l] > 0}

NoBag == [l \in TransLabels |-> 0]

(* The three questions: getState(label), getSuccs(bag), getLocals().       *)
StateOf(s) == [kind |-> "state", bag |-> NoBag, label |-> s]
SuccsOf(b) == [kind |-> "succs", bag |-> b, label |-> "none"]
LocalsOf == [kind |-> "locals", bag |-> NoBag, label |-> "none"]

Questions ==
  {StateOf(s) : s \in StateLabels} \cup {SuccsOf(b) : b \in TransBags} \cup {LocalsOf}

(* What an answer is an encoding of, and the orders it was built with.     *)
Answers == [of : Questions, built : SUBSET (Types \X Orders)]

NoQuestion == [kind |-> "none", bag |-> NoBag, label |-> "none"]

Nothing == [of |-> NoQuestion, built |-> {}]

VARIABLES
  order,     \* the current variable order of each type
  answer     \* the last answer of each type

(* The answer of t to q when the orders are ord.                           *)
Encoded(ord, t, q) ==
  [of |-> q, built |-> {<<u, ord[u]>> : u \in {t} \cup Nested(t)}]

Init ==
  /\ order \in [Types -> Orders]
  /\ answer = [t \in Types |-> Nothing]

SetVarOrder(t, o) ==
  /\ order' = [order EXCEPT ![t] = o]
  /\ UNCHANGED answer

Ask(t, q) ==
  /\ answer' = [answer EXCEPT ![t] = Encoded(order, t, q)]
  /\ UNCHANGED order

Next ==
  \E t \in Types :
    \/ \E o \in Orders : SetVarOrder(t, o)
    \/ \E q \in Questions : Ask(t, q)

Spec == Init /\ [][Next]_<<order, answer>>
=============================================================================
