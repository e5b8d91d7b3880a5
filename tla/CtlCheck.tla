------------------------------ MODULE CtlCheck ------------------------------
(***************************************************************************)
(* its-ctl (CTL/bin/main.cpp, CTL/src/mc/ctlCheck.cpp): the reachable      *)
(* states are computed, then each formula of the file is evaluated in its  *)
(* backward form, in its forward form or in both; or the deadlocks or the  *)
(* timelocks are, with a path to them.  With --fair-time a transition is   *)
(* followed by any number of elapses.  The explanations of --witness are   *)
(* in Explain.                                                             *)
(***************************************************************************)
EXTENDS PredecessorRelation, CtlFormula

CONSTANTS
  Label,           \* the states in which each atomic proposition holds
  Models,          \* the models considered: [trans, timed, init]
  Commands(_)      \* the command lines considered for a model

(* State::one, which says that a comparison holds.                         *)
CONSTANT One

ASSUME ModelsAreTyped ==
  \A m \in Models : /\ m.trans \in Systems /\ m.timed \in BOOLEAN
                    /\ m.timed => NbTrans > 0
                    /\ m.init \subseteq States /\ m.init # {}

(* Time elapses in one way, and in the end it changes nothing any more.    *)
ASSUME ElapseIsTime ==
  \A m \in Models : m.timed =>
    /\ \A s, t, u \in States : <<s, t>> \in m.trans[1] /\ <<s, u>> \in m.trans[1] => t = u
    /\ \A X \in SUBSET States :
          X # {} /\ X \subseteq Post(m.trans[1], X) => \E s \in X : <<s, s>> \in m.trans[1]

ASSUME LabelsAreTyped == Label \in [Props -> SUBSET States]
ASSUME OneIsNotZero == One # {}

ASSUME CommandsAreTyped ==
  \A m \in Models : \A c \in Commands(m) :
     /\ c.ask \in {"formulas", "deadlock", "timelock"}
     /\ c.fair \in BOOLEAN /\ c.forward \in BOOLEAN /\ c.backward \in BOOLEAN
     /\ c.formulas \in Seq(Forms)
     /\ \A i \in DOMAIN c.formulas : IsParsed(c.formulas[i])

VARIABLES
  model,        \* the main instance; when it is timed, elapse comes first
  cmd,          \* the command line
  pc,
  reachable,    \* the reachable states
  next, predRel_, deadlocks_, scc_,   \* what the checker keeps
  index,        \* the formula being checked
  answers,      \* the verdicts printed
  dead          \* the deadlocks or timelocks printed

kept == <<reachable, next, predRel_, deadlocks_, scc_>>
vars == <<model, cmd, pc, kept, index, answers, dead>>

trans == model.trans
InitialStates == model.init

(* The transitions without elapse, and elapse.                             *)
Locals == UNION {trans[n] : n \in IF model.timed THEN Names \ {1} ELSE Names}
Elapse == IF model.timed THEN trans[1] ELSE {<<s, s>> : s \in States}

ElapseFrom(S) == Fixpoint(Elapse, S)

(* getNextRel, getInitialState, getPredRel, getReachableDeadlocks and      *)
(* hasSCCs.                                                                *)
CheckerNext ==
  IF cmd.fair THEN {e \in States \X States : e[2] \in ElapseFrom(Post(Locals, {e[1]}))}
  ELSE NextRel(trans)

InitialState == IF cmd.fair THEN ElapseFrom(InitialStates) ELSE InitialStates

CheckerPred(rel, reach) ==
  IF ~cmd.fair THEN PredRel(trans, reach, States)
  ELSE LET inv == Invert(rel, States)
       IN  IF Post(inv, reach) \subseteq reach THEN inv ELSE Within(inv, reach)

(* Mutant: successors are taken for predecessors.                          *)
DeadlocksForward(rel, reach) == reach \ Post(rel, reach)

Deadlocks(rel, reach) == reach \ Post(Invert(rel, States), reach)

HasSCCs(rel, reach) == GreatestFixpoint(rel, reach) # {}

Init ==
  /\ model \in Models
  /\ cmd \in Commands(model)
  /\ pc = "start"
  /\ reachable = {} /\ next = {} /\ predRel_ = {} /\ deadlocks_ = {} /\ scc_ = FALSE
  /\ index = 1
  /\ answers = {} /\ dead = {}

(* The reachable states do not depend on --fair-time.  The rest is         *)
(* computed when a formula first asks for it; it depends only on the model *)
(* and on --fair-time, so that here it is taken at the same time.          *)
ComputeReachable ==
  /\ pc = "start"
  /\ reachable' = Fixpoint(NextRel(trans), InitialStates)
  /\ next' = CheckerNext
  /\ predRel_' = CheckerPred(next', reachable')
  /\ deadlocks_' = Deadlocks(next', reachable')
  /\ scc_' = HasSCCs(next', reachable')
  /\ pc' = cmd.ask
  /\ UNCHANGED <<model, cmd, index, answers, dead>>

-----------------------------------------------------------------------------
(* getHomomorphism gives a homomorphism for the propositional formulas,    *)
(* that selects states; for the others it gives top.                       *)
Selected[f \in Forms] ==
  CASE f[1] = "ID"    -> Label[f[2]]
    [] f[1] = "FALSE" -> {}
    [] f[1] = "NOT"   -> States \ Selected[f[2]]
    [] f[1] = "AND"   -> Selected[f[2]] \cap Selected[f[3]]
    [] f[1] = "OR"    -> Selected[f[2]] \cup Selected[f[3]]
    [] f[1] = "THEN"  -> (States \ Selected[f[2]]) \cup Selected[f[3]]
    [] OTHER          -> States

(* The selection made at each step of a fixpoint by a child whose states   *)
(* are S: none when all the reachable states satisfy it.                   *)
Guard(f, S) ==
  IF S = reachable THEN States ELSE IF QuantifierFree[f] THEN Selected[f] ELSE S

Truth(b) == IF b THEN One ELSE {}

(* E l U r, from the states of r backward.                                 *)
EUStates(guard, right) == Fixpoint(Within(predRel_, guard), right)

(* Mutant: only cycles are looked for.                                     *)
EGStatesOnCycles(guard, left) == GreatestFixpoint(Within(predRel_, guard), left)

(* EG l: a deadlock or a cycle is reached along states of l.               *)
EGStates(guard, left) ==
  LET toDead == Fixpoint(Within(predRel_, guard), deadlocks_ \cap left)
  IN  IF ~scc_ THEN toDead
      ELSE GreatestFixpoint(Within(predRel_, guard), left) \cup toDead

(* FwdU(l, r), from the states of l forward, through states of r.          *)
FwdUStates(left, guard) == Fixpoint({e \in next : e[1] \in guard}, left)

(* FwdG(l, r): the deadlocks, and the states after a cycle, that are       *)
(* reached from l along states of r.                                       *)
FwdGStates(left, right, guard) ==
  LET pq == Fixpoint(Within(next, guard), left \cap right)
  IN  IF ~scc_ THEN deadlocks_ \cap right \cap pq
      ELSE GreatestFixpoint(next, pq) \cup (deadlocks_ \cap pq)

(* What getStateVerifying finds for a child that may be propositional: its *)
(* states, or some of them.                                                *)
ChildStates(verify, g) ==
  IF QuantifierFree[g] THEN Selected[g] \cap reachable ELSE verify[<<g, TRUE>>]

Some(verify, g) ==
  IF QuantifierFree[g] THEN Selected[g] \cap reachable ELSE verify[<<g, FALSE>>]

(* The right conjunct is evaluated first.                                  *)
AndStates(f, left, right) ==
  IF f[2] = Start /\ QuantifierFree[f[3]] THEN Selected[f[3]] \cap InitialState
  ELSE IF right = {} THEN {} ELSE left \cap right

CmpStates(f, some) == Truth((some = {}) = (f[3] = 0))

(* A propositional child first.                                            *)
SomeOr(f, left, right) ==
  IF QuantifierFree[f[3]] /\ ~QuantifierFree[f[2]]
  THEN IF right # {} THEN right ELSE left
  ELSE IF left # {} THEN left ELSE right

SomeEG(left) ==
  LET toDead == deadlocks_ \cap left
  IN  IF left = {} \/ toDead # {} THEN toDead ELSE GreatestFixpoint(predRel_, left)

(* getStateVerifying(formula, need_exact_result): all the states of a      *)
(* formula, or some of them if there are any.                              *)
Verify[call \in Forms \X BOOLEAN] ==
  LET f == call[1]
      exact == call[2]
      left == ChildStates(Verify, f[2])
      right == ChildStates(Verify, f[3])
  IN  CASE f[1] = "INIT" -> InitialState
        [] f[1] = "NOT"  -> IF f[2][1] = "NOT" THEN Verify[<<f[2][2], exact>>]
                            ELSE reachable \ left
        [] f[1] = "AND"  -> AndStates(f, left, Verify[<<f[3], TRUE>>])
        [] f[1] = "OR"   -> IF exact THEN left \cup right
                            ELSE SomeOr(f, Some(Verify, f[2]), Some(Verify, f[3]))
        [] f[1] = "THEN" -> (reachable \ left) \cup right
        [] f[1] = "CMP"  -> CmpStates(f, Verify[<<f[2], FALSE>>])
        [] f[1] = "EX"   -> Post(predRel_, left)
        [] f[1] = "EY"   -> Post(next, left)
        [] f[1] = "EU"   -> IF exact THEN EUStates(Guard(f[2], left), right)
                            ELSE Some(Verify, f[3])
        [] f[1] = "EG"   -> IF exact THEN EGStates(Guard(f[2], left), left) ELSE SomeEG(left)
        [] f[1] = "FWDU" -> IF f[2] = Start /\ f[3] = True THEN reachable
                            ELSE FwdUStates(left, Guard(f[3], right))
        [] f[1] = "FWDG" -> FwdGStates(left, right, Guard(f[3], right))
        [] OTHER         -> Selected[f] \cap reachable

Exact(f) == Verify[<<f, TRUE>>]
Inexact(f) == Verify[<<f, FALSE>>]

-----------------------------------------------------------------------------
Verdict(f) == Inexact(f) = One

Answer(direction, form) ==
  answers' = answers \cup
    {[formula |-> cmd.formulas[index], direction |-> direction, holds |-> Verdict(form)]}

CheckBackward ==
  /\ pc = "formulas" /\ index <= Len(cmd.formulas)
  /\ cmd.backward /\ Answer("backward", BackwardFormula(cmd.formulas[index]))
  /\ pc' = "forward"
  /\ UNCHANGED <<model, cmd, kept, index, dead>>

SkipBackward ==
  /\ pc = "formulas" /\ index <= Len(cmd.formulas) /\ ~cmd.backward
  /\ pc' = "forward"
  /\ UNCHANGED <<model, cmd, kept, index, answers, dead>>

(* Forward when no direction is asked for.                                 *)
CheckForward ==
  /\ pc = "forward"
  /\ IF cmd.forward \/ ~cmd.backward
     THEN Answer("forward", ForwardFormula(cmd.formulas[index]))
     ELSE UNCHANGED answers
  /\ index' = index + 1
  /\ pc' = "formulas"
  /\ UNCHANGED <<model, cmd, kept, dead>>

FindDeadlocks ==
  /\ pc = "deadlock"
  /\ dead' = deadlocks_
  /\ pc' = "done"
  /\ UNCHANGED <<model, cmd, kept, index, answers>>

(* The states that can only let time elapse, for ever.                     *)
FindTimelocks ==
  /\ pc = "timelock"
  /\ dead' = IF model.timed
             THEN GreatestFixpoint(Elapse, reachable) \cap Deadlocks(Locals, reachable)
             ELSE {}
  /\ pc' = "done"
  /\ UNCHANGED <<model, cmd, kept, index, answers>>

Exit ==
  /\ pc = "formulas" /\ index > Len(cmd.formulas)
  /\ pc' = "done"
  /\ UNCHANGED <<model, cmd, kept, index, answers, dead>>

Exited == pc = "done" /\ UNCHANGED vars

Next ==
  \/ ComputeReachable
  \/ CheckBackward \/ SkipBackward \/ CheckForward
  \/ FindDeadlocks \/ FindTimelocks
  \/ Exit \/ Exited

Spec == Init /\ [][Next]_vars

-----------------------------------------------------------------------------
(* Reference semantics of the formulas that are parsed, on the paths that  *)
(* are infinite or end in a state without successor, n steps at a time.    *)
After(s) == Post(next, {s})

Bound == Cardinality(States)

Until(a, b) ==
  LET walk[n \in Nat] == IF n = 0 THEN b ELSE b \cup (a \cap Pre(next, walk[n - 1]))
  IN  walk[Bound]

(* Every path reaches b through a.                                         *)
AlwaysUntil(a, b) ==
  LET walk[n \in Nat] ==
        IF n = 0 THEN b
        ELSE LET sure == walk[n - 1]
             IN  b \cup {s \in a : After(s) # {} /\ After(s) \subseteq sure}
  IN  walk[Bound]

(* Some path stays in a.                                                   *)
Globally(a) ==
  LET walk[n \in Nat] ==
        IF n = 0 THEN a
        ELSE LET longer == walk[n - 1]
             IN  {s \in a : After(s) = {} \/ After(s) \cap longer # {}}
  IN  walk[Bound]

Sat[f \in Forms] ==
  LET g == Sat[f[2]]
      h == Sat[f[3]]
  IN  CASE f[1] = "ID"    -> Label[f[2]] \cap reachable
        [] f[1] = "FALSE" -> {}
        [] f[1] = "NOT"   -> reachable \ g
        [] f[1] = "AND"   -> g \cap h
        [] f[1] = "OR"    -> g \cup h
        [] f[1] = "THEN"  -> (reachable \ g) \cup h
        [] f[1] = "EX"    -> {s \in reachable : After(s) \cap g # {}}
        [] f[1] = "AX"    -> {s \in reachable : After(s) \subseteq g}
        [] f[1] = "EF"    -> Until(reachable, g)
        [] f[1] = "AG"    -> reachable \ Until(reachable, reachable \ g)
        [] f[1] = "EG"    -> Globally(g)
        [] f[1] = "AF"    -> AlwaysUntil(reachable, g)
        [] f[1] = "EU"    -> Until(g, h)
        [] f[1] = "AU"    -> AlwaysUntil(g, h)
        [] OTHER          -> reachable

-----------------------------------------------------------------------------
TypeOK ==
  /\ pc \in {"start", "formulas", "forward", "deadlock", "timelock", "done"}
  /\ reachable \subseteq States /\ deadlocks_ \subseteq reachable
  /\ next \in Relations /\ predRel_ \in Relations /\ scc_ \in BOOLEAN
  /\ index \in 1 .. Len(cmd.formulas) + 1
  /\ dead \subseteq States

(* "Formula is TRUE !" is printed when the initial states satisfy the      *)
(* formula that was parsed, "FALSE" when they do not, in both directions,  *)
(* whatever rewriting was done.  When some only of several initial states  *)
(* do, both answers are possible: the comment of main, "need to test:      *)
(* verif2 * checker.getInitialState() == checker.getInitialState()", and   *)
(* the comparison with FALSE differ.                                       *)
AnswersAreCorrect ==
  \A a \in answers :
    LET sat == Sat[a.formula]
    IN  IF InitialState \subseteq sat THEN a.holds
        ELSE InitialState \cap sat = {} => ~a.holds

(* getStateVerifying: "start from states satisfying g, then add            *)
(* predecessors", "remove states that are not a predecessor": the states   *)
(* returned for a formula and for each of its subformulas are all those    *)
(* that satisfy it, and no state that cannot be reached is.  When an exact *)
(* answer is not needed, they are some of those, if there are any.         *)
StatesAreExact ==
  pc = "done" =>
    \A i \in DOMAIN cmd.formulas :
      \A f \in Subformulas[Existential[cmd.formulas[i]]] :
        LET some == Inexact(f)
            all == Exact(f)
        IN  /\ all = Sat[f]
            /\ some \subseteq all /\ (all # {} => some # {})

(* "The number of deadlocks", "states in which time is the only event that *)
(* can occur".                                                             *)
DeadAreStuck ==
  pc = "done" =>
    CASE cmd.ask = "deadlock" -> dead = {s \in reachable : After(s) = {}}
      [] cmd.ask = "timelock" ->
           dead = {s \in reachable : /\ model.timed
                                     /\ Post(Locals, {s}) = {}
                                     /\ Post(Elapse, {s}) = {s}}
      [] OTHER -> dead = {}
=============================================================================
