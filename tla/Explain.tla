------------------------------- MODULE Explain -------------------------------
(***************************************************************************)
(* its-ctl --witness: CTLChecker::explain (CTL/src/mc/ctlCheck.cpp) goes   *)
(* through a formula with a set of states, says why it is true in some of  *)
(* them or false in all, and calls findPath and findCycle for traces.  The *)
(* searches are those of FindPath.  Formulas are explained without         *)
(* --fair-time, forward ones when they make a single comparison.           *)
(***************************************************************************)
EXTENDS CtlCheck

(* What is explained of the command lines.                                 *)
ASSUME ExplainedCommands ==
  \A m \in Models : \A c \in Commands(m) :
    c.witness /\ c.ask = "formulas" =>
      /\ ~c.fair
      /\ c.forward \/ ~c.backward =>
           \A i \in DOMAIN c.formulas : ForwardFormula(c.formulas[i])[1] = "CMP"

VARIABLES
  todo,      \* the calls to make and what is to do after a search, first first
  result,    \* the states that the last call returned
  calls,     \* the calls made
  paths,     \* the traces printed
  args, fpc, M3, seen, rev, witness, cur, status   \* findPath

findPath == <<args, fpc, M3, seen, rev, witness, cur, status>>
explanation == <<todo, result, calls, paths>>

F == INSTANCE FindPath WITH pc <- fpc, TransChoices <- {}, Queries <- {}

(* The formula and the states of what is to be done first.                 *)
form == Head(todo).formula
sat == Head(todo).states

(* What is to do: explain g in S, where it was just said to be true in     *)
(* some states of S or false in all, for the sake of a formula of type of; *)
(* the same in what the last call returns; or after which that is returned *)
(* again; return S; or print a trace and go on.                            *)
Task(do, S, g, said) ==
  [do |-> do, states |-> S, formula |-> g, said |-> said,
   of |-> IF todo = <<>> THEN "main" ELSE form[1]]

Call(S, g, said) == Task("explain", S, g, said)
CallAgain(g, said) == Task("again", {}, g, said)
CallAside(S, g, said) == Task("aside", S, g, said)
Return(S) == Task("return", S, True, TRUE)
Show(reason, g, S) == Task(reason, S, g, TRUE)

ExplainInit ==
  /\ Init
  /\ todo = <<>> /\ result = {} /\ calls = {} /\ paths = {}
  /\ args = [init |-> {}, toreach |-> {}, reach |-> {}, pot |-> {}, precise |-> TRUE]
  /\ fpc = "done" /\ M3 = {} /\ seen = {} /\ rev = <<>> /\ witness = <<>>
  /\ cur = 0 /\ status = "none"

(* A call of findPath.                                                     *)
Find(init, toreach, reach, precise) ==
  /\ args' = [init |-> init, toreach |-> toreach, reach |-> reach,
              pot |-> States, precise |-> precise]
  /\ fpc' = "start" /\ M3' = {} /\ seen' = {} /\ rev' = <<>> /\ witness' = <<>>
  /\ cur' = 0 /\ status' = "none"

Search(init, toreach, reach) == Find(init, toreach, reach, TRUE) /\ UNCHANGED paths

(* main: with --witness, each formula is explained after its verdict.      *)
Explained(g, holds) ==
  IF cmd.witness THEN <<Call(InitialState, g, holds)>> ELSE <<>>

Verified ==
  /\ todo = <<>>
  /\ LET f == cmd.formulas[index]
     IN  \/ /\ CheckBackward
            /\ todo' = Explained(Existential[f], Verdict(BackwardFormula(f)))
         \/ /\ CheckForward
            /\ todo' = IF cmd.forward \/ ~cmd.backward
                       THEN Explained(ForwardFormula(f), Verdict(ForwardFormula(f))) ELSE <<>>
  /\ UNCHANGED <<result, calls, paths, findPath>>

(* A path to one of the deadlocks or timelocks.                            *)
Dead ==
  /\ todo = <<>>
  /\ FindDeadlocks \/ FindTimelocks
  /\ IF dead' = {} \/ ~cmd.witness THEN UNCHANGED <<todo, paths, findPath>>
     ELSE /\ todo' = <<Show("dead", True, dead')>>
          /\ \E isPrecise \in BOOLEAN : Find(InitialState, dead', reachable, isPrecise)
          /\ UNCHANGED paths
  /\ UNCHANGED <<result, calls>>

Unexplained ==
  /\ todo = <<>>
  /\ ComputeReachable \/ SkipBackward \/ Exit \/ Exited
  /\ UNCHANGED <<explanation, findPath>>

-----------------------------------------------------------------------------
left == Exact(form[2])
right == Exact(form[3])
satF == sat \cap Exact(form)
IsTrue == satF # {}

Ready(reason) == todo # <<>> /\ fpc = "done" /\ Head(todo).do = reason

(* The call at the head of the list is made.                               *)
Explaining(types) ==
  /\ Ready("explain") /\ form[1] \in types
  /\ calls' = calls \cup {Head(todo)}
  /\ UNCHANGED vars

Continue(tasks) == todo' = tasks \o Tail(todo) /\ UNCHANGED result
Returns(S) == todo' = Tail(todo) /\ result' = S

NoSearch == UNCHANGED <<paths, findPath>>

(* The first name that leads from S to T, if any.                          *)
FirstName(S, T) ==
  {n \in Names : /\ Post(trans[n], S) \cap T # {}
                 /\ \A m \in 1 .. n - 1 : Post(trans[m], S) \cap T = {}}

ExplainAtom ==
  /\ Explaining({"ID", "TRUE", "FALSE", "INIT"}) /\ NoSearch
  /\ Returns(IF form[1] \in {"ID", "INIT"} /\ IsTrue THEN satF ELSE sat)

(* Mutant: the formula itself is explained again.                          *)
ExplainNotAgain ==
  /\ Explaining({"NOT"}) /\ NoSearch
  /\ Continue(<<Call(IF IsTrue THEN satF ELSE sat, form, IsTrue)>>)

ExplainNot ==
  /\ Explaining({"NOT"}) /\ NoSearch
  /\ Continue(<<Call(IF IsTrue THEN satF ELSE sat, form[2], ~IsTrue)>>)

ExplainAnd ==
  /\ Explaining({"AND"}) /\ IsTrue /\ NoSearch
  /\ Continue(<<Call(satF, form[2], TRUE), CallAgain(form[3], TRUE)>>)

(* Mutant: the conjunct that is blamed is the other one.                   *)
ExplainNoAndOther ==
  /\ Explaining({"AND"}) /\ ~IsTrue /\ NoSearch
  /\ Continue(IF left \cap sat = {} THEN <<Call(sat, form[3], FALSE)>>
              ELSE IF right \cap sat = {} THEN <<Call(sat, form[2], FALSE)>>
              ELSE <<Call(sat, form[2], TRUE), Call(sat, form[3], TRUE), Return(sat)>>)

ExplainNoAnd ==
  /\ Explaining({"AND"}) /\ ~IsTrue /\ NoSearch
  /\ Continue(IF left \cap sat = {} THEN <<Call(sat, form[2], FALSE)>>
              ELSE IF right \cap sat = {} THEN <<Call(sat, form[3], FALSE)>>
              ELSE <<Call(sat, form[2], TRUE), Call(sat, form[3], TRUE), Return(sat)>>)

(* "Because NOT left is true", in the states where left is; or because the *)
(* right child is true, and the left one is explained.                     *)
ExplainThen ==
  /\ Explaining({"THEN"}) /\ IsTrue /\ NoSearch
  /\ Continue(IF left \cap sat # {} THEN <<Call(left \cap sat, form[2], FALSE)>>
              ELSE <<Call(right \cap sat, form[2], TRUE)>>)

ExplainOr ==
  /\ Explaining({"OR"}) /\ IsTrue /\ NoSearch
  /\ Continue(IF left \cap sat # {} THEN <<Call(left \cap sat, form[2], TRUE)>>
              ELSE <<Call(right \cap sat, form[2], TRUE)>>)

ExplainNeither ==
  /\ Explaining({"THEN", "OR"}) /\ ~IsTrue /\ NoSearch
  /\ Continue(<<Call(sat, form[2], form[1] = "THEN"), Call(sat, form[3], FALSE), Return(sat)>>)

-----------------------------------------------------------------------------
(* Mutant: the successors are returned.                                    *)
ExplainEXFinal ==
  /\ Explaining({"EX"}) /\ IsTrue
  /\ \E n \in FirstName(satF, left) :
        LET target == Post(trans[n], satF) \cap left
        IN  Continue(<<Call(target, form[2], TRUE), Return(target)>>)
  /\ UNCHANGED <<paths, findPath>>

(* One transition, found here.                                             *)
ExplainEX ==
  /\ Explaining({"EX"}) /\ IsTrue
  /\ \E n \in FirstName(satF, left) :
        LET target == Post(trans[n], satF) \cap left
            init == Post(predRel_, target) \cap satF
        IN  /\ Continue(<<Call(target, form[2], TRUE), Return(init)>>)
            /\ paths' = paths \cup {[why |-> "EX", formula |-> form, found |-> TRUE,
                                     layers |-> <<init, target>>, names |-> <<n>>]}
  /\ UNCHANGED findPath

ExplainNoEX ==
  /\ Explaining({"EX"}) /\ ~IsTrue /\ NoSearch
  /\ Continue(<<Call(Post(next, sat), form[2], FALSE), Return(sat)>>)

ExplainEU ==
  /\ Explaining({"EU"}) /\ IsTrue
  /\ LET satB == satF \cap right
     IN  IF satB # {}
         THEN Continue(<<Call(satB, form[3], TRUE), Return(sat)>>) /\ NoSearch
         ELSE Continue(<<Show("EU", form, sat)>>) /\ Search(satF, right, left)

(* The states reached from S through states of the left child.             *)
ReachableA(S) == Fixpoint(Within(next, left), S)

ExplainNoEU ==
  /\ Explaining({"EU"}) /\ ~IsTrue
  /\ LET satA == sat \cap left
         reachableA == ReachableA(satA)
         notAnotB == (Post(next, reachableA) \ left) \ right
     IN  IF satA = {} THEN Continue(<<Call(sat, form[2], FALSE)>>) /\ NoSearch
         ELSE IF right = {} THEN Continue(<<Call(sat, form[3], FALSE)>>) /\ NoSearch
         ELSE IF GreatestFixpoint(next, reachableA) # {} THEN Returns(satA) /\ NoSearch
         ELSE IF notAnotB = {} THEN Continue(<<Call(satA, form[2], TRUE)>>) /\ NoSearch
         ELSE /\ Continue(<<Show("notEU", form, sat)>>)
              /\ Search(satA, notAnotB, reachableA)

(* The states from which, and to which, one can go on for ever in S.       *)
SCCHull(S) ==
  UNION {X \in SUBSET S : X \subseteq Post(next, X) /\ X \subseteq Post(predRel_, X)}

ExplainEG ==
  /\ Explaining({"EG"}) /\ IsTrue
  /\ LET scc == SCCHull(ReachableA(satF))
     IN  Continue(<<Show("EG", form, scc)>>) /\ Search(satF, scc, reachable)

ExplainNoEG ==
  /\ Explaining({"EG"}) /\ ~IsTrue
  /\ LET satA == sat \cap left
         reachableA == ReachableA(satA)
         deadA == (reachable \ Post(predRel_, reachable)) \cap reachableA
     IN  IF satA = {} THEN Continue(<<Call(sat, form[2], FALSE)>>) /\ NoSearch
         ELSE /\ Continue(<<Show("notEG", form, sat)>>)
              /\ Search(satA, IF deadA # {} THEN deadA ELSE reachable \ left, reachableA)

(* A forward formula is compared with FALSE on all the reachable states.   *)
ExplainCmp ==
  /\ Explaining({"CMP"}) /\ NoSearch
  /\ Continue(<<Call(reachable, form[2], left # {})>>)

(* Mutant: the path goes the wrong way.                                    *)
ExplainFwdUBack ==
  /\ Explaining({"FWDU"}) /\ IsTrue
  /\ Continue(<<Show("FWDU", form, sat)>>)
  /\ Search(sat, IF form[2] = Start /\ form[3] = True THEN InitialState ELSE left, Exact(form))

ExplainFwdU ==
  /\ Explaining({"FWDU"}) /\ IsTrue
  /\ Continue(<<Show("FWDU", form, sat)>>)
  /\ Search(IF form[2] = Start /\ form[3] = True THEN InitialState ELSE left, sat, Exact(form))

ExplainNothing ==
  /\ Explaining({"FWDU", "FWDG", "EY"}) /\ (form[1] = "FWDU" => ~IsTrue) /\ NoSearch
  /\ Returns(sat)

-----------------------------------------------------------------------------
pathInit == rev[1]
pathFinal == rev[Len(rev)]

SearchStep ==
  /\ fpc # "done"
  /\ UNCHANGED <<vars, explanation>>
  /\ F!Next

(* printPath.                                                              *)
Printing(reason) ==
  /\ Ready(reason)
  /\ paths' = paths \cup {[why |-> reason, formula |-> form, found |-> status = "path",
                           layers |-> rev, names |-> witness]}
  /\ UNCHANGED <<vars, calls>>

PrintUntil ==
  /\ Printing("EU") /\ UNCHANGED findPath
  /\ Continue(<<Call(pathInit, form[2], TRUE), CallAside(pathFinal, form[3], TRUE)>>)

PrintFwdU ==
  /\ Printing("FWDU") /\ UNCHANGED findPath
  /\ IF form[2] = Start /\ form[3] = True THEN Returns(pathFinal)
     ELSE Continue(<<Call(pathInit, form[2], TRUE), Return(pathFinal)>>)

PrintNoUntil == Printing("notEU") /\ Returns(sat) /\ UNCHANGED findPath
PrintNoEG == Printing("notEG") /\ Returns(pathInit) /\ UNCHANGED findPath
PrintDead == Printing("dead") /\ Continue(<<>>) /\ UNCHANGED findPath

(* findCycle from one of the states at the end of the prefix: a search for *)
(* its predecessors in the hull; sat is the hull here.                     *)
PrintPrefix ==
  /\ Printing("EG") /\ Continue(<<Show("cycle", form, pathInit)>>)
  /\ \E one \in IF pathFinal = {} THEN {{}} ELSE {{s} : s \in pathFinal} :
        Find(one, Post(PredRel(trans, reachable, States), one) \cap sat, sat, TRUE)

(* The loop is closed by a transition to the state it comes from, if any.  *)
Cycle ==
  LET n == FirstName(pathFinal, pathInit)
      target == UNION {Post(trans[m], pathFinal) \cap pathInit : m \in n}
  IN  [why |-> "cycle", formula |-> form, found |-> status = "path" /\ n # {},
       layers |-> Append([rev EXCEPT ![Len(rev)] = @ \cap Post(PredRel(trans, reachable, States), target)], target),
       names |-> witness \o [i \in 1 .. Cardinality(n) |-> CHOOSE m \in n : TRUE]]

PrintCycle ==
  /\ Ready("cycle")
  /\ paths' = paths \cup {Cycle}
  /\ Returns(sat)
  /\ UNCHANGED <<vars, calls, findPath>>

ReturnStates ==
  /\ Ready("return") /\ Returns(sat)
  /\ UNCHANGED <<vars, calls, paths, findPath>>

CallOnResult ==
  /\ Ready("again")
  /\ Continue(<<[Head(todo) EXCEPT !.do = "explain", !.states = result]>>)
  /\ UNCHANGED <<vars, calls, paths, findPath>>

CallForSide ==
  /\ Ready("aside")
  /\ Continue(<<[Head(todo) EXCEPT !.do = "explain"], Return(result)>>)
  /\ UNCHANGED <<vars, calls, paths, findPath>>

ExplainNext ==
  \/ Verified \/ Dead \/ Unexplained \/ SearchStep
  \/ ExplainAtom \/ ExplainNot \/ ExplainAnd \/ ExplainNoAnd
  \/ ExplainThen \/ ExplainOr \/ ExplainNeither
  \/ ExplainEX \/ ExplainNoEX \/ ExplainEU \/ ExplainNoEU \/ ExplainEG \/ ExplainNoEG
  \/ ExplainCmp \/ ExplainFwdU \/ ExplainNothing
  \/ PrintUntil \/ PrintFwdU \/ PrintNoUntil \/ PrintNoEG \/ PrintDead \/ PrintPrefix \/ PrintCycle
  \/ ReturnStates \/ CallOnResult \/ CallForSide

explainVars == <<vars, explanation, findPath>>

ExplainSpec == ExplainInit /\ [][ExplainNext]_explainVars
-----------------------------------------------------------------------------
(* The states that the names of a path lead to.                            *)
EndOf(p) == Played(trans, p.names, States, p.layers[1])

(* What the text before a path says of its end.                            *)
Promised(p) ==
  LET g == p.formula
  IN  CASE p.why \in {"EX", "EG"} -> Exact(g[2])
        [] p.why = "EU"    -> Exact(g[3])
        [] p.why = "notEU" -> reachable \ (Exact(g[2]) \cup Exact(g[3]))
        [] p.why = "notEG" -> reachable \ Exact(g[2])
        [] p.why = "FWDU"  -> Exact(g)
        [] p.why = "dead"  -> dead
        [] p.why = "cycle" -> p.layers[1]

(* The states that satisfy a formula; for those that are computed from the *)
(* initial states, which are not parsed, the states the checker finds.     *)
Meaning(g) ==
  IF \E h \in Subformulas[g] : h[1] \in {"INIT", "FWDU", "FWDG", "EY"}
  THEN Exact(g) ELSE Sat[g]

ExplainTypeOK ==
  /\ \A i \in DOMAIN todo : todo[i].states \subseteq States /\ todo[i].said \in BOOLEAN
  /\ result \subseteq States
  /\ \A p \in paths : p.layers \in Seq(SUBSET States) /\ p.names \in Seq(Names)
  /\ args \in F!Arguments /\ status \in {"none", "path", "failed"}

(* What is said of a subformula before it is explained, "Because NOT(a) is *)
(* satisfied", "First conjunct is not satisfied in any input states", is   *)
(* what its evaluation finds: it is true in some of the states given, or   *)
(* false in all.  Not of the operands of -> and of |, of which the code    *)
(* explains the wrong one or the wrong value when the formula is true, nor *)
(* of the successors of states that have none.                             *)
ExplanationsAgree ==
  \A c \in calls :
    c.of \notin {"THEN", "OR"} /\ c.formula[1] # "CMP" /\ c.states # {} =>
      (c.said <=> c.states \cap Meaning(c.formula) # {})

(* Every trace can be played from the states it starts with to states      *)
(* where the subformula it explains is as the text says, and the search    *)
(* for it succeeds ("Unexpected empty predecessor set" otherwise), but for *)
(* EG, which may be true because of a deadlock.                            *)
PathsAreTraces ==
  \A p \in paths :
    /\ p.why \in {"EG", "cycle"} \/ p.found
    /\ p.found => EndOf(p) \cap Promised(p) # {}

(* "Returns states that were actually explained, a subset of the input     *)
(* states": some of the initial states, for a formula checked backward.    *)
(* There may be none once an implication has been explained, whose right   *)
(* operand is blamed when the left one is false, were it false too.        *)
ExplainedAreInputs ==
  pc = "forward" /\ todo = <<>> /\ cmd.backward /\ cmd.witness =>
    /\ result \subseteq InitialState
    /\ result = {} => \E c \in calls : c.formula[1] = "THEN"

(* "A cycle": what is printed after the prefix of a lasso comes back to    *)
(* where it starts.                                                        *)
CyclesComeBack ==
  \A p \in paths : p.why = "cycle" => EndOf(p) \cap p.layers[1] # {}

(* How much remains to be done: a call makes calls for the children only,  *)
(* with a trace and a few returns between them.                            *)
Size[g \in Forms] ==
  6 + (CASE g[1] \in Leaves -> 0
         [] g[1] \in Unary -> Size[g[2]]
         [] OTHER -> Size[g[2]] + Size[g[3]])

Weight(task) ==
  CASE task.do \in {"again", "aside"} -> Size[task.formula] + 2
    [] task.do = "explain" -> Size[task.formula]
    [] task.do \in {"cycle", "return"} -> 1
    [] OTHER -> Size[task.formula] - 1

WorkOf(tasks) ==
  LET upTo[k \in 0 .. Len(tasks)] == IF k = 0 THEN 0 ELSE upTo[k - 1] + Weight(tasks[k])
  IN  upTo[Len(tasks)]

Work == WorkOf(todo)

(* Explaining ends, although each call makes others: every step but those  *)
(* of a search, which ends, leaves less to be done.                        *)
ExplainingEnds == [][fpc = "done" /\ todo # <<>> => Work' < Work]_explainVars
=============================================================================
