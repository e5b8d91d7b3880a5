----------------------------- MODULE ReachTool ------------------------------
(***************************************************************************)
(* its-reach (bin/main.cpp): the state space is explored, by a fixpoint or *)
(* by a bounded breadth-first search, then each property is answered on    *)
(* what was found.  An EarlyBreakObserver may interrupt the fixpoint of    *)
(* libDDD as soon as states that settle all the properties are found.      *)
(* Predicates are sets of states; a step is a pass of a loop.              *)
(***************************************************************************)
EXTENDS TransitionSystem, Integers, FiniteSetsExt

CONSTANTS
  NextChoices,    \* the transition relations considered
  Commands,       \* the command lines considered
  Value           \* the value of the expression whose bounds are asked for

PropTypes == {"REACH", "INVARIANT", "NEVER", "BOUNDS", "ATOM"}

(* What the options give; without -bmc, bmc is negative.                   *)
CommandTypes ==
  [props : Seq([type : PropTypes, pred : SUBSET States]), maxbound : BOOLEAN,
   init : SUBSET States, inv : SUBSET States, doFrom : BOOLEAN, from : SUBSET States,
   bmc : Int, dowitness : BOOLEAN, nbwitness : Int, fixpass : Nat]

ASSUME CommandsAreTyped == Commands \subseteq CommandTypes
ASSUME NextChoicesAreTyped == NextChoices \subseteq Relations
ASSUME ValueIsTyped == Value \in [States -> Int]

VARIABLES
  next,           \* the transition relation of the model
  cmd,            \* the command line
  props,          \* the properties to check
  pc,
  reachable,      \* the states found so far
  depth,          \* steps of the bounded search
  n, max,         \* observer: passes since the last test, passes before one
  watched,        \* observer: ranks of the properties not settled yet
  interrupted,    \* observer: the fixpoint is to stop
  source,         \* initialSituation
  pindex,         \* the property being checked
  verdicts,       \* the answers printed: [prop, holds]
  bounds,         \* the bounds printed: [prop, min, max]
  calls           \* the traces asked for, to findPath or to printPaths

observer == <<n, max, watched, interrupted>>
printed == <<verdicts, bounds, calls>>
vars == <<next, cmd, props, pc, reachable, depth, observer, source, pindex, printed>>

(* What a property looks for: an INVARIANT looks for its negation.         *)
Target(p) == IF p.type = "INVARIANT" THEN States \ p.pred ELSE p.pred

(* The answer, given whether such states were found; a type that is none   *)
(* of the others is answered as a reachability property.                   *)
Answer(p, found) == IF p.type \in {"INVARIANT", "NEVER"} THEN ~found ELSE found

(* -with-invariant: a successor that violates it is not one.               *)
Step == Within(next, cmd.inv)

(* The constructor of the observer skips BOUNDS and ATOM.                  *)
Watchable(ps) == {i \in DOMAIN ps : ps[i].type \in {"INVARIANT", "NEVER", "REACH"}}

(* Mutant: bounds do not prevent interruption.                             *)
ObservingBounds ==
  cmd.fixpass # 0 /\ ~cmd.doFrom /\ ~cmd.dowitness /\ cmd.nbwitness = 0

(* Whether the observer is set up.                                         *)
Observing ==
  /\ cmd.fixpass # 0 /\ ~cmd.doFrom /\ ~cmd.dowitness /\ cmd.nbwitness = 0
  /\ \A i \in DOMAIN cmd.props : cmd.props[i].type # "BOUNDS"

Init ==
  /\ next \in NextChoices
  /\ cmd \in Commands
  /\ props = cmd.props
  /\ pc = IF cmd.bmc < 0 THEN "fixpoint" ELSE "bmc"
  /\ reachable = cmd.init
  /\ depth = 0
  /\ n = 0 /\ max = cmd.fixpass /\ interrupted = FALSE
  /\ watched = Watchable(cmd.props)
  /\ source = cmd.init
  /\ pindex = 1
  /\ verdicts = {} /\ bounds = {} /\ calls = {}

(* A pass of the fixpoint adds some of the states that can be reached from *)
(* those it has: the saturation of libDDD chains the transitions.          *)
Pass(X) ==
  /\ pc = "fixpoint"
  /\ reachable \subseteq X /\ X # reachable
  /\ X \subseteq Fixpoint(Step, reachable)
  /\ reachable' = X

PassUnobserved ==
  /\ ~Observing
  /\ \E X \in SUBSET States : Pass(X)
  /\ UNCHANGED <<next, cmd, props, pc, depth, observer, source, pindex, printed>>

PassCounted ==
  /\ Observing /\ n <= max
  /\ \E X \in SUBSET States : Pass(X)
  /\ n' = n + 1
  /\ UNCHANGED <<next, cmd, props, pc, depth, max, watched, interrupted, source,
                 pindex, printed>>

Matched(X) == {i \in watched : Target(props[i]) \cap X # {}}

(* Properties matched by the states found are answered and not tested any  *)
(* more.                                                                   *)
Settle(X) ==
  /\ watched' = watched \ Matched(X)
  /\ verdicts' = verdicts \cup
       {[prop |-> i, holds |-> Answer(props[i], TRUE)] : i \in Matched(X)}

(* Mutant: one property settled is enough.                                 *)
InterruptOnAny ==
  /\ Observing /\ n > max
  /\ \E X \in SUBSET States : Pass(X) /\ Settle(X) /\ watched' # watched
  /\ interrupted' = TRUE
  /\ pc' = "from"
  /\ UNCHANGED <<next, cmd, props, depth, n, max, source, pindex, bounds, calls>>

(* should_interrupt, then update: no property is left.                     *)
Interrupt ==
  /\ Observing /\ n > max
  /\ \E X \in SUBSET States : Pass(X) /\ Settle(X) /\ watched' = {}
  /\ interrupted' = TRUE
  /\ pc' = "from"
  /\ UNCHANGED <<next, cmd, props, depth, n, max, source, pindex, bounds, calls>>

(* Some are left; without progress the next test comes later.              *)
Resume ==
  /\ Observing /\ n > max
  /\ \E X \in SUBSET States :
       /\ Pass(X) /\ Settle(X) /\ watched' # {}
       /\ max' = IF Matched(X) = {} THEN 2 * max ELSE max
  /\ n' = 0
  /\ UNCHANGED <<next, cmd, props, pc, depth, interrupted, source, pindex, bounds, calls>>

FixpointReached ==
  /\ pc = "fixpoint" /\ Closed(Step, reachable)
  /\ pc' = "from"
  /\ UNCHANGED <<next, cmd, props, reachable, depth, observer, source, pindex, printed>>

(* Mutant: the loop runs once too often.                                   *)
BmcStepOnce ==
  /\ pc = "bmc" /\ depth <= cmd.bmc
  /\ reachable' = reachable \cup Post(Step, reachable)
  /\ depth' = depth + 1
  /\ pc' = IF reachable' = reachable \/ depth = cmd.bmc THEN "from" ELSE "bmc"
  /\ UNCHANGED <<next, cmd, props, observer, source, pindex, printed>>

BmcStep ==
  /\ pc = "bmc" /\ depth < cmd.bmc
  /\ reachable' = reachable \cup Post(Step, reachable)
  /\ depth' = depth + 1
  /\ pc' = IF reachable' = reachable THEN "from" ELSE "bmc"
  /\ UNCHANGED <<next, cmd, props, observer, source, pindex, printed>>

BmcEnd ==
  /\ pc = "bmc" /\ depth = cmd.bmc
  /\ pc' = "from"
  /\ UNCHANGED <<next, cmd, props, reachable, depth, observer, source, pindex, printed>>

(* -maxbound gives one more property, after the exploration.               *)
AddMaxBound ==
  props' = IF cmd.maxbound THEN Append(props, [type |-> "BOUNDS", pred |-> {}]) ELSE props

(* -reachable-from: only what can be reached from the selected states is   *)
(* considered; without such a state, no property is.                       *)
StartChecks ==
  /\ pc = "from" /\ ~cmd.doFrom
  /\ AddMaxBound
  /\ pc' = "check"
  /\ UNCHANGED <<next, cmd, reachable, depth, observer, source, pindex, printed>>

(* Mutant: the states found before are kept.                               *)
SelectSourceKeeps ==
  /\ pc = "from" /\ cmd.doFrom
  /\ AddMaxBound
  /\ source' = cmd.from \cap reachable
  /\ source' # {}
  /\ reachable' = reachable \cup Fixpoint(Step, source')
  /\ pc' = "check"
  /\ UNCHANGED <<next, cmd, depth, observer, pindex, printed>>

SelectSource ==
  /\ pc = "from" /\ cmd.doFrom
  /\ AddMaxBound
  /\ source' = cmd.from \cap reachable
  /\ source' # {}
  /\ reachable' = Fixpoint(Step, source')
  /\ pc' = "check"
  /\ UNCHANGED <<next, cmd, depth, observer, pindex, printed>>

NoSource ==
  /\ pc = "from" /\ cmd.doFrom /\ cmd.from \cap reachable = {}
  /\ props' = <<>>
  /\ pc' = "check"
  /\ UNCHANGED <<next, cmd, reachable, depth, observer, source, pindex, printed>>

(* MaxComputer, in its min/max mode: the minimum of a set of values is     *)
(* computed with max, and both start from 0.                               *)
Maximum(S) == Max({0} \cup {Value[s] : s \in S})
Minimum(S) == Min({0, Maximum(S)})

(* Mutant: the loop does not advance.                                      *)
CheckBoundsStays ==
  /\ pc = "check" /\ pindex <= Len(props)
  /\ props[pindex].type = "BOUNDS"
  /\ bounds' = bounds \cup
       {[prop |-> pindex, min |-> Minimum(reachable), max |-> Maximum(reachable)]}
  /\ UNCHANGED <<next, cmd, props, pc, reachable, depth, observer, source, pindex,
                 verdicts, calls>>

CheckBounds ==
  /\ pc = "check" /\ pindex <= Len(props)
  /\ props[pindex].type = "BOUNDS"
  /\ bounds' = bounds \cup
       {[prop |-> pindex, min |-> Minimum(reachable), max |-> Maximum(reachable)]}
  /\ pindex' = pindex + 1
  /\ UNCHANGED <<next, cmd, props, pc, reachable, depth, observer, source, verdicts, calls>>

(* The states that settle the property, if there are some, are the goal of *)
(* the traces.                                                             *)
CheckProperty ==
  /\ pc = "check" /\ pindex <= Len(props)
  /\ props[pindex].type # "BOUNDS"
  /\ LET target == Target(props[pindex]) \cap reachable
     IN  /\ verdicts' = verdicts \cup
              {[prop |-> pindex, holds |-> Answer(props[pindex], target # {})]}
         /\ calls' = IF target # {} /\ (cmd.dowitness \/ cmd.nbwitness > 0)
                     THEN calls \cup {[init |-> source, goal |-> target]}
                     ELSE calls
  /\ pindex' = pindex + 1
  /\ UNCHANGED <<next, cmd, props, pc, reachable, depth, observer, source, bounds>>

Exit ==
  /\ pc = "check" /\ pindex > Len(props)
  /\ pc' = "done"
  /\ UNCHANGED <<next, cmd, props, reachable, depth, observer, source, pindex, printed>>

Exited == pc = "done" /\ UNCHANGED vars

Next ==
  \/ PassUnobserved \/ PassCounted \/ Interrupt \/ Resume \/ FixpointReached
  \/ BmcStep \/ BmcEnd
  \/ StartChecks \/ SelectSource \/ NoSource
  \/ CheckBounds \/ CheckProperty \/ Exit
  \/ Exited

Spec == Init /\ [][Next]_vars

(* One thread, and a fixpoint that adds states at each pass.               *)
FairSpec == Spec /\ WF_vars(Next)

-----------------------------------------------------------------------------
(* Reference: the states the command is about: all those that can be       *)
(* reached, or those at most bmc steps away from the initial ones.         *)
AtMost(S) ==
  LET walk[k \in Nat] == IF k = 0 THEN S
                         ELSE LET near == walk[k - 1]
                              IN  near \cup (Post(next, near) \cap cmd.inv)
  IN  walk

Explorable == IF cmd.bmc < 0 THEN Fixpoint(Step, cmd.init) ELSE AtMost(cmd.init)[cmd.bmc]

Asked == IF cmd.doFrom THEN Fixpoint(Step, cmd.from \cap Explorable) ELSE Explorable

TypeOK ==
  /\ pc \in {"fixpoint", "bmc", "from", "check", "done"}
  /\ reachable \subseteq States /\ source \subseteq States
  /\ depth \in 0 .. Max({0, cmd.bmc})
  /\ max \in Nat /\ n \in 0 .. max + 1
  /\ watched \subseteq Watchable(cmd.props)
  /\ pindex \in 1 .. Len(cmd.props) + 2
  /\ verdicts \subseteq [prop : DOMAIN cmd.props, holds : BOOLEAN]
  /\ bounds \subseteq [prop : 1 .. Len(cmd.props) + 1, min : Int, max : Int]
  /\ calls \subseteq [init : SUBSET States, goal : SUBSET States]

(* "return a yes/no answer": the answer to a property, given early by the  *)
(* observer or at the end on a state space that may be partial, is the one *)
(* that holds on all the states the command is about.                      *)
VerdictsAreCorrect ==
  \A v \in verdicts :
    LET p == props[v.prop]
    IN  v.holds = Answer(p, Target(p) \cap Asked # {})

(* The state space the properties are checked on is the whole one, unless  *)
(* it already settles them all.                                            *)
SearchedIsEnough ==
  pc = "check" /\ (cmd.doFrom => cmd.from \cap Explorable # {}) =>
    \/ reachable = Asked
    \/ /\ reachable \subseteq Asked
       /\ \A i \in Watchable(props) : Target(props[i]) \cap reachable # {}

(* "should not happen if the states searched for are reachable": a trace   *)
(* is asked for only between states one of which leads to the other by the *)
(* states given to findPath or printPaths.                                 *)
TracesExist ==
  \A c \in calls :
    c.goal # {} /\ c.goal \cap Fixpoint(Within(next, reachable), c.init) # {}

(* "return the maximum value for each variable in the list": the maximum   *)
(* printed is attained by a state the command is about, and is not         *)
(* exceeded by any.                                                        *)
BoundIsMaximum ==
  \A b \in bounds :
    /\ \E s \in Asked : Value[s] = b.max
    /\ \A s \in Asked : Value[s] <= b.max

(* "min/max stats": the minimum printed is the least value.                *)
BoundIsMinimum ==
  \A b \in bounds :
    /\ \E s \in Asked : Value[s] = b.min
    /\ \A s \in Asked : b.min <= Value[s]

(* Every command ends.                                                     *)
Terminates == <>(pc = "done")
=============================================================================
