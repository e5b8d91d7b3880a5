-------------------------- MODULE ReachTool_proofs --------------------------
(* its-reach: whatever the exploration, a bounded search, a fixpoint, or a *)
(* fixpoint that the observer interrupted, the traces asked for exist, the *)
(* answers are those that hold on all the states the command is about, and *)
(* so are the maxima.  The lemmas about walks come from the proofs about   *)
(* the predecessor relation, on the same states.                           *)
EXTENDS ReachTool, PredecessorRelation_proofs, SequenceTheorems, FiniteSetTheorems

-----------------------------------------------------------------------------
(* Fixpoints and paths.                                                    *)

(* A closed set between the start and its fixpoint is the fixpoint, and a  *)
(* path to each of its states stays in it.                                 *)
LEMMA ClosedIsFixpoint ==
  ASSUME NEW h, NEW S, NEW X \in SUBSET States, S \subseteq X, Closed(h, X),
         X \subseteq Fixpoint(h, S)
  PROVE  X = Fixpoint(h, S)
BY FixpointLeast

LEMMA ClosedIsLinked ==
  ASSUME NEW h, NEW inv, NEW S, NEW X \in SUBSET States, S \subseteq X,
         Closed(Within(h, inv), X), X \subseteq Fixpoint(Within(h, inv), S)
  PROVE  X \subseteq Fixpoint(Within(h, X), S)
<1> SUFFICES ASSUME NEW Y \in SUBSET States, S \subseteq Y, Closed(Within(h, X), Y)
             PROVE  X \subseteq Y
  BY DEF Fixpoint
<1>1. Closed(Within(h, inv), X \cap Y)
  BY DEF Closed, Post, Within
<1>2. Fixpoint(Within(h, inv), S) \subseteq X \cap Y
  BY <1>1, FixpointLeast
<1>. QED
  BY <1>2

(* So does a path to the successors that are added to such a set.          *)
LEMMA StepIsLinked ==
  ASSUME NEW h, NEW inv, NEW S, NEW X \in SUBSET States,
         X \subseteq Fixpoint(Within(h, X), S)
  PROVE  LET Z == X \cup Post(Within(h, inv), X)
         IN  Z \subseteq Fixpoint(Within(h, Z), S)
<1> DEFINE Z == X \cup Post(Within(h, inv), X)
<1>1. Z \in SUBSET States
  BY DEF Post
<1> SUFFICES ASSUME NEW Y \in SUBSET States, S \subseteq Y, Closed(Within(h, Z), Y)
             PROVE  Z \subseteq Y
  BY <1>1 DEF Fixpoint
<1>2. Closed(Within(h, X), Y)
  BY DEF Closed, Post, Within
<1>3. X \subseteq Y
  BY <1>2, FixpointLeast
<1>. QED
  BY <1>3 DEF Closed, Post, Within

-----------------------------------------------------------------------------
(* The inductive invariant: what each phase of the tool leaves to the next.*)

Unbounded == cmd.bmc < 0

(* Every type of property but ATOM, which the observer does not watch.     *)
NoAtom ==
  \A i \in DOMAIN cmd.props :
    cmd.props[i].type \in {"INVARIANT", "NEVER", "REACH", "BOUNDS"}

(* The command lines on which the observer does not leave an ATOM aside.   *)
AllWatched == Observing => NoAtom

Searching == pc \in {"fixpoint", "bmc", "from"}

Typed ==
  /\ next \in NextChoices /\ cmd \in Commands
  /\ pc \in {"fixpoint", "bmc", "from", "check", "done"}
  /\ pc = "fixpoint" => Unbounded
  /\ pc = "bmc" => ~Unbounded /\ depth \in 0 .. cmd.bmc
  /\ reachable \subseteq States /\ source \subseteq reachable
  /\ pindex \in Nat \ {0}
  /\ interrupted \in BOOLEAN

(* Until the checks start, the states found can be reached, and only the   *)
(* observer answers.                                                       *)
BeforeChecks ==
  Searching =>
    /\ source = cmd.init /\ props = cmd.props /\ calls = {}
    /\ ~Observing => verdicts = {}
    /\ pc = "fixpoint" => reachable \subseteq Fixpoint(Step, cmd.init)
    /\ pc = "bmc" => reachable = AtMost(cmd.init)[depth]
    /\ pc = "from" => reachable \subseteq Explorable

(* A property the observer does not watch any more is settled by the       *)
(* states found; it interrupts when all are.                               *)
Observed ==
  /\ watched \subseteq Watchable(cmd.props)
  /\ ~Observing => ~interrupted
  /\ Observing =>
       \A i \in Watchable(cmd.props) \ watched : Target(cmd.props[i]) \cap reachable # {}
  /\ interrupted => watched = {} /\ pc \notin {"fixpoint", "bmc"}

(* An exploration that was not interrupted finds all the states; and each  *)
(* is reached by states it found, which a trace goes through.              *)
Complete ==
  ~interrupted =>
    /\ pc = "from" => reachable = Explorable
    /\ pc # "fixpoint" => reachable \subseteq Fixpoint(Within(next, reachable), source)

(* -reachable-from without a state to start from.                          *)
Skipped ==
  /\ props = <<>> /\ verdicts = {} /\ bounds = {} /\ calls = {}
  /\ cmd.doFrom /\ cmd.from \cap Explorable = {}

(* What the properties are checked on.                                     *)
Searched ==
  /\ props = IF cmd.maxbound THEN Append(cmd.props, [type |-> "BOUNDS", pred |-> {}])
             ELSE cmd.props
  /\ reachable = Asked \/ (interrupted /\ reachable \subseteq Asked)
  /\ IF cmd.doFrom THEN cmd.from \cap Explorable # {} ELSE source = cmd.init

AfterChecks == ~Searching => Skipped \/ Searched

(* Traces are only asked for when nothing was interrupted.                 *)
TracesAsked ==
  \A c \in calls :
    ~interrupted /\ c.init = source /\ c.goal # {} /\ c.goal \subseteq reachable

(* What VerdictsAreCorrect says, of the properties of the command line.    *)
Answered ==
  AllWatched =>
    \A v \in verdicts :
      /\ v.prop \in DOMAIN cmd.props
      /\ v.holds = Answer(cmd.props[v.prop], Target(cmd.props[v.prop]) \cap Asked # {})

(* The bounds printed are those of the states found, and without -maxbound *)
(* an observer has nothing to do with them.                                *)
Bounded ==
  /\ Searching => bounds = {}
  /\ \A b \in bounds : b.max = Maximum(reachable)
  /\ bounds # {} /\ Observing => cmd.maxbound

SearchInv ==
  /\ Typed
  /\ BeforeChecks
  /\ Observed
  /\ Complete
  /\ AfterChecks
  /\ TracesAsked
  /\ Answered
  /\ Bounded

-----------------------------------------------------------------------------
(* It is kept by each phase.                                               *)

(* What the command line gives is typed.                                   *)
LEMMA CommandTyped ==
  ASSUME cmd \in Commands
  PROVE  /\ cmd.props \in Seq([type : PropTypes, pred : SUBSET States])
         /\ cmd.init \in SUBSET States /\ cmd.from \in SUBSET States
         /\ cmd.bmc \in Int /\ cmd.doFrom \in BOOLEAN /\ cmd.maxbound \in BOOLEAN
         /\ cmd.dowitness \in BOOLEAN /\ cmd.nbwitness \in Int
BY CommandsAreTyped DEF CommandTypes

(* The bounded search is a walk.                                           *)
LEMMA WalkUnfolds ==
  ASSUME cmd \in Commands
  PROVE  /\ AtMost(cmd.init)[0] = cmd.init
         /\ \A k \in Nat :
              AtMost(cmd.init)[k + 1] = AtMost(cmd.init)[k] \cup Post(Step, AtMost(cmd.init)[k])
         /\ \A k, m \in Nat :
              k <= m /\ AtMost(cmd.init)[k + 1] = AtMost(cmd.init)[k]
                => AtMost(cmd.init)[m] = AtMost(cmd.init)[k]
<1>1. AtMost(cmd.init) = ForwardWalk(next, cmd.inv, cmd.init)
  BY DEF AtMost, ForwardWalk
<1>2. \A X : Post(Step, X) = Post(next, X) \cap cmd.inv
  BY DEF Step, Within, Post
<1>3. cmd.init \in SUBSET States
  BY CommandTyped
<1>. QED
  BY <1>1, <1>2, <1>3, ForwardWalkUnfolds, ForwardWalkStops

(* The properties checked are those of the command line, but for the bound *)
(* that -maxbound appends.                                                 *)
LEMMA PropsKept ==
  ASSUME cmd \in Commands, Searched
  PROVE  /\ Len(props) \in Nat /\ DOMAIN props = 1 .. Len(props)
         /\ \A i \in DOMAIN cmd.props : i \in DOMAIN props /\ props[i] = cmd.props[i]
         /\ \A i \in DOMAIN props : props[i].type # "BOUNDS" => i \in DOMAIN cmd.props
<1> DEFINE P == [type : PropTypes, pred : SUBSET States]
           maximum == [type |-> "BOUNDS", pred |-> {}]
<1>1. cmd.props \in Seq(P) /\ maximum \in P
  <2>1. cmd.props \in Seq(P)
    BY CommandTyped
  <2>2. maximum \in P
    BY DEF PropTypes
  <2>. QED
    BY <2>1, <2>2
<1>2. Len(cmd.props) \in Nat /\ DOMAIN cmd.props = 1 .. Len(cmd.props)
  BY <1>1, LenProperties
<1>3. CASE props = cmd.props
  BY <1>2, <1>3
<1>4. CASE props = Append(cmd.props, maximum)
  <2>1. /\ Append(cmd.props, maximum) \in Seq(P)
        /\ Len(Append(cmd.props, maximum)) = Len(cmd.props) + 1
        /\ \A i \in 1 .. Len(cmd.props) : Append(cmd.props, maximum)[i] = cmd.props[i]
        /\ Append(cmd.props, maximum)[Len(cmd.props) + 1] = maximum
    BY <1>1, AppendProperties
  <2>2. DOMAIN props = 1 .. Len(cmd.props) + 1 /\ Len(props) = Len(cmd.props) + 1
    BY <1>4, <2>1, LenProperties
  <2>3. \A i \in DOMAIN cmd.props : i \in DOMAIN props /\ props[i] = cmd.props[i]
    BY <1>2, <1>4, <2>1, <2>2
  <2>4. ASSUME NEW i \in DOMAIN props, props[i].type # "BOUNDS"
        PROVE  i \in DOMAIN cmd.props
    <3>1. i # Len(cmd.props) + 1
      BY <1>4, <2>1, <2>4
    <3>. QED
      BY <1>2, <2>2, <3>1
  <2>. QED
    BY <1>2, <2>2, <2>3, <2>4
<1>. QED
  BY <1>3, <1>4 DEF Searched

LEMMA SearchInit == Init => SearchInv
<1> SUFFICES ASSUME Init PROVE SearchInv
  OBVIOUS
<1>. USE DEF Init
<1>0. cmd \in Commands /\ cmd.init \in SUBSET States /\ cmd.bmc \in Int
  BY CommandTyped
<1>1. Typed
  <2>1. /\ pc \in {"fixpoint", "bmc", "from", "check", "done"}
        /\ pc = "fixpoint" => Unbounded
        /\ pc = "bmc" => ~Unbounded /\ depth \in 0 .. cmd.bmc
    BY <1>0 DEF Unbounded
  <2>2. reachable \subseteq States /\ source \subseteq reachable
    BY <1>0
  <2>3. interrupted \in BOOLEAN
    BY Zenon
  <2>4. next \in NextChoices /\ cmd \in Commands /\ pindex \in Nat \ {0}
    OBVIOUS
  <2>. QED
    BY <2>1, <2>2, <2>3, <2>4, Zenon DEF Typed
<1>2. BeforeChecks
  <2>1. AtMost(cmd.init)[0] = cmd.init
    BY <1>0, WalkUnfolds
  <2>. QED
    BY <1>0, <2>1, FixpointContains DEF BeforeChecks, Searching
<1>3. Observed /\ Complete
  BY <1>0, FixpointContains DEF Observed, Complete, Typed
<1>4. AfterChecks /\ TracesAsked /\ Answered /\ Bounded
  BY DEF AfterChecks, Searching, TracesAsked, Answered, Bounded
<1>. QED
  BY <1>1, <1>2, <1>3, <1>4 DEF SearchInv

(* A pass of the fixpoint keeps the states reachable.                      *)
LEMMA PassReaches ==
  ASSUME SearchInv, NEW X \in SUBSET States, Pass(X)
  PROVE  /\ pc = "fixpoint" /\ reachable' = X /\ reachable \subseteq X
         /\ X \subseteq Fixpoint(Step, cmd.init)
         /\ ~interrupted
<1>1. /\ pc = "fixpoint" /\ reachable' = X /\ reachable \subseteq X
      /\ X \subseteq Fixpoint(Step, reachable)
  BY DEF Pass
<1>2. reachable \subseteq Fixpoint(Step, cmd.init)
  BY <1>1 DEF SearchInv, Typed, BeforeChecks, Searching
<1>. QED
  BY <1>1, <1>2, FixpointWithin DEF SearchInv, Observed

(* What depends on the model and on the command line only.                 *)
LEMMA CommandKept ==
  ASSUME UNCHANGED <<next, cmd>>
  PROVE  /\ Unbounded' = Unbounded /\ Observing' = Observing /\ NoAtom' = NoAtom
         /\ AllWatched' = AllWatched
         /\ Step' = Step /\ AtMost(cmd.init)' = AtMost(cmd.init)
         /\ Explorable' = Explorable /\ Asked' = Asked
<1>1. Unbounded' = Unbounded /\ Step' = Step
  BY DEF Unbounded, Step
<1>2. Observing' = Observing /\ NoAtom' = NoAtom
  BY DEF Observing, NoAtom
<1>3. AtMost(cmd.init)' = AtMost(cmd.init)
  BY DEF AtMost
<1>4. Explorable' = Explorable
  BY <1>1, <1>3 DEF Explorable
<1>5. Asked' = Asked
  BY <1>1, <1>4 DEF Asked
<1>. QED
  BY <1>1, <1>2, <1>3, <1>4, <1>5 DEF AllWatched

(* Passes that leave the observer's list as it is.                         *)
LEMMA PassKeeps ==
  ASSUME SearchInv, NEW X \in SUBSET States, Pass(X),
         UNCHANGED <<next, cmd, props, pc, watched, interrupted, source, pindex,
                     verdicts, bounds, calls>>
  PROVE  SearchInv'
<1>1. /\ pc = "fixpoint" /\ reachable' = X /\ reachable \subseteq X
      /\ X \subseteq Fixpoint(Step, cmd.init) /\ ~interrupted
  BY PassReaches
<1>2. Typed'
  BY <1>1 DEF SearchInv, Typed, Unbounded
<1>3. BeforeChecks'
  BY <1>1, CommandKept DEF SearchInv, BeforeChecks, Searching
<1>4. Observed'
  BY <1>1, CommandKept DEF SearchInv, Observed
<1>5. Complete' /\ AfterChecks'
  BY <1>1 DEF Complete, AfterChecks, Searching
<1>6. TracesAsked'
  BY <1>1 DEF SearchInv, BeforeChecks, Searching, TracesAsked
<1>7. Answered'
  BY CommandKept DEF SearchInv, Answered
<1>8. Bounded'
  BY <1>1 DEF SearchInv, Bounded, Searching
<1>. QED
  BY <1>2, <1>3, <1>4, <1>5, <1>6, <1>7, <1>8 DEF SearchInv

(* A test of the observer: a property settled is one whose answer on all   *)
(* the states is the one on those found.                                   *)
LEMMA SettleKeeps ==
  ASSUME SearchInv, Observing, NEW X \in SUBSET States, Pass(X), Settle(X),
         UNCHANGED <<next, cmd, props, source, pindex, bounds, calls>>,
         \/ pc' = pc /\ interrupted' = interrupted
         \/ pc' = "from" /\ interrupted' = TRUE /\ watched' = {}
  PROVE  SearchInv'
<1>1. /\ pc = "fixpoint" /\ reachable' = X /\ reachable \subseteq X
      /\ X \subseteq Fixpoint(Step, cmd.init) /\ ~interrupted
  BY PassReaches
<1>2. /\ props = cmd.props /\ source = cmd.init /\ calls = {}
      /\ Unbounded /\ cmd \in Commands
  BY <1>1 DEF SearchInv, Typed, BeforeChecks, Searching
<1>3. interrupted' \in BOOLEAN
  BY Zenon DEF SearchInv, Typed
<1>4. Typed'
  BY <1>1, <1>2, <1>3 DEF SearchInv, Typed, Unbounded
<1>5. BeforeChecks'
  BY <1>1, <1>2, CommandKept DEF SearchInv, BeforeChecks, Searching, Unbounded, Explorable
<1>6. Observed'
  BY <1>1, <1>2, CommandKept DEF SearchInv, Observed, Settle, Matched
<1>7. Complete'
  BY <1>1 DEF Complete
<1>8. AfterChecks' /\ TracesAsked'
  BY <1>1, <1>2 DEF AfterChecks, Searching, TracesAsked
<1>9. Answered'
  <2>1. ~cmd.doFrom /\ Asked = Fixpoint(Step, cmd.init)
    BY <1>2 DEF Observing, Unbounded, Asked, Explorable
  <2>2. \A i \in Matched(X) :
          /\ i \in DOMAIN cmd.props
          /\ Answer(props[i], TRUE)
               = Answer(cmd.props[i], Target(cmd.props[i]) \cap Asked # {})
    <3> SUFFICES ASSUME NEW i \in Matched(X)
                 PROVE  /\ i \in DOMAIN cmd.props
                        /\ Answer(props[i], TRUE)
                             = Answer(cmd.props[i], Target(cmd.props[i]) \cap Asked # {})
      OBVIOUS
    <3>1. i \in DOMAIN cmd.props /\ Target(props[i]) \cap X # {}
      BY DEF Matched, SearchInv, Observed, Watchable
    <3>2. (Target(cmd.props[i]) \cap Asked # {}) = TRUE
      BY <1>1, <1>2, <2>1, <3>1
    <3>. QED
      BY <1>2, <3>1, <3>2 DEF Answer
  <2>3. ASSUME AllWatched, NEW v \in verdicts'
        PROVE  /\ v.prop \in DOMAIN cmd.props
               /\ v.holds = Answer(cmd.props[v.prop],
                                   Target(cmd.props[v.prop]) \cap Asked # {})
    <3>1. CASE v \in verdicts
      BY <2>3, <3>1 DEF SearchInv, Answered
    <3>2. CASE v \notin verdicts
      <4>1. PICK i \in Matched(X) : v = [prop |-> i, holds |-> Answer(props[i], TRUE)]
        BY <3>2 DEF Settle
      <4>. QED
        BY <2>2, <4>1
    <3>. QED
      BY <3>1, <3>2
  <2>. QED
    BY <2>3, CommandKept DEF Answered
<1>10. Bounded'
  BY <1>1 DEF SearchInv, Bounded, Searching
<1>. QED
  BY <1>4, <1>5, <1>6, <1>7, <1>8, <1>9, <1>10 DEF SearchInv

LEMMA FixpointReachedKeeps ==
  ASSUME SearchInv, FixpointReached
  PROVE  SearchInv'
<1>1. /\ pc = "fixpoint" /\ pc' = "from" /\ Closed(Step, reachable)
      /\ UNCHANGED <<next, cmd, props, reachable, watched, interrupted, source,
                     pindex, verdicts, bounds, calls>>
  BY DEF FixpointReached, observer, printed
<1>2. Typed'
  BY <1>1 DEF SearchInv, Typed, Unbounded
<1>3. /\ source = cmd.init /\ source \subseteq reachable /\ reachable \in SUBSET States
      /\ reachable \subseteq Fixpoint(Step, cmd.init)
      /\ Explorable = Fixpoint(Step, cmd.init)
  BY <1>1 DEF SearchInv, Typed, BeforeChecks, Searching, Unbounded, Explorable
<1>4. reachable = Explorable
  BY <1>1, <1>3, ClosedIsFixpoint
<1>5. BeforeChecks'
  BY <1>1, <1>4, CommandKept DEF SearchInv, BeforeChecks, Searching
<1>6. Observed' /\ AfterChecks' /\ TracesAsked' /\ Answered' /\ Bounded'
  BY <1>1, CommandKept
     DEF SearchInv, Observed, AfterChecks, Searching, TracesAsked, Answered, Bounded
<1>7. Complete'
  <2>1. reachable \subseteq Fixpoint(Within(next, reachable), source)
    BY <1>1, <1>3, ClosedIsLinked DEF Step
  <2>. QED
    BY <1>1, <1>4, <2>1, CommandKept DEF Complete
<1>. QED
  BY <1>2, <1>5, <1>6, <1>7 DEF SearchInv

(* A step of the bounded search finds the states one step farther; when it *)
(* finds none, or at the bound, all of those asked for are found.          *)
LEMMA BmcKeeps ==
  ASSUME SearchInv, BmcStep \/ BmcEnd
  PROVE  SearchInv'
<1> DEFINE walk == AtMost(cmd.init)
<1>1. /\ pc = "bmc" /\ pc' \in {"bmc", "from"}
      /\ UNCHANGED <<next, cmd, props, watched, interrupted, source, pindex,
                     verdicts, bounds, calls>>
      /\ reachable' \in {reachable, reachable \cup Post(Step, reachable)}
  BY DEF BmcStep, BmcEnd, observer, printed
<1>2. /\ ~Unbounded /\ ~interrupted /\ reachable \in SUBSET States
      /\ cmd \in Commands /\ depth \in 0 .. cmd.bmc /\ reachable = walk[depth]
  BY <1>1 DEF SearchInv, Typed, BeforeChecks, Searching, Observed
<1>3. cmd.bmc \in Nat /\ depth \in Nat /\ Explorable = walk[cmd.bmc]
  BY <1>2, CommandTyped DEF Unbounded, Explorable
<1>4. /\ walk[depth + 1] = walk[depth] \cup Post(Step, walk[depth])
      /\ walk[depth + 1] = walk[depth] => walk[cmd.bmc] = walk[depth]
  BY <1>2, <1>3, WalkUnfolds
<1> HIDE DEF walk
<1>5. /\ pc' = "bmc" => depth' \in 0 .. cmd.bmc /\ reachable' = walk[depth']
      /\ pc' = "from" => reachable' = Explorable
  <2>1. CASE BmcStep
    <3>1. /\ depth < cmd.bmc /\ depth' = depth + 1
          /\ reachable' = reachable \cup Post(Step, reachable)
          /\ pc' = IF reachable' = reachable THEN "from" ELSE "bmc"
      BY <2>1 DEF BmcStep
    <3>2. reachable' = walk[depth + 1]
      BY <1>2, <1>4, <3>1
    <3>. QED
      BY <1>2, <1>3, <1>4, <3>1, <3>2
  <2>2. CASE BmcEnd
    BY <1>2, <1>3, <2>2 DEF BmcEnd
  <2>. QED
    BY <2>1, <2>2
<1>6. reachable \subseteq reachable' /\ reachable' \in SUBSET States
  BY <1>1, <1>2 DEF Post
<1>7. walk = AtMost(cmd.init) /\ walk = AtMost(cmd.init)'
  BY <1>1, CommandKept DEF walk
<1>8. Typed'
  BY <1>1, <1>2, <1>5, <1>6, CommandKept DEF SearchInv, Typed
<1>9. BeforeChecks'
  <2>1. /\ pc' = "bmc" => reachable' = AtMost(cmd.init)'[depth']
        /\ pc' = "from" => reachable' = Explorable'
    BY <1>1, <1>5, <1>7, CommandKept
  <2>2. pc' # "fixpoint"
    BY <1>1
  <2>. QED
    BY <1>1, <2>1, <2>2, CommandKept DEF SearchInv, BeforeChecks, Searching
<1>10. AfterChecks' /\ TracesAsked' /\ Answered' /\ Bounded'
  BY <1>1, CommandKept
     DEF SearchInv, BeforeChecks, AfterChecks, Searching, TracesAsked, Answered, Bounded
<1>11. Observed'
  BY <1>1, <1>2, <1>6, CommandKept DEF SearchInv, Observed
<1>12. Complete'
  <2>1. reachable \subseteq Fixpoint(Within(next, reachable), source)
    BY <1>1, <1>2 DEF SearchInv, Complete
  <2>2. reachable' \subseteq Fixpoint(Within(next, reachable'), source)
    BY <1>1, <1>2, <2>1, StepIsLinked DEF Step
  <2>3. pc' = "from" => reachable' = Explorable'
    BY <1>1, <1>5, CommandKept
  <2>. QED
    BY <1>1, <2>2, <2>3 DEF Complete
<1>. QED
  BY <1>8, <1>9, <1>10, <1>11, <1>12 DEF SearchInv

LEMMA StartChecksKeeps ==
  ASSUME SearchInv, StartChecks
  PROVE  SearchInv'
<1>1. /\ pc = "from" /\ pc' = "check" /\ ~cmd.doFrom /\ AddMaxBound
      /\ UNCHANGED <<next, cmd, reachable, watched, interrupted, source,
                     pindex, verdicts, bounds, calls>>
  BY DEF StartChecks, observer, printed
<1>2. /\ props = cmd.props /\ source = cmd.init /\ bounds = {}
      /\ (reachable \subseteq Explorable /\ interrupted) \/ reachable = Explorable
  BY <1>1 DEF SearchInv, BeforeChecks, Searching, Complete, Bounded
<1>3. Typed' /\ BeforeChecks'
  BY <1>1, CommandKept DEF SearchInv, Typed, BeforeChecks, Searching
<1>4. Observed' /\ Complete' /\ TracesAsked' /\ Answered' /\ Bounded'
  BY <1>1, <1>2, CommandKept DEF SearchInv, Observed, Complete, TracesAsked, Answered, Bounded
<1>5. Searched'
  <2>1. Asked = Explorable
    BY <1>1 DEF Asked
  <2>. QED
    BY <1>1, <1>2, <2>1, CommandKept DEF Searched, AddMaxBound
<1>. QED
  BY <1>3, <1>4, <1>5 DEF SearchInv, AfterChecks

LEMMA SelectSourceStays ==
  ASSUME SearchInv, SelectSource
  PROVE  SearchInv'
<1>1. /\ pc = "from" /\ pc' = "check" /\ cmd.doFrom /\ AddMaxBound
      /\ source' = cmd.from \cap reachable
      /\ reachable' = Fixpoint(Step, source')
      /\ source' # {}
      /\ UNCHANGED <<next, cmd, watched, interrupted, pindex, verdicts, bounds, calls>>
  BY DEF SelectSource, observer, printed
<1>2. /\ props = cmd.props /\ calls = {} /\ verdicts = {} /\ bounds = {}
      /\ ~Observing /\ ~interrupted /\ reachable \in SUBSET States
      /\ reachable = Explorable
  BY <1>1 DEF SearchInv, Typed, BeforeChecks, Searching, Observing, Observed, Bounded, Complete
<1>3. source' \subseteq reachable' /\ reachable' \in SUBSET States
  BY <1>1, <1>2, FixpointContains, FixpointTyped
<1>4. Typed' /\ BeforeChecks'
  BY <1>1, <1>3, CommandKept DEF SearchInv, Typed, BeforeChecks, Searching
<1>5. Observed' /\ TracesAsked' /\ Answered' /\ Bounded'
  BY <1>1, <1>2, CommandKept DEF SearchInv, Observed, TracesAsked, Answered, Bounded
<1>6. Complete'
  <2>1. Closed(Step, reachable')
    BY <1>1, FixpointClosed
  <2>2. reachable' \subseteq Fixpoint(Within(next, reachable'), source')
    BY <1>1, <1>3, <2>1, ClosedIsLinked DEF Step
  <2>. QED
    BY <1>1, <2>2 DEF Complete
<1>7. Searched'
  <2>1. reachable' = Asked
    BY <1>1, <1>2 DEF Asked
  <2>. QED
    BY <1>1, <1>2, <2>1, CommandKept DEF Searched, AddMaxBound
<1>. QED
  BY <1>4, <1>5, <1>6, <1>7 DEF SearchInv, AfterChecks

LEMMA NoSourceKeeps ==
  ASSUME SearchInv, NoSource
  PROVE  SearchInv'
<1>1. /\ pc = "from" /\ pc' = "check" /\ cmd.doFrom /\ cmd.from \cap reachable = {}
      /\ props' = <<>>
      /\ UNCHANGED <<next, cmd, reachable, watched, interrupted, source, pindex,
                     verdicts, bounds, calls>>
  BY DEF NoSource, observer, printed
<1>2. /\ calls = {} /\ verdicts = {} /\ bounds = {} /\ ~interrupted
      /\ reachable = Explorable
  BY <1>1 DEF SearchInv, BeforeChecks, Searching, Observing, Observed, Bounded, Complete
<1>3. Typed' /\ BeforeChecks'
  BY <1>1, CommandKept DEF SearchInv, Typed, BeforeChecks, Searching
<1>4. Observed' /\ Complete' /\ TracesAsked' /\ Answered' /\ Bounded'
  BY <1>1, <1>2, CommandKept DEF SearchInv, Observed, Complete, TracesAsked, Answered, Bounded
<1>5. Skipped'
  BY <1>1, <1>2, CommandKept DEF Skipped
<1>. QED
  BY <1>3, <1>4, <1>5 DEF SearchInv, AfterChecks

(* A property answered at the end: what it looks for is among the states   *)
(* found when it is among those asked for.                                 *)
LEMMA CheckPropertyKeeps ==
  ASSUME SearchInv, CheckProperty
  PROVE  SearchInv'
<1> DEFINE p == props[pindex]
           target == Target(p) \cap reachable
<1>1. /\ pc = "check" /\ pindex \in Nat \ {0} /\ pindex <= Len(props) /\ p.type # "BOUNDS"
      /\ verdicts' = verdicts \cup {[prop |-> pindex, holds |-> Answer(p, target # {})]}
      /\ calls' = IF target # {} /\ (cmd.dowitness \/ cmd.nbwitness > 0)
                  THEN calls \cup {[init |-> source, goal |-> target]}
                  ELSE calls
      /\ pindex' = pindex + 1
      /\ UNCHANGED <<next, cmd, props, pc, reachable, watched, interrupted, source, bounds>>
  BY DEF CheckProperty, SearchInv, Typed, observer
<1>2. Searched /\ cmd \in Commands
  <2>1. ~Skipped
    BY <1>1 DEF Skipped
  <2>. QED
    BY <1>1, <2>1 DEF SearchInv, Typed, AfterChecks, Searching
<1>3. pindex \in DOMAIN cmd.props /\ p = cmd.props[pindex]
  <2>1. pindex \in DOMAIN props
    BY <1>1, <1>2, PropsKept
  <2>. QED
    BY <1>1, <1>2, <2>1, PropsKept
<1>4. Typed' /\ BeforeChecks' /\ Observed'
  BY <1>1, CommandKept DEF SearchInv, Typed, BeforeChecks, Searching, Observed
<1>5. Complete' /\ AfterChecks'
  BY <1>1, <1>2, CommandKept DEF SearchInv, Complete, AfterChecks, Searching, Searched
<1>6. TracesAsked'
  <2>1. cmd.dowitness \/ cmd.nbwitness > 0 => ~interrupted
    BY <1>2, CommandTyped DEF SearchInv, Observed, Observing
  <2>. QED
    BY <1>1, <2>1 DEF SearchInv, TracesAsked
<1>7. Answered'
  <2>1. ASSUME AllWatched
        PROVE  (target # {}) = (Target(p) \cap Asked # {})
    <3>1. CASE reachable = Asked
      BY <3>1
    <3>2. CASE interrupted /\ reachable \subseteq Asked
      <4>1. pindex \in Watchable(cmd.props) \ watched
        BY <1>1, <1>3, <2>1, <3>2 DEF AllWatched, Watchable, NoAtom, SearchInv, Observed
      <4>2. target # {}
        BY <1>3, <3>2, <4>1 DEF SearchInv, Observed
      <4>. QED
        BY <3>2, <4>2
    <3>. QED
      BY <1>2, <2>1, <3>1, <3>2 DEF Searched
  <2>2. ASSUME AllWatched, NEW v \in verdicts'
        PROVE  /\ v.prop \in DOMAIN cmd.props
               /\ v.holds = Answer(cmd.props[v.prop],
                                   Target(cmd.props[v.prop]) \cap Asked # {})
    <3>1. CASE v \in verdicts
      BY <2>2, <3>1 DEF SearchInv, Answered
    <3>2. CASE v = [prop |-> pindex, holds |-> Answer(p, target # {})]
      BY <1>3, <2>1, <2>2, <3>2
    <3>. QED
      BY <1>1, <3>1, <3>2
  <2>. QED
    BY <1>1, <2>2, CommandKept DEF Answered
<1>8. Bounded'
  BY <1>1, CommandKept DEF SearchInv, Bounded, Searching, Maximum
<1>. QED
  BY <1>4, <1>5, <1>6, <1>7, <1>8 DEF SearchInv

(* A bound printed at the end is that of the states found.                 *)
LEMMA CheckBoundsKeeps ==
  ASSUME SearchInv, CheckBounds
  PROVE  SearchInv'
<1>1. /\ pc = "check" /\ pindex \in Nat \ {0} /\ pindex <= Len(props)
      /\ props[pindex].type = "BOUNDS" /\ pindex' = pindex + 1
      /\ bounds' = bounds \cup
           {[prop |-> pindex, min |-> Minimum(reachable), max |-> Maximum(reachable)]}
      /\ UNCHANGED <<next, cmd, props, pc, reachable, watched, interrupted, source,
                     verdicts, calls>>
  BY DEF CheckBounds, SearchInv, Typed, observer
<1>2. Searched /\ cmd \in Commands
  <2>1. ~Skipped
    BY <1>1 DEF Skipped
  <2>. QED
    BY <1>1, <2>1 DEF SearchInv, Typed, AfterChecks, Searching
<1>3. Typed' /\ BeforeChecks' /\ Observed' /\ Complete'
  BY <1>1, CommandKept DEF SearchInv, Typed, BeforeChecks, Searching, Observed, Complete
<1>4. AfterChecks' /\ TracesAsked' /\ Answered'
  BY <1>1, <1>2, CommandKept
     DEF SearchInv, AfterChecks, Searching, Searched, TracesAsked, Answered
<1>5. Observing => cmd.maxbound
  <2>1. pindex \in DOMAIN props
    BY <1>1, <1>2, PropsKept
  <2>. QED
    BY <1>1, <1>2, <2>1 DEF Searched, Observing
<1>6. Maximum(reachable)' = Maximum(reachable)
  BY <1>1 DEF Maximum
<1>7. Bounded'
  <2>1. \A b \in bounds' : b.max = Maximum(reachable)
    <3> DEFINE here == [prop |-> pindex, min |-> Minimum(reachable), max |-> Maximum(reachable)]
    <3>1. here.max = Maximum(reachable)
      OBVIOUS
    <3> HIDE DEF here
    <3>2. \A b \in bounds : b.max = Maximum(reachable)
      BY DEF SearchInv, Bounded
    <3>3. bounds' = bounds \cup {here}
      BY <1>1 DEF here
    <3>. QED
      BY <3>1, <3>2, <3>3
  <2>. QED
    BY <1>1, <1>5, <1>6, <2>1, CommandKept DEF Bounded, Searching
<1>. QED
  BY <1>3, <1>4, <1>7 DEF SearchInv

LEMMA SearchNext == SearchInv /\ [Next]_vars => SearchInv'
<1> SUFFICES ASSUME SearchInv, [Next]_vars PROVE SearchInv'
  OBVIOUS
<1>1. ASSUME PassUnobserved \/ PassCounted PROVE SearchInv'
  BY <1>1, PassKeeps DEF PassUnobserved, PassCounted, observer, printed
<1>2. ASSUME Interrupt PROVE SearchInv'
  <2>1. PICK X \in SUBSET States : Pass(X) /\ Settle(X) /\ watched' = {}
    BY <1>2 DEF Interrupt
  <2>. QED
    BY <1>2, <2>1, SettleKeeps DEF Interrupt
<1>3. ASSUME Resume PROVE SearchInv'
  BY <1>3, SettleKeeps DEF Resume
<1>4. ASSUME BmcStep \/ BmcEnd PROVE SearchInv'
  BY <1>4, BmcKeeps
<1>5. ASSUME Exit PROVE SearchInv'
  BY <1>5, CommandKept
     DEF Exit, observer, printed, SearchInv, Typed, BeforeChecks, Observed, Complete,
         AfterChecks, Searching, Skipped, Searched, TracesAsked, Answered, Bounded, Maximum
<1>6. ASSUME UNCHANGED vars PROVE SearchInv'
  BY <1>6, CommandKept
     DEF vars, observer, printed, SearchInv, Typed, BeforeChecks, Observed, Complete,
         AfterChecks, Searching, Skipped, Searched, TracesAsked, Answered, Bounded, Maximum
<1>. QED
  BY <1>1, <1>2, <1>3, <1>4, <1>5, <1>6, FixpointReachedKeeps, StartChecksKeeps,
     SelectSourceStays, NoSourceKeeps, CheckPropertyKeeps, CheckBoundsKeeps
     DEF Next, Exited

LEMMA SearchAlways == Spec => []SearchInv
BY SearchInit, SearchNext, PTL DEF Spec

(* A trace asked for exists: whatever the exploration, the goal is reached *)
(* from the source by the states given.                                    *)
THEOREM TraceGoalsAreReached == Spec => []TracesExist
<1>1. SearchInv => TracesExist
  <2> SUFFICES ASSUME SearchInv, NEW c \in calls
               PROVE  c.goal # {} /\ c.goal \cap Fixpoint(Within(next, reachable), c.init) # {}
    BY DEF TracesExist
  <2>1. /\ ~interrupted /\ c.init = source /\ c.goal # {} /\ c.goal \subseteq reachable
    BY DEF SearchInv, TracesAsked
  <2>2. pc # "fixpoint"
    BY DEF SearchInv, BeforeChecks, Searching
  <2>3. reachable \subseteq Fixpoint(Within(next, reachable), source)
    BY <2>1, <2>2 DEF SearchInv, Complete
  <2>. QED
    BY <2>1, <2>3
<1>. QED
  BY <1>1, SearchAlways, PTL

(* Unless the observer leaves an ATOM aside, an answer is the one that     *)
(* holds on all the states the command is about: with -bmc those within    *)
(* the bound, and even when the observer stopped the exploration before    *)
(* they were all found.                                                    *)
THEOREM EarlyAnswersAreCorrect ==
  Spec => [](AllWatched => VerdictsAreCorrect)
<1>1. SearchInv => (AllWatched => VerdictsAreCorrect)
  <2> SUFFICES ASSUME SearchInv, AllWatched, NEW v \in verdicts
               PROVE  v.holds = Answer(props[v.prop], Target(props[v.prop]) \cap Asked # {})
    BY DEF VerdictsAreCorrect
  <2>1. /\ v.prop \in DOMAIN cmd.props
        /\ v.holds = Answer(cmd.props[v.prop], Target(cmd.props[v.prop]) \cap Asked # {})
    BY DEF SearchInv, Answered
  <2>2. props[v.prop] = cmd.props[v.prop]
    <3>1. CASE Searching
      BY <3>1 DEF SearchInv, BeforeChecks
    <3>2. CASE ~Searching
      <4>1. Searched /\ cmd \in Commands
        BY <3>2 DEF SearchInv, Typed, AfterChecks, Skipped
      <4>. QED
        BY <2>1, <4>1, PropsKept
    <3>. QED
      BY <3>1, <3>2
  <2>. QED
    BY <2>1, <2>2
<1>. QED
  BY <1>1, SearchAlways, PTL

(* The properties are checked on all the states they are about, or on some *)
(* that settle all those the observer watches.                             *)
THEOREM PartialSearchSettles == Spec => []SearchedIsEnough
<1>1. SearchInv => SearchedIsEnough
  <2> SUFFICES ASSUME SearchInv, pc = "check",
                      cmd.doFrom => cmd.from \cap Explorable # {}
               PROVE  \/ reachable = Asked
                      \/ /\ reachable \subseteq Asked
                         /\ \A i \in Watchable(props) : Target(props[i]) \cap reachable # {}
    BY DEF SearchedIsEnough
  <2>1. Searched
    BY DEF SearchInv, AfterChecks, Searching, Skipped
  <2>2. ASSUME interrupted, NEW i \in Watchable(props)
        PROVE  Target(props[i]) \cap reachable # {}
    <3>1. i \in DOMAIN props /\ props[i].type # "BOUNDS" /\ cmd \in Commands
      BY DEF Watchable, SearchInv, Typed
    <3>2. i \in DOMAIN cmd.props /\ props[i] = cmd.props[i]
      BY <2>1, <3>1, PropsKept
    <3>3. i \in Watchable(cmd.props) \ watched
      BY <2>2, <3>2 DEF Watchable, SearchInv, Observed
    <3>. QED
      BY <2>2, <3>2, <3>3 DEF SearchInv, Observed
  <2>. QED
    BY <2>1, <2>2 DEF Searched
<1>. QED
  BY <1>1, SearchAlways, PTL

(* Some state of a set has the greatest value: no state of the set is above*)
(* one above which there are the least.                                    *)
LEMMA GreatestValue ==
  ASSUME NEW S \in SUBSET States, S # {}
  PROVE  \E s \in S : \A t \in S : Value[t] <= Value[s]
<1> DEFINE Above(s) == {t \in S : Value[t] > Value[s]}
           T == {Cardinality(Above(s)) : s \in S}
<1>1. ASSUME NEW s \in S
      PROVE  IsFiniteSet(Above(s)) /\ Cardinality(Above(s)) \in Nat
  <2>1. Above(s) \in SUBSET States
    OBVIOUS
  <2> HIDE DEF Above
  <2>. QED
    BY <2>1, StatesFinite, FS_Subset, FS_CardinalityType
<1>2. T \in SUBSET Nat /\ T # {}
  BY <1>1
<1>3. PICK s \in S : \A t \in S : Cardinality(Above(s)) <= Cardinality(Above(t))
  <2>1. PICK x \in T : \A y \in T : x <= y
    <3> HIDE DEF T
    <3>. QED
      BY <1>2, LeastNumber
  <2> HIDE DEF Above
  <2>2. PICK s \in S : x = Cardinality(Above(s))
    BY <2>1
  <2>3. \A t \in S : Cardinality(Above(t)) \in T
    OBVIOUS
  <2> HIDE DEF T
  <2>. QED
    BY <2>1, <2>2, <2>3
<1>4. ASSUME NEW t \in S, ~(Value[t] <= Value[s])
      PROVE  FALSE
  <2>1. /\ Above(t) \in SUBSET Above(s) /\ t \in Above(s) /\ t \notin Above(t)
    BY <1>4, ValueIsTyped
  <2>2. Cardinality(Above(t)) <= Cardinality(Above(s)) /\ Cardinality(Above(s)) # Cardinality(Above(t))
    <3>1. IsFiniteSet(Above(s))
      BY <1>1
    <3> HIDE DEF Above
    <3>. QED
      BY <2>1, <3>1, FS_Subset
  <2>3. Cardinality(Above(s)) <= Cardinality(Above(t))
    BY <1>3
  <2>4. Cardinality(Above(s)) \in Nat /\ Cardinality(Above(t)) \in Nat
    BY <1>1
  <2> HIDE DEF Above
  <2>. QED
    BY <2>2, <2>3, <2>4
<1>. QED
  BY <1>4

(* What MaxComputer computes, for values that are not negative.            *)
LEMMA MaximumIsGreatest ==
  ASSUME NEW S \in SUBSET States, S # {}, \A s \in S : Value[s] >= 0
  PROVE  /\ \E s \in S : Value[s] = Maximum(S)
         /\ \A s \in S : Value[s] <= Maximum(S)
<1> DEFINE V == {0} \cup {Value[s] : s \in S}
<1>1. PICK s \in S : \A t \in S : Value[t] <= Value[s]
  BY GreatestValue
<1>2. Value[s] \in V /\ \A v \in V : v \in Int /\ Value[s] >= v
  BY <1>1, ValueIsTyped
<1>3. Max(V) \in V /\ \A v \in V : Max(V) >= v
  <2> HIDE DEF V
  <2>. QED
    BY <1>2 DEF Max
<1>4. Max(V) = Value[s]
  <2>1. Max(V) \in Int /\ Value[s] \in Int /\ Max(V) >= Value[s] /\ Value[s] >= Max(V)
    <3> HIDE DEF V
    <3>. QED
      BY <1>2, <1>3
  <2>. QED
    BY <2>1
<1>5. Maximum(S) = Max(V)
  BY DEF Maximum
<1>. QED
  BY <1>1, <1>4, <1>5

(* The values are not negative, there is a state to start from, and no     *)
(* observer runs beside -maxbound.                                         *)
Bounding ==
  /\ \A s \in States : Value[s] >= 0
  /\ cmd.init # {}
  /\ ~(Observing /\ cmd.maxbound)

(* Then the maximum printed is that of the states the command is about.    *)
THEOREM MaximaAreExact == Spec => [](Bounding => BoundIsMaximum)
<1>1. SearchInv => (Bounding => BoundIsMaximum)
  <2> SUFFICES ASSUME SearchInv, Bounding, NEW b \in bounds
               PROVE  /\ \E s \in Asked : Value[s] = b.max
                      /\ \A s \in Asked : Value[s] <= b.max
    BY DEF BoundIsMaximum
  <2>1. b.max = Maximum(reachable) /\ ~Searching /\ ~Skipped /\ ~Observing
    BY DEF SearchInv, Bounded, Skipped, Bounding
  <2>2. Searched /\ ~interrupted /\ reachable \in SUBSET States /\ cmd \in Commands
    BY <2>1 DEF SearchInv, Typed, AfterChecks, Observed
  <2>3. reachable = Asked
    BY <2>2 DEF Searched
  <2>4. Asked # {}
    <3>1. CASE cmd.doFrom
      <4>1. cmd.from \cap Explorable # {}
        BY <2>2, <3>1 DEF Searched
      <4>2. Asked = Fixpoint(Step, cmd.from \cap Explorable)
        BY <3>1 DEF Asked
      <4>. QED
        BY <2>2, <4>1, <4>2, CommandTyped, FixpointContains
    <3>2. CASE ~cmd.doFrom
      <4>1. source = cmd.init /\ source \subseteq reachable
        BY <2>2, <3>2 DEF Searched, SearchInv, Typed
      <4>. QED
        BY <2>3, <4>1 DEF Bounding
    <3>. QED
      BY <3>1, <3>2
  <2>. QED
    BY <2>1, <2>2, <2>3, <2>4, MaximumIsGreatest DEF Bounding
<1>. QED
  BY <1>1, SearchAlways, PTL
=============================================================================
