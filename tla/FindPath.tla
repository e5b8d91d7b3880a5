------------------------------ MODULE FindPath ------------------------------
(***************************************************************************)
(* ITSModel::findPath: a shortest witness from a set of states to another. *)
(* A backward breadth-first search from toreach builds the list            *)
(* revcomponents of the sets of states at distance 0, 1, 2, ... until a    *)
(* set meets init; a forward pass picks one named transition per layer and *)
(* narrows the layers to what it reaches; when a precise witness (or one   *)
(* with its states) is asked for, a last backward pass narrows the layers  *)
(* to the states from which the chosen transitions can all be played.      *)
(* Every step below is one turn of one of these three loops.               *)
(***************************************************************************)
EXTENDS PredecessorRelation

CONSTANTS
  TransChoices,    \* the systems considered, a subset of Systems
  Queries          \* the calls considered: the arguments of findPath

Arguments ==
  [init : SUBSET States, toreach : SUBSET States, reach : SUBSET States,
   pot : SUBSET States, precise : BOOLEAN]

ASSUME SystemsAreTyped == TransChoices \subseteq Systems

(* The envelope is part of the potential space computed from it, and it is *)
(* not empty: an empty one stands for the reachable states (ITSModel).     *)
(* The search starts from a set that is not empty.                         *)
ASSUME QueriesAreTyped ==
  /\ Queries \subseteq Arguments
  /\ \A q \in Queries : q.reach \subseteq q.pot /\ q.reach # {} /\ q.toreach # {}

VARIABLES
  trans,      \* the named transitions of the model
  args,       \* the arguments of the call
  pc,         \* the loop being run
  M3,         \* the last layer found
  seen,       \* all the states met by the backward search
  rev,        \* revcomponents, nearest to init first
  witness,    \* the names of the transitions chosen so far
  cur,        \* the position of a loop in revcomponents
  status      \* how the call returned

vars == <<trans, args, pc, M3, seen, rev, witness, cur, status>>
search == <<M3, seen>>
input == <<trans, args>>

revTrans == PredRel(trans, args.reach, args.pot)

Init ==
  /\ trans \in TransChoices
  /\ args \in Queries
  /\ pc = "start"
  /\ M3 = {} /\ seen = {}
  /\ rev = <<>> /\ witness = <<>> /\ cur = 0
  /\ status = "none"

(* init meets toreach: the minimal path has length 0.                      *)
AlreadyThere ==
  /\ pc = "start"
  /\ args.init \cap args.toreach # {}
  /\ rev' = <<args.init \cap args.toreach>>
  /\ status' = "path" /\ pc' = "done"
  /\ UNCHANGED <<input, search, witness, cur>>

StartSearch ==
  /\ pc = "start"
  /\ args.init \cap args.toreach = {}
  /\ M3' = args.toreach /\ seen' = args.toreach
  /\ rev' = <<args.toreach>>
  /\ pc' = "back"
  /\ UNCHANGED <<input, witness, cur, status>>

(* Mutant: the states of the previous steps are kept.                      *)
M2KeepsSeen == Post(revTrans, M3)

(* The next layer: states from the previous steps are removed, they cannot *)
(* be nearer to the goal.                                                  *)
M2 == Post(revTrans, M3) \ seen

(* "Unexpected empty predecessor set": an empty witness is returned.       *)
SearchFails ==
  /\ pc = "back" /\ M2 = {}
  /\ rev' = <<args.init, args.toreach>>
  /\ status' = "failed" /\ pc' = "done"
  /\ UNCHANGED <<input, search, witness, cur>>

(* Mutant: the layers are listed the wrong way round.                      *)
SearchPushBack ==
  /\ pc = "back" /\ M2 # {}
  /\ args.init \cap M2 = {}
  /\ seen' = seen \cup M2
  /\ rev' = Append(rev, M2)
  /\ M3' = M2
  /\ UNCHANGED <<input, pc, witness, cur, status>>

(* init is not reached yet.  The code also tests here whether M2 = M3,     *)
(* which cannot be: M2 does not meet seen, which contains M3.              *)
SearchBack ==
  /\ pc = "back" /\ M2 # {}
  /\ args.init \cap M2 = {}
  /\ seen' = seen \cup M2
  /\ rev' = <<M2>> \o rev
  /\ M3' = M2
  /\ UNCHANGED <<input, pc, witness, cur, status>>

(* Mutant: the first layer is not restricted to init.                      *)
SearchMeetsWhole ==
  /\ pc = "back"
  /\ args.init \cap M2 # {}
  /\ seen' = seen \cup M2
  /\ rev' = <<M2>> \o rev
  /\ pc' = "forward" /\ cur' = 1
  /\ UNCHANGED <<input, M3, witness, status>>

SearchMeetsInit ==
  /\ pc = "back"
  /\ args.init \cap M2 # {}
  /\ seen' = seen \cup M2
  /\ rev' = <<M2 \cap args.init>> \o rev
  /\ pc' = "forward" /\ cur' = 1
  /\ UNCHANGED <<input, M3, witness, status>>

(* The transitions that lead from a layer to the next one.                 *)
Matches(i) == {n \in Names : Post(trans[n], rev[i]) \cap rev[i + 1] # {}}

(* The first transition of the list that matches is taken; when none does  *)
(* the code prints an error, which ForwardNeverStuck shows it never does.  *)
StepForward ==
  /\ pc = "forward" /\ cur < Len(rev)
  /\ \E n \in Matches(cur) :
        /\ \A m \in Matches(cur) : n <= m
        /\ witness' = Append(witness, n)
        /\ rev' = [rev EXCEPT ![cur + 1] = Post(trans[n], rev[cur]) \cap @]
  /\ cur' = cur + 1
  /\ UNCHANGED <<input, search, pc, status>>

EndForward ==
  /\ pc = "forward" /\ cur = Len(rev)
  /\ IF args.precise
     THEN pc' = "precise" /\ UNCHANGED status
     ELSE pc' = "done" /\ status' = "path"
  /\ UNCHANGED <<input, search, rev, witness, cur>>

(* Mutant: the loop does not advance.                                      *)
StepPreciseStays ==
  /\ pc = "precise" /\ cur > 1
  /\ rev' = [rev EXCEPT ![cur - 1] =
               @ \cap Post(Invert(trans[witness[cur - 1]], args.pot), rev[cur])]
  /\ UNCHANGED <<input, search, pc, witness, cur, status>>

(* One more pass, executing the witness backward; the inverse of the       *)
(* transition is computed on the whole envelope.                           *)
StepPrecise ==
  /\ pc = "precise" /\ cur > 1
  /\ rev' = [rev EXCEPT ![cur - 1] =
               @ \cap Post(Invert(trans[witness[cur - 1]], args.pot), rev[cur])]
  /\ cur' = cur - 1
  /\ UNCHANGED <<input, search, pc, witness, status>>

(* Mutant: the pass may stop before the first layer.                       *)
EndPreciseEarly ==
  /\ pc = "precise" /\ cur <= 2
  /\ pc' = "done" /\ status' = "path"
  /\ UNCHANGED <<input, search, rev, witness, cur>>

EndPrecise ==
  /\ pc = "precise" /\ cur = 1
  /\ pc' = "done" /\ status' = "path"
  /\ UNCHANGED <<input, search, rev, witness, cur>>

Returned == pc = "done" /\ UNCHANGED vars

Next ==
  \/ AlreadyThere \/ StartSearch
  \/ SearchFails \/ SearchBack \/ SearchMeetsInit
  \/ StepForward \/ EndForward
  \/ StepPrecise \/ EndPrecise
  \/ Returned

Spec == Init /\ [][Next]_vars

(* The loops are ordinary sequential code: a step that can be taken is.    *)
FairSpec == Spec /\ WF_vars(Next)

-----------------------------------------------------------------------------
(* Reference definitions, on the forward relation only.                    *)

(* The states from which toreach can be reached in at most n steps, all    *)
(* the states of the path but the last one being in the envelope.          *)
Near[n \in Nat] ==
  IF n = 0 THEN args.toreach
  ELSE Near[n - 1] \cup (Pre(NextRel(trans), Near[n - 1]) \cap args.reach)

Depth == Cardinality(States)

(* The states reached from S by playing the witness.                       *)
Play(S) == Played(trans, witness, States, S)

HasWitness == status = "path"

-----------------------------------------------------------------------------
TypeOK ==
  /\ trans \in Systems
  /\ args \in Arguments
  /\ pc \in {"start", "back", "forward", "precise", "done"}
  /\ M3 \subseteq States /\ seen \subseteq States
  /\ rev \in Seq(SUBSET States)
  /\ witness \in Seq(Names)
  /\ cur \in Nat
  /\ status \in {"none", "path", "failed"}

(* During the backward search the layers are exactly the sets of states at *)
(* distance 0, 1, 2, ... of toreach, although the inverse relation may add *)
(* states that are not in the envelope (getPredRel protects it from them). *)
LayersAreDistances ==
  pc = "back" =>
    /\ seen = Near[Len(rev) - 1]
    /\ \A i \in 1 .. Len(rev) :
          rev[i] = IF i = Len(rev) THEN args.toreach
                   ELSE Near[Len(rev) - i] \ Near[Len(rev) - i - 1]

(* The forward pass always finds a transition to progress: the case in     *)
(* which the code reports that something is wrong with the extraction of   *)
(* the transition relation does not happen.                                *)
ForwardNeverStuck ==
  pc = "forward" /\ cur < Len(rev) => Matches(cur) # {}

(* "Returns a shortest witness trace ... leading from a state of           *)
(* path.init() (subset of init) to a state in path.final() (a subset of    *)
(* final)": it can be played from the returned initial states to toreach,  *)
(* the returned final states are in toreach and are reached by it, and no  *)
(* state of init is nearer to toreach.                                     *)
WitnessIsShortest ==
  HasWitness =>
    /\ rev[1] # {} /\ rev[1] \subseteq args.init
    /\ Play(rev[1]) \cap args.toreach # {}
    /\ rev[Len(rev)] # {}
    /\ rev[Len(rev)] \subseteq args.toreach \cap Play(args.init)
    /\ \A n \in 0 .. Depth :
          args.init \cap Near[n] # {} => Len(witness) <= n

(* "Precise ensures the path actually works on ALL of its init states":    *)
(* each state kept in a layer has a successor by the chosen transition in  *)
(* the next one, and the last layer is in toreach.                         *)
PreciseLinks ==
  HasWitness /\ args.precise =>
    \A i \in 1 .. Len(witness) :
      \A s \in rev[i] : \E t \in rev[i + 1] : <<s, t>> \in trans[witness[i]]

(* The states from which toreach can be reached inside the envelope: those *)
(* that are in every set that contains toreach and the predecessors in the *)
(* envelope of its own states.                                             *)
CanReach ==
  {s \in States :
     \A X \in SUBSET States :
        (args.toreach \subseteq X /\ Pre(NextRel(trans), X) \cap args.reach \subseteq X)
          => s \in X}

(* The search gives up only if no path of the envelope leads from init to  *)
(* toreach.                                                                *)
FailureIsJustified == status = "failed" => args.init \cap CanReach = {}

(* "the transition relation is constrained to stay within reach"           *)
(* (getPredRel): the witness can be played through states of the envelope  *)
(* the caller gave, the last one excepted.                                 *)
StaysInReach ==
  LET play[n \in Nat] ==
        IF n = 0 THEN rev[1] \cap args.reach
        ELSE Post(trans[witness[n]], play[n - 1])
               \cap (IF n = Len(witness) THEN args.toreach ELSE args.reach)
  IN  HasWitness => play[Len(witness)] # {}

(* When the goal is in the envelope, so is all of the path.                *)
StaysWithGoal ==
  HasWitness /\ args.toreach \subseteq args.reach =>
    Played(trans, witness, args.reach, rev[1]) \cap args.toreach # {}

(* The search ends, with a witness or without.                             *)
Terminates == <>(pc = "done")
=============================================================================
