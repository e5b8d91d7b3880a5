----------------------------- MODULE PrintPaths -----------------------------
(***************************************************************************)
(* ITSModel::printPaths: all the shortest witnesses, up to a limit.  After *)
(* a backward search for the layers, an odometer over the named            *)
(* transitions (iters, one cursor per layer) enumerates the sequences that *)
(* can be played from init through the layers; when it is exhausted the    *)
(* states of init that are farther from the goal are treated in the same   *)
(* way.  A step is one turn of a loop of the code.                         *)
(***************************************************************************)
EXTENDS PredecessorRelation, SequencesExt

CONSTANTS
  TransChoices,    \* the systems considered, a subset of Systems
  Queries          \* the calls considered: see Init

ASSUME SystemsAreTyped == TransChoices \subseteq Systems

(* What main gives: the initial states of the model, those the witnesses   *)
(* start from, whether after the gadget, the invariant, the states looked  *)
(* for, and how many witnesses may be printed.                             *)
ASSUME QueriesAreTyped ==
  Queries \subseteq
    [start : SUBSET States, origin : SUBSET States, gadget : BOOLEAN,
     inv : SUBSET States, goal : SUBSET States, limit : Nat]

VARIABLES
  trans,      \* the named transitions of the model
  args,       \* the query
  pc,         \* the loop being run
  init,       \* the initial states still to be treated
  goal,       \* toreach
  reach,      \* the states searched by the caller
  revTrans,   \* the backward relation of the search
  left,       \* how many witnesses may still be printed
  M3,         \* the last layer found
  seen,       \* all the states met by the backward search
  rev,        \* revcomponents, nearest to init first; init is not in it
  iters,      \* for each layer, the transition to try next
  cur,        \* the layer to enter
  Mi,         \* the states reached by the witness being built
  witness,    \* the transitions chosen so far
  out         \* the witnesses printed

search == <<revTrans, M3, seen, rev>>
play == <<iters, cur, Mi, witness>>
vars == <<trans, args, reach, pc, init, goal, left, search, play, out>>

(* fixpoint ((filter & next) + id): the filter is applied to successors.   *)
Filtered(from) ==
  Fixpoint({e \in NextRel(trans) : e[2] \in args.inv}, from)

(* The states its-reach searches: those reachable from the model's initial *)
(* states, or from the ones the "from" predicate selects among them, by    *)
(* states that satisfy the invariant given on the command line.            *)
Searched == Filtered(args.origin)

(* its-reach calls printPaths for the states it searches that satisfy a    *)
(* predicate, when there are some; when the model has an initialization    *)
(* gadget the witnesses start after it.                                    *)
Init ==
  /\ trans \in TransChoices
  /\ args \in Queries
  /\ args.origin \subseteq Filtered(args.start)
  /\ reach = Searched
  /\ goal = args.goal \cap reach /\ goal # {}
  /\ init = IF args.gadget THEN Post(NextRel(trans), args.origin) ELSE args.origin
  /\ left = args.limit
  /\ pc = "start"
  /\ revTrans = {} /\ M3 = {} /\ seen = {} /\ rev = <<>>
  /\ iters = <<>> /\ cur = 1 /\ Mi = {} /\ witness = <<>>
  /\ out = <<>>

(* The backward relation for an envelope; the potential states are all.    *)
Backward(envelope) == PredRel(trans, envelope, States)

AlreadyThere ==
  /\ pc = "start"
  /\ init \cap goal # {}
  /\ out' = Append(out, <<>>)
  /\ pc' = "done"
  /\ UNCHANGED <<trans, args, reach, init, goal, left, search, play>>

(* Both ends are restricted to the states that lie between them.           *)
RestrictEnds ==
  /\ pc = "start"
  /\ init \cap goal = {}
  /\ \E allReach \in {Fixpoint(NextRel(trans), init)} :
     \E rel \in {Backward(allReach)} :
        /\ goal' = goal \cap allReach
        /\ init' = init \cap Fixpoint(rel, goal')
  /\ revTrans' = Backward(reach)
  /\ M3' = goal' /\ seen' = goal' /\ rev' = <<goal'>>
  /\ pc' = "back"
  /\ UNCHANGED <<trans, args, reach, left, play, out>>

M2 == Post(revTrans, M3) \ seen

SearchFails ==
  /\ pc = "back" /\ M2 = {}
  /\ pc' = "done"
  /\ UNCHANGED <<trans, args, reach, init, goal, left, search, play, out>>

SearchBack ==
  /\ pc = "back" /\ M2 # {}
  /\ init \cap M2 = {}
  /\ seen' = seen \cup M2 /\ rev' = <<M2>> \o rev /\ M3' = M2
  /\ UNCHANGED <<trans, args, reach, pc, init, goal, left, revTrans, play, out>>

(* The next witness is built from init, with the cursors where they are.   *)
Restart(its) ==
  /\ iters' = its
  /\ cur' = 1 /\ Mi' = init /\ witness' = <<>>

SearchMeetsInit ==
  /\ pc = "back"
  /\ init \cap M2 # {}
  /\ seen' = seen \cup M2
  /\ pc' = "words"
  /\ Restart([i \in 1 .. Len(rev) |-> 1])
  /\ UNCHANGED <<trans, args, reach, init, goal, left, revTrans, M3, rev, out>>

(* The transitions not tried yet that enter the current layer.             *)
Matches == {n \in iters[cur] .. NbTrans : Post(trans[n], Mi) \cap rev[cur] # {}}

Building == pc = "words" /\ left > 0 /\ cur <= Len(rev)

(* Mutant: the layer that the transition enters is ignored.               *)
TryAnywhere ==
  /\ Building
  /\ \E n \in iters[cur] .. NbTrans :
       /\ Post(trans[n], Mi) # {}
       /\ \A m \in iters[cur] .. n - 1 : Post(trans[m], Mi) = {}
       /\ iters' = [iters EXCEPT ![cur] = n]
       /\ Mi' = Post(trans[n], Mi)
       /\ witness' = Append(witness, n)
  /\ cur' = cur + 1
  /\ UNCHANGED <<trans, args, reach, pc, init, goal, left, search, out>>

(* The first one that matches is taken.                                    *)
Try ==
  /\ Building
  /\ \E n \in Matches :
       /\ \A m \in Matches : n <= m
       /\ iters' = [iters EXCEPT ![cur] = n]
       /\ Mi' = Post(trans[n], Mi) \cap rev[cur]
       /\ witness' = Append(witness, n)
  /\ cur' = cur + 1
  /\ UNCHANGED <<trans, args, reach, pc, init, goal, left, search, out>>

(* A witness is complete; the last cursor moves.                           *)
Report ==
  /\ pc = "words" /\ left > 0 /\ cur > Len(rev)
  /\ out' = Append(out, witness)
  /\ left' = left - 1
  /\ Restart([iters EXCEPT ![Len(rev)] = @ + 1])
  /\ UNCHANGED <<trans, args, reach, pc, init, goal, search>>

(* Mutant: the cursors of the layers ahead are not reset.                  *)
BacktrackKeeps ==
  /\ Building /\ Matches = {} /\ cur > 1
  /\ Restart([iters EXCEPT ![cur - 1] = @ + 1])
  /\ UNCHANGED <<trans, args, reach, pc, init, goal, left, search, out>>

(* No transition left for a layer: the cursor of the layer behind moves,   *)
(* those of the layers ahead are reset.                                    *)
Backtrack ==
  /\ Building /\ Matches = {} /\ cur > 1
  /\ Restart([j \in 1 .. Len(rev) |->
                IF j >= cur THEN 1 ELSE IF j = cur - 1 THEN iters[j] + 1 ELSE iters[j]])
  /\ UNCHANGED <<trans, args, reach, pc, init, goal, left, search, out>>

(* The states of init that do not lead to the first layer.                 *)
remain == init \ Post(Backward(Fixpoint(NextRel(trans), args.start)), rev[1])

(* All the witnesses of this length are printed; the call is repeated for  *)
(* the remaining states.                                                   *)
Exhausted ==
  /\ Building /\ Matches = {} /\ cur = 1
  /\ IF remain # {} THEN init' = remain /\ pc' = "start"
     ELSE pc' = "done" /\ UNCHANGED init
  /\ UNCHANGED <<trans, args, reach, goal, left, search, play, out>>

(* Mutant: the call is repeated for the same states.                       *)
LimitReachedRepeats ==
  /\ pc = "words" /\ left = 0
  /\ pc' = "start"
  /\ UNCHANGED <<trans, args, reach, init, goal, left, search, play, out>>

LimitReached ==
  /\ pc = "words" /\ left = 0
  /\ pc' = "done"
  /\ UNCHANGED <<trans, args, reach, init, goal, left, search, play, out>>

Returned == pc = "done" /\ UNCHANGED vars

Next ==
  \/ AlreadyThere \/ RestrictEnds
  \/ SearchFails \/ SearchBack \/ SearchMeetsInit
  \/ Try \/ Report \/ Backtrack \/ Exhausted \/ LimitReached
  \/ Returned

Spec == Init /\ [][Next]_vars

(* Ordinary sequential code: a step that can be taken is.                  *)
FairSpec == Spec /\ WF_vars(Next)

-----------------------------------------------------------------------------
(* Reference definitions: the initial states of the call, and the states   *)
(* at most n steps from the goal by states of reach.                       *)
Sources == IF args.gadget THEN Post(NextRel(trans), args.origin) ELSE args.origin

Near[n \in Nat] ==
  IF n = 0 THEN args.goal \cap reach
  ELSE LET nearer == Near[n - 1]
       IN  nearer \cup (Pre(NextRel(trans), nearer) \cap reach)

Distance(s) == CHOOSE n \in 0 .. Cardinality(States) :
                 s \in Near[n] /\ (n > 0 => s \notin Near[n - 1])

Connected == {s \in Sources : s \in Near[Cardinality(States)]}

(* The shortest witnesses from s.                                          *)
Shortest(s) ==
  {w \in [1 .. Distance(s) -> Names] : Played(trans, w, reach, {s}) \cap args.goal # {}}

-----------------------------------------------------------------------------
TypeOK ==
  /\ init \subseteq Sources /\ goal \subseteq args.goal
  /\ left \in 0 .. args.limit
  /\ M3 \subseteq seen /\ seen \subseteq States /\ revTrans \in Relations
  /\ rev \in Seq(SUBSET States)
  /\ iters \in Seq(1 .. NbTrans + 1)
  /\ cur \in 1 .. Len(rev) + 1 \/ pc = "start"
  /\ witness \in Seq(Names) /\ out \in Seq(Seq(Names))

(* Each witness printed is a shortest one for some initial state, none is  *)
(* printed twice, also when the search is repeated for the remaining       *)
(* states, and they come in increasing order.                              *)
PrintedInOrder ==
  /\ \A i \in DOMAIN out : \E s \in Connected : out[i] \in Shortest(s)
  /\ \A i, j \in DOMAIN out : i < j =>
       \/ Len(out[i]) < Len(out[j])
       \/ /\ Len(out[i]) = Len(out[j])
          /\ \E k \in DOMAIN out[i] :
               /\ out[i][k] < out[j][k]
               /\ \A m \in 1 .. k - 1 : out[i][m] = out[j][m]

(* "All minimal witness paths have been reported": unless the limit is     *)
(* reached, the shortest witnesses from every initial state are printed,   *)
(* whatever their length.                                                  *)
AllArePrinted ==
  pc = "done" /\ left > 0 /\ Sources \cap goal = {} =>
    \A s \in Connected : \A w \in Shortest(s) : Contains(out, w)

Terminates == <>(pc = "done")
=============================================================================
