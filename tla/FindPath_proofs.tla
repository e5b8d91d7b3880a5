--------------------------- MODULE FindPath_proofs ---------------------------
(***************************************************************************)
(* Proofs about ITSModel::findPath, for every system, envelope and call.   *)
(***************************************************************************)
EXTENDS FindPath, PredecessorRelation_proofs, SequenceTheorems,
        FiniteSetTheorems

(* Where the loops are, and how far the witness is with respect to the     *)
(* list of layers.                                                         *)
Positions ==
  /\ args \in Queries
  /\ pc # "done" => status = "none"
  /\ pc \in {"start", "back"} => witness = <<>>
  /\ pc = "back" => Len(rev) >= 1 /\ rev[1] = M3
  /\ pc = "forward" => cur \in 1 .. Len(rev) /\ Len(witness) = cur - 1
  /\ pc = "precise" =>
       args.precise /\ cur \in 1 .. Len(rev) /\ Len(witness) = Len(rev) - 1
  /\ status = "path" => Len(witness) = Len(rev) - 1

(* The states of a layer all have a successor by the transition chosen     *)
(* there in the next layer.                                                *)
Linked(i) == \A s \in rev[i] : \E t \in rev[i + 1] : <<s, t>> \in trans[witness[i]]

(* The backward pass has linked the layers it has left behind.             *)
LinkedBehind ==
  /\ pc = "precise" => \A i \in cur .. Len(witness) : Linked(i)
  /\ HasWitness /\ args.precise => \A i \in 1 .. Len(witness) : Linked(i)

(* From each layer that the forward pass has not left, one goes to the     *)
(* next one; the one it is in is not empty.                                *)
Ahead ==
  /\ pc = "back" =>
       \A i \in 1 .. Len(rev) - 1 : rev[i] \subseteq Pre(NextRel(trans), rev[i + 1])
  /\ pc = "forward" =>
       /\ rev[cur] # {}
       /\ \A i \in cur .. Len(rev) - 1 :
             rev[i] \subseteq Pre(NextRel(trans), rev[i + 1])

(* The search has seen the predecessors in the envelope of all the states  *)
(* it has seen, but those of the last layer.                               *)
SeenBehind ==
  pc = "back" =>
    /\ args.toreach \subseteq seen /\ M3 \subseteq seen
    /\ Pre(NextRel(trans), seen \ M3) \cap args.reach \subseteq seen
    /\ args.init \cap seen = {}

(* A layer of the backward search is a set of states.                      *)
LEMMA RevTransTyped ==
  ASSUME TypeOK
  PROVE  M2 \subseteq States
BY DEF M2, Post

(* The types of the arguments of the call, one by one.                     *)
LEMMA ArgumentsTyped ==
  ASSUME TypeOK
  PROVE  /\ trans \in Systems
         /\ args.init \in SUBSET States /\ args.toreach \in SUBSET States
         /\ args.reach \in SUBSET States /\ args.pot \in SUBSET States
         /\ args.precise \in BOOLEAN
BY DEF TypeOK, Arguments

(* Narrowing a layer, wherever the loop is, gives a list of layers.        *)
LEMMA Narrowing ==
  ASSUME NEW s \in Seq(SUBSET States), NEW i, NEW e, e \in SUBSET States
  PROVE  [s EXCEPT ![i] = e] \in Seq(SUBSET States)
<1>1. CASE i \in 1 .. Len(s)
  BY <1>1, ExceptSeq
<1>2. CASE i \notin 1 .. Len(s)
  <2>1. DOMAIN s = 1 .. Len(s) /\ s = [j \in 1 .. Len(s) |-> s[j]]
    OBVIOUS
  <2>2. [s EXCEPT ![i] = e] = [j \in 1 .. Len(s) |-> IF j = i THEN e ELSE s[j]]
    BY <2>1
  <2>3. [s EXCEPT ![i] = e] = s
    BY <1>2, <2>1, <2>2
  <2>. QED
    BY <2>3
<1>. QED
  BY <1>1, <1>2

(* Every step of findPath keeps its variables in their types.              *)
LEMMA TypeStep ==
  ASSUME TypeOK, [Next]_vars
  PROVE  TypeOK'
<1> USE ArgumentsTyped, RevTransTyped
<1>1. CASE AlreadyThere
  BY <1>1 DEF AlreadyThere, TypeOK, input, search
<1>2. CASE StartSearch
  BY <1>2 DEF StartSearch, TypeOK, input
<1>3. CASE SearchFails
  BY <1>3 DEF SearchFails, TypeOK, input, search
<1>4. CASE SearchBack
  BY <1>4 DEF SearchBack, TypeOK, input
<1>5. CASE SearchMeetsInit
  <2>1. <<M2 \cap args.init>> \in Seq(SUBSET States)
    OBVIOUS
  <2>. QED
    BY <1>5, <2>1 DEF SearchMeetsInit, TypeOK, input
<1>6. CASE StepForward
  <2>1. PICK n \in Matches(cur) :
           /\ witness' = Append(witness, n)
           /\ rev' = [rev EXCEPT ![cur + 1] = Post(trans[n], rev[cur]) \cap @]
    BY <1>6 DEF StepForward
  <2>2. n \in Names /\ Post(trans[n], rev[cur]) \subseteq States
    BY DEF Matches, Post
  <2>3. rev' \in Seq(SUBSET States)
    <3>1. Post(trans[n], rev[cur]) \cap rev[cur + 1] \in SUBSET States
      BY <2>2
    <3>. QED
      BY <2>1, <3>1, Narrowing DEF TypeOK
  <2>4. witness' \in Seq(Names) /\ cur' \in Nat
    BY <1>6, <2>1, <2>2 DEF TypeOK, StepForward
  <2>. QED
    BY <1>6, <2>3, <2>4 DEF StepForward, TypeOK, input, search
<1>7. CASE EndForward
  BY <1>7 DEF EndForward, TypeOK, input, search
<1>8. CASE StepPrecise
  <2> DEFINE back == Post(Invert(trans[witness[cur - 1]], args.pot), rev[cur])
  <2>1. rev' \in Seq(SUBSET States)
    <3>1. rev' = [rev EXCEPT ![cur - 1] = rev[cur - 1] \cap back]
      BY <1>8 DEF StepPrecise
    <3>2. rev[cur - 1] \cap back \in SUBSET States
      BY DEF Post
    <3>. QED
      BY <3>1, <3>2, Narrowing DEF TypeOK
  <2>2. cur' \in Nat
    BY <1>8 DEF StepPrecise, TypeOK
  <2>. QED
    BY <1>8, <2>1, <2>2 DEF StepPrecise, TypeOK, input, search
<1>9. CASE EndPrecise
  BY <1>9 DEF EndPrecise, TypeOK, input, search
<1>10. CASE Returned \/ UNCHANGED vars
  BY <1>10 DEF Returned, vars, TypeOK
<1>. QED
  BY <1>1, <1>2, <1>3, <1>4, <1>5, <1>6, <1>7, <1>8, <1>9, <1>10 DEF Next

(* Every call of findPath keeps its variables in their types.              *)
THEOREM TypeCorrect == Spec => []TypeOK
<1>1. Init => TypeOK
  BY SystemsAreTyped, QueriesAreTyped DEF Init, TypeOK
<1>2. TypeOK /\ [Next]_vars => TypeOK'
  BY TypeStep
<1>. QED
  BY <1>1, <1>2, PTL DEF Spec
-----------------------------------------------------------------------------
(* The inductive invariant: the types, where the loops are, what each of   *)
(* them has established of the layers behind it or ahead of it, and what   *)
(* the call may conclude when the search fails.                            *)
IInv ==
  /\ TypeOK /\ Positions
  /\ LinkedBehind /\ Ahead /\ SeenBehind
  /\ FailureIsJustified

(* The positions of the loops.                                             *)
LEMMA PositionsStep ==
  ASSUME IInv, [Next]_vars, TypeOK'
  PROVE  Positions'
<1> USE DEF IInv, TypeOK, Positions, input, search
<1>1. CASE AlreadyThere
  BY <1>1 DEF AlreadyThere
<1>2. CASE StartSearch
  BY <1>2 DEF StartSearch
<1>3. CASE SearchFails
  BY <1>3 DEF SearchFails
<1>4. CASE SearchBack
  BY <1>4, RevTransTyped DEF SearchBack
<1>5. CASE SearchMeetsInit
  <2>1. <<M2 \cap args.init>> \in Seq(SUBSET States)
    BY RevTransTyped
  <2>2. Len(rev') = 1 + Len(rev)
    BY <1>5, <2>1, ConcatProperties DEF SearchMeetsInit
  <2>. QED
    BY <1>5, <2>2 DEF SearchMeetsInit
<1>6. CASE StepForward
  <2>1. Len(rev') = Len(rev)
    BY <1>6 DEF StepForward
  <2>2. Len(witness') = Len(witness) + 1
    BY <1>6 DEF StepForward
  <2>. QED
    BY <1>6, <2>1, <2>2 DEF StepForward
<1>7. CASE EndForward
  BY <1>7 DEF EndForward
<1>8. CASE StepPrecise
  <2>1. Len(rev') = Len(rev)
    BY <1>8 DEF StepPrecise
  <2>. QED
    BY <1>8, <2>1 DEF StepPrecise
<1>9. CASE EndPrecise
  BY <1>9 DEF EndPrecise
<1>10. CASE Returned \/ UNCHANGED vars
  BY <1>10 DEF Returned, vars
<1>. QED
  BY <1>1, <1>2, <1>3, <1>4, <1>5, <1>6, <1>7, <1>8, <1>9, <1>10 DEF Next

(* The layers that the last pass has linked stay linked: it changes only   *)
(* the one before them, to states that have a successor in them.           *)
LEMMA LinkedStep ==
  ASSUME IInv, [Next]_vars
  PROVE  LinkedBehind'
<1> USE DEF IInv, Positions, LinkedBehind, HasWitness, input, search
<1>1. CASE AlreadyThere
  BY <1>1 DEF AlreadyThere
<1>2. CASE StartSearch \/ SearchFails \/ SearchBack \/ SearchMeetsInit
  BY <1>2 DEF StartSearch, SearchFails, SearchBack, SearchMeetsInit
<1>3. CASE StepForward
  BY <1>3 DEF StepForward
<1>4. CASE EndForward
  <2>1. Len(witness) = cur - 1 /\ cur \in Nat
    BY <1>4 DEF EndForward
  <2>2. \A i \in cur .. Len(witness) : FALSE
    BY <2>1
  <2>. QED
    BY <1>4, <2>2 DEF EndForward
<1>5. CASE StepPrecise
  <2>1. /\ pc = "precise" /\ pc' = "precise" /\ cur' = cur - 1
        /\ trans' = trans /\ args' = args /\ witness' = witness /\ status' = status
        /\ cur \in 2 .. Len(rev) /\ Len(witness) = Len(rev) - 1
    BY <1>5 DEF StepPrecise
  <2> DEFINE h == trans[witness[cur - 1]]
             kept == rev[cur - 1] \cap Post(Invert(h, args.pot), rev[cur])
  <2>2. rev' = [rev EXCEPT ![cur - 1] = kept]
    BY <1>5 DEF StepPrecise
  <2>3. rev \in Seq(SUBSET States) /\ kept \in SUBSET States
    BY DEF TypeOK, Post
  <2>4. cur - 1 \in 1 .. Len(rev)
    BY <2>1, <2>3
  <2>5. \A j \in 1 .. Len(rev) : rev'[j] = IF j = cur - 1 THEN kept ELSE rev[j]
    <3> HIDE DEF kept
    <3>. QED
      BY <2>2, <2>3, <2>4, ExceptSeq
  <2>6. \A s \in kept : \E t \in rev[cur] : <<s, t>> \in h
    <3>1. h \in Relations
      BY <2>1 DEF TypeOK, Systems
    <3>2. rev[cur] \in SUBSET States /\ args.pot \in SUBSET States
      BY <2>1, <2>3, ArgumentsTyped
    <3>3. kept \subseteq Pre(h, rev[cur])
      BY <3>1, <3>2, PostInvert
    <3>. QED
      BY <3>3 DEF Pre
  <2>7. ASSUME NEW i \in cur' .. Len(witness')
        PROVE  Linked(i)'
    <3>1. CASE i = cur - 1
      <4>1. rev'[i] = kept /\ rev'[i + 1] = rev[cur] /\ trans'[witness'[i]] = h
        BY <2>1, <2>3, <2>5, <3>1
      <4>. QED
        BY <2>6, <4>1 DEF Linked
    <3>2. CASE i # cur - 1
      <4>1. i \in cur .. Len(witness)
        BY <2>1, <2>7, <3>2
      <4>2. Linked(i)
        BY <2>1, <4>1
      <4>3. rev'[i] = rev[i] /\ rev'[i + 1] = rev[i + 1]
        BY <2>1, <2>3, <2>5, <4>1
      <4>. QED
        BY <2>1, <4>2, <4>3 DEF Linked
    <3>. QED
      BY <3>1, <3>2
  <2>8. ~HasWitness'
    BY <2>1
  <2>. QED
    BY <2>1, <2>7, <2>8
<1>6. CASE EndPrecise
  BY <1>6 DEF EndPrecise, Linked
<1>7. CASE Returned \/ UNCHANGED vars
  BY <1>7 DEF Returned, vars, Linked
<1>. QED
  BY <1>1, <1>2, <1>3, <1>4, <1>5, <1>6, <1>7 DEF Next

(* The layer found by a backward step leads to the one it was found from.  *)
LEMMA LayerLeadsOn ==
  ASSUME TypeOK
  PROVE  M2 \subseteq Pre(NextRel(trans), M3)
BY PredRelForward, ArgumentsTyped DEF M2, revTrans, TypeOK

(* Pushing it, or a part of it, in front of the layers.                    *)
LEMMA PushFront ==
  ASSUME TypeOK, Positions, Ahead, pc = "back",
         NEW S \in SUBSET M2
  PROVE  LET new == <<S>> \o rev
         IN  /\ new[1] = S
             /\ \A i \in 1 .. Len(new) - 1 :
                   new[i] \subseteq Pre(NextRel(trans), new[i + 1])
<1> DEFINE new == <<S>> \o rev
<1>1. rev \in Seq(SUBSET States) /\ Len(rev) >= 1 /\ rev[1] = M3
  BY DEF Positions, TypeOK
<1>2. <<S>> \in Seq(SUBSET States)
  BY RevTransTyped
<1>3. /\ Len(new) = Len(rev) + 1
      /\ new[1] = S
      /\ \A j \in 1 .. Len(rev) : new[j + 1] = rev[j]
  BY <1>1, <1>2
<1> HIDE DEF new
<1>4. ASSUME NEW i \in 1 .. Len(new) - 1
      PROVE  new[i] \subseteq Pre(NextRel(trans), new[i + 1])
  <2>1. CASE i = 1
    BY <1>1, <1>3, <2>1, LayerLeadsOn
  <2>2. CASE i # 1
    <3>1. i - 1 \in 1 .. Len(rev) - 1
      BY <1>1, <1>3, <2>2
    <3>2. rev[i - 1] \subseteq Pre(NextRel(trans), rev[(i - 1) + 1])
      BY <3>1 DEF Ahead
    <3>3. new[i] = rev[i - 1] /\ new[i + 1] = rev[i] /\ (i - 1) + 1 = i
      BY <1>1, <1>3, <3>1
    <3>. QED
      BY <3>2, <3>3
  <2>. QED
    BY <2>1, <2>2
<1>. QED
  BY <1>3, <1>4 DEF new

(* The states in front of the forward pass can all progress.               *)
LEMMA AheadStep ==
  ASSUME IInv, [Next]_vars
  PROVE  Ahead'
<1> USE DEF IInv, input, search
<1>1. CASE AlreadyThere \/ SearchFails
  BY <1>1 DEF AlreadyThere, SearchFails, Ahead
<1>2. CASE StartSearch
  BY <1>2 DEF StartSearch, Ahead
<1>3. CASE SearchBack
  <2>1. /\ pc = "back" /\ pc' = "back" /\ trans' = trans
        /\ rev' = <<M2>> \o rev
    BY <1>3 DEF SearchBack
  <2>. QED
    BY <2>1, PushFront, RevTransTyped DEF Ahead
<1>4. CASE SearchMeetsInit
  <2>1. /\ pc = "back" /\ pc' = "forward" /\ trans' = trans /\ cur' = 1
        /\ rev' = <<M2 \cap args.init>> \o rev /\ M2 \cap args.init # {}
    BY <1>4 DEF SearchMeetsInit
  <2>. QED
    BY <2>1, PushFront, RevTransTyped DEF Ahead
<1>5. CASE StepForward
  <2>1. PICK n \in Matches(cur) :
           rev' = [rev EXCEPT ![cur + 1] = Post(trans[n], rev[cur]) \cap @]
    BY <1>5 DEF StepForward
  <2> DEFINE next == Post(trans[n], rev[cur]) \cap rev[cur + 1]
  <2>2. /\ pc = "forward" /\ pc' = "forward" /\ trans' = trans
        /\ rev \in Seq(SUBSET States) /\ cur \in 1 .. Len(rev) - 1
        /\ cur' = cur + 1
    BY <1>5 DEF StepForward, Positions, TypeOK
  <2>3. next # {} /\ next \in SUBSET States
    BY <2>1 DEF Matches, Post
  <2>4. /\ Len(rev') = Len(rev)
        /\ \A j \in 1 .. Len(rev) : rev'[j] = IF j = cur + 1 THEN next ELSE rev[j]
    <3>1. rev' = [rev EXCEPT ![cur + 1] = next] /\ cur + 1 \in 1 .. Len(rev)
      BY <2>1, <2>2
    <3> HIDE DEF next
    <3>. QED
      BY <2>2, <2>3, <3>1, ExceptSeq
  <2>5. ASSUME NEW i \in cur + 1 .. Len(rev) - 1
        PROVE  rev'[i] \subseteq Pre(NextRel(trans), rev'[i + 1])
    <3>1. rev[i] \subseteq Pre(NextRel(trans), rev[i + 1])
      BY <2>2 DEF Ahead
    <3>2. i \in 1 .. Len(rev) /\ i + 1 \in 1 .. Len(rev) /\ i + 1 # cur + 1
      BY <2>2
    <3>3. rev'[i] \subseteq rev[i] /\ rev'[i + 1] = rev[i + 1]
      BY <2>4, <3>2
    <3>. QED
      BY <3>1, <3>3
  <2>6. rev'[cur'] # {}
    <3>1. cur' \in 1 .. Len(rev) /\ cur' = cur + 1
      BY <2>2
    <3>2. rev'[cur'] = next
      BY <2>4, <3>1
    <3>. QED
      BY <2>3, <3>2
  <2>. QED
    BY <2>2, <2>4, <2>5, <2>6 DEF Ahead
<1>6. CASE EndForward \/ StepPrecise \/ EndPrecise
  BY <1>6 DEF EndForward, StepPrecise, EndPrecise, Ahead
<1>7. CASE Returned \/ UNCHANGED vars
  BY <1>7 DEF Returned, vars, Ahead
<1>. QED
  BY <1>1, <1>2, <1>3, <1>4, <1>5, <1>6, <1>7 DEF Next

(* The predecessors of the last layer in the envelope are all found.       *)
LEMMA FrontierSeen ==
  ASSUME TypeOK, Positions
  PROVE  Pre(NextRel(trans), M3) \cap args.reach \subseteq seen \cup M2
<1>1. args.reach \subseteq args.pot
  BY QueriesAreTyped DEF Positions
<1>2. M3 \in SUBSET States
  BY DEF TypeOK
<1>3. Pre(NextRel(trans), M3) \cap args.reach \subseteq Post(revTrans, M3)
  BY <1>1, <1>2, PredRelComplete, ArgumentsTyped DEF revTrans
<1>. QED
  BY <1>3 DEF M2

(* The search stays behind a closed frontier, away from init.              *)
LEMMA SeenStep ==
  ASSUME IInv, [Next]_vars
  PROVE  SeenBehind'
<1> USE DEF IInv, input, search
<1>1. CASE StartSearch
  <2>1. Pre(NextRel(trans), args.toreach \ args.toreach) = {}
    BY DEF Pre
  <2>. QED
    BY <1>1, <2>1 DEF StartSearch, SeenBehind
<1>2. CASE SearchBack
  <2>1. /\ pc = "back" /\ trans' = trans /\ args' = args
        /\ seen' = seen \cup M2 /\ M3' = M2 /\ args.init \cap M2 = {}
    BY <1>2 DEF SearchBack
  <2>2. seen' \ M3' \subseteq (seen \ M3) \cup M3
    BY <2>1
  <2>3. Pre(NextRel(trans), seen' \ M3')
          \subseteq Pre(NextRel(trans), seen \ M3) \cup Pre(NextRel(trans), M3)
    BY <2>2 DEF Pre
  <2>4. Pre(NextRel(trans), M3) \cap args.reach \subseteq seen \cup M2
    BY FrontierSeen
  <2>. QED
    BY <2>1, <2>3, <2>4 DEF SeenBehind
<1>3. CASE AlreadyThere \/ SearchFails \/ SearchMeetsInit
  BY <1>3 DEF AlreadyThere, SearchFails, SearchMeetsInit, SeenBehind
<1>4. CASE StepForward \/ EndForward \/ StepPrecise \/ EndPrecise
  BY <1>4 DEF StepForward, EndForward, StepPrecise, EndPrecise, SeenBehind
<1>5. CASE Returned \/ UNCHANGED vars
  BY <1>5 DEF Returned, vars, SeenBehind
<1>. QED
  BY <1>1, <1>2, <1>3, <1>4, <1>5 DEF Next

(* When no new predecessor is found, what was seen is closed under the     *)
(* predecessors in the envelope: no state of init can reach the goal.      *)
LEMMA FailureStep ==
  ASSUME IInv, [Next]_vars
  PROVE  FailureIsJustified'
<1> USE DEF IInv, input, search
<1>1. CASE SearchFails
  <2>1. pc = "back" /\ M2 = {} /\ trans' = trans /\ args' = args
    BY <1>1 DEF SearchFails
  <2>2. Pre(NextRel(trans), seen)
          \subseteq Pre(NextRel(trans), seen \ M3) \cup Pre(NextRel(trans), M3)
    BY DEF Pre
  <2>3. Pre(NextRel(trans), M3) \cap args.reach \subseteq seen
    BY <2>1, FrontierSeen
  <2>4. Pre(NextRel(trans), seen) \cap args.reach \subseteq seen
    BY <2>1, <2>2, <2>3 DEF SeenBehind
  <2>5. CanReach \subseteq seen
    BY <2>1, <2>4 DEF CanReach, SeenBehind, TypeOK
  <2>6. args.init \cap CanReach = {}
    BY <2>1, <2>5 DEF SeenBehind
  <2>. QED
    BY <2>1, <2>6 DEF FailureIsJustified, CanReach
<1>2. CASE AlreadyThere \/ EndForward \/ EndPrecise
  BY <1>2 DEF AlreadyThere, EndForward, EndPrecise, FailureIsJustified, Positions, CanReach
<1>3. CASE StartSearch \/ SearchBack \/ SearchMeetsInit \/ StepForward \/ StepPrecise
  BY <1>3 DEF StartSearch, SearchBack, SearchMeetsInit, StepForward, StepPrecise,
              FailureIsJustified, Positions
<1>4. CASE Returned \/ UNCHANGED vars
  BY <1>4 DEF Returned, vars, FailureIsJustified, CanReach
<1>. QED
  BY <1>1, <1>2, <1>3, <1>4 DEF Next

(* The invariant holds at the call and every step keeps it.                *)
LEMMA Invariance == Spec => []IInv
<1>1. Init => IInv
  BY SystemsAreTyped, QueriesAreTyped
  DEF Init, IInv, TypeOK, Positions, LinkedBehind, HasWitness, Ahead, SeenBehind,
      FailureIsJustified
<1>2. IInv /\ [Next]_vars => IInv'
  <2> SUFFICES ASSUME IInv, [Next]_vars PROVE IInv'
    OBVIOUS
  <2>1. TypeOK'
    BY TypeStep DEF IInv
  <2>. QED
    BY <2>1, PositionsStep, LinkedStep, AheadStep, SeenStep, FailureStep DEF IInv
<1>. QED
  BY <1>1, <1>2, PTL DEF Spec

(* findPath gives up only when no path of the envelope leads from init to  *)
(* toreach, whatever the transitions getPredRel had to protect.            *)
THEOREM SearchIsComplete == Spec => []FailureIsJustified
BY Invariance, PTL DEF IInv

(* The forward pass always finds a transition to progress: the error the   *)
(* code reports about the extraction of the transition relation is dead.   *)
THEOREM ForwardProgress == Spec => []ForwardNeverStuck
<1>1. IInv => ForwardNeverStuck
  <2> SUFFICES ASSUME IInv, pc = "forward", cur < Len(rev)
               PROVE  Matches(cur) # {}
    BY DEF ForwardNeverStuck
  <2>1. rev[cur] # {} /\ rev[cur] \subseteq Pre(NextRel(trans), rev[cur + 1])
    BY DEF IInv, Positions, Ahead, TypeOK
  <2>2. PICK s \in rev[cur], t \in rev[cur + 1] : <<s, t>> \in NextRel(trans)
    BY <2>1 DEF Pre
  <2>3. PICK n \in Names : <<s, t>> \in trans[n]
    BY <2>2 DEF NextRel
  <2>4. t \in States
    BY <2>3 DEF IInv, TypeOK, Systems, Relations
  <2>. QED
    BY <2>2, <2>3, <2>4 DEF Matches, Post
<1>. QED
  BY <1>1, Invariance, PTL

(* A precise witness works on all of the initial states it is returned     *)
(* with: each state of a layer has a successor by the transition of the    *)
(* witness in the next layer, up to the last one.                          *)
THEOREM PreciseWitness == Spec => []PreciseLinks
<1>1. IInv => PreciseLinks
  BY DEF IInv, LinkedBehind, Linked, PreciseLinks
<1>. QED
  BY <1>1, Invariance, PTL

-----------------------------------------------------------------------------
(***************************************************************************)
(* Distances and witnesses.                                                *)
(***************************************************************************)

(* The sets of states near the goal.                                       *)
LEMMA NearUnfolds ==
  ASSUME TypeOK
  PROVE  /\ Near \in [Nat -> SUBSET States]
         /\ Near[0] = args.toreach
         /\ \A n \in Nat :
              Near[n + 1] = Near[n] \cup (Pre(NextRel(trans), Near[n]) \cap args.reach)
<1>1. Near = BackwardWalk(NextRel(trans), args.reach, args.toreach)
  BY DEF Near, BackwardWalk
<1>2. args.toreach \in SUBSET States
  BY ArgumentsTyped
<1>. QED
  BY <1>1, <1>2, BackwardWalkUnfolds

(* They grow.                                                              *)
LEMMA NearGrows ==
  ASSUME TypeOK, NEW m \in Nat, NEW n \in Nat, m <= n
  PROVE  Near[m] \subseteq Near[n]
<1>1. Near = BackwardWalk(NextRel(trans), args.reach, args.toreach)
  BY DEF Near, BackwardWalk
<1>2. args.toreach \in SUBSET States
  BY ArgumentsTyped
<1>. QED
  BY <1>1, <1>2, BackwardWalkGrows

(* They do not depend on the search.                                       *)
LEMMA NearKept ==
  ASSUME UNCHANGED input
  PROVE  Near' = Near
BY DEF input, Near

-----------------------------------------------------------------------------
(***************************************************************************)
(* The layers and what the passes do to them.                              *)
(***************************************************************************)
Playing == pc \in {"forward", "precise"} \/ HasWitness

(* The layers are not empty and end in the goal; all but the last are in   *)
(* the potential set, and all are in the envelope if the goal is.          *)
Layers ==
  pc = "back" \/ Playing =>
    /\ Len(rev) >= 1 /\ rev[Len(rev)] \subseteq args.toreach
    /\ \A i \in 1 .. Len(rev) : rev[i] # {}
    /\ \A i \in 1 .. Len(rev) - 1 : rev[i] \subseteq args.pot
    /\ args.toreach \subseteq args.reach => \A i \in 1 .. Len(rev) : rev[i] \subseteq args.reach

(* Each layer behind the forward pass is reached from the one before it by *)
(* the transition chosen, also when the last pass narrows it.              *)
Driven ==
  Playing =>
    /\ rev[1] \subseteq args.init
    /\ \A i \in 1 .. Len(witness) : rev[i + 1] \subseteq Post(trans[witness[i]], rev[i])

(* The search sees the states at each distance, and no other if the goal   *)
(* is in the envelope.                                                     *)
Distances ==
  /\ pc = "back" => Near[Len(rev) - 1] \subseteq seen
  /\ args.toreach \subseteq args.reach => LayersAreDistances

(* The states of init are as far from the goal as there are layers.        *)
Nearest ==
  Playing => \A n \in Nat : n + 1 < Len(rev) => args.init \cap Near[n] = {}

PathInv == Layers /\ Driven /\ Distances /\ Nearest

(* The layer found by a backward step.                                     *)
LEMMA NewLayer ==
  ASSUME TypeOK, Positions
  PROVE  /\ M2 \subseteq States /\ M2 \cap seen = {}
         /\ M2 \subseteq args.pot
         /\ M3 \subseteq args.reach => M2 \subseteq args.reach
<1>1. args.reach \subseteq args.pot
  BY QueriesAreTyped DEF Positions
<1>2. /\ trans \in Systems /\ args.reach \in SUBSET States /\ args.pot \in SUBSET States
      /\ M3 \in SUBSET States
  BY ArgumentsTyped DEF TypeOK
<1>3. Post(revTrans, M3) \subseteq args.pot
  BY <1>2, PredRelInPot DEF revTrans
<1>4. M3 \subseteq args.reach => Post(revTrans, M3) \subseteq args.reach
  BY <1>2, PredRelSound DEF revTrans
<1>. QED
  BY <1>3, <1>4, RevTransTyped DEF M2

(* Pushing a part of the layer found keeps what is said of the layers.     *)
LEMMA PushKeepsLayers ==
  ASSUME TypeOK, Positions, Layers, pc = "back",
         NEW S \in SUBSET M2, S # {},
         UNCHANGED input, rev' = <<S>> \o rev, TypeOK'
  PROVE  Layers'
<1>1. /\ rev \in Seq(SUBSET States) /\ S \in SUBSET States
      /\ Len(rev) >= 1 /\ Len(rev) \in Nat /\ rev[1] = M3 /\ args' = args
  BY RevTransTyped DEF TypeOK, Positions, input
<1>2. /\ rev[Len(rev)] \subseteq args.toreach
      /\ \A i \in 1 .. Len(rev) : rev[i] # {}
      /\ \A i \in 1 .. Len(rev) - 1 : rev[i] \subseteq args.pot
      /\ args.toreach \subseteq args.reach => \A i \in 1 .. Len(rev) : rev[i] \subseteq args.reach
  BY DEF Layers
<1>3. /\ Len(rev') = Len(rev) + 1 /\ rev'[1] = S
      /\ \A i \in 2 .. Len(rev) + 1 : rev'[i] = rev[i - 1] /\ i - 1 \in 1 .. Len(rev)
  BY <1>1, Pushed
<1>4. rev'[Len(rev')] \subseteq args.toreach
  BY <1>1, <1>2, <1>3
<1>5. ASSUME NEW i \in 1 .. Len(rev')
      PROVE  /\ rev'[i] # {}
             /\ i \in 1 .. Len(rev') - 1 => rev'[i] \subseteq args.pot
             /\ args.toreach \subseteq args.reach => rev'[i] \subseteq args.reach
  <2>1. CASE i = 1
    <3>1. 1 \in 1 .. Len(rev)
      BY <1>1
    <3>2. args.toreach \subseteq args.reach => M3 \subseteq args.reach
      BY <1>1, <1>2, <3>1
    <3>. QED
      BY <1>3, <2>1, <3>2, NewLayer
  <2>2. CASE i # 1
    <3>1. i \in 2 .. Len(rev) + 1
      BY <1>1, <1>3, <2>2
    <3>2. rev'[i] = rev[i - 1] /\ i - 1 \in 1 .. Len(rev)
      BY <1>3, <3>1
    <3>3. i \in 1 .. Len(rev') - 1 => i - 1 \in 1 .. Len(rev) - 1
      BY <1>1, <1>3, <3>2
    <3>. QED
      BY <1>2, <3>2, <3>3
  <2>. QED
    BY <2>1, <2>2
<1>. QED
  BY <1>1, <1>3, <1>4, <1>5 DEF Layers

(* So does narrowing one of them to some of its states.                    *)
LEMMA NarrowKeepsLayers ==
  ASSUME TypeOK, Positions, Layers, pc \in {"forward", "precise"},
         NEW k \in 1 .. Len(rev), NEW S \in SUBSET rev[k], S # {},
         UNCHANGED input, rev' = [rev EXCEPT ![k] = S]
  PROVE  Layers'
<1>1. /\ rev \in Seq(SUBSET States) /\ rev[k] \in SUBSET States /\ args' = args
      /\ Len(rev) \in Nat /\ Len(rev) >= 1
  BY DEF TypeOK, input
<1>2. /\ Len(rev') = Len(rev)
      /\ \A i \in 1 .. Len(rev) : rev'[i] = IF i = k THEN S ELSE rev[i]
  BY <1>1, ExceptSeq
<1>3. \A i \in 1 .. Len(rev) : rev'[i] \subseteq rev[i] /\ (rev[i] # {} => rev'[i] # {})
  BY <1>2
<1>4. Len(rev) \in 1 .. Len(rev) /\ \A i \in 1 .. Len(rev) - 1 : i \in 1 .. Len(rev)
  BY <1>1
<1>. QED
  BY <1>1, <1>2, <1>3, <1>4 DEF Layers, Playing

(* The last pass keeps, of a layer, the states from which the chosen       *)
(* transition leads to the next one: each state of that one is reached     *)
(* from one of them.                                                       *)
LEMMA PreciseNarrows ==
  ASSUME IInv, Layers, Driven, StepPrecise
  PROVE  LET k == cur - 1
         IN  \E S \in SUBSET rev[k] :
               /\ S # {} /\ k \in 1 .. Len(rev) - 1
               /\ rev' = [rev EXCEPT ![k] = S]
               /\ rev[k + 1] \subseteq Post(trans[witness[k]], S)
<1> DEFINE k == cur - 1
           h == trans[witness[k]]
           S == rev[k] \cap Post(Invert(h, args.pot), rev[k + 1])
<1>1. /\ pc = "precise" /\ cur \in 2 .. Len(rev) /\ Len(rev) \in Nat
      /\ Len(witness) = Len(rev) - 1
      /\ rev \in Seq(SUBSET States) /\ witness \in Seq(Names) /\ trans \in Systems
      /\ args.pot \in SUBSET States
  BY ArgumentsTyped DEF StepPrecise, IInv, Positions, TypeOK
<1>2. k \in 1 .. Len(rev) - 1 /\ k \in 1 .. Len(witness) /\ k + 1 = cur /\ k + 1 \in 1 .. Len(rev)
  BY <1>1
<1>3. rev' = [rev EXCEPT ![k] = S]
  BY <1>2 DEF StepPrecise
<1>4. h \in Relations /\ rev[k + 1] \in SUBSET States /\ rev[k] \in SUBSET States
  BY <1>1, <1>2 DEF Systems
<1>5. Post(Invert(h, args.pot), rev[k + 1]) = Pre(h, rev[k + 1]) \cap args.pot
  BY <1>1, <1>4, PostInvert
<1>6. rev[k + 1] \subseteq Post(h, rev[k]) /\ rev[k] \subseteq args.pot /\ rev[k + 1] # {}
  BY <1>1, <1>2 DEF Driven, Layers, Playing
<1>7. rev[k + 1] \subseteq Post(h, S)
  BY <1>4, <1>5, <1>6 DEF Pre, Post
<1>8. S # {}
  BY <1>6, <1>7 DEF Post
<1> HIDE DEF S
<1>9. S \in SUBSET rev[k]
  BY DEF S
<1>. QED
  BY <1>2, <1>3, <1>7, <1>8, <1>9

(* The forward pass keeps, of the next layer, what the chosen transition   *)
(* reaches.                                                                *)
LEMMA ForwardNarrows ==
  ASSUME IInv, StepForward
  PROVE  \E n \in Names :
           LET S == Post(trans[n], rev[cur]) \cap rev[cur + 1]
           IN  /\ S # {} /\ cur \in 1 .. Len(rev) - 1
               /\ rev' = [rev EXCEPT ![cur + 1] = S]
               /\ witness' = Append(witness, n)
<1>1. PICK n \in Matches(cur) :
        /\ witness' = Append(witness, n)
        /\ rev' = [rev EXCEPT ![cur + 1] = Post(trans[n], rev[cur]) \cap @]
  BY DEF StepForward
<1>2. n \in Names /\ Post(trans[n], rev[cur]) \cap rev[cur + 1] # {}
  BY DEF Matches
<1>3. cur \in 1 .. Len(rev) - 1
  BY DEF StepForward, IInv, Positions, TypeOK
<1>. QED
  BY <1>1, <1>2, <1>3

LEMMA LayersStep ==
  ASSUME IInv, PathInv, [Next]_vars, TypeOK'
  PROVE  Layers'
<1> USE DEF IInv, PathInv, input, search
<1>1. CASE AlreadyThere
  BY <1>1 DEF AlreadyThere, Layers, Playing, HasWitness
<1>2. CASE StartSearch
  <2>1. /\ rev' = <<args.toreach>> /\ args' = args /\ pc = "start" /\ args.toreach # {}
    BY <1>2, QueriesAreTyped DEF StartSearch, Positions
  <2>. QED
    BY <2>1 DEF Layers
<1>3. CASE SearchFails
  BY <1>3 DEF SearchFails, Layers, Playing, HasWitness
<1>4. CASE SearchBack
  BY <1>4, PushKeepsLayers DEF SearchBack
<1>5. CASE SearchMeetsInit
  <2>1. M2 \cap args.init \in SUBSET M2 /\ M2 \cap args.init # {}
    BY <1>5 DEF SearchMeetsInit
  <2>. QED
    BY <1>5, <2>1, PushKeepsLayers DEF SearchMeetsInit
<1>6. CASE StepForward
  <2>1. PICK n \in Names :
          LET S == Post(trans[n], rev[cur]) \cap rev[cur + 1]
          IN  S # {} /\ cur \in 1 .. Len(rev) - 1 /\ rev' = [rev EXCEPT ![cur + 1] = S]
    BY <1>6, ForwardNarrows
  <2>2. cur + 1 \in 1 .. Len(rev) /\ pc = "forward" /\ UNCHANGED input
    BY <1>6, <2>1 DEF StepForward, TypeOK
  <2>. QED
    BY <2>1, <2>2, NarrowKeepsLayers
<1>7. CASE EndForward
  BY <1>7 DEF EndForward, Layers, Playing, HasWitness
<1>8. CASE StepPrecise
  <2>1. PICK S \in SUBSET rev[cur - 1] :
          S # {} /\ cur - 1 \in 1 .. Len(rev) - 1 /\ rev' = [rev EXCEPT ![cur - 1] = S]
    BY <1>8, PreciseNarrows
  <2>2. cur - 1 \in 1 .. Len(rev) /\ pc = "precise" /\ UNCHANGED input
    BY <1>8, <2>1 DEF StepPrecise, TypeOK
  <2>. QED
    BY <2>1, <2>2, NarrowKeepsLayers
<1>9. CASE EndPrecise
  BY <1>9 DEF EndPrecise, Layers, Playing, HasWitness
<1>10. CASE Returned \/ UNCHANGED vars
  BY <1>10 DEF Returned, vars, Layers, Playing, HasWitness
<1>. QED
  BY <1>1, <1>2, <1>3, <1>4, <1>5, <1>6, <1>7, <1>8, <1>9, <1>10 DEF Next

LEMMA DrivenStep ==
  ASSUME IInv, PathInv, [Next]_vars, TypeOK'
  PROVE  Driven'
<1> USE DEF IInv, PathInv, input, search
<1>1. CASE AlreadyThere
  <2>1. Positions
    OBVIOUS
  <2>. QED
    BY <1>1 DEF AlreadyThere, Driven, Positions
<1>2. CASE StartSearch \/ SearchFails \/ SearchBack
  BY <1>2 DEF StartSearch, SearchFails, SearchBack, Driven, Playing, HasWitness, Positions
<1>3. CASE SearchMeetsInit
  <2>1. /\ rev' = <<M2 \cap args.init>> \o rev /\ args' = args /\ witness' = witness
        /\ witness = <<>> /\ rev \in Seq(SUBSET States)
        /\ M2 \cap args.init \in SUBSET States
    BY <1>3, RevTransTyped DEF SearchMeetsInit, Positions, TypeOK
  <2>2. rev'[1] = M2 \cap args.init
    BY <2>1, Pushed
  <2>. QED
    BY <2>1, <2>2 DEF Driven
<1>4. CASE StepForward
  <2>1. PICK n \in Names :
          LET S == Post(trans[n], rev[cur]) \cap rev[cur + 1]
          IN  /\ cur \in 1 .. Len(rev) - 1 /\ rev' = [rev EXCEPT ![cur + 1] = S]
              /\ witness' = Append(witness, n)
    BY <1>4, ForwardNarrows
  <2> DEFINE S == Post(trans[n], rev[cur]) \cap rev[cur + 1]
  <2>2. /\ pc = "forward" /\ args' = args /\ trans' = trans
        /\ rev \in Seq(SUBSET States) /\ witness \in Seq(Names)
        /\ Len(rev) \in Nat /\ cur \in Nat /\ Len(witness) = cur - 1
        /\ cur + 1 \in 1 .. Len(rev)
        /\ S \in SUBSET States
    BY <1>4, <2>1 DEF StepForward, Positions, TypeOK, Post
  <2>3. \A i \in 1 .. Len(rev) : rev'[i] = IF i = cur + 1 THEN S ELSE rev[i]
    <3>1. rev' = [rev EXCEPT ![cur + 1] = S]
      BY <2>1
    <3> HIDE DEF S
    <3>. QED
      BY <2>2, <3>1, ExceptSeq
  <2>4. /\ Len(witness') = cur /\ witness'[cur] = n
        /\ \A i \in 1 .. cur - 1 : witness'[i] = witness[i]
    BY <2>1, <2>2, AppendProperties
  <2>5. /\ rev[1] \subseteq args.init
        /\ \A i \in 1 .. cur - 1 : rev[i + 1] \subseteq Post(trans[witness[i]], rev[i])
    BY <2>2 DEF Driven, Playing
  <2>6. rev'[1] = rev[1]
    BY <2>1, <2>2, <2>3
  <2>7. ASSUME NEW i \in 1 .. cur
        PROVE  rev'[i + 1] \subseteq Post(trans[witness'[i]], rev'[i])
    <3>1. CASE i = cur
      <4>1. rev'[i + 1] = S /\ rev'[i] = rev[cur] /\ witness'[i] = n
        BY <2>1, <2>2, <2>3, <2>4, <3>1
      <4>. QED
        BY <4>1
    <3>2. CASE i # cur
      <4>1. i \in 1 .. cur - 1
        BY <2>2, <3>2
      <4>2. rev'[i + 1] = rev[i + 1] /\ rev'[i] = rev[i]
        BY <2>2, <2>3, <4>1
      <4>. QED
        BY <2>4, <2>5, <4>1, <4>2
    <3>. QED
      BY <3>1, <3>2
  <2>. QED
    BY <2>2, <2>4, <2>5, <2>6, <2>7 DEF Driven
<1>5. CASE EndForward
  BY <1>5 DEF EndForward, Driven, Playing, HasWitness
<1>6. CASE StepPrecise
  <2> DEFINE k == cur - 1
  <2>1. PICK S \in SUBSET rev[k] :
          /\ k \in 1 .. Len(rev) - 1 /\ rev' = [rev EXCEPT ![k] = S]
          /\ rev[k + 1] \subseteq Post(trans[witness[k]], S)
    BY <1>6, PreciseNarrows
  <2>2. /\ pc = "precise" /\ args' = args /\ trans' = trans /\ witness' = witness
        /\ rev \in Seq(SUBSET States) /\ Len(rev) \in Nat /\ Len(witness) = Len(rev) - 1
        /\ k \in 1 .. Len(rev) /\ rev[k] \in SUBSET States
    BY <1>6, <2>1 DEF StepPrecise, Positions, TypeOK
  <2> HIDE DEF k
  <2>3. \A i \in 1 .. Len(rev) : rev'[i] = IF i = k THEN S ELSE rev[i]
    BY <2>1, <2>2, ExceptSeq
  <2>4. /\ rev[1] \subseteq args.init
        /\ \A i \in 1 .. Len(witness) : rev[i + 1] \subseteq Post(trans[witness[i]], rev[i])
    BY <2>2 DEF Driven, Playing
  <2>5. rev'[1] \subseteq rev[1]
    BY <2>1, <2>2, <2>3
  <2>6. ASSUME NEW i \in 1 .. Len(witness)
        PROVE  rev'[i + 1] \subseteq Post(trans[witness[i]], rev'[i])
    <3>1. rev'[i] = (IF i = k THEN S ELSE rev[i]) /\ rev'[i + 1] = (IF i + 1 = k THEN S ELSE rev[i + 1])
      BY <2>2, <2>3
    <3>2. CASE i = k
      BY <2>1, <2>2, <3>1, <3>2
    <3>3. CASE i # k
      BY <2>1, <2>4, <3>1, <3>3
    <3>. QED
      BY <3>2, <3>3
  <2>. QED
    BY <2>2, <2>4, <2>5, <2>6 DEF Driven
<1>7. CASE EndPrecise
  BY <1>7 DEF EndPrecise, Driven, Playing, HasWitness
<1>8. CASE Returned \/ UNCHANGED vars
  BY <1>8 DEF Returned, vars, Driven, Playing, HasWitness
<1>. QED
  BY <1>1, <1>2, <1>3, <1>4, <1>5, <1>6, <1>7, <1>8 DEF Next

(* A backward step reaches the next distance.                              *)
LEMMA NextDistance ==
  ASSUME IInv, PathInv, pc = "back"
  PROVE  /\ Near[Len(rev)] \subseteq seen \cup M2
         /\ args.toreach \subseteq args.reach =>
              seen \cup M2 = Near[Len(rev)] /\ M2 = Near[Len(rev)] \ Near[Len(rev) - 1]
<1> DEFINE L == Len(rev) - 1
           back == Pre(NextRel(trans), M3) \cap args.reach
<1>1. /\ L \in Nat /\ L + 1 = Len(rev) /\ TypeOK /\ Positions
      /\ M3 \in SUBSET States /\ seen \in SUBSET States /\ rev[1] = M3 /\ 1 \in 1 .. Len(rev)
  BY DEF IInv, Positions, TypeOK
<1>2. Near[L + 1] = Near[L] \cup (Pre(NextRel(trans), Near[L]) \cap args.reach)
  BY <1>1, NearUnfolds
<1>3. /\ M3 \subseteq seen /\ Near[L] \subseteq seen
      /\ Pre(NextRel(trans), seen \ M3) \cap args.reach \subseteq seen
  BY <1>1 DEF IInv, SeenBehind, PathInv, Distances
<1>4. back \subseteq seen \cup M2
  BY <1>1, FrontierSeen
<1>5. Pre(NextRel(trans), seen) \cap args.reach \subseteq seen \cup M2
  BY <1>3, <1>4 DEF Pre
<1>6. Near[L + 1] \subseteq seen \cup M2
  BY <1>2, <1>3, <1>5 DEF Pre
<1>7. ASSUME args.toreach \subseteq args.reach
      PROVE  seen \cup M2 = Near[L + 1] /\ M2 = Near[L + 1] \ Near[L]
  <2>1. seen = Near[L]
    BY <1>1, <1>7 DEF PathInv, Distances, LayersAreDistances
  <2>2. M3 \subseteq args.reach
    BY <1>1, <1>7 DEF PathInv, Layers
  <2>3. Post(revTrans, M3) \subseteq back
    BY <1>1, <2>2, PredRelSound, ArgumentsTyped DEF revTrans
  <2>4. back \subseteq Pre(NextRel(trans), Near[L]) \cap args.reach
    BY <1>3, <2>1 DEF Pre
  <2>5. M2 \subseteq Near[L + 1] /\ M2 \cap seen = {}
    BY <1>2, <2>3, <2>4 DEF M2
  <2>. QED
    BY <1>2, <1>6, <2>1, <2>5
<1>. QED
  BY <1>1, <1>6, <1>7

LEMMA DistancesStep ==
  ASSUME IInv, PathInv, [Next]_vars, TypeOK'
  PROVE  Distances'
<1> USE DEF IInv, PathInv, input, search
<1>1. CASE StartSearch
  <2>1. /\ rev' = <<args.toreach>> /\ seen' = args.toreach /\ UNCHANGED input /\ pc' = "back"
    BY <1>1 DEF StartSearch
  <2>2. Near' = Near /\ Near[0] = args.toreach
    BY <2>1, NearKept, NearUnfolds
  <2>3. Len(rev') = 1 /\ Len(rev') - 1 = 0 /\ rev'[1] = args.toreach
    BY <2>1
  <2>. QED
    BY <2>1, <2>2, <2>3 DEF Distances, LayersAreDistances
<1>2. CASE SearchBack
  <2>1. /\ pc = "back" /\ pc' = "back" /\ UNCHANGED input /\ args' = args
        /\ seen' = seen \cup M2 /\ rev' = <<M2>> \o rev
        /\ rev \in Seq(SUBSET States) /\ M2 \in SUBSET States /\ Len(rev) >= 1
    BY <1>2, RevTransTyped DEF SearchBack, TypeOK, Positions
  <2>2. Near' = Near
    BY <2>1, NearKept
  <2>3. /\ Len(rev') = Len(rev) + 1 /\ Len(rev) \in Nat /\ rev'[1] = M2
        /\ \A i \in 2 .. Len(rev) + 1 : rev'[i] = rev[i - 1] /\ i - 1 \in 1 .. Len(rev)
    BY <2>1, Pushed
  <2>4. Len(rev') - 1 = Len(rev)
    BY <2>3
  <2>5. Near[Len(rev)] \subseteq seen'
    BY <2>1, NextDistance
  <2>6. ASSUME args.toreach \subseteq args.reach
        PROVE  LayersAreDistances'
    <3>1. seen' = Near[Len(rev)] /\ M2 = Near[Len(rev)] \ Near[Len(rev) - 1]
      BY <2>1, <2>6, NextDistance
    <3>2. ASSUME NEW i \in 1 .. Len(rev')
          PROVE  rev'[i] = IF i = Len(rev') THEN args.toreach
                           ELSE Near[Len(rev') - i] \ Near[Len(rev') - i - 1]
      <4>1. CASE i = 1
        <5>1. i # Len(rev') /\ Len(rev') - i = Len(rev)
          BY <2>1, <2>3, <4>1
        <5>. QED
          BY <2>3, <3>1, <4>1, <5>1
      <4>2. CASE i # 1
        <5>1. rev'[i] = rev[i - 1] /\ i - 1 \in 1 .. Len(rev)
          BY <2>3, <4>2
        <5>2. /\ i = Len(rev') <=> i - 1 = Len(rev)
              /\ Len(rev') - i = Len(rev) - (i - 1)
          BY <2>3, <5>1
        <5>3. rev[i - 1] = IF i - 1 = Len(rev) THEN args.toreach
                           ELSE Near[Len(rev) - (i - 1)] \ Near[Len(rev) - (i - 1) - 1]
          BY <2>1, <2>6, <5>1 DEF Distances, LayersAreDistances
        <5>. QED
          BY <5>1, <5>2, <5>3
      <4>. QED
        BY <4>1, <4>2
    <3>. QED
      BY <2>1, <2>2, <2>4, <3>1, <3>2 DEF LayersAreDistances
  <2>. QED
    BY <2>1, <2>2, <2>4, <2>5, <2>6 DEF Distances
<1>3. CASE AlreadyThere \/ SearchFails \/ SearchMeetsInit
  BY <1>3 DEF AlreadyThere, SearchFails, SearchMeetsInit, Distances, LayersAreDistances
<1>4. CASE StepForward \/ EndForward \/ StepPrecise \/ EndPrecise
  BY <1>4 DEF StepForward, EndForward, StepPrecise, EndPrecise, Distances, LayersAreDistances
<1>5. CASE Returned \/ UNCHANGED vars
  <2>1. UNCHANGED vars
    BY <1>5 DEF Returned
  <2>2. Near' = Near
    BY <2>1, NearKept DEF vars
  <2>. QED
    BY <2>1, <2>2 DEF vars, Distances, LayersAreDistances
<1>. QED
  BY <1>1, <1>2, <1>3, <1>4, <1>5 DEF Next

LEMMA NearestStep ==
  ASSUME IInv, PathInv, [Next]_vars, TypeOK'
  PROVE  Nearest'
<1> USE DEF IInv, PathInv, input, search
<1>1. CASE AlreadyThere
  <2>1. Len(rev') = 1
    BY <1>1 DEF AlreadyThere
  <2>. QED
    BY <2>1 DEF Nearest
<1>2. CASE StartSearch \/ SearchFails \/ SearchBack
  BY <1>2 DEF StartSearch, SearchFails, SearchBack, Nearest, Playing, HasWitness, Positions
<1>3. CASE SearchMeetsInit
  <2>1. /\ pc = "back" /\ UNCHANGED input /\ args' = args
        /\ rev' = <<M2 \cap args.init>> \o rev
        /\ rev \in Seq(SUBSET States) /\ M2 \cap args.init \in SUBSET States /\ Len(rev) >= 1
    BY <1>3, RevTransTyped DEF SearchMeetsInit, TypeOK, Positions
  <2>2. Near' = Near
    BY <2>1, NearKept
  <2>3. Len(rev') = Len(rev) + 1 /\ Len(rev) \in Nat
    BY <2>1, Pushed
  <2>4. Near[Len(rev) - 1] \subseteq seen /\ args.init \cap seen = {}
    BY <2>1 DEF Distances, SeenBehind
  <2>5. ASSUME NEW m \in Nat, m + 1 < Len(rev')
        PROVE  args.init \cap Near[m] = {}
    <3>1. m <= Len(rev) - 1 /\ Len(rev) - 1 \in Nat
      BY <2>1, <2>3, <2>5
    <3>2. Near[m] \subseteq Near[Len(rev) - 1]
      BY <3>1, NearGrows
    <3>. QED
      BY <2>4, <3>2
  <2>. QED
    BY <2>1, <2>2, <2>5 DEF Nearest
<1>4. CASE StepForward \/ StepPrecise
  <2>1. /\ pc \in {"forward", "precise"} /\ UNCHANGED input /\ args' = args
    BY <1>4 DEF StepForward, StepPrecise
  <2>2. Len(rev') = Len(rev)
    BY <1>4 DEF StepForward, StepPrecise, TypeOK
  <2>3. Near' = Near
    BY <2>1, NearKept
  <2>. QED
    BY <2>1, <2>2, <2>3 DEF Nearest, Playing
<1>5. CASE EndForward \/ EndPrecise
  <2>1. /\ pc \in {"forward", "precise"} /\ UNCHANGED input /\ args' = args /\ rev' = rev
    BY <1>5 DEF EndForward, EndPrecise
  <2>2. Near' = Near
    BY <2>1, NearKept
  <2>. QED
    BY <2>1, <2>2 DEF Nearest, Playing
<1>6. CASE Returned \/ UNCHANGED vars
  <2>1. UNCHANGED vars
    BY <1>6 DEF Returned
  <2>2. Near' = Near
    BY <2>1, NearKept DEF vars
  <2>. QED
    BY <2>1, <2>2 DEF vars, Nearest, Playing, HasWitness
<1>. QED
  BY <1>1, <1>2, <1>3, <1>4, <1>5, <1>6 DEF Next

(* All of it, for a call wherever it is made from.                         *)
CallInv == IInv /\ PathInv

(* It holds when findPath is called.                                       *)
LEMMA CallStart ==
  ASSUME Init
  PROVE  CallInv
<1>1. pc = "start" /\ status = "none"
  BY DEF Init
<1>2. PathInv
  BY <1>1 DEF PathInv, Layers, Driven, Distances, LayersAreDistances, Nearest, Playing,
              HasWitness
<1>3. IInv
  BY SystemsAreTyped, QueriesAreTyped
  DEF Init, IInv, TypeOK, Positions, LinkedBehind, HasWitness, Ahead, SeenBehind,
      FailureIsJustified
<1>. QED
  BY <1>2, <1>3 DEF CallInv

(* Each step of the call keeps it.                                         *)
LEMMA CallStep ==
  ASSUME CallInv, [Next]_vars
  PROVE  CallInv'
<1> USE DEF CallInv
<1>1. TypeOK'
  BY TypeStep DEF IInv
<1>2. IInv'
  BY <1>1, PositionsStep, LinkedStep, AheadStep, SeenStep, FailureStep DEF IInv
<1>3. Layers' /\ Driven' /\ Distances' /\ Nearest'
  BY <1>1, LayersStep, DrivenStep, DistancesStep, NearestStep
<1>. QED
  BY <1>2, <1>3 DEF PathInv

(* So it is an invariant of every call.                                    *)
LEMMA PathInvariance == Spec => [](IInv /\ PathInv)
<1>1. Init => CallInv
  BY CallStart
<1>2. CallInv /\ [Next]_vars => CallInv'
  BY CallStep
<1>3. CallInv <=> IInv /\ PathInv
  BY DEF CallInv
<1>. QED
  BY <1>1, <1>2, <1>3, PTL DEF Spec

(* When the goal is in the envelope, the layers of the backward search are *)
(* the sets of states at each distance, whatever getPredRel had to protect.*)
THEOREM BreadthFirst ==
  Spec => [](args.toreach \subseteq args.reach => LayersAreDistances)
<1>1. PathInv => (args.toreach \subseteq args.reach => LayersAreDistances)
  BY DEF PathInv, Distances
<1>. QED
  BY <1>1, PathInvariance, PTL

(* The last layer is reached by playing the witness from any set that      *)
(* holds the first one, by states that hold the layers.                    *)
LEMMA WitnessIsPlayed ==
  ASSUME IInv, PathInv, HasWitness, NEW S \in SUBSET States, rev[1] \subseteq S,
         NEW K, \A i \in 1 .. Len(rev) : rev[i] \subseteq K
  PROVE  /\ rev[Len(rev)] \subseteq Played(trans, witness, K, S)
         /\ rev[Len(rev)] \subseteq args.toreach /\ rev[Len(rev)] # {} /\ rev[1] # {}
<1>1. /\ Len(witness) = Len(rev) - 1 /\ Len(witness) \in Nat /\ Len(rev) \in Nat
      /\ Len(rev) >= 1
  BY DEF IInv, Positions, TypeOK, PathInv, Layers, Playing, HasWitness
<1>2. Len(witness) + 1 = Len(rev)
  BY <1>1
<1>3. \A i \in 1 .. Len(witness) : rev[i + 1] \subseteq Post(trans[witness[i]], rev[i]) \cap K
  <2>1. \A i \in 1 .. Len(witness) : i + 1 \in 1 .. Len(rev)
    BY <1>1
  <2>. QED
    BY <2>1 DEF PathInv, Driven, Playing
<1>4. rev[Len(witness) + 1] \subseteq Played(trans, witness, K, S)
  BY <1>1, <1>3, LayersArePlayed
<1>5. 1 \in 1 .. Len(rev) /\ Len(rev) \in 1 .. Len(rev)
  BY <1>1
<1>. QED
  BY <1>2, <1>4, <1>5 DEF PathInv, Layers, Playing

(* The witness leads from the initial states returned to the goal, the     *)
(* final states returned are reached by it, and no state of init is nearer *)
(* to the goal: also when the goal is outside the envelope.                *)
THEOREM ShortestWitness == Spec => []WitnessIsShortest
<1>1. IInv /\ PathInv => WitnessIsShortest
  <2> SUFFICES ASSUME IInv, PathInv, HasWitness
               PROVE  /\ rev[1] # {} /\ rev[1] \subseteq args.init
                      /\ Play(rev[1]) \cap args.toreach # {}
                      /\ rev[Len(rev)] # {}
                      /\ rev[Len(rev)] \subseteq args.toreach \cap Play(args.init)
                      /\ \A n \in 0 .. Depth :
                            args.init \cap Near[n] # {} => Len(witness) <= n
    BY DEF WitnessIsShortest
  <2>1. /\ rev[1] \subseteq args.init /\ args.init \in SUBSET States
        /\ rev \in Seq(SUBSET States) /\ witness \in Seq(Names)
        /\ Len(witness) = Len(rev) - 1
    BY ArgumentsTyped DEF IInv, Positions, TypeOK, PathInv, Driven, Playing, HasWitness
  <2>2. \A i \in 1 .. Len(rev) : rev[i] \subseteq States
    BY <2>1
  <2>3. /\ rev[Len(rev)] \subseteq Play(args.init)
        /\ rev[Len(rev)] \subseteq args.toreach /\ rev[Len(rev)] # {} /\ rev[1] # {}
    BY <2>1, <2>2, WitnessIsPlayed DEF Play
  <2>4. rev[Len(rev)] \subseteq Play(rev[1])
    <3>1. rev[1] \in SUBSET States
      BY <2>1
    <3>. QED
      BY <2>2, <3>1, WitnessIsPlayed DEF Play
  <2>5. ASSUME NEW n \in 0 .. Depth, args.init \cap Near[n] # {}
        PROVE  Len(witness) <= n
    <3>1. n \in Nat /\ Len(rev) \in Nat
      BY <2>1, FS_CardinalityType, StatesFinite DEF Depth
    <3>2. ~(n + 1 < Len(rev))
      BY <2>5, <3>1 DEF PathInv, Nearest, Playing
    <3>. QED
      BY <2>1, <3>1, <3>2
  <2>. QED
    BY <2>1, <2>3, <2>4, <2>5
<1>. QED
  BY <1>1, PathInvariance, PTL

(* When the goal is in the envelope, the witness is played by states of    *)
(* the envelope.                                                           *)
THEOREM WitnessInEnvelope == Spec => []StaysWithGoal
<1>1. IInv /\ PathInv => StaysWithGoal
  <2> SUFFICES ASSUME IInv, PathInv, HasWitness, args.toreach \subseteq args.reach
               PROVE  Played(trans, witness, args.reach, rev[1]) \cap args.toreach # {}
    BY DEF StaysWithGoal
  <2>1. \A i \in 1 .. Len(rev) : rev[i] \subseteq args.reach
    BY DEF PathInv, Layers, Playing
  <2>2. 1 \in 1 .. Len(rev) /\ rev[1] \in SUBSET States
    BY DEF PathInv, Layers, Playing, IInv, TypeOK
  <2>3. rev[Len(rev)] \subseteq Played(trans, witness, args.reach, rev[1])
    BY <2>1, <2>2, WitnessIsPlayed
  <2>4. rev[Len(rev)] \subseteq args.toreach /\ rev[Len(rev)] # {}
    BY <2>1, <2>2, WitnessIsPlayed
  <2>. QED
    BY <2>3, <2>4
<1>. QED
  BY <1>1, PathInvariance, PTL
=============================================================================
