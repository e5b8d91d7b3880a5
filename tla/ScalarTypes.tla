----------------------------- MODULE ScalarTypes -----------------------------
(***************************************************************************)
(* A scalar or circular set as a type (its/scalar/ScalarSetType.hh): all   *)
(* questions are passed to the composite type that ScalarSet builds, read  *)
(* with the meaning of Composite.  They are compared with the flat product *)
(* of the instances, which is what the set is defined to be.               *)
(***************************************************************************)
EXTENDS ScalarSet, Composite

CONSTANTS
  Base,          \* the contained type
  CompareUpTo    \* the largest size for which relations are compared

ASSUME BaseIsTyped ==
  /\ DOMAIN Base.succs = BaseLabels
  /\ Base.locals \subseteq Base.states \X Base.states
  /\ \A l \in BaseLabels : Base.succs[l] \subseteq Base.states \X Base.states
  /\ \A st \in DOMAIN Base.inits : Base.inits[st] \in Base.states

(* The types of the model_ of the set.                                     *)
Table == [k \in {1} \cup DOMAIN types |-> IF k = 1 THEN Base ELSE types[k]]

(* getTransLabels, of ScalarSetType and of CircularSetType.                *)
PublicLabels ==
  {set.syncs[k].label : k \in DOMAIN set.syncs} \cup {set.circs[k].label : k \in DOMAIN set.circs}

-----------------------------------------------------------------------------
(* The instances of a state of the concrete type, from left to right.      *)
RECURSIVE Leaves(_, _), NameOf(_, _)

Leaves(ty, s) ==
  IF ty = 1 THEN <<s>>
  ELSE Joined([i \in 1 .. Cardinality(DOMAIN s) |-> Leaves(types[ty].insts[i - 1], s[i - 1])])

Flat(R) == {<<Leaves(concrete, e[1]), Leaves(concrete, e[2])>> : e \in R}

(* InstanceNameFinder: the instances to go through to reach instance n, a  *)
(* number from 0, that a predicate of the set names.                       *)
NameOf(ty, n) ==
  IF ty = 1 THEN <<>>
  ELSE LET insts == types[ty].insts
           before[i \in 0 .. Cardinality(DOMAIN insts)] ==
             IF i = 0 THEN 0 ELSE before[i - 1] + insts[i - 1]
           i == CHOOSE j \in DOMAIN insts : before[j] <= n /\ n < before[j + 1]
       IN  <<i>> \o NameOf(insts[i], n - before[i])

RECURSIVE Reach(_, _)
Reach(s, path) == IF path = <<>> THEN s ELSE Reach(s[Head(path)], Tail(path))

-----------------------------------------------------------------------------
(* The flat product: instance i of a sequence of states.                   *)
FlatStates == [1 .. set.size -> Base.states]

FlatFires(i, labels) ==
  LET T == [k \in {1} |-> Base] IN LocalApply(Succs(T, 1, labels), i, FlatStates)

AllFire(l) ==
  LET upTo[k \in 0 .. set.size] ==
        IF k = 0 THEN Identity(FlatStates) ELSE Compose2(FlatFires(k, <<l>>), upTo[k - 1])
  IN  upTo[set.size]

AnyFires(l) == UNION {FlatFires(i, <<l>>) : i \in 1 .. set.size}

NeighboursFire(c) ==
  UNION {Compose2(FlatFires((i % set.size) + 1, c.next), FlatFires(i, c.cur)) : i \in 1 .. set.size}

FlatSuccs(l) ==
  UNION {IF d.all THEN AllFire(d.name) ELSE AnyFires(d.name) :
           d \in {set.syncs[k] : k \in {j \in DOMAIN set.syncs : set.syncs[j].label = l}}} \cup
  UNION {NeighboursFire(c) : c \in {set.circs[k] : k \in {j \in DOMAIN set.circs : set.circs[j].label = l}}}

FlatLocals ==
  FlatSuccs("") \cup UNION {LocalApply(Base.locals, i, FlatStates) : i \in 1 .. set.size}

-----------------------------------------------------------------------------
(* The preconditions under which the encodings are the set: see README.    *)

Private == \E k \in DOMAIN set.syncs : set.syncs[k].label = ""
PrivateAny == \E k \in DOMAIN set.syncs : set.syncs[k].label = "" /\ ~set.syncs[k].all

(* A recursive encoding has a last level that is not the first one.        *)
IsNested == IF IsRecursive THEN grain > 1 /\ set.size >= grain ELSE grain > 1
ClosesLoop == ~IsRecursive \/ IsNested

Supported ==
  /\ Fits
  /\ set.size = 1 \/ ~ClosesLoop => ~Private /\ set.circs = <<>>
  /\ IsNested => ~PrivateAny

Compared == pc = "done" /\ set.size <= CompareUpTo /\ Supported

(* What the set does on its own is what its instances do, a private        *)
(* delegator or a pair of neighbours, and what is done when a label of the *)
(* set is fired is what its delegators say, whatever the encoding          *)
(* (ScalarSetType.cpp:281, CompositeType.cpp:76).  A predicate on instance *)
(* n of the set is evaluated on instance n (ScalarSetType.cpp:88), and the *)
(* initial state is that of each instance, if states have the same name in *)
(* the set and in its instances (:321).                                    *)
RelationsAreFlat ==
  /\ Flat(Locals(Table, concrete)) = FlatLocals
  /\ \A l \in PublicLabels \ {""} : Flat(Succs(Table, concrete, <<l>>)) = FlatSuccs(l)

StatesAreFlat ==
  /\ \A s \in StatesOf(Table, concrete) : \A n \in 0 .. set.size - 1 :
       Reach(s, NameOf(concrete, n)) = Leaves(concrete, s)[n + 1]
  /\ \A st \in DOMAIN set.inits :
       (\A k \in DOMAIN set.inits[st] : set.inits[st][k] = st) =>
         {Leaves(concrete, s) : s \in StateOf(Table, concrete, st)} =
           {[i \in 1 .. set.size |-> Base.inits[st]]}

MeansFlatProduct ==
  /\ HoldsAllInstances
  /\ Compared => RelationsAreFlat /\ StatesAreFlat
=============================================================================
