-------------------------- MODULE ITSModel_proofs --------------------------
(***************************************************************************)
(* What ITSModel keeps and returns, when the model is configured before it *)
(* is asked anything, for every set of types; the orders of variables that *)
(* it loads; the accepting cycles found by fsltlModel, which is an         *)
(* ITSModel: for every product, every list of acceptance conditions and    *)
(* both variants, findSCC_fsltl answers that there is an accepting run     *)
(* exactly when there is one; and the caches put in front of its types.    *)
(***************************************************************************)
EXTENDS ITSModel, Ordering, FairCycles, TypeCacher, PredecessorRelation_proofs

(* One step backward, inside a set.                                        *)
BackwardIn(value, inside) ==
  \A S \in SUBSET inside : Post(value, S) = Pre(NextRel(Trans), S) \cap inside

(* Nothing is kept before the first question; what is kept is right.       *)
KeptIsCurrent ==
  /\ last = NoAnswer => reached_ = Null /\ predRel_ = Null
  /\ reached_ # Null => reached_ = Reach
  /\ predRel_ # Null => reached_ = Reach /\ BackwardIn(predRel_, Reach)
  /\ last # NoAnswer => model_ # NoModel

IInv == TypeOK /\ KeptIsCurrent /\ ReachedIsCurrent /\ PredRelIsCurrent

(* The named transitions of the main instance.                             *)
LEMMA TransTyped ==
  ASSUME TypeOK, model_ # NoModel
  PROVE  Trans \in Systems /\ InitialState \in SUBSET States
BY DefinitionsAreTyped DEF TypeOK, Trans, InitialState, Range, Null

(* The predecessor relation is a relation on the states.                   *)
LEMMA PredRelTyped ==
  ASSUME NEW trans \in Systems, NEW inside, NEW pot
  PROVE  PredRel(trans, inside, pot) \in Relations
<1> DEFINE add == ToAdd(trans, inside, pot)
           protect == ToProtect(trans, inside, pot)
<1>1. add \in SUBSET Names /\ protect \in SUBSET Names
  BY DEF ToAdd, ToProtect, Live
<1>2. /\ NextRel(trans) \in Relations
      /\ UNION {trans[n] : n \in add} \in Relations
      /\ UNION {trans[n] : n \in protect} \in Relations
  BY <1>1, SumTyped DEF NextRel
<1>3. /\ Invert(NextRel(trans), pot) \in Relations
      /\ InvertAll(trans, add, pot) \in Relations
      /\ InvertAll(trans, protect, pot) \in Relations
  BY <1>2, InvertTyped DEF InvertAll
<1>4. \A h \in Relations : Within(h, inside) \in Relations
  BY DEF Within, Relations
<1>5. \A g, h \in Relations : g \cup h \in Relations
  BY DEF Relations
<1>. QED
  BY <1>3, <1>4, <1>5 DEF PredRel

(* The reachable states are states.                                        *)
LEMMA ReachTyped == Reach \subseteq States
BY DEF Reach, Fixpoint

(* The relation computed for a set is one step backward inside it.         *)
LEMMA ComputedIsBackward ==
  ASSUME TypeOK, model_ # NoModel,
         NEW inside \in SUBSET States, NEW pot \in SUBSET States, inside \subseteq pot
  PROVE  BackwardIn(PredRel(Trans, inside, pot), inside)
<1>1. Trans \in Systems
  BY TransTyped
<1>. QED
  BY <1>1, PredRelExact DEF BackwardIn

(* The empty relation is one step backward when there is no transition.    *)
LEMMA NullIsBackward ==
  ASSUME NextRel(Trans) = Null, NEW inside \in SUBSET States
  PROVE  BackwardIn(Null, inside)
BY DEF BackwardIn, Null, Post, Pre

(* Before the first question, configuring the model changes nothing that   *)
(* is kept.                                                                *)
LEMMA ConfigureStep ==
  ASSUME Staged, IInv,
         \/ \E n \in TypeNames, d \in Definitions : AddType(n, d)
         \/ \E n \in TypeNames : SetInstance(n)
         \/ \E l \in Labels : SetInstanceState(l)
  PROVE  IInv'
<1>1. /\ last = NoAnswer /\ last' = NoAnswer
      /\ reached_' = reached_ /\ predRel_' = predRel_
  BY DEF AddType, SetInstance, SetInstanceState, Configuring
<1>2. reached_ = Null /\ predRel_ = Null
  BY <1>1 DEF IInv, KeptIsCurrent
<1>3. TypeOK'
  <2>1. CASE \E n \in TypeNames, d \in Definitions : AddType(n, d)
    <3>1. PICK n \in TypeNames, d \in Definitions : AddType(n, d)
      BY <2>1
    <3>2. CASE n \in DOMAIN types_
      BY <3>1, <3>2 DEF AddType, IInv, TypeOK
    <3>3. CASE n \notin DOMAIN types_
      <4>1. types_' = [m \in DOMAIN types_ \cup {n} |-> IF m = n THEN d ELSE types_[m]]
        BY <3>1, <3>3 DEF AddType
      <4>2. DOMAIN types_' = DOMAIN types_ \cup {n}
        BY <4>1
      <4>3. \A m \in DOMAIN types_' : types_'[m] \in Definitions
        BY <4>1 DEF IInv, TypeOK, Range
      <4>4. Range(types_') \subseteq Definitions
        BY <4>3 DEF Range
      <4>. QED
        BY <3>1, <4>2, <4>4 DEF AddType, IInv, TypeOK
    <3>. QED
      BY <3>2, <3>3
  <2>2. CASE \E n \in TypeNames : SetInstance(n)
    BY <2>2 DEF SetInstance, IInv, TypeOK
  <2>3. CASE \E l \in Labels : SetInstanceState(l)
    BY <2>3 DEF SetInstanceState, IInv, TypeOK
  <2>. QED
    BY <2>1, <2>2, <2>3
<1>4. last'.ask = "nothing"
  BY <1>1 DEF NoAnswer
<1>5. KeptIsCurrent'
  BY <1>1, <1>2 DEF KeptIsCurrent
<1>6. ReachedIsCurrent' /\ PredRelIsCurrent'
  BY <1>4 DEF ReachedIsCurrent, PredRelIsCurrent
<1>. QED
  BY <1>3, <1>5, <1>6 DEF IInv

(* A question leaves the model as it is.                                   *)
LEMMA ModelUnchanged ==
  ASSUME UNCHANGED <<types_, model_, initName_>>
  PROVE  /\ Trans' = Trans /\ Reach' = Reach
         /\ \A value, inside : BackwardIn(value, inside)' <=> BackwardIn(value, inside)
  BY DEF Trans, Reach, InitialState, BackwardIn

(* computeReachable returns and keeps the reachable states.                *)
LEMMA ReachableStep ==
  ASSUME IInv, ComputeReachable
  PROVE  IInv'
<1>1. /\ model_ # NoModel /\ UNCHANGED <<types_, model_, initName_>> /\ predRel_' = predRel_
      /\ reached_' = Reach /\ last'.ask = "reach" /\ last'.value = Reach /\ last' # NoAnswer
  BY DEF ComputeReachable, IInv, KeptIsCurrent, Reached, NoAnswer
<1>2. TypeOK'
  BY <1>1, ReachTyped DEF IInv, TypeOK
<1>3. KeptIsCurrent'
  BY <1>1, ModelUnchanged DEF IInv, KeptIsCurrent
<1>4. ReachedIsCurrent' /\ PredRelIsCurrent'
  BY <1>1, ModelUnchanged DEF ReachedIsCurrent, PredRelIsCurrent
<1>. QED
  BY <1>2, <1>3, <1>4 DEF IInv

(* getPredRel without argument returns and keeps one step backward in the  *)
(* reachable states.                                                       *)
LEMMA PredRelStep ==
  ASSUME IInv, GetPredRel
  PROVE  IInv'
<1>1. Reached = Reach
  BY DEF IInv, KeptIsCurrent, Reached
<1>2. PICK pot \in SUBSET States :
        /\ Reached \subseteq pot
        /\ predRel_' = IF predRel_ # Null THEN predRel_
                       ELSE IF NextRel(Trans) = Null THEN Null
                       ELSE PredRel(Trans, Reached, pot)
        /\ last' = [ask |-> "pred", envelope |-> Null, value |-> predRel_']
  BY DEF GetPredRel
<1>3. /\ model_ # NoModel /\ UNCHANGED <<types_, model_, initName_>>
      /\ reached_' = Reach
  BY <1>1 DEF GetPredRel, IInv, KeptIsCurrent
<1>4. Trans \in Systems /\ Reach \in SUBSET States
  BY <1>3, TransTyped, ReachTyped DEF IInv
<1>5. predRel_' \in Relations /\ BackwardIn(predRel_', Reach)
  <2>1. CASE predRel_ # Null
    BY <1>2, <2>1 DEF IInv, TypeOK, KeptIsCurrent
  <2>2. CASE predRel_ = Null /\ NextRel(Trans) = Null
    BY <1>2, <1>4, <2>2, NullIsBackward DEF Relations, Null
  <2>3. CASE predRel_ = Null /\ NextRel(Trans) # Null
    BY <1>1, <1>2, <1>3, <1>4, <2>3, ComputedIsBackward, PredRelTyped DEF IInv
  <2>. QED
    BY <2>1, <2>2, <2>3
<1>6. TypeOK'
  BY <1>3, <1>4, <1>5 DEF IInv, TypeOK
<1>7. BackwardIn(predRel_, Reach)'
  BY <1>3, <1>5, ModelUnchanged DEF BackwardIn
<1>8. KeptIsCurrent'
  BY <1>2, <1>3, <1>7, ModelUnchanged DEF KeptIsCurrent, NoAnswer
<1>9. ReachedIsCurrent' /\ PredRelIsCurrent'
  BY <1>2, <1>7 DEF ReachedIsCurrent, PredRelIsCurrent, BackwardIn
<1>. QED
  BY <1>6, <1>8, <1>9 DEF IInv

(* getPredRel of an envelope returns one step backward inside it, and      *)
(* keeps nothing.                                                          *)
LEMMA EnvelopeStep ==
  ASSUME IInv, NEW envelope \in (SUBSET States) \ {Null}, GetPredRelWithin(envelope)
  PROVE  IInv'
<1>1. PICK pot \in SUBSET States :
        /\ envelope \subseteq pot
        /\ predRel_' = IF NextRel(Trans) = Null THEN predRel_ ELSE Null
        /\ last' = [ask |-> "pred", envelope |-> envelope,
                    value |-> IF NextRel(Trans) = Null THEN Null
                              ELSE PredRel(Trans, envelope, pot)]
  BY DEF GetPredRelWithin
<1>2. /\ model_ # NoModel /\ UNCHANGED <<types_, model_, initName_>>
      /\ reached_' = reached_
  BY DEF GetPredRelWithin
<1>3. BackwardIn(last'.value, envelope)
  BY <1>1, <1>2, NullIsBackward, ComputedIsBackward DEF IInv
<1>4. TypeOK'
  BY <1>1, <1>2 DEF IInv, TypeOK, Relations, Null
<1>5. last' # NoAnswer /\ last'.ask = "pred" /\ last'.envelope = envelope
  BY <1>1 DEF NoAnswer
<1>6. KeptIsCurrent'
  <2>1. reached_' # Null => reached_' = Reach'
    BY <1>2, ModelUnchanged DEF IInv, KeptIsCurrent
  <2>2. predRel_' # Null => (reached_ = Reach /\ BackwardIn(predRel_, Reach))'
    BY <1>1, <1>2, ModelUnchanged DEF IInv, KeptIsCurrent, BackwardIn
  <2>. QED
    BY <1>2, <1>5, <2>1, <2>2 DEF KeptIsCurrent
<1>7. ReachedIsCurrent' /\ PredRelIsCurrent'
  <2>1. Trans' = Trans
    BY <1>2, ModelUnchanged
  <2>2. \A S \in SUBSET envelope :
           Post(last'.value, S) = Pre(NextRel(Trans'), S) \cap envelope
    BY <1>3, <2>1 DEF BackwardIn
  <2>. QED
    BY <1>5, <2>2 DEF ReachedIsCurrent, PredRelIsCurrent
<1>. QED
  BY <1>4, <1>6, <1>7 DEF IInv

(* When the tools configure the model before they ask it anything, all     *)
(* that it keeps and returns is that of the model they configured.         *)
LEMMA Invariance ==
  ASSUME Staged
  PROVE  Spec => []IInv
<1>1. Init => IInv
  BY DEF Init, IInv, TypeOK, KeptIsCurrent, ReachedIsCurrent, PredRelIsCurrent, NoAnswer,
         Null, Relations, Range
<1>2. IInv /\ [Next]_vars => IInv'
  <2> SUFFICES ASSUME IInv, [Next]_vars PROVE IInv'
    OBVIOUS
  <2>1. CASE UNCHANGED vars
    <3>1. UNCHANGED <<types_, model_, initName_, reached_, predRel_, last>>
      BY <2>1 DEF vars
    <3>. QED
      BY <3>1, ModelUnchanged
      DEF IInv, TypeOK, KeptIsCurrent, ReachedIsCurrent, PredRelIsCurrent, BackwardIn
  <2>. QED
    BY <2>1, ConfigureStep, ReachableStep, PredRelStep, EnvelopeStep DEF Next
<1>. QED
  BY <1>1, <1>2, PTL DEF Spec

(* The cached reachability set is the one of the configured model.         *)
THEOREM ReachableIsCurrent ==
  ASSUME Staged
  PROVE  Spec => []ReachedIsCurrent
BY Invariance, PTL DEF IInv

(* getPredRel returns one step backward of the transition relation, in the *)
(* reachable states or inside the envelope it was given, whatever was kept *)
(* of the calls before.                                                    *)
THEOREM BackwardIsCurrent ==
  ASSUME Staged
  PROVE  Spec => []PredRelIsCurrent
BY Invariance, PTL DEF IInv
-----------------------------------------------------------------------------
(***************************************************************************)
(* The orders of variables that ITSModel::loadOrder loads, for any types   *)
(* and any files.                                                          *)
(***************************************************************************)
(* The index of a variable is the position, from 0, where its name first   *)
(* stands.                                                                 *)
LEMMA FirstOccurrence ==
  ASSUME NEW S, NEW o \in Seq(S)
  PROVE  LET ix == FromCollection(o)
         IN  /\ DOMAIN ix = Range(o)
             /\ \A v \in DOMAIN ix :
                  /\ ix[v] \in Nat /\ ix[v] + 1 \in DOMAIN o
                  /\ o[ix[v] + 1] = v
                  /\ \A j \in 1 .. ix[v] : o[j] # v
<1> DEFINE ix == FromCollection(o)
           First(v, i) == o[i] = v /\ \A j \in 1 .. i - 1 : o[j] # v
<1>1. DOMAIN o = 1 .. Len(o) /\ Len(o) \in Nat
  BY LenProperties
<1>2. DOMAIN ix = Range(o)
  BY DEF FromCollection
<1>3. ASSUME NEW v \in DOMAIN ix
      PROVE  /\ ix[v] \in Nat /\ ix[v] + 1 \in DOMAIN o
             /\ o[ix[v] + 1] = v
             /\ \A j \in 1 .. ix[v] : o[j] # v
  <2> DEFINE places == {i \in DOMAIN o : o[i] = v}
             found == CHOOSE i \in DOMAIN o : First(v, i)
  <2>1. places # {} /\ places \in SUBSET Nat
    BY <1>1, <1>2 DEF Range
  <2>2. PICK i \in places : \A j \in places : i <= j
    BY <2>1, LeastNumber
  <2>3. First(v, i)
    <3>1. ASSUME NEW j \in 1 .. i - 1, o[j] = v
          PROVE  FALSE
      <4>1. j \in 1 .. Len(o) /\ j < i
        BY <1>1, <2>2
      <4>. QED
        BY <1>1, <2>2, <3>1, <4>1
    <3>. QED
      BY <2>2, <3>1
  <2>4. found \in DOMAIN o /\ First(v, found)
    BY <2>2, <2>3
  <2>5. ix[v] = found - 1
    BY <1>2 DEF FromCollection
  <2> HIDE DEF found, ix
  <2>6. found \in 1 .. Len(o) /\ ix[v] \in Nat /\ ix[v] + 1 = found /\ found - 1 = ix[v]
    BY <1>1, <2>4, <2>5
  <2>. QED
    BY <2>4, <2>6
<1>. QED
  BY <1>2, <1>3

(* In an order without duplicates each position has a name of its own.     *)
LEMMA NamesAreDistinct ==
  ASSUME NEW S, NEW o \in Seq(S), ~HasDuplicate(o)
  PROVE  /\ Cardinality(Range(o)) = Len(o)
         /\ \A i, j \in DOMAIN o : o[i] = o[j] => i = j
<1> DEFINE names == Range(o)
<1>1. Len(o) \in Nat /\ DOMAIN o = 1 .. Len(o) /\ o \in [1 .. Len(o) -> S]
  BY LenProperties
<1>2. names = {o[i] : i \in 1 .. Len(o)}
  BY <1>1 DEF Range
<1> HIDE DEF names
<1>3. o \in Surjection(1 .. Len(o), names)
  BY <1>1, <1>2 DEF Surjection
<1>4. IsFiniteSet(1 .. Len(o)) /\ Cardinality(1 .. Len(o)) = Len(o)
  BY <1>1, FS_Interval
<1>5. /\ IsFiniteSet(names)
      /\ Cardinality(names) <= Len(o)
      /\ Cardinality(names) = Len(o) <=> o \in Injection(1 .. Len(o), names)
  BY <1>3, <1>4, FS_Surjection
<1>6. Cardinality(names) \in Nat
  BY <1>5, FS_CardinalityType
<1>7. ~(Cardinality(names) < Len(o))
  BY DEF HasDuplicate, names
<1>8. Cardinality(names) = Len(o)
  BY <1>1, <1>5, <1>6, <1>7
<1>9. \A i, j \in DOMAIN o : o[i] = o[j] => i = j
  BY <1>1, <1>5, <1>8 DEF Injection, IsInjective
<1>. QED
  BY <1>8, <1>9 DEF names

(* An order without duplicates gives each of its variables an index, and   *)
(* each index below their number a label.                                  *)
LEMMA LabelsAreComplete ==
  ASSUME NEW S, NEW o \in Seq(S), ~HasDuplicate(o)
  PROVE  LET ix == FromCollection(o)
         IN  {GetLabel(ix, i) : i \in 0 .. Cardinality(DOMAIN ix) - 1}
               = DOMAIN ix
<1> DEFINE ix == FromCollection(o)
           size == Cardinality(DOMAIN ix)
<1>1. Len(o) \in Nat /\ DOMAIN o = 1 .. Len(o)
  BY LenProperties
<1>2. /\ DOMAIN ix = Range(o)
      /\ \A v \in DOMAIN ix :
           /\ ix[v] \in Nat /\ ix[v] + 1 \in DOMAIN o
           /\ o[ix[v] + 1] = v
  BY FirstOccurrence
<1>3. size = Len(o)
  BY <1>2, NamesAreDistinct DEF Range
<1>4. \A i, j \in DOMAIN o : o[i] = o[j] => i = j
  BY NamesAreDistinct
<1>5. \A i \in DOMAIN o : o[i] \in DOMAIN ix
  BY <1>2 DEF Range
<1> HIDE DEF ix, size
<1>6. ASSUME NEW i \in 0 .. size - 1
      PROVE  GetLabel(ix, i) = o[i + 1] /\ i + 1 \in DOMAIN o
  <2>1. i + 1 \in DOMAIN o /\ i \in Nat
    BY <1>1, <1>3
  <2>2. ix[o[i + 1]] + 1 = i + 1 /\ ix[o[i + 1]] \in Nat
    BY <1>2, <1>4, <1>5, <2>1
  <2>3. ix[o[i + 1]] = i
    BY <2>1, <2>2
  <2>4. \A v \in DOMAIN ix : ix[v] = i => v = o[i + 1]
    BY <1>2
  <2>. QED
    BY <1>5, <2>1, <2>3, <2>4 DEF GetLabel
<1>7. ASSUME NEW v \in DOMAIN ix
      PROVE  \E i \in 0 .. size - 1 : v = GetLabel(ix, i)
  <2>1. ix[v] \in 0 .. size - 1
    BY <1>1, <1>2, <1>3
  <2>. QED
    BY <1>2, <1>6, <2>1
<1>8. \A i \in 0 .. size - 1 : GetLabel(ix, i) \in DOMAIN ix
  BY <1>5, <1>6
<1>. QED
  BY <1>7, <1>8 DEF ix, size

(* The sections read so far that are about type t.                         *)
SectionsOf(t) == {k \in 1 .. next - 1 : file[k].type = t}

(* The last section read of a type gave it its order; with none it has the *)
(* one of the start.                                                       *)
OrderIsOfLast(t) ==
  \/ SectionsOf(t) = {} /\ indexes_[t] = before[t]
  \/ \E k \in SectionsOf(t) :
       /\ \A m \in SectionsOf(t) : m <= k
       /\ indexes_[t] = FromCollection(file[k].order)

LoadInv ==
  /\ file \in Files
  /\ next \in 1 .. Len(file) + 1
  /\ status \in {"loading", "loaded", "failed", "aborted"}
  /\ DOMAIN indexes_ = ModelTypes
  /\ \A t \in ModelTypes :
       /\ before[t] \in DefaultOrders(t)
       /\ DOMAIN indexes_[t] \subseteq Variables[t]
       /\ OrderIsOfLast(t)

(* An order that a type makes for itself is one of its variables, without  *)
(* duplicates.                                                             *)
LEMMA DefaultsArePlain ==
  ASSUME NEW t \in ModelTypes,
         NEW ix \in DefaultOrders(t)
  PROVE  \E o \in Seq(Variables[t]) :
           /\ ix = FromCollection(o)
           /\ ~HasDuplicate(o)
           /\ DOMAIN ix = Variables[t]
<1> DEFINE S == Variables[t]
<1>1. IsFiniteSet(S)
  BY FilesAreTyped DEF ModelTypes
<1>2. Cardinality(S) \in Nat
  BY <1>1, FS_CardinalityType
<1>3. PICK o \in OrdersOf(S) : ix = FromCollection(o)
  BY DEF DefaultOrders
<1>4. o \in [1 .. Cardinality(S) -> S] /\ Range(o) = S
  BY <1>3 DEF OrdersOf
<1>5. o \in Seq(S) /\ Len(o) = Cardinality(S)
  BY <1>2, <1>4
<1>6. ~HasDuplicate(o)
  BY <1>2, <1>4, <1>5 DEF HasDuplicate
<1>7. DOMAIN ix = S
  BY <1>3, <1>4, <1>5, FirstOccurrence
<1>. QED
  BY <1>3, <1>5, <1>6, <1>7

(* The order of a section is a sequence.                                   *)
LEMMA SectionsAreTyped ==
  ASSUME file \in Files
  PROVE  /\ Len(file) \in Nat
         /\ \A k \in 1 .. Len(file) :
              file[k].order \in Seq(Range(file[k].order))
<1>1. file \in Seq(Range(file))
  BY FilesAreTyped DEF ModelTypes
<1>2. DOMAIN file = 1 .. Len(file) /\ Len(file) \in Nat
  BY <1>1, LenProperties
<1>. QED
  BY <1>2, FilesAreTyped DEF ModelTypes

(* Loading starts with the orders that the types made.                     *)
LEMMA LoadingStarts ==
  ASSUME LoadInit
  PROVE  LoadInv
<1>1. /\ file \in Files /\ next = 1 /\ status = "loading" /\ before = indexes_
      /\ DOMAIN indexes_ = ModelTypes
      /\ \A t \in ModelTypes : indexes_[t] \in DefaultOrders(t)
  BY DEF LoadInit
<1>2. next \in 1 .. Len(file) + 1
  BY <1>1, SectionsAreTyped
<1>3. \A t \in ModelTypes : SectionsOf(t) = {}
  BY <1>1 DEF SectionsOf
<1>. QED
  BY <1>1, <1>2, <1>3, DefaultsArePlain DEF LoadInv, OrderIsOfLast

(* A section that is applied is the last one of its type, and changes no   *)
(* other type.                                                             *)
LEMMA SectionStep ==
  ASSUME LoadInv, UpdateOrder
  PROVE  LoadInv'
<1> DEFINE here == file[next]
           new == FromCollection(here.order)
<1>1. /\ status = "loading" /\ next <= Len(file)
      /\ here.type \in ModelTypes
      /\ \A v \in Range(here.order) :
           GetIndex(indexes_[here.type], v) # -1
      /\ indexes_' = [indexes_ EXCEPT ![here.type] = new]
      /\ next' = next + 1
      /\ file' = file /\ before' = before /\ status' = status
  BY DEF UpdateOrder, Known, Reading, Section,
         input
<1>2. Len(file) \in Nat /\ next \in 1 .. Len(file) /\ next' \in 1 .. Len(file') + 1
  BY <1>1, SectionsAreTyped DEF LoadInv
<1>3. here.order \in Seq(Range(here.order))
  BY <1>2, SectionsAreTyped DEF LoadInv
<1>4. DOMAIN new = Range(here.order)
  BY <1>3, FirstOccurrence
<1> HIDE DEF new
<1>5. DOMAIN new \subseteq Variables[here.type]
  BY <1>1, <1>4 DEF GetIndex, LoadInv
<1>6. \A t : SectionsOf(t)' = SectionsOf(t) \cup (IF here.type = t THEN {next} ELSE {})
  <2>1. \A k : k \in 1 .. next' - 1 <=> k \in 1 .. next - 1 \/ k = next
    BY <1>1, <1>2
  <2>. QED
    BY <1>1, <2>1 DEF SectionsOf
<1>7. ASSUME NEW t \in ModelTypes
      PROVE  /\ before'[t] \in DefaultOrders(t)
             /\ DOMAIN indexes_'[t] \subseteq Variables[t]
             /\ OrderIsOfLast(t)'
  <2>1. CASE t = here.type
    <3>1. indexes_'[t] = FromCollection(file'[next].order)
      BY <1>1, <2>1 DEF LoadInv, new
    <3>2. next \in SectionsOf(t)' /\ \A m \in SectionsOf(t)' : m <= next
      <4>1. SectionsOf(t) \subseteq 1 .. next - 1 /\ next \in Nat
        BY <1>2 DEF SectionsOf
      <4>2. SectionsOf(t)' = SectionsOf(t) \cup {next}
        BY <1>6, <2>1
      <4>3. \A m \in SectionsOf(t) : m <= next
        BY <4>1
      <4>. QED
        BY <4>1, <4>2, <4>3
    <3>3. OrderIsOfLast(t)'
      BY <3>1, <3>2 DEF OrderIsOfLast
    <3>. QED
      BY <1>1, <1>5, <2>1, <3>3 DEF LoadInv
  <2>2. CASE t # here.type
    <3>1. SectionsOf(t)' = SectionsOf(t) /\ indexes_'[t] = indexes_[t]
      BY <1>1, <1>6, <2>2 DEF LoadInv
    <3>. QED
      BY <1>1, <3>1 DEF LoadInv, OrderIsOfLast
  <2>. QED
    BY <2>1, <2>2
<1>8. DOMAIN indexes_' = ModelTypes' /\ ModelTypes' = ModelTypes
  BY <1>1 DEF LoadInv, ModelTypes
<1>9. \A t : DefaultOrders(t)' = DefaultOrders(t)
  BY DEF DefaultOrders, OrdersOf
<1>. QED
  BY <1>1, <1>2, <1>7, <1>8, <1>9 DEF LoadInv

(* The other steps apply no section.                                       *)
LEMMA OtherSteps ==
  ASSUME LoadInv, UNCHANGED <<indexes_, before, file, next>>,
         status' \in {"loading", "loaded", "failed", "aborted"}
  PROVE  LoadInv'
<1>1. \A t : OrderIsOfLast(t)' <=> OrderIsOfLast(t)
  BY DEF OrderIsOfLast, SectionsOf
<1>2. \A t : DefaultOrders(t)' = DefaultOrders(t)
  BY DEF DefaultOrders, OrdersOf
<1>. QED
  BY <1>1, <1>2 DEF LoadInv, ModelTypes

LEMMA LoadingInvariance ==
  LoadSpec => []LoadInv
<1>1. LoadInit => LoadInv
  BY LoadingStarts
<1>2. LoadInv /\ [LoadNext]_loadVars => LoadInv'
  <2> SUFFICES ASSUME LoadInv, [LoadNext]_loadVars PROVE LoadInv'
    OBVIOUS
  <2>1. CASE UnknownType
    BY <2>1, OtherSteps DEF UnknownType, input
  <2>2. CASE UnknownVariable
    BY <2>2, OtherSteps DEF UnknownVariable, input
  <2>3. CASE DuplicateAborts
    BY <2>3, OtherSteps DEF DuplicateAborts, input
  <2>4. CASE UpdateOrder
    BY <2>4, SectionStep
  <2>5. CASE EndOfFile
    BY <2>5, OtherSteps DEF EndOfFile, input
  <2>6. CASE UNCHANGED loadVars
    BY <2>6, OtherSteps DEF loadVars, input, LoadInv
  <2>. QED
    BY <2>1, <2>2, <2>3, <2>4, <2>5, <2>6 DEF LoadNext, Stopped
<1>. QED
  BY <1>1, <1>2, PTL DEF LoadSpec

(* The order of a type is that of a sequence of names, which has           *)
(* duplicates only when a section of the file does.                        *)
LEMMA OrdersArePositions ==
  ASSUME LoadInv, NEW t \in ModelTypes
  PROVE  \E o : /\ o \in Seq(Range(o))
                /\ indexes_[t] = FromCollection(o)
                /\ \/ ~HasDuplicate(o)
                   \/ \E k \in 1 .. next - 1 : o = file[k].order
<1>1. CASE indexes_[t] = before[t]
  <2>1. PICK o \in Seq(Variables[t]) :
            indexes_[t] = FromCollection(o) /\ ~HasDuplicate(o)
    BY <1>1, DefaultsArePlain DEF LoadInv
  <2>2. Len(o) \in Nat /\ DOMAIN o = 1 .. Len(o) /\ o \in [1 .. Len(o) -> Variables[t]]
    BY LenProperties
  <2>3. o \in [1 .. Len(o) -> Range(o)]
    BY <2>2 DEF Range
  <2>4. o \in Seq(Range(o))
    BY <2>2, <2>3
  <2>. QED
    BY <2>1, <2>4
<1>2. CASE \E k \in SectionsOf(t) : indexes_[t] = FromCollection(file[k].order)
  <2>1. PICK k \in SectionsOf(t) : indexes_[t] = FromCollection(file[k].order)
    BY <1>2
  <2>2. k \in 1 .. next - 1 /\ k \in 1 .. Len(file)
    BY <2>1, SectionsAreTyped DEF SectionsOf, LoadInv
  <2>. QED
    BY <2>1, <2>2, SectionsAreTyped DEF LoadInv
<1>. QED
  BY <1>1, <1>2 DEF LoadInv, OrderIsOfLast

(* Whatever the file, with or without assertions, no two variables of a    *)
(* type share an index; and unless a section repeats a name, the labels of *)
(* the indexes from 0 on, from which states are built, are all variables   *)
(* of the order.                                                           *)
THEOREM LoadedOrdersAreComplete ==
  LoadSpec => []StatesAreComplete
<1>1. LoadInv => StatesAreComplete
  <2> SUFFICES ASSUME LoadInv PROVE StatesAreComplete
    OBVIOUS
  <2>1. ASSUME NEW t \in ModelTypes
        PROVE  IsInjective(indexes_[t])
    <3>1. PICK o : o \in Seq(Range(o)) /\ indexes_[t] = FromCollection(o)
      BY OrdersArePositions
    <3>2. \A v \in DOMAIN indexes_[t] : o[indexes_[t][v] + 1] = v
      BY <3>1, FirstOccurrence
    <3>. QED
      BY <3>2 DEF IsInjective
  <2>2. ASSUME \A k \in 1 .. next - 1 : ~HasDuplicate(file[k].order),
               NEW t \in ModelTypes
        PROVE  LET ix == indexes_[t]
               IN  {GetLabel(ix, i) :
                      i \in 0 .. Cardinality(DOMAIN ix) - 1} = DOMAIN ix
    <3>1. PICK o : /\ o \in Seq(Range(o))
                   /\ indexes_[t] = FromCollection(o)
                   /\ ~HasDuplicate(o)
      BY <2>2, OrdersArePositions
    <3>. QED
      BY <3>1, LabelsAreComplete
  <2>. QED
    BY <2>1, <2>2 DEF StatesAreComplete
<1>. QED
  BY <1>1, LoadingInvariance, PTL

(* Wherever loading stops, each type has the order of its last section     *)
(* before that point, or the one it had.                                   *)
THEOREM LoadedSectionsAreApplied ==
  LoadSpec => []SectionsAreApplied
<1>1. LoadInv => SectionsAreApplied
  <2> SUFFICES ASSUME LoadInv, NEW t \in ModelTypes
               PROVE  LET mine == {k \in 1 .. next - 1 : file[k].type = t}
                      IN  IF mine = {} THEN indexes_[t] = before[t]
                          ELSE \E k \in mine :
                                 /\ \A m \in mine : m <= k
                                 /\ LET o == file[k].order
                                    IN  /\ DOMAIN indexes_[t] = Range(o)
                                        /\ \A i, j \in DOMAIN o :
                                             indexes_[t][o[i]] < indexes_[t][o[j]] =>
                                               \E p \in DOMAIN o : p < j /\ o[p] = o[i]
    BY DEF SectionsAreApplied
  <2>1. CASE SectionsOf(t) = {}
    BY <2>1 DEF LoadInv, OrderIsOfLast, SectionsOf
  <2>2. CASE SectionsOf(t) # {}
    <3>1. PICK k \in SectionsOf(t) :
             /\ \A m \in SectionsOf(t) : m <= k
             /\ indexes_[t] = FromCollection(file[k].order)
      BY <2>2 DEF LoadInv, OrderIsOfLast
    <3> DEFINE o == file[k].order
               ix == indexes_[t]
    <3>2. o \in Seq(Range(o))
      BY <3>1, SectionsAreTyped DEF LoadInv, SectionsOf
    <3>3. /\ DOMAIN ix = Range(o)
          /\ \A v \in DOMAIN ix :
               /\ ix[v] \in Nat /\ ix[v] + 1 \in DOMAIN o
               /\ o[ix[v] + 1] = v
               /\ \A q \in 1 .. ix[v] : o[q] # v
      BY <3>1, <3>2, FirstOccurrence
    <3>4. DOMAIN o = 1 .. Len(o) /\ Len(o) \in Nat
      BY <3>2, LenProperties
    <3>5. ASSUME NEW i \in DOMAIN o, NEW j \in DOMAIN o, ix[o[i]] < ix[o[j]]
          PROVE  \E p \in DOMAIN o : p < j /\ o[p] = o[i]
      <4>1. o[i] \in DOMAIN ix /\ o[j] \in DOMAIN ix
        BY <3>3 DEF Range
      <4>2. ~(j \in 1 .. ix[o[j]])
        BY <3>3, <4>1
      <4>3. ix[o[i]] + 1 < j
        BY <3>3, <3>4, <3>5, <4>1, <4>2
      <4>. QED
        BY <3>3, <4>1, <4>3
    <3>. QED
      BY <3>1, <3>3, <3>5 DEF SectionsOf
  <2>. QED
    BY <2>1, <2>2
<1>. QED
  BY <1>1, LoadingInvariance, PTL

(***************************************************************************)
(* The fair cycles: images, fixpoints and the types of the search.         *)
(***************************************************************************)
LEMMA PostTyped ==
  ASSUME NEW h, NEW S
  PROVE  Post(h, S) \in SUBSET States
BY DEF Post

(* A larger relation, from a larger set, has a larger image.               *)
LEMMA PostMonotonic ==
  ASSUME NEW g, NEW h, NEW S, NEW T, g \subseteq h, S \subseteq T
  PROVE  Post(g, S) \subseteq Post(h, T)
BY DEF Post

LEMMA FixpointMonotonic ==
  ASSUME NEW h, NEW S, NEW T, S \subseteq T
  PROVE  Fixpoint(h, S) \subseteq Fixpoint(h, T)
BY DEF Fixpoint

(* The largest set of states with a predecessor in the set: it has this    *)
(* property, it holds every subset that has it, and the relation does not  *)
(* leave it if it does not leave the set it is searched in.                *)
LEMMA GreatestWithin ==
  ASSUME NEW h, NEW S
  PROVE  GreatestFixpoint(h, S) \subseteq S
BY DEF GreatestFixpoint

LEMMA GreatestLoops ==
  ASSUME NEW h, NEW S
  PROVE  GreatestFixpoint(h, S) \subseteq Post(h, GreatestFixpoint(h, S))
<1> SUFFICES ASSUME NEW X \in SUBSET S, X \subseteq Post(h, X), NEW x \in X
             PROVE  x \in Post(h, GreatestFixpoint(h, S))
  BY DEF GreatestFixpoint
<1>1. X \subseteq GreatestFixpoint(h, S)
  BY DEF GreatestFixpoint
<1>. QED
  BY <1>1 DEF Post

LEMMA GreatestContains ==
  ASSUME NEW h, NEW S, NEW C, C \subseteq S, C \subseteq Post(h, C)
  PROVE  C \subseteq GreatestFixpoint(h, S)
BY DEF GreatestFixpoint

LEMMA GreatestClosed ==
  ASSUME NEW h, NEW S \in SUBSET States, Closed(h, S)
  PROVE  Closed(h, GreatestFixpoint(h, S))
<1> DEFINE G == GreatestFixpoint(h, S)
           after == Post(h, G)
<1>1. G \subseteq S /\ G \subseteq after
  BY GreatestWithin, GreatestLoops
<1>2. after \subseteq S
  <2>1. after \subseteq Post(h, S)
    BY <1>1, PostMonotonic
  <2>. QED
    BY <2>1 DEF Closed
<1>3. after \subseteq Post(h, after)
  BY <1>1, PostMonotonic
<1>4. after \subseteq G
  BY <1>2, <1>3, GreatestContains
<1>. QED
  BY <1>4 DEF Closed

-----------------------------------------------------------------------------
(* The types.                                                              *)

LEMMA CallTyped ==
  ASSUME FsTypeOK
  PROVE  /\ call.init \in SUBSET States
         /\ call.accs \in Seq(Relations)
         /\ NbAccs \in Nat
         /\ \A k \in 1 .. NbAccs : call.accs[k] \subseteq call.all
BY CallsAreTyped DEF FsTypeOK, CallArguments, NbAccs

LEMMA TypeStep ==
  ASSUME FsTypeOK, [FsNext]_fsVars
  PROVE  FsTypeOK'
<1>1. CASE ComputeReach
  <2>1. reach' \in SUBSET States
    BY <1>1, FixpointTyped DEF ComputeReach
  <2>2. Looping(reach') \subseteq reach'
    BY GreatestWithin DEF Looping
  <2>. QED
    BY <1>1, <2>1, <2>2 DEF ComputeReach, FsTypeOK, NbAccs
<1>2. CASE StartTurn
  <2>1. Looping(div) \subseteq div
    BY GreatestWithin DEF Looping
  <2>. QED
    BY <1>2, <2>1, CallTyped DEF StartTurn, FsTypeOK, NbAccs
<1>3. CASE ReduceByAcc
  <2>1. div' \in SUBSET States
    BY <1>3, FixpointTyped DEF ReduceByAcc, After
  <2>. QED
    BY <1>3, <2>1, CallTyped DEF ReduceByAcc, FsTypeOK, NbAccs
<1>4. CASE EndTurn
  BY <1>4 DEF EndTurn, FsTypeOK, NbAccs
<1>5. CASE UNCHANGED fsVars
  BY <1>5 DEF fsVars, FsTypeOK, NbAccs
<1>. QED
  BY <1>1, <1>2, <1>3, <1>4, <1>5 DEF FsNext

(* The variables of findSCC_fsltl keep their types, for every call.        *)
THEOREM FairCyclesTyped == FsSpec => []FsTypeOK
<1>1. FsInit => FsTypeOK
  <2> SUFFICES ASSUME FsInit PROVE FsTypeOK
    OBVIOUS
  <2>1. NbAccs \in Nat
    BY CallsAreTyped DEF FsInit, CallArguments, NbAccs
  <2>. QED
    BY <2>1 DEF FsInit, Called, FsTypeOK
<1>. QED
  BY <1>1, TypeStep, PTL DEF FsSpec

-----------------------------------------------------------------------------
(* No accepting run is lost.                                               *)

(* What is removed from the candidates is in no fair set.                  *)
LEMMA FairStep ==
  ASSUME FsTypeOK, FairSetsAreKept, [FsNext]_fsVars
  PROVE  FairSetsAreKept'
<1> SUFFICES ASSUME fsPc' # "reach", NEW C \in SUBSET reach', IsFair(C)'
             PROVE  C \subseteq div'
  BY DEF FairSetsAreKept
<1>0. /\ call' = call
      /\ C \subseteq Post(call.all, C)
      /\ \A k \in 1 .. NbAccs : C \subseteq Fixpoint(call.all, Post(call.accs[k], C))
  <2>1. call' = call
    BY DEF FsNext, ComputeReach, StartTurn, ReduceByAcc, EndTurn, fsVars
  <2>. QED
    BY <2>1 DEF IsFair, NbAccs
<1>1. CASE ComputeReach
  <2>1. CASE NbAccs = 0
    <3>1. C \subseteq Looping(reach')
      BY <1>0, GreatestContains DEF Looping
    <3>. QED
      BY <1>1, <2>1, <3>1 DEF ComputeReach
  <2>2. CASE NbAccs # 0
    BY <1>1, <2>2 DEF ComputeReach
  <2>. QED
    BY <2>1, <2>2
<1>2. CASE StartTurn
  <2>1. C \subseteq div
    BY <1>0, <1>2 DEF StartTurn, FairSetsAreKept, IsFair
  <2>2. C \subseteq Looping(div)
    BY <1>0, <2>1, GreatestContains DEF Looping
  <2>. QED
    BY <1>2, <2>1, <2>2 DEF StartTurn
<1>3. CASE ReduceByAcc
  <2>1. C \subseteq div
    BY <1>0, <1>3 DEF ReduceByAcc, FairSetsAreKept, IsFair
  <2>2. black \in 1 .. NbAccs
    BY <1>3, CallTyped DEF ReduceByAcc, FsTypeOK
  <2>3. Post(call.accs[black], C) \subseteq Post(call.accs[black], div)
    BY <2>1, PostMonotonic
  <2>4. Fixpoint(call.all, Post(call.accs[black], C)) \subseteq After(call.accs[black], div)
    BY <2>3, FixpointMonotonic DEF After
  <2>. QED
    BY <1>0, <1>3, <2>2, <2>4 DEF ReduceByAcc
<1>4. CASE EndTurn
  BY <1>0, <1>4 DEF EndTurn, FairSetsAreKept, IsFair
<1>5. CASE UNCHANGED fsVars
  BY <1>0, <1>5 DEF fsVars, FairSetsAreKept, IsFair
<1>. QED
  BY <1>1, <1>2, <1>3, <1>4, <1>5 DEF FsNext

(* Every set of reachable states that accepting runs can loop through is   *)
(* among the candidates whenever findSCC_fsltl looks at them (fsltl.cpp,   *)
(* the loops at 124-160): in particular, the result is empty only when     *)
(* there is no accepting run.                                              *)
THEOREM FairRunsAreKept == FsSpec => []FairSetsAreKept
<1>1. FsInit => FairSetsAreKept
  BY DEF FsInit, Called, FairSetsAreKept
<1>. QED
  BY <1>1, FairCyclesTyped, FairStep, PTL DEF FsSpec

-----------------------------------------------------------------------------
(* No accepting run is invented.                                           *)

(* The candidates are reachable; no arc leaves them during the turns; the  *)
(* turn only removes some, and after the conditions it has gone through    *)
(* all that is left comes from the candidates it started with.             *)
Candidates ==
  /\ fsPc # "reach" => reach \in SUBSET States /\ Closed(call.all, reach) /\ div \subseteq reach
  /\ fsPc \in {"turn", "accs"} => NbAccs # 0 /\ Closed(call.all, div)
  /\ fsPc = "accs" =>
       /\ div \subseteq sat /\ sat \subseteq reach
       /\ \A k \in 1 .. NbAccs :
            k < black => div \subseteq Fixpoint(call.all, Post(call.accs[k], sat))

LEMMA CandidatesStep ==
  ASSUME FsTypeOK, Candidates, [FsNext]_fsVars
  PROVE  Candidates'
<1>0. call' = call /\ NbAccs' = NbAccs
  BY DEF FsNext, ComputeReach, StartTurn, ReduceByAcc, EndTurn, fsVars, NbAccs
<1>1. CASE ComputeReach
  <2>1. reach' \in SUBSET States /\ Closed(call.all, reach')
    BY <1>1, FixpointTyped, FixpointClosed DEF ComputeReach
  <2>2. Looping(reach') \subseteq reach'
    BY GreatestWithin DEF Looping
  <2>. QED
    BY <1>0, <1>1, <2>1, <2>2 DEF ComputeReach, Candidates
<1>2. CASE StartTurn
  <2>1. NbAccs # 0 /\ Closed(call.all, div) /\ div \subseteq reach /\ div \in SUBSET States
    BY <1>2 DEF StartTurn, Candidates, FsTypeOK
  <2>2. Looping(div) \subseteq div /\ Closed(call.all, Looping(div))
    BY <2>1, GreatestWithin, GreatestClosed DEF Looping
  <2>3. div' \subseteq div /\ Closed(call.all, div') /\ sat' = div /\ reach' = reach
    BY <1>2, <2>1, <2>2 DEF StartTurn
  <2>4. \A k \in 1 .. NbAccs : ~(k < black')
    BY <1>2 DEF StartTurn
  <2>. QED
    BY <1>0, <1>2, <2>1, <2>3, <2>4 DEF StartTurn, Candidates
<1>3. CASE ReduceByAcc
  <2> DEFINE acc == call.accs[black]
  <2>1. /\ Closed(call.all, div) /\ div \subseteq sat /\ sat \subseteq reach
        /\ div \in SUBSET States /\ black \in 1 .. NbAccs
    BY <1>3, CallTyped DEF ReduceByAcc, Candidates, FsTypeOK
  <2>2. Post(acc, div) \subseteq div
    <3>1. acc \subseteq call.all
      BY <2>1, CallTyped
    <3>2. Post(acc, div) \subseteq Post(call.all, div)
      BY <3>1, PostMonotonic
    <3>. QED
      BY <2>1, <3>2 DEF Closed
  <2>3. div' = After(acc, div) /\ black' = black + 1 /\ UNCHANGED <<fsPc, reach, sat>>
    BY <1>3 DEF ReduceByAcc
  <2>4. div' \subseteq div
    BY <2>1, <2>2, <2>3, FixpointLeast DEF After
  <2>5. Closed(call.all, div')
    BY <2>3, FixpointClosed DEF After
  <2>6. div' \subseteq Fixpoint(call.all, Post(acc, sat))
    <3>1. Post(acc, div) \subseteq Post(acc, sat)
      BY <2>1, PostMonotonic
    <3>. QED
      BY <2>3, <3>1, FixpointMonotonic DEF After
  <2>7. ASSUME NEW k \in 1 .. NbAccs, k < black'
        PROVE  div' \subseteq Fixpoint(call.all, Post(call.accs[k], sat))
    <3>1. k < black \/ k = black
      BY <2>1, <2>3, <2>7, CallTyped
    <3>2. CASE k < black
      BY <1>3, <2>4, <3>2 DEF ReduceByAcc, Candidates
    <3>. QED
      BY <2>6, <3>1, <3>2
  <2>. QED
    BY <1>0, <1>3, <2>1, <2>3, <2>4, <2>5, <2>7 DEF ReduceByAcc, Candidates
<1>4. CASE EndTurn
  BY <1>0, <1>4 DEF EndTurn, Candidates
<1>5. CASE UNCHANGED fsVars
  BY <1>0, <1>5 DEF fsVars, Candidates
<1>. QED
  BY <1>1, <1>2, <1>3, <1>4, <1>5 DEF FsNext

(* All that comes after an acceptance condition comes after an arc.        *)
LEMMA AfterAnArc ==
  ASSUME NEW all, NEW acc, acc \subseteq all, NEW S \in SUBSET States, Closed(all, S)
  PROVE  Fixpoint(all, Post(acc, S)) \subseteq Post(all, S)
<1>1. Post(acc, S) \subseteq Post(all, S)
  BY PostMonotonic
<1>2. Closed(all, Post(all, S))
  BY PostMonotonic DEF Closed
<1>. QED
  BY <1>1, <1>2, PostTyped, FixpointLeast

LEMMA ResultStep ==
  ASSUME FsTypeOK, Candidates, ResultIsFair, [FsNext]_fsVars
  PROVE  ResultIsFair'
<1>0. call' = call /\ NbAccs' = NbAccs
  BY DEF FsNext, ComputeReach, StartTurn, ReduceByAcc, EndTurn, fsVars, NbAccs
<1>1. CASE ComputeReach
  <2> SUFFICES ASSUME fsPc' = "done"
               PROVE  (div \subseteq reach /\ IsFair(div))'
    BY DEF ResultIsFair
  <2>1. NbAccs = 0 /\ div' = Looping(reach')
    BY <1>1 DEF ComputeReach
  <2>2. div' \subseteq reach' /\ div' \subseteq Post(call.all, div')
    BY <2>1, GreatestWithin, GreatestLoops DEF Looping
  <2>. QED
    BY <1>0, <2>1, <2>2 DEF IsFair
<1>2. CASE StartTurn
  BY <1>2 DEF StartTurn, ResultIsFair
<1>3. CASE ReduceByAcc
  BY <1>3 DEF ReduceByAcc, ResultIsFair
<1>4. CASE EndTurn
  <2> SUFFICES ASSUME fsPc' = "done"
               PROVE  (div \subseteq reach /\ IsFair(div))'
    BY DEF ResultIsFair
  <2>1. /\ div = sat /\ div' = div /\ reach' = reach
        /\ NbAccs # 0 /\ NbAccs \in Nat
        /\ div \in SUBSET States /\ div \subseteq reach /\ Closed(call.all, div)
    BY <1>4, CallTyped DEF EndTurn, Candidates, FsTypeOK
  <2>2. ASSUME NEW k \in 1 .. NbAccs
        PROVE  div \subseteq Fixpoint(call.all, Post(call.accs[k], div))
    <3>1. k < black
      BY <1>4, <2>1 DEF EndTurn, FsTypeOK
    <3>. QED
      BY <1>4, <2>1, <3>1 DEF EndTurn, Candidates
  <2>3. div \subseteq Post(call.all, div)
    <3>1. 1 \in 1 .. NbAccs
      BY <2>1
    <3>2. call.accs[1] \subseteq call.all
      BY <3>1, CallTyped
    <3>. QED
      BY <2>1, <2>2, <3>1, <3>2, AfterAnArc
  <2>. QED
    BY <1>0, <2>1, <2>2, <2>3 DEF IsFair
<1>5. CASE UNCHANGED fsVars
  BY <1>0, <1>5 DEF fsVars, ResultIsFair, IsFair
<1>. QED
  BY <1>1, <1>2, <1>3, <1>4, <1>5 DEF FsNext

(* The states findSCC_fsltl returns are reachable states that accepting    *)
(* runs can loop through (fsltl.cpp:161): a result that is not empty is an *)
(* accepting run.                                                          *)
THEOREM ResultsAreFair == FsSpec => []ResultIsFair
<1> DEFINE FsInv == FsTypeOK /\ Candidates /\ ResultIsFair
<1>1. FsInit => Candidates /\ ResultIsFair
  BY DEF FsInit, Called, Candidates, ResultIsFair
<1>2. FsInv /\ [FsNext]_fsVars => FsInv'
  BY TypeStep, CandidatesStep, ResultStep
<1>3. FsSpec => [](Candidates /\ ResultIsFair)
  BY <1>1, <1>2, FairCyclesTyped, PTL DEF FsSpec
<1>. QED
  BY <1>3, PTL

-----------------------------------------------------------------------------
(***************************************************************************)
(* The caches are transparent when orders are only changed while nothing   *)
(* that depends on them is kept, for any orders, labels and bags.  That    *)
(* what is cached is current is inductive: a miss on the composite is      *)
(* answered from the caches of its instances, which are current too, and   *)
(* an order that changes empties all that was encoded with it.             *)
(***************************************************************************)

(* What the steps need of the shape of the state.                          *)
Shape ==
  /\ answer = [t \in Types |-> answer[t]]
  /\ state_cache = [t \in Types |-> state_cache[t]]
  /\ trans_keys = [t \in Types |-> trans_keys[t]]
  /\ trans_vals = [t \in Types |-> trans_vals[t]]
  /\ locals_ = [t \in Types |-> locals_[t]]
  /\ order \in [Types -> Orders]
  /\ \A t \in Types : /\ \E S : trans_keys[t] \in Seq(S)
                      /\ \E S : trans_vals[t] \in Seq(S)

CacheInv == Shape /\ CachesAreCurrent

(* A question that can reach a cache.                                      *)
IsQuestion(q) ==
  \/ \E s : q = StateOf(s)
  \/ \E b : q = Contract!SuccsOf(b) /\ \E l \in TransLabels : b[l] > 0
  \/ q = LocalsOf

-----------------------------------------------------------------------------
(* What a set is turned into has a place for each element.                 *)
LEMMA SetToSeqIsSequence ==
  ASSUME NEW S, IsFiniteSet(S)
  PROVE  SetToSeq(S) \in Seq(S)
<1> DEFINE n == Cardinality(S)
<1>1. n \in Nat /\ ExistsBijection(1 .. n, S)
  BY FS_CardinalityType
<1>2. PICK f : f \in [1 .. n -> S] /\ IsInjective(f)
  BY <1>1 DEF ExistsBijection, Bijection, Injection, IsInjective
<1>3. SetToSeq(S) \in [1 .. n -> S]
  BY <1>2 DEF SetToSeq
<1>. QED
  BY <1>1, <1>3

LEMMA JoinedSequences ==
  ASSUME NEW S, NEW T, NEW s \in Seq(S), NEW t \in Seq(T)
  PROVE  s \in Seq(S \cup T) /\ t \in Seq(S \cup T)
OBVIOUS

(* What stands at a place of two sequences joined.                         *)
LEMMA JoinedAt ==
  ASSUME NEW S, NEW k \in Seq(S), NEW K \in Seq(S), NEW i \in DOMAIN (k \o K)
  PROVE  /\ i <= Len(k) => i \in DOMAIN k /\ (k \o K)[i] = k[i]
         /\ ~(i <= Len(k)) => i - Len(k) \in DOMAIN K /\ (k \o K)[i] = K[i - Len(k)]
<1>1. /\ k \o K \in Seq(S)
      /\ Len(k \o K) = Len(k) + Len(K)
      /\ \A n \in 1 .. Len(k) + Len(K) :
            (k \o K)[n] = IF n <= Len(k) THEN k[n] ELSE K[n - Len(k)]
  BY ConcatProperties
<1>2. /\ Len(k) \in Nat /\ Len(K) \in Nat
      /\ DOMAIN k = 1 .. Len(k) /\ DOMAIN K = 1 .. Len(K)
      /\ DOMAIN (k \o K) = 1 .. Len(k \o K)
  BY <1>1, LenProperties
<1>3. i \in 1 .. Len(k) + Len(K)
  BY <1>1, <1>2
<1>4. (k \o K)[i] = IF i <= Len(k) THEN k[i] ELSE K[i - Len(k)]
  BY <1>1, <1>3
<1>5. i <= Len(k) => i \in 1 .. Len(k)
  BY <1>2, <1>3
<1>6. ~(i <= Len(k)) => i - Len(k) \in 1 .. Len(K)
  BY <1>2, <1>3
<1>. QED
  BY <1>2, <1>4, <1>5, <1>6

(* A hit is a value that is current.                                       *)
LEMMA HitIsCurrent ==
  ASSUME CachesAreCurrent, NEW t \in Types, NEW q, IsQuestion(q), Hit(t, q)
  PROVE  Stored(t, q) = Contract!Encoded(order, t, q)
<1>1. CASE \E s : q = StateOf(s)
  BY <1>1 DEF CachesAreCurrent, Current, Hit, Stored, StateOf, Contract!StateOf
<1>2. CASE \E b : q = Contract!SuccsOf(b)
  <2>1. PICK b : q = Contract!SuccsOf(b)
    BY <1>2
  <2>2. q.kind = "succs" /\ q.bag = b
    BY <2>1 DEF Contract!SuccsOf
  <2>3. b \in Range(trans_keys[t])
    BY <2>2 DEF Hit
  <2> DEFINE i == Position(t, b)
  <2>4. i \in DOMAIN trans_keys[t] /\ trans_keys[t][i] = b
    BY <2>3 DEF Range, Position
  <2>. QED
    BY <2>1, <2>2, <2>4 DEF CachesAreCurrent, Current, Stored
<1>3. CASE q = LocalsOf
  BY <1>3 DEF CachesAreCurrent, Current, Hit, Stored, LocalsOf, Contract!LocalsOf
<1>. QED
  BY <1>1, <1>2, <1>3 DEF IsQuestion

-----------------------------------------------------------------------------
(* Answers.                                                                *)

LEMMA LeafIsCurrent ==
  ASSUME CachesAreCurrent, NEW q, IsQuestion(q)
  PROVE  LeafAnswer(q) = Contract!Encoded(order, "leaf", q)
<1>1. CASE Hit("leaf", q)
  BY <1>1, HitIsCurrent DEF LeafAnswer, Types, Contract!Types
<1>2. CASE ~Hit("leaf", q)
  BY <1>2 DEF LeafAnswer, Contract!Encoded, Contract!Nested
<1>. QED
  BY <1>1, <1>2

(* What a composite asks is a question, and it asks one at least.          *)
LEMMA PartsAreQuestions ==
  ASSUME NEW q, IsQuestion(q)
  PROVE  /\ \A p \in Parts(q) : IsQuestion(p)
         /\ Parts(q) # {}
         /\ IsFiniteSet(Parts(q))
<1>0. /\ IsFiniteSet(TransLabels) /\ Private \subseteq TransLabels
      /\ \A S \in SUBSET TransLabels : IsFiniteSet({SuccsOf(<<l>>) : l \in S})
  <2>1. ASSUME NEW S \in SUBSET TransLabels
        PROVE  IsFiniteSet({SuccsOf(<<l>>) : l \in S})
    <3> DEFINE T == {SuccsOf(<<l>>) : l \in S}
    <3>1. IsFiniteSet(S)
      BY LabelsAreTyped, FS_Subset
    <3>2. [l \in S |-> SuccsOf(<<l>>)] \in Surjection(S, T)
      BY DEF Surjection
    <3>. QED
      BY <3>1, <3>2, FS_Surjection
  <2>. QED
    BY <2>1, LabelsAreTyped
<1>1. ASSUME NEW l \in TransLabels PROVE IsQuestion(SuccsOf(<<l>>))
  <2>1. Sorted(<<l>>)[l] = Cardinality({i \in DOMAIN <<l>> : <<l>>[i] = l})
    BY DEF Sorted
  <2>2. {i \in DOMAIN <<l>> : <<l>>[i] = l} = {1}
    OBVIOUS
  <2>3. Sorted(<<l>>)[l] = 1
    BY <2>1, <2>2, FS_Singleton
  <2>. QED
    BY <2>3 DEF IsQuestion, SuccsOf
<1>2. CASE \E s : q = StateOf(s)
  <2>1. Parts(q) = {q}
    BY <1>2 DEF Parts, StateOf, Contract!StateOf
  <2>. QED
    BY <2>1, FS_Singleton
<1>3. CASE \E b : q = Contract!SuccsOf(b) /\ \E l \in TransLabels : b[l] > 0
  <2>1. PICK b : q = Contract!SuccsOf(b) /\ \E l \in TransLabels : b[l] > 0
    BY <1>3
  <2> DEFINE S == {m \in TransLabels : b[m] > 0}
  <2>2. Parts(q) = {SuccsOf(<<l>>) : l \in S}
    BY <2>1 DEF Parts, Contract!SuccsOf
  <2>. QED
    BY <1>0, <1>1, <2>1, <2>2
<1>4. CASE q = LocalsOf
  <2>1. Parts(q) = {LocalsOf} \cup {SuccsOf(<<l>>) : l \in Private}
    BY <1>4 DEF Parts, LocalsOf, Contract!LocalsOf
  <2>2. IsFiniteSet({LocalsOf})
    BY FS_Singleton
  <2>3. IsFiniteSet({SuccsOf(<<l>>) : l \in Private})
    BY <1>0
  <2>4. IsFiniteSet(Parts(q))
    BY <2>1, <2>2, <2>3, FS_Union
  <2>5. IsQuestion(LocalsOf)
    BY DEF IsQuestion
  <2>. QED
    BY <1>0, <1>1, <2>1, <2>4, <2>5
<1>. QED
  BY <1>2, <1>3, <1>4 DEF IsQuestion

LEMMA AnswerIsCurrent ==
  ASSUME CachesAreCurrent, NEW t \in Types, NEW q, IsQuestion(q)
  PROVE  AnswerOf(t, q) = Contract!Encoded(order, t, q)
<1>1. CASE t = "leaf"
  BY <1>1, LeafIsCurrent DEF AnswerOf
<1>2. CASE t = "comp" /\ Hit("comp", q)
  BY <1>2, HitIsCurrent DEF AnswerOf, CompAnswer
<1>3. CASE t = "comp" /\ ~Hit("comp", q)
  <2>1. \A p \in Parts(q) : LeafAnswer(p).built = {<<"leaf", order["leaf"]>>}
    BY PartsAreQuestions, LeafIsCurrent DEF Contract!Encoded, Contract!Nested
  <2>2. UNION {LeafAnswer(p).built : p \in Parts(q)} = {<<"leaf", order["leaf"]>>}
    BY <2>1, PartsAreQuestions
  <2>3. Contract!Encoded(order, "comp", q)
          = [of |-> q, built |-> {<<"comp", order["comp"]>>} \cup {<<"leaf", order["leaf"]>>}]
    BY DEF Contract!Encoded, Contract!Nested
  <2>. QED
    BY <1>3, <2>2, <2>3 DEF AnswerOf, CompAnswer
<1>. QED
  BY <1>1, <1>2, <1>3 DEF Types, Contract!Types

-----------------------------------------------------------------------------
(* Questions: what is missed is added, and current.                        *)

LEMMA MissedAreQuestions ==
  ASSUME NEW t \in Types, NEW u \in Types, NEW q, IsQuestion(q)
  PROVE  /\ \A p \in Missed(t, q)[u] : IsQuestion(p)
         /\ IsFiniteSet(Missed(t, q)[u])
<1> DEFINE A == IF u = t THEN {q} ELSE IF t = "comp" /\ ~Hit("comp", q) THEN Parts(q) ELSE {}
<1>1. Missed(t, q)[u] = {p \in A : ~Hit(u, p)}
  BY DEF Missed
<1>2. (\A p \in A : IsQuestion(p)) /\ IsFiniteSet(A)
  BY PartsAreQuestions, FS_Singleton, FS_EmptySet
<1>3. Missed(t, q)[u] \in SUBSET A
  BY <1>1
<1>. QED
  BY <1>2, <1>3, FS_Subset

LEMMA NewKeysAreQuestions ==
  ASSUME NEW M, IsFiniteSet(M), \A p \in M : IsQuestion(p)
  PROVE  /\ \E S : NewKeys(M) \in Seq(S)
         /\ \A i \in DOMAIN NewKeys(M) : IsQuestion(Contract!SuccsOf(NewKeys(M)[i]))
<1> DEFINE N == {p \in M : p.kind = "succs"}
           B == {p.bag : p \in N}
<1>1. IsFiniteSet(B)
  <2>1. IsFiniteSet(N)
    BY FS_Subset
  <2>2. [p \in N |-> p.bag] \in Surjection(N, B)
    BY DEF Surjection
  <2>. QED
    BY <2>1, <2>2, FS_Surjection
<1>2. NewKeys(M) \in Seq(B)
  BY <1>1, SetToSeqIsSequence DEF NewKeys
<1>3. ASSUME NEW b \in B PROVE IsQuestion(Contract!SuccsOf(b))
  <2>1. PICK p \in N : b = p.bag
    OBVIOUS
  <2>2. ~(\E s : p = StateOf(s)) /\ p # LocalsOf
    BY <2>1 DEF StateOf, LocalsOf, Contract!StateOf, Contract!LocalsOf
  <2>3. p = Contract!SuccsOf(p.bag)
    BY <2>1, <2>2 DEF IsQuestion, Contract!SuccsOf
  <2>. QED
    BY <2>1, <2>3
<1>. QED
  BY <1>2, <1>3

LEMMA AskStep ==
  ASSUME CacheInv, NEW t \in Types, NEW q, IsQuestion(q), Ask(t, q)
  PROVE  CacheInv'
<1> DEFINE M == Missed(t, q)
<1>1. /\ order' = order
      /\ answer' = [answer EXCEPT ![t] = AnswerOf(t, q)]
      /\ state_cache' = [u \in Types |-> StateCache(u, M[u])]
      /\ trans_keys' = [u \in Types |-> trans_keys[u] \o NewKeys(M[u])]
      /\ trans_vals' = [u \in Types |-> trans_vals[u] \o NewVals(u, M[u])]
      /\ locals_' = [u \in Types |->
                       IF LocalsOf \in M[u] THEN AnswerOf(u, LocalsOf) ELSE locals_[u]]
  BY DEF Ask
<1>2. ASSUME NEW u \in Types
      PROVE  /\ \A s \in DOMAIN StateCache(u, M[u]) :
                  StateCache(u, M[u])[s] = Contract!Encoded(order, u, StateOf(s))
             /\ locals_'[u] # Top => locals_'[u] = Contract!Encoded(order, u, LocalsOf)
  <2>1. \A s : AnswerOf(u, StateOf(s)) = Contract!Encoded(order, u, StateOf(s))
    BY AnswerIsCurrent DEF CacheInv, IsQuestion
  <2>2. AnswerOf(u, LocalsOf) = Contract!Encoded(order, u, LocalsOf)
    BY AnswerIsCurrent DEF CacheInv, IsQuestion
  <2>. QED
    BY <1>1, <2>1, <2>2 DEF CacheInv, CachesAreCurrent, Current, StateCache
<1>3. ASSUME NEW u \in Types
      PROVE  /\ \E S : trans_keys'[u] \in Seq(S)
             /\ \E S : trans_vals'[u] \in Seq(S)
             /\ Len(trans_keys'[u]) = Len(trans_vals'[u])
             /\ \A i \in DOMAIN trans_vals'[u] :
                  trans_vals'[u][i] = Contract!Encoded(order, u, Contract!SuccsOf(trans_keys'[u][i]))
  <2> DEFINE K == NewKeys(M[u])
             V == NewVals(u, M[u])
  <2>1. /\ \E S : K \in Seq(S)
        /\ \A i \in DOMAIN K : IsQuestion(Contract!SuccsOf(K[i]))
    BY MissedAreQuestions, NewKeysAreQuestions
  <2>2. V = [i \in DOMAIN K |-> AnswerOf(u, Contract!SuccsOf(K[i]))]
    BY DEF NewVals
  <2>3. \A i \in DOMAIN K : V[i] = Contract!Encoded(order, u, Contract!SuccsOf(K[i]))
    BY <2>1, <2>2, AnswerIsCurrent DEF CacheInv
  <2>4. PICK S : K \in Seq(S) /\ trans_keys[u] \in Seq(S)
    BY <2>1, JoinedSequences DEF CacheInv, Shape
  <2>5. PICK W : V \in Seq(W) /\ trans_vals[u] \in Seq(W)
    <3>1. Len(K) \in Nat /\ DOMAIN K = 1 .. Len(K)
      BY <2>4
    <3>2. V \in Seq({V[i] : i \in DOMAIN K})
      BY <2>2, <3>1
    <3> HIDE DEF K, V
    <3>3. PICK U : trans_vals[u] \in Seq(U)
      BY DEF CacheInv, Shape
    <3>. QED
      BY <3>2, <3>3, JoinedSequences
  <2>6. /\ Len(V) = Len(K) /\ Len(trans_vals[u]) = Len(trans_keys[u])
        /\ \A i \in DOMAIN trans_vals[u] :
             trans_vals[u][i] = Contract!Encoded(order, u, Contract!SuccsOf(trans_keys[u][i]))
    BY <2>2, <2>4, <2>5 DEF CacheInv, CachesAreCurrent, Current
  <2>7. /\ trans_keys'[u] = trans_keys[u] \o K
        /\ trans_vals'[u] = trans_vals[u] \o V
    BY <1>1
  <2>8. trans_keys'[u] \in Seq(S) /\ trans_vals'[u] \in Seq(W)
    BY <2>4, <2>5, <2>7
  <2> HIDE DEF K, V
  <2>9. Len(trans_keys'[u]) = Len(trans_vals'[u])
    <3>1. /\ Len(trans_keys[u] \o K) = Len(trans_keys[u]) + Len(K)
          /\ Len(trans_vals[u] \o V) = Len(trans_vals[u]) + Len(V)
      BY <2>4, <2>5, ConcatProperties
    <3>. QED
      BY <2>6, <2>7, <3>1
  <2>10. ASSUME NEW i \in DOMAIN trans_vals'[u]
         PROVE  trans_vals'[u][i] = Contract!Encoded(order, u, Contract!SuccsOf(trans_keys'[u][i]))
    <3> DEFINE k == trans_keys[u]
               v == trans_vals[u]
    <3>1. k \in Seq(S) /\ K \in Seq(S) /\ v \in Seq(W) /\ V \in Seq(W)
      BY <2>4, <2>5
    <3>2. /\ Len(V) = Len(K) /\ Len(v) = Len(k)
          /\ \A j \in DOMAIN v : v[j] = Contract!Encoded(order, u, Contract!SuccsOf(k[j]))
      BY <2>6
    <3>3. trans_keys'[u] = k \o K /\ trans_vals'[u] = v \o V
      BY <2>7
    <3> HIDE DEF k, v
    <3>4. i \in DOMAIN (v \o V)
      BY <3>3
    <3>5. /\ i <= Len(v) => i \in DOMAIN v /\ (v \o V)[i] = v[i]
          /\ ~(i <= Len(v)) => i - Len(v) \in DOMAIN V /\ (v \o V)[i] = V[i - Len(v)]
      BY <3>1, <3>4, JoinedAt
    <3>6. DOMAIN V = DOMAIN K /\ DOMAIN (v \o V) = DOMAIN (k \o K)
      <4>1. v \o V \in Seq(W) /\ k \o K \in Seq(S) /\ Len(v \o V) = Len(k \o K)
        BY <2>9, <3>1, <3>3, ConcatProperties
      <4>2. DOMAIN V = 1 .. Len(V) /\ DOMAIN K = 1 .. Len(K)
        BY <3>1, LenProperties
      <4>3. DOMAIN (v \o V) = 1 .. Len(v \o V) /\ DOMAIN (k \o K) = 1 .. Len(k \o K)
        BY <4>1, LenProperties
      <4>. QED
        BY <3>2, <4>1, <4>2, <4>3
    <3>7. i \in DOMAIN (k \o K)
      BY <3>4, <3>6
    <3>8. /\ i <= Len(k) => (k \o K)[i] = k[i]
          /\ ~(i <= Len(k)) => (k \o K)[i] = K[i - Len(k)]
      BY <3>1, <3>7, JoinedAt
    <3>9. CASE i <= Len(v)
      BY <3>2, <3>3, <3>5, <3>8, <3>9
    <3>10. CASE ~(i <= Len(v))
      BY <2>3, <3>2, <3>3, <3>5, <3>6, <3>8, <3>10
    <3>. QED
      BY <3>9, <3>10
  <2>. QED
    BY <2>8, <2>9, <2>10
<1>4. Shape'
  BY <1>1, <1>3 DEF CacheInv, Shape
<1>5. CachesAreCurrent'
  BY <1>1, <1>2, <1>3 DEF CachesAreCurrent, Current
<1>. QED
  BY <1>4, <1>5 DEF CacheInv

-----------------------------------------------------------------------------
(* Orders.  The composite has nothing left when the order of the leaf      *)
(* changes; what the leaf keeps does not depend on the composite's.        *)

LEMMA OrderStep ==
  ASSUME Disciplined, CacheInv, NEW t \in Types, SetVarOrder(t)
  PROVE  CacheInv'
<1>1. PICK o \in Orders : order' = [order EXCEPT ![t] = o]
  BY DEF SetVarOrder
<1>2. /\ state_cache' = [state_cache EXCEPT ![t] = <<>>]
      /\ trans_vals' = [trans_vals EXCEPT ![t] = <<>>]
      /\ locals_' = [locals_ EXCEPT ![t] = Top]
      /\ trans_keys' = trans_keys /\ answer' = answer
  BY DEF SetVarOrder
<1>3. Shape'
  <2>1. <<>> \in Seq({})
    OBVIOUS
  <2>. QED
    BY <1>1, <1>2, <2>1 DEF CacheInv, Shape
<1>4. trans_keys[t] = <<>> /\ (t = "leaf" => NothingCached("comp"))
  BY DEF SetVarOrder, MayReorder
<1>5. DOMAIN state_cache'[t] = {} /\ trans_keys'[t] = <<>> /\ trans_vals'[t] = <<>> /\ locals_'[t] = Top
  BY <1>2, <1>4 DEF CacheInv, Shape
<1>6. ASSUME NEW u \in Types, u # t
      PROVE  /\ state_cache'[u] = state_cache[u] /\ trans_keys'[u] = trans_keys[u]
             /\ trans_vals'[u] = trans_vals[u] /\ locals_'[u] = locals_[u]
  BY <1>2, <1>6 DEF CacheInv, Shape
<1>7. CASE t = "leaf"
  <2>1. DOMAIN state_cache["comp"] = {} /\ trans_keys["comp"] = <<>> /\ locals_["comp"] = Top
    BY <1>4, <1>7 DEF NothingCached
  <2>2. trans_vals["comp"] = <<>>
    <3>1. Len(trans_vals["comp"]) = 0
      BY <2>1 DEF CacheInv, CachesAreCurrent, Types, Contract!Types
    <3>. QED
      BY <3>1 DEF CacheInv, Shape, Types, Contract!Types
  <2>. QED
    BY <1>3, <1>5, <1>6, <1>7, <2>1, <2>2 DEF CacheInv, CachesAreCurrent, Types, Contract!Types
<1>8. CASE t = "comp"
  <2>1. \A q : Contract!Encoded(order', "leaf", q) = Contract!Encoded(order, "leaf", q)
    <3>1. order'["leaf"] = order["leaf"]
      BY <1>1, <1>8 DEF CacheInv, Shape, Types, Contract!Types
    <3>2. \A q, ord : Contract!Encoded(ord, "leaf", q) = [of |-> q, built |-> {<<"leaf", ord["leaf"]>>}]
      BY DEF Contract!Encoded, Contract!Nested
    <3>. QED
      BY <3>1, <3>2
  <2>2. CachesAreCurrent'
    BY <1>5, <1>6, <1>8, <2>1 DEF CacheInv, CachesAreCurrent, Current, Types, Contract!Types
  <2>. QED
    BY <1>3, <2>2 DEF CacheInv
<1>. QED
  BY <1>7, <1>8 DEF Types, Contract!Types

(* Every step but a change of order is a question.                         *)
LEMMA StepsAreQuestions ==
  ASSUME CacheNext
  PROVE  \E t \in Types :
            \/ SetVarOrder(t)
            \/ \E q \in Questions : IsQuestion(q) /\ Ask(t, q)
<1>1. PICK t \in Types : GetState(t) \/ GetSuccs(t) \/ GetLocals(t) \/ SetVarOrder(t)
  BY DEF CacheNext
<1>2. CASE GetState(t)
  BY <1>2 DEF GetState, Questions, Contract!Questions, IsQuestion, StateOf
<1>3. CASE GetSuccs(t)
  <2>1. PICK tau \in Taus : Ask(t, SuccsOf(tau))
    BY <1>3 DEF GetSuccs
  <2>2. Sorted(tau) \in Contract!TransBags
    BY LabelsAreTyped
  <2>. QED
    BY <2>1, <2>2 DEF Questions, Contract!Questions, Contract!TransBags, IsQuestion, SuccsOf
<1>4. CASE GetLocals(t)
  BY <1>4 DEF GetLocals, Questions, Contract!Questions, IsQuestion, LocalsOf
<1>. QED
  BY <1>1, <1>2, <1>3, <1>4

LEMMA CacheInvariance ==
  ASSUME Disciplined
  PROVE  CacheSpec => []CacheInv
<1>1. CacheInit => CacheInv
  <2> SUFFICES ASSUME CacheInit PROVE CacheInv
    OBVIOUS
  <2>1. <<>> \in Seq({}) /\ DOMAIN <<>> = {} /\ Len(<<>>) = 0
    OBVIOUS
  <2>. QED
    BY <2>1 DEF CacheInit, CacheInv, Shape, CachesAreCurrent
<1>2. CacheInv /\ [CacheNext]_cacheVars => CacheInv'
  <2> SUFFICES ASSUME CacheInv, [CacheNext]_cacheVars PROVE CacheInv'
    OBVIOUS
  <2>1. CASE CacheNext
    BY <2>1, StepsAreQuestions, OrderStep, AskStep
  <2>2. CASE UNCHANGED cacheVars
    BY <2>2 DEF cacheVars, CacheInv, Shape, CachesAreCurrent, Current
  <2>. QED
    BY <2>1, <2>2
<1>. QED
  BY <1>1, <1>2, PTL DEF CacheSpec

(* When orders are loaded before anything that depends on them is asked,   *)
(* what the caches keep is what the types would build (TypeCacher.hh:26).  *)
THEOREM CachesStayCurrent ==
  ASSUME Disciplined
  PROVE  CacheSpec => []CachesAreCurrent
BY CacheInvariance, PTL DEF CacheInv

(* And then nobody can tell a cached type from the type itself: each answer*)
(* is encoded with the orders set now, its own and those nested in it.     *)
THEOREM CachesAreTransparent ==
  ASSUME Disciplined
  PROVE  CacheSpec => Transparent
<1>1. CacheInit => Contract!Init
  BY DEF CacheInit, Contract!Init, Types, Nothing
<1>2. CacheInv /\ [CacheNext]_cacheVars => [Contract!Next]_<<order, answer>>
  <2> SUFFICES ASSUME CacheInv, [CacheNext]_cacheVars PROVE [Contract!Next]_<<order, answer>>
    OBVIOUS
  <2>1. ASSUME NEW t \in Types, NEW q \in Questions, IsQuestion(q), Ask(t, q) PROVE Contract!Next
    <3>1. answer' = [answer EXCEPT ![t] = Contract!Encoded(order, t, q)]
      BY <2>1, AnswerIsCurrent DEF Ask, CacheInv
    <3>2. Contract!Ask(t, q)
      BY <2>1, <3>1 DEF Ask, Contract!Ask
    <3>. QED
      BY <2>1, <3>2 DEF Contract!Next, Types, Questions
  <2>2. ASSUME NEW t \in Types, SetVarOrder(t) PROVE Contract!Next
    BY <2>2 DEF SetVarOrder, Contract!SetVarOrder, Contract!Next, Types
  <2>3. CASE CacheNext
    BY <2>3, StepsAreQuestions, <2>1, <2>2
  <2>4. CASE UNCHANGED cacheVars
    BY <2>4 DEF cacheVars
  <2>. QED
    BY <2>3, <2>4
<1>. QED
  BY <1>1, <1>2, CacheInvariance, PTL DEF CacheSpec, Transparent, Contract!Spec
=============================================================================
