------------------------------ MODULE ScalarSet ------------------------------
(***************************************************************************)
(* Scalar and circular sets (its/scalar): n instances of one type, with    *)
(* delegators that fire a label in all or in any of them, and for circular *)
(* sets synchronizations of each instance with the next one of the ring.   *)
(* The set is encoded by composite types that nest blocks of instances:    *)
(* this module is the construction of these types, that a strategy chooses *)
(* (-ssD2, -ssDR and -ssDS).  Type k stands for a block of k instances and *)
(* type 1 for the contained type.  Every action is a call of               *)
(* buildRepresentation, or a step of a recursive one.                      *)
(***************************************************************************)
EXTENDS Naturals, FiniteSets, Sequences

CONSTANTS
  Sets,          \* the sets considered
  BaseLabels     \* the transition labels of the contained type

Strategies == {"DEPTH1", "DEPTHREC", "SHALLOWREC"}

(* all: ALL or ANY; the label is "" for a private delegator.               *)
Delegators == [name : BaseLabels, label : BaseLabels \cup {""}, all : BOOLEAN]

(* The labels fired in an instance, and in the next one.                   *)
Circulars == [name : STRING, label : STRING, cur : Seq(BaseLabels), next : Seq(BaseLabels)]

ASSUME SetsAreTyped ==
  \A s \in Sets :
     /\ s.size \in Nat \ {0} /\ s.strategy \in Strategies /\ s.param \in Nat
     /\ s.syncs \in Seq(Delegators) /\ s.circs \in Seq(Circulars) /\ s.circular \in BOOLEAN
     /\ ~s.circular => s.circs = <<>>
     /\ \A i, j \in DOMAIN s.syncs : i # j => s.syncs[i].name # s.syncs[j].name
     /\ \A st \in DOMAIN s.inits : s.inits[st] \in Seq(STRING) /\ s.inits[st] # <<>>

VARIABLES
  set,          \* the set: comp_, with its strategy
  grain,        \* grain_
  pc,
  calls,        \* the calls of buildNWiseComposite under way, the last first
  types,        \* the composite types declared, by number of instances
  concrete      \* concrete_: the type that stands for the set, 0 for none

vars == <<set, grain, pc, calls, types, concrete>>

IsRecursive == set.strategy # "DEPTH1"

(* findType: the contained type is in the model from the start.            *)
Declared(k) == k = 1 \/ k \in DOMAIN types

(* getTransLabels, of the contained type or of a block.                    *)
LabelsOf(k) == IF k = 1 THEN BaseLabels ELSE {s.label : s \in types[k].syncs}

-----------------------------------------------------------------------------
(* buildNaryRepresentation.                                                *)

(* The first blocks have one instance more.  There are more blocks than n  *)
(* when complement is larger.                                              *)
BlockSizes(n, size, complement) ==
  [i \in 0 .. (IF complement > n THEN complement ELSE n) - 1 |->
     IF i < complement THEN size + 1 ELSE size]

(* addInstance fails when the type is unknown.                             *)
Instances(n, size, complement) ==
  LET sizes == BlockSizes(n, size, complement)
  IN  [i \in {j \in DOMAIN sizes : Declared(sizes[j])} |-> sizes[i]]

Requested(name, label, parts) == [name |-> name, label |-> label, parts |-> parts]

(* The parts <<i, labels[1]>>, <<i, labels[2]>>...                         *)
Fires(i, labels) == [k \in DOMAIN labels |-> <<i, labels[k]>>]

(* Mutant: a private delegator is private in the blocks too.               *)
AllLabelPlain(d, close_loop) == d.label

(* In a block, a private ALL delegator is public under its own name.       *)
AllLabel(d, close_loop) == IF ~close_loop /\ d.label = "" THEN d.name ELSE d.label

(* A delegator is one synchronization of all the blocks, or one for each.  *)
OfDelegator(d, n, close_loop) ==
  IF d.all
  THEN <<Requested(<<d.name>>, AllLabel(d, close_loop), [i \in 1 .. n |-> <<i - 1, d.name>>])>>
  ELSE [i \in 1 .. n |-> Requested(<<d.name, i - 1>>, d.label, <<<<i - 1, d.name>>>>)]

(* addInternal and addLoop: block i with the next one.                     *)
OfPair(c, i, next) ==
  Requested(<<c.name, i>>, c.label, Fires(i, c.cur) \o Fires(next, c.next))

(* addEdges: the last block offers the labels of the current instance and  *)
(* the first block those of the next one.                                  *)
OfEdges(c, n) ==
  [k \in DOMAIN c.cur |-> Requested(<<c.cur[k]>>, c.cur[k], <<<<n - 1, c.cur[k]>>>>)] \o
  [k \in DOMAIN c.next |-> Requested(<<c.next[k]>>, c.next[k], <<<<0, c.next[k]>>>>)]

OfCircular(c, n, close_loop) ==
  [i \in 1 .. n - 1 |-> OfPair(c, i - 1, i)] \o
  (IF close_loop THEN <<OfPair(c, n - 1, 0)>> ELSE OfEdges(c, n))

(* s[1] \o s[2] \o ..., without recursion over sequences.                  *)
Joined(s) ==
  LET upTo[k \in 0 .. Len(s)] == IF k = 0 THEN <<>> ELSE upTo[k - 1] \o s[k]
  IN  upTo[Len(s)]

Requests(n, close_loop) ==
  Joined([k \in DOMAIN set.syncs |-> OfDelegator(set.syncs[k], n, close_loop)]) \o
  Joined([k \in DOMAIN set.circs |-> OfCircular(set.circs[k], n, close_loop)])

(* addSynchronization refuses a name that is taken, and addSyncPart then   *)
(* adds its part to the synchronization of that name.  It refuses a part   *)
(* of an unknown block or with an unknown label.                           *)
Synchronizations(insts, n, close_loop) ==
  LET asked == Requests(n, close_loop)
      Same(name) == SelectSeq(asked, LAMBDA r : r.name = name)
      Known(p) == p[1] \in DOMAIN insts /\ p[2] \in LabelsOf(insts[p[1]])
      Parts(name) == Joined([k \in DOMAIN Same(name) |-> Same(name)[k].parts])
  IN  {[name |-> name, label |-> Same(name)[1].label, parts |-> SelectSeq(Parts(name), Known)] :
         name \in {asked[k].name : k \in DOMAIN asked}}

(* ScalarState::getState is asked for the rank of the block.               *)
StateDefs(n) ==
  [st \in DOMAIN set.inits |->
     [i \in 0 .. n - 1 |-> IF i < Len(set.inits[st]) THEN set.inits[st][i + 1] ELSE set.inits[st][1]]]

(* declareType refuses a name that is taken.                               *)
BuildNary(n, size, complement, close_loop) ==
  LET N == n * size + complement
      insts == Instances(n, size, complement)
      type == [insts |-> insts, syncs |-> Synchronizations(insts, n, close_loop),
               inits |-> StateDefs(n)]
  IN  types' = [k \in DOMAIN types \cup {N} |->
                  IF k = N /\ N \notin DOMAIN types THEN type ELSE types[k]]

-----------------------------------------------------------------------------
Init ==
  /\ set \in Sets
  /\ grain = IF set.param = 0 THEN 1 ELSE set.param
  /\ pc = "start" /\ calls = <<>>
  /\ types = [k \in {} |-> {}]
  /\ concrete = 0

(* BasicStrategy: blocks of grain instances, some of one more.             *)
SizeOne ==
  /\ pc = "start" /\ ~IsRecursive /\ set.size = 1
  /\ pc' = "built"
  /\ UNCHANGED <<set, grain, calls, types, concrete>>

LimitGrain ==
  /\ pc = "start" /\ ~IsRecursive /\ set.size > 1
  /\ grain' = IF grain > set.size \div 2 THEN set.size \div 2 ELSE grain
  /\ pc' = "blocks"
  /\ UNCHANGED <<set, calls, types, concrete>>

BuildBlocks ==
  /\ pc = "blocks"
  /\ IF grain > 1 THEN BuildNary(grain, 1, 0, FALSE) ELSE UNCHANGED types
  /\ pc' = "larger"
  /\ UNCHANGED <<set, grain, calls, concrete>>

BuildLargerBlocks ==
  /\ pc = "larger"
  /\ IF set.size % grain # 0 THEN BuildNary(grain + 1, 1, 0, FALSE) ELSE UNCHANGED types
  /\ pc' = "top"
  /\ UNCHANGED <<set, grain, calls, concrete>>

BuildTop ==
  /\ pc = "top"
  /\ BuildNary(set.size \div grain, grain, set.size % grain, TRUE)
  /\ pc' = "built"
  /\ UNCHANGED <<set, grain, calls, concrete>>

(* DepthRecStrategy, which setStrategy builds for SHALLOWREC as well: at   *)
(* each level, grain blocks.                                               *)
Call(n, close_loop) == [n |-> n, close_loop |-> close_loop, at |-> "enter"]
Top == calls[1]
Part == Top.n \div grain
Rem == Top.n % grain

StartRecursion ==
  /\ pc = "start" /\ IsRecursive
  /\ calls' = <<Call(set.size, TRUE)>>
  /\ pc' = "rec"
  /\ UNCHANGED <<set, grain, types, concrete>>

Recursing(at) == pc = "rec" /\ calls # <<>> /\ Top.at = at
Stays == UNCHANGED <<set, grain, pc, concrete>>
GoTo(at) == [calls EXCEPT ![1].at = at]

Known ==
  /\ Recursing("enter") /\ Declared(Top.n)
  /\ calls' = Tail(calls)
  /\ UNCHANGED types /\ Stays

IsFinal == Top.n < grain \/ grain = 1

(* The final level, whatever close_loop is.                                *)
FinalLevel ==
  /\ Recursing("enter") /\ ~Declared(Top.n) /\ IsFinal
  /\ BuildNary(Top.n, 1, 0, FALSE)
  /\ calls' = Tail(calls)
  /\ Stays

BuildPart ==
  /\ Recursing("enter") /\ ~Declared(Top.n) /\ ~IsFinal
  /\ calls' = IF Part > 1 THEN <<Call(Part, FALSE)>> \o GoTo("rem") ELSE GoTo("rem")
  /\ UNCHANGED types /\ Stays

BuildRem ==
  /\ Recursing("rem")
  /\ calls' = IF Rem # 0 THEN <<Call(Part + 1, FALSE)>> \o GoTo("nary") ELSE GoTo("nary")
  /\ UNCHANGED types /\ Stays

Compose ==
  /\ Recursing("nary")
  /\ BuildNary(grain, Part, Rem, Top.close_loop)
  /\ calls' = Tail(calls)
  /\ Stays

EndRecursion ==
  /\ pc = "rec" /\ calls = <<>>
  /\ pc' = "built"
  /\ UNCHANGED <<set, grain, calls, types, concrete>>

(* getConcrete.                                                            *)
FindConcrete ==
  /\ pc = "built"
  /\ concrete' = IF Declared(set.size) THEN set.size ELSE 0
  /\ pc' = "done"
  /\ UNCHANGED <<set, grain, calls, types>>

Next ==
  \/ SizeOne \/ LimitGrain \/ BuildBlocks \/ BuildLargerBlocks \/ BuildTop
  \/ StartRecursion \/ Known \/ FinalLevel \/ BuildPart \/ BuildRem \/ Compose \/ EndRecursion
  \/ FindConcrete

Spec == Init /\ [][Next]_vars /\ WF_vars(Next)

-----------------------------------------------------------------------------
(* The blocks of two levels are as many as announced: with -ssD2 the       *)
(* blocks must not be fewer than the instances that do not fill them.      *)
Fits == IsRecursive \/ set.size % grain <= set.size \div grain

TypeOK ==
  /\ set \in Sets /\ grain \in Nat \ {0}
  /\ pc \in {"start", "blocks", "larger", "top", "rec", "built", "done"}
  /\ calls \in Seq([n : Nat \ {0}, close_loop : BOOLEAN, at : {"enter", "rem", "nary"}])
  /\ DOMAIN types \subseteq Nat \ {0, 1}
  /\ concrete \in Nat

(* How many instances the blocks of a type hold.                           *)
InstancesIn(t) ==
  LET holds[k \in SUBSET DOMAIN t.insts] ==
        IF k = {} THEN 0 ELSE LET i == CHOOSE i \in k : TRUE IN t.insts[i] + holds[k \ {i}]
  IN  holds[DOMAIN t.insts]

(* "the size of this scalar set" (ScalarSet.hh): the type built for a      *)
(* block of k instances holds k of them.                                   *)
HoldsAllInstances == \A k \in DOMAIN types : InstancesIn(types[k]) = k
=============================================================================
