----------------------------- MODULE TypeCacher -----------------------------
(***************************************************************************)
(* The caches ITSModel puts in front of every type (its/TypeCacher): a map *)
(* of states, two vectors for the successor relations and a slot for the   *)
(* local one.  A composite asks the cached types of its instances, so that *)
(* one call may fill the caches of both.                                   *)
(***************************************************************************)
EXTENDS Naturals, Sequences, SequencesExt, FiniteSets

CONSTANTS
  Orders,         \* the variable orders of a type
  StateLabels,    \* labels of initial states
  TransLabels,    \* labels of synchronizable transitions
  Private,        \* labels of the parts of the composite's own transitions
  Taus,           \* arguments of getSuccs: sequences of labels
  Disciplined     \* whether orders are only changed when it is safe

VARIABLES
  order,          \* the current variable order of each type
  state_cache,    \* label -> state, for each type
  trans_keys,     \* sorted arguments of getSuccs
  trans_vals,     \* their results
  locals_,        \* the local relation, or Top
  answer          \* what the last call on each type returned

cacheVars == <<order, state_cache, trans_keys, trans_vals, locals_, answer>>
caches == <<state_cache, trans_keys, trans_vals, locals_>>

Contract == INSTANCE TypeContract

Types == Contract!Types
Questions == Contract!Questions
Nothing == Contract!Nothing

Top == [of |-> [Contract!NoQuestion EXCEPT !.kind = "top"], built |-> {}]

(* What is read in trans_vals past its end: an element that was destroyed. *)
Dangling == [of |-> [Contract!NoQuestion EXCEPT !.kind = "dangling"], built |-> {}]

(* Sorting tau makes all the orders of the same bag one key.               *)
Sorted(tau) == [l \in TransLabels |-> Cardinality({i \in DOMAIN tau : tau[i] = l})]

(* The labels asked are those of the type: "otherwise, an assertion        *)
(* violation will be raised" (TypeCacher.cpp:20).                          *)
ASSUME LabelsAreTyped ==
  /\ IsFiniteSet(TransLabels) /\ Private \subseteq TransLabels
  /\ \A tau \in Taus : Sorted(tau) \in Contract!TransBags

StateOf(s) == Contract!StateOf(s)
SuccsOf(tau) == Contract!SuccsOf(Sorted(tau))
LocalsOf == Contract!LocalsOf

(* What CompositeType asks of the type of an instance to answer q: its     *)
(* state, the transition of each part of a synchronization of each label   *)
(* of the bag, or its local transitions and those of the parts of the      *)
(* unlabelled synchronizations.                                            *)
Parts(q) ==
  CASE q.kind = "state"  -> {q}
    [] q.kind = "succs"  -> {SuccsOf(<<l>>) : l \in {m \in TransLabels : q.bag[m] > 0}}
    [] q.kind = "locals" -> {LocalsOf} \cup {SuccsOf(<<l>>) : l \in Private}

CacheInit ==
  /\ order \in [Types -> Orders]
  /\ state_cache = [t \in Types |-> <<>>]
  /\ trans_keys = [t \in Types |-> <<>>]
  /\ trans_vals = [t \in Types |-> <<>>]
  /\ locals_ = [t \in Types |-> Top]
  /\ answer = [t \in Types |-> Nothing]

(* find(trans_keys): the position of a key.                                *)
Position(t, key) == CHOOSE i \in DOMAIN trans_keys[t] : trans_keys[t][i] = key

Hit(t, q) ==
  CASE q.kind = "state"  -> q.label \in DOMAIN state_cache[t]
    [] q.kind = "succs"  -> q.bag \in Range(trans_keys[t])
    [] q.kind = "locals" -> locals_[t] # Top

Stored(t, q) ==
  CASE q.kind = "state"  -> state_cache[t][q.label]
    [] q.kind = "succs"  ->
         LET i == Position(t, q.bag)
         IN  IF i <= Len(trans_vals[t]) THEN trans_vals[t][i] ELSE Dangling
    [] q.kind = "locals" -> locals_[t]

(* What the concrete leaf type builds.                                     *)
LeafAnswer(q) ==
  IF Hit("leaf", q) THEN Stored("leaf", q)
  ELSE [of |-> q, built |-> {<<"leaf", order["leaf"]>>}]

(* The concrete composite builds its answer on those of its instance.      *)
CompAnswer(q) ==
  IF Hit("comp", q) THEN Stored("comp", q)
  ELSE [of |-> q,
        built |-> {<<"comp", order["comp"]>>}
                    \cup UNION {LeafAnswer(p).built : p \in Parts(q)}]

AnswerOf(t, q) == IF t = "leaf" THEN LeafAnswer(q) ELSE CompAnswer(q)

(* The questions that reach the cache of u in a call of q on t and are not *)
(* found there.                                                            *)
Missed(t, q) ==
  [u \in Types |->
     {p \in (IF u = t THEN {q}
             ELSE IF t = "comp" /\ ~Hit("comp", q) THEN Parts(q) ELSE {}) : ~Hit(u, p)}]

(* The three updates of a cache by the misses M.                           *)
StateCache(t, M) ==
  [s \in DOMAIN state_cache[t] \cup {p.label : p \in {q \in M : q.kind = "state"}} |->
     IF s \in DOMAIN state_cache[t] THEN state_cache[t][s] ELSE AnswerOf(t, StateOf(s))]

NewKeys(M) == SetToSeq({p.bag : p \in {q \in M : q.kind = "succs"}})

NewVals(t, M) ==
  [i \in DOMAIN NewKeys(M) |-> AnswerOf(t, Contract!SuccsOf(NewKeys(M)[i]))]

(* getState, getSuccs or getLocals on t, with what it asks further down.   *)
Ask(t, q) ==
  LET M == Missed(t, q)
  IN  /\ answer' = [answer EXCEPT ![t] = AnswerOf(t, q)]
      /\ state_cache' = [u \in Types |-> StateCache(u, M[u])]
      /\ trans_keys' = [u \in Types |-> trans_keys[u] \o NewKeys(M[u])]
      /\ trans_vals' = [u \in Types |-> trans_vals[u] \o NewVals(u, M[u])]
      /\ locals_' = [u \in Types |->
                       IF LocalsOf \in M[u] THEN AnswerOf(u, LocalsOf) ELSE locals_[u]]
      /\ UNCHANGED order

GetState(t) == \E s \in StateLabels : Ask(t, StateOf(s))
GetSuccs(t) == \E tau \in Taus : Ask(t, SuccsOf(tau))
GetLocals(t) == Ask(t, LocalsOf)

NothingCached(t) ==
  DOMAIN state_cache[t] = {} /\ trans_keys[t] = <<>> /\ locals_[t] = Top

(* When the order of a type may be changed without any mixup: nobody asked *)
(* for its successors yet, and nothing built on it is cached.  The tools   *)
(* load the orders before they ask anything.                               *)
MayReorder(t) ==
  trans_keys[t] = <<>> /\ (t = "leaf" => NothingCached("comp"))

(* Mutants: one of the caches is not emptied.                              *)
SetVarOrderKeepsStates(t) ==
  /\ Disciplined => MayReorder(t)
  /\ trans_vals' = [trans_vals EXCEPT ![t] = <<>>]
  /\ locals_' = [locals_ EXCEPT ![t] = Top]
  /\ \E o \in Orders : order' = [order EXCEPT ![t] = o]
  /\ UNCHANGED <<state_cache, trans_keys, answer>>

SetVarOrderKeepsLocals(t) ==
  /\ Disciplined => MayReorder(t)
  /\ state_cache' = [state_cache EXCEPT ![t] = <<>>]
  /\ trans_vals' = [trans_vals EXCEPT ![t] = <<>>]
  /\ \E o \in Orders : order' = [order EXCEPT ![t] = o]
  /\ UNCHANGED <<trans_keys, locals_, answer>>

(* The keys are not removed with the values.  An order that the concrete   *)
(* type refuses is the one of the \E that changes nothing: the caches are  *)
(* emptied before it is asked.                                             *)
SetVarOrder(t) ==
  /\ Disciplined => MayReorder(t)
  /\ state_cache' = [state_cache EXCEPT ![t] = <<>>]
  /\ trans_vals' = [trans_vals EXCEPT ![t] = <<>>]
  /\ locals_' = [locals_ EXCEPT ![t] = Top]
  /\ \E o \in Orders : order' = [order EXCEPT ![t] = o]
  /\ UNCHANGED <<trans_keys, answer>>

CacheNext == \E t \in Types : GetState(t) \/ GetSuccs(t) \/ GetLocals(t) \/ SetVarOrder(t)

CacheSpec == CacheInit /\ [][CacheNext]_cacheVars

-----------------------------------------------------------------------------
Values == Contract!Answers \cup {Dangling}

CacheTypeOK ==
  /\ order \in [Types -> Orders]
  /\ \A t \in Types :
       /\ DOMAIN state_cache[t] \subseteq StateLabels
       /\ Range(state_cache[t]) \subseteq Values
       /\ trans_keys[t] \in Seq(Contract!TransBags)
       /\ trans_vals[t] \in Seq(Values)
       /\ locals_[t] \in Values \cup {Top}
       /\ answer[t] \in Values \cup {Nothing}

(* All that is cached is what would be built now, and "it is stored as two *)
(* congruent vector of values for keys and vals".                          *)
Current(t, q, v) == v = Contract!Encoded(order, t, q)

CachesAreCurrent ==
  \A t \in Types :
    /\ \A s \in DOMAIN state_cache[t] : Current(t, StateOf(s), state_cache[t][s])
    /\ Len(trans_keys[t]) = Len(trans_vals[t])
    /\ \A i \in DOMAIN trans_vals[t] :
         Current(t, Contract!SuccsOf(trans_keys[t][i]), trans_vals[t][i])
    /\ locals_[t] # Top => Current(t, LocalsOf, locals_[t])

(* The caches are transparent: a cached type answers as a type does.       *)
Transparent == Contract!Spec

(* For TLC, the arguments of getSuccs: each label, and each pair in the two*)
(* orders.                                                                 *)
LabelsAndPairs ==
  {<<l>> : l \in TransLabels}
    \cup {<<p[1], p[2]>> : p \in {q \in TransLabels \X TransLabels : q[1] # q[2]}}
=============================================================================
