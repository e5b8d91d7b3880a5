------------------------------ MODULE Ordering ------------------------------
(***************************************************************************)
(* Variable orders (its/Ordering) and the loading of an order file by      *)
(* ITSModel::loadOrder: each section of the file gives a type a new order, *)
(* and loading stops at the first section that is refused.                 *)
(***************************************************************************)
EXTENDS Integers, Sequences, FiniteSets, Functions

CONSTANTS
  Variables,     \* the variables of each type: a function from their names
  Files          \* the order files: sequences of [type, order]

(* A type has finitely many variables, a file is a sequence of sections    *)
(* and a section a sequence of names.                                      *)
ASSUME FilesAreTyped ==
  /\ \A t \in DOMAIN Variables : IsFiniteSet(Variables[t])
  /\ \A f \in Files :
       /\ f \in Seq(Range(f))
       /\ \A k \in DOMAIN f : f[k].order \in Seq(Range(f[k].order))

VARIABLES
  indexes_,      \* variable -> index, for each type
  asserts,       \* whether the build checks assertions (no -DNDEBUG)
  before,        \* the orders when loading starts
  file,          \* the file
  next,          \* the next section
  status

input == <<asserts, before, file>>
loadVars == <<indexes_, input, next, status>>

ModelTypes == DOMAIN Variables

(* Mutant: the counter starts from 1.                                      *)
FromCollectionFromOne(order) ==
  [v \in Range(order) |-> CHOOSE i \in DOMAIN order : order[i] = v]

(* VarOrder::setFromCollection: the index of a variable is the position of *)
(* its first occurrence; the counter runs over the others too.             *)
FromCollection(order) ==
  [v \in Range(order) |-> (CHOOSE i \in DOMAIN order :
                             order[i] = v /\ \A j \in 1 .. i - 1 : order[j] # v) - 1]

HasDuplicate(order) == Cardinality(Range(order)) < Len(order)

GetIndex(ix, v) == IF v \in DOMAIN ix THEN ix[v] ELSE -1

(* The label of an index; none is the empty name.                          *)
GetLabel(ix, i) ==
  IF \E v \in DOMAIN ix : ix[v] = i THEN CHOOSE v \in DOMAIN ix : ix[v] = i ELSE ""

OrdersOf(S) == {o \in [1 .. Cardinality(S) -> S] : Range(o) = S}

(* TypeBasics::getVarOrder makes an order of getVarSet() when it is first  *)
(* asked for one.                                                          *)
DefaultOrders(t) == {FromCollection(o) : o \in OrdersOf(Variables[t])}

LoadInit ==
  /\ indexes_ \in [ModelTypes -> UNION {DefaultOrders(t) : t \in ModelTypes}]
  /\ \A t \in ModelTypes : indexes_[t] \in DefaultOrders(t)
  /\ before = indexes_
  /\ asserts \in BOOLEAN
  /\ file \in Files
  /\ next = 1
  /\ status = "loading"

Section == file[next]
Reading == status = "loading" /\ next <= Len(file)

(* updateVarOrder: no such type in the model.                              *)
UnknownType ==
  /\ Reading
  /\ Section.type \notin ModelTypes
  /\ status' = "failed"
  /\ UNCHANGED <<indexes_, input, next>>

(* Mutant: a section with an unknown variable is skipped.                 *)
UnknownVariableSkipped ==
  /\ Reading
  /\ Section.type \in ModelTypes
  /\ \E v \in Range(Section.order) : GetIndex(indexes_[Section.type], v) = -1
  /\ next' = next + 1
  /\ UNCHANGED <<indexes_, input, status>>

(* VarOrder::updateOrder: some variable has no index now.                  *)
UnknownVariable ==
  /\ Reading
  /\ Section.type \in ModelTypes
  /\ \E v \in Range(Section.order) : GetIndex(indexes_[Section.type], v) = -1
  /\ status' = "failed"
  /\ UNCHANGED <<indexes_, input, next>>

Known ==
  /\ Reading
  /\ Section.type \in ModelTypes
  /\ \A v \in Range(Section.order) : GetIndex(indexes_[Section.type], v) # -1

(* setFromCollection asserts that the names are unique.                    *)
DuplicateAborts ==
  /\ Known
  /\ asserts /\ HasDuplicate(Section.order)
  /\ status' = "aborted"
  /\ UNCHANGED <<indexes_, input, next>>

UpdateOrder ==
  /\ Known
  /\ ~(asserts /\ HasDuplicate(Section.order))
  /\ indexes_' = [indexes_ EXCEPT ![Section.type] = FromCollection(Section.order)]
  /\ next' = next + 1
  /\ UNCHANGED <<input, status>>

EndOfFile ==
  /\ status = "loading" /\ next > Len(file)
  /\ status' = "loaded"
  /\ UNCHANGED <<indexes_, input, next>>

Stopped == status # "loading" /\ UNCHANGED loadVars

LoadNext ==
  \/ UnknownType \/ UnknownVariable \/ DuplicateAborts \/ UpdateOrder
  \/ EndOfFile \/ Stopped

LoadSpec == LoadInit /\ [][LoadNext]_loadVars
-----------------------------------------------------------------------------
LoadTypeOK ==
  /\ \A t \in ModelTypes :
       /\ DOMAIN indexes_[t] \subseteq Variables[t]
       /\ Range(indexes_[t]) \subseteq Nat
  /\ next \in 1 .. Len(file) + 1
  /\ status \in {"loading", "loaded", "failed", "aborted"}

(* PNetType::getState and CompositeType::getState build a state from the   *)
(* labels of the indexes 0 .. size() - 1: none of the variables is left    *)
(* out, and no index is without label, unless a variable was given twice   *)
(* to a build that does not check it.  Two variables of a type never share *)
(* an index: they would be at the same level of the decision diagram.      *)
StatesAreComplete ==
  /\ \A t \in ModelTypes : IsInjective(indexes_[t])
  /\ (\A k \in 1 .. next - 1 : ~HasDuplicate(file[k].order)) =>
       \A t \in ModelTypes :
         LET ix == indexes_[t]
         IN  {GetLabel(ix, i) : i \in 0 .. Cardinality(DOMAIN ix) - 1} = DOMAIN ix

(* Where loading stops, each type has the order of its last section before *)
(* that point, or the one it had: no section is skipped, half applied or   *)
(* applied to another type.                                                *)
SectionsAreApplied ==
  \A t \in ModelTypes :
    LET mine == {k \in 1 .. next - 1 : file[k].type = t}
    IN  IF mine = {} THEN indexes_[t] = before[t]
        ELSE \E k \in mine :
               /\ \A m \in mine : m <= k
               /\ LET o == file[k].order
                  IN  /\ DOMAIN indexes_[t] = Range(o)
                      /\ \A i, j \in DOMAIN o :
                           indexes_[t][o[i]] < indexes_[t][o[j]] =>
                             \E p \in DOMAIN o : p < j /\ o[p] = o[i]
=============================================================================
