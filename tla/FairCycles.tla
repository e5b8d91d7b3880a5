----------------------------- MODULE FairCycles -----------------------------
(***************************************************************************)
(* fsltlModel::findSCC_fsltl (LTL/src/fsltl.cpp): the fully symbolic       *)
(* search for accepting cycles of its-ltl, in its two variants (one-way    *)
(* catch them young, and Emerson-Lei).  The states are those of the        *)
(* product of the model with an automaton, `all` is the whole relation     *)
(* and `accs` has the part of it that carries each acceptance condition.   *)
(* The result div is empty when no run is accepting.  Every action is a    *)
(* statement of the function or a turn of one of its two loops.            *)
(***************************************************************************)
EXTENDS TransitionSystem

CONSTANT Calls     \* the calls considered

CallArguments ==
  [all : Relations, accs : Seq(Relations), init : SUBSET States, owcty : BOOLEAN]

(* An arc that carries an acceptance condition is an arc.                  *)
ASSUME CallsAreTyped ==
  /\ Calls \subseteq CallArguments
  /\ \A c \in Calls : \A k \in DOMAIN c.accs : c.accs[k] \subseteq c.all

VARIABLES
  call,     \* the arguments
  fsPc,     \* the statement to execute
  reach,    \* the reachable states of the product
  div,      \* the candidates
  sat,      \* the candidates at the start of the turn
  black     \* the acceptance condition of the inner loop

fsVars == <<call, fsPc, reach, div, sat, black>>

NbAccs == Len(call.accs)

(* The state of the function when it is called.                            *)
Called ==
  /\ fsPc = "reach"
  /\ reach = {} /\ div = {} /\ sat = {}
  /\ black = 1

FsInit == call \in Calls /\ Called

(* fixpoint(nextAll)(S), without id.  It is applied to sets that nextAll   *)
(* does not leave: the iterates decrease to the largest subset in which    *)
(* every state has a predecessor.                                          *)
Looping(S) == GreatestFixpoint(call.all, S)

(* Mutant: there is no closure.                                            *)
AfterOnce(acc, S) == Post(acc, S)

(* (fixpoint(nextAll + id) & acc)(S): from the targets of acc, everywhere. *)
After(acc, S) == Fixpoint(call.all, Post(acc, S))

ComputeReach ==
  /\ fsPc = "reach"
  /\ reach' = Fixpoint(call.all, call.init)
  /\ IF NbAccs = 0
     THEN div' = Looping(reach') /\ fsPc' = "done"
     ELSE div' = reach' /\ fsPc' = "turn"
  /\ UNCHANGED <<call, sat, black>>

(* The OWCTY variant first keeps the states after a cycle.                 *)
StartTurn ==
  /\ fsPc = "turn"
  /\ sat' = div
  /\ div' = IF call.owcty THEN Looping(div) ELSE div
  /\ black' = 1
  /\ fsPc' = "accs"
  /\ UNCHANGED <<call, reach>>

ReduceByAcc ==
  /\ fsPc = "accs" /\ black <= NbAccs
  /\ div' = After(call.accs[black], div)
  /\ black' = black + 1
  /\ UNCHANGED <<call, fsPc, reach, sat>>

(* Mutants: the conditions are gone through once, or as long as there is a *)
(* candidate.                                                              *)
EndOneTurn ==
  /\ fsPc = "accs" /\ black > NbAccs
  /\ fsPc' = "done"
  /\ UNCHANGED <<call, reach, div, sat, black>>

EndTurnWhileAny ==
  /\ fsPc = "accs" /\ black > NbAccs
  /\ fsPc' = IF div # {} THEN "turn" ELSE "done"
  /\ UNCHANGED <<call, reach, div, sat, black>>

EndTurn ==
  /\ fsPc = "accs" /\ black > NbAccs
  /\ fsPc' = IF div # sat THEN "turn" ELSE "done"
  /\ UNCHANGED <<call, reach, div, sat, black>>

FsNext == ComputeReach \/ StartTurn \/ ReduceByAcc \/ EndTurn

FsSpec == FsInit /\ [][FsNext]_fsVars

-----------------------------------------------------------------------------
FsTypeOK ==
  /\ call \in Calls
  /\ fsPc \in {"reach", "turn", "accs", "done"}
  /\ reach \in SUBSET States
  /\ div \in SUBSET States
  /\ sat \in SUBSET States
  /\ black \in 1 .. NbAccs + 1

(* A set of states that accepting runs can loop through: each state is     *)
(* after another one of the set, and after each acceptance condition.      *)
(* The states of a cycle that carries all of them are such a set, and a    *)
(* set that is not empty holds such a cycle, since it is finite.           *)
IsFair(C) ==
  /\ C \subseteq Post(call.all, C)
  /\ \A k \in 1 .. NbAccs : C \subseteq Fixpoint(call.all, Post(call.accs[k], C))

(* No accepting run is lost: whatever is removed, every fair set of        *)
(* reachable states is among the candidates (fsltl.cpp:124-160).           *)
FairSetsAreKept ==
  fsPc # "reach" => \A C \in SUBSET reach : IsFair(C) => C \subseteq div

(* No accepting run is invented: the states returned are a fair set of     *)
(* reachable states (fsltl.cpp:161, "accepting states + suffix").          *)
ResultIsFair == fsPc = "done" => div \subseteq reach /\ IsFair(div)
=============================================================================
