-------------------------- MODULE TransitionSystem --------------------------
(***************************************************************************)
(* The symbolic kernel every engine of libITS works with, read explicitly. *)
(* A State of the C++ (an SDD) is a set of states, so SDD +, * and - are   *)
(* \cup, \cap and \.  A Transition (a Shom) is a relation; applying it to  *)
(* an SDD takes the image of a set, and invert(pot) gives the relation     *)
(* that maps a set to its predecessors inside the potential set pot.       *)
(* fixpoint(h + id) iterates h until nothing is added.  SDD and Shom live  *)
(* in libDDD, outside this repository: these definitions state what        *)
(* its/ITSModel.cpp, CTL and LTL rely on.                                  *)
(***************************************************************************)
EXTENDS Naturals, FiniteSets, Sequences

CONSTANT States    \* the potential state space of the main instance

ASSUME StatesFinite == IsFiniteSet(States)

Relations == SUBSET (States \X States)

(* h(S): the image of the set S by the homomorphism h.                     *)
Post(h, S) == {t \in States : \E s \in S : <<s, t>> \in h}

(* The states of which some successor by h is in S.                        *)
Pre(h, S) == {s \in States : \E t \in S : <<s, t>> \in h}

(* h.invert(pot): predecessors are looked for in the potential set pot     *)
(* only, which contains the set of states the inversion is asked for but   *)
(* may be larger: it is the product of the domains of the variables.       *)
Invert(h, pot) == {<<e[2], e[1]>> : e \in {f \in h : f[1] \in pot}}

(* h * S: the homomorphism whose results are intersected with S.           *)
Within(h, S) == {e \in h : e[2] \in S}

(* A set that h does not leave.                                            *)
Closed(h, S) == Post(h, S) \subseteq S

(* fixpoint(h + id)(S): the smallest set that contains S and is closed     *)
(* under h.                                                                *)
Fixpoint(h, S) ==
  {t \in States : \A X \in SUBSET States : S \subseteq X /\ Closed(h, X) => t \in X}

(* fixpoint(h * id)(S): the largest subset of S every state of which is    *)
(* in the image of that subset.                                            *)
GreatestFixpoint(h, S) == UNION {X \in SUBSET S : X \subseteq Post(h, X)}
=============================================================================
