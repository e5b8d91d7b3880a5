------------------------------ MODULE ITSModel ------------------------------
(***************************************************************************)
(* The model the tools hold (its/ITSModel): its types, its main instance   *)
(* and initial state, and the two results it keeps, the reachable states   *)
(* and their predecessor relation.  SDD::null, the value that says that    *)
(* nothing is kept, is also the empty set, and Transition::null the empty  *)
(* relation.                                                               *)
(***************************************************************************)
EXTENDS PredecessorRelation, Functions

CONSTANTS
  TypeNames,      \* names of types
  Labels,         \* labels of initial states
  Unset,          \* the empty label
  Definitions,    \* what a type may be: [trans, inits]
  NoModel,        \* the null instance
  Staged          \* whether the model is only configured before it is asked

ASSUME DefinitionsAreTyped ==
  \A d \in Definitions :
    /\ d.trans \in Systems
    /\ DOMAIN d.inits \subseteq Labels
    /\ \A l \in DOMAIN d.inits : d.inits[l] \subseteq States

VARIABLES
  types_,         \* name -> definition
  model_,         \* the type of the main instance
  initName_,      \* the label of its initial state
  reached_,       \* the reachable states, when they are known
  predRel_,       \* their predecessor relation, when it is known
  last            \* the last question and what was returned

vars == <<types_, model_, initName_, reached_, predRel_, last>>

Null == {}
NoAnswer == [ask |-> "nothing", envelope |-> Null, value |-> Null]

Configuring == Staged => last = NoAnswer

Init ==
  /\ types_ = <<>>
  /\ model_ = NoModel
  /\ initName_ = Unset
  /\ reached_ = Null /\ predRel_ = Null
  /\ last = NoAnswer

(* A second type of the same name is refused and deleted.                  *)
AddType(n, d) ==
  /\ Configuring
  /\ types_' = IF n \in DOMAIN types_ THEN types_
               ELSE [m \in DOMAIN types_ \cup {n} |-> IF m = n THEN d ELSE types_[m]]
  /\ last' = NoAnswer
  /\ UNCHANGED <<model_, initName_, reached_, predRel_>>

(* The main instance is replaced; neither the label of the initial state   *)
(* nor what is kept of the previous one is.                                *)
SetInstance(n) ==
  /\ Configuring
  /\ model_' = IF n \in DOMAIN types_ THEN n ELSE model_
  /\ last' = NoAnswer
  /\ UNCHANGED <<types_, initName_, reached_, predRel_>>

SetInstanceState(l) ==
  /\ Configuring
  /\ initName_' = IF model_ # NoModel /\ l \in DOMAIN types_[model_].inits
                  THEN l ELSE initName_
  /\ last' = NoAnswer
  /\ UNCHANGED <<types_, model_, reached_, predRel_>>

Trans == types_[model_].trans

(* getState of a label that is not defined gives SDD::null (the tools are  *)
(* built without assertions).                                              *)
InitialState ==
  LET inits == types_[model_].inits
  IN  IF initName_ \in DOMAIN inits THEN inits[initName_] ELSE Null

Reach == Fixpoint(NextRel(Trans), InitialState)

(* Mutant: what is kept is the initial state.                              *)
ReachedKeepsInitial == IF reached_ # Null THEN reached_ ELSE InitialState

Reached == IF reached_ # Null THEN reached_ ELSE Reach

ComputeReachable ==
  /\ model_ # NoModel
  /\ reached_' = Reached
  /\ last' = [ask |-> "reach", envelope |-> Null, value |-> Reached]
  /\ UNCHANGED <<types_, model_, initName_, predRel_>>

(* Without argument: the relation is computed from the reachable states,   *)
(* which are computed and kept on the way, and it is kept.                 *)
GetPredRel ==
  /\ model_ # NoModel
  /\ \E pot \in SUBSET States :
       /\ Reached \subseteq pot
       /\ LET value == IF predRel_ # Null THEN predRel_
                       ELSE IF NextRel(Trans) = Null THEN Null
                       ELSE PredRel(Trans, Reached, pot)
          IN  /\ predRel_' = value
              /\ last' = [ask |-> "pred", envelope |-> Null, value |-> value]
  /\ reached_' = IF predRel_ # Null THEN reached_ ELSE Reached
  /\ UNCHANGED <<types_, model_, initName_>>

(* Mutant: the relation of the envelope is kept.                           *)
GetPredRelWithinKeeps(envelope) ==
  /\ model_ # NoModel
  /\ \E pot \in SUBSET States :
       /\ envelope \subseteq pot
       /\ LET value == PredRel(Trans, envelope, pot)
          IN  /\ predRel_' = value
              /\ last' = [ask |-> "pred", envelope |-> envelope, value |-> value]
  /\ UNCHANGED <<types_, model_, initName_, reached_>>

(* With an envelope that is not empty the result is not kept, and neither  *)
(* is the one that was: predRel_ serves as a local variable.               *)
GetPredRelWithin(envelope) ==
  /\ model_ # NoModel
  /\ \E pot \in SUBSET States :
       /\ envelope \subseteq pot
       /\ LET value == PredRel(Trans, envelope, pot)
              dead  == NextRel(Trans) = Null
          IN  /\ predRel_' = IF dead THEN predRel_ ELSE Null
              /\ last' = [ask |-> "pred", envelope |-> envelope,
                          value |-> IF dead THEN Null ELSE value]
  /\ UNCHANGED <<types_, model_, initName_, reached_>>

Next ==
  \/ \E n \in TypeNames, d \in Definitions : AddType(n, d)
  \/ \E n \in TypeNames : SetInstance(n)
  \/ \E l \in Labels : SetInstanceState(l)
  \/ ComputeReachable
  \/ GetPredRel
  \/ \E envelope \in (SUBSET States) \ {Null} : GetPredRelWithin(envelope)

Spec == Init /\ [][Next]_vars

-----------------------------------------------------------------------------
TypeOK ==
  /\ DOMAIN types_ \subseteq TypeNames /\ Range(types_) \subseteq Definitions
  /\ model_ \in DOMAIN types_ \cup {NoModel}
  /\ initName_ \in Labels \cup {Unset}
  /\ reached_ \subseteq States
  /\ predRel_ \in Relations

(* "Returns the full reachable state space of the system from the initial  *)
(* state(s)": of the system that is configured when it is asked.           *)
ReachedIsCurrent == last.ask = "reach" => last.value = Reach

(* "Exactly one step backward of the transition relation": in the          *)
(* reachable states, or constrained to stay within the envelope.           *)
PredRelIsCurrent ==
  last.ask = "pred" =>
    LET inside == IF last.envelope = Null THEN Reach ELSE last.envelope
    IN  \A S \in SUBSET inside :
          Post(last.value, S) = Pre(NextRel(Trans), S) \cap inside
=============================================================================
