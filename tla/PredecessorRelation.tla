------------------------ MODULE PredecessorRelation ------------------------
(***************************************************************************)
(* The transition relation of the main instance and its inverse, as        *)
(* ITSModel::getNextRel and ITSModel::getPredRel build them from the named *)
(* transitions of the instance (Type::getNamedLocals, with "elapse" in     *)
(* front when the instance is timed).  A transition is identified by its   *)
(* rank in that list, so that "the first one that ..." is the smallest.    *)
(***************************************************************************)
EXTENDS TransitionSystem

CONSTANT NbTrans    \* length of the list of named transitions

ASSUME NbTransIsNat == NbTrans \in Nat

Names == 1 .. NbTrans

(* A system: the relation of each named transition.                        *)
Systems == [Names -> Relations]

(* getNextRel: one step by any of the transitions.                         *)
NextRel(trans) == UNION {trans[n] : n \in Names}

(* The transitions that occur in reach; the others are killed from the     *)
(* backward relation.                                                      *)
Live(trans, reach) == {n \in Names : Post(trans[n], reach) # {}}

(* Among them, those whose inverse adds states that are not in reach: they *)
(* have to be protected by an intersection with reach.                     *)
ToProtect(trans, reach, pot) ==
  {n \in Live(trans, reach) :
      Post(Invert(trans[n], pot), reach) \ reach # {}}

ToAdd(trans, reach, pot) == Live(trans, reach) \ ToProtect(trans, reach, pot)

(* Inverse of a sum of transitions.                                        *)
InvertAll(trans, N, pot) == Invert(UNION {trans[n] : n \in N}, pot)

(* The whole inverse stays in reach when it is applied to reach.           *)
IsExact(trans, reach, pot) ==
  Post(Invert(NextRel(trans), pot), reach) \ reach = {}

(* Mutant: what has to be protected is lost.                               *)
PredRelForgets(trans, reach, pot) ==
  IF IsExact(trans, reach, pot) THEN Invert(NextRel(trans), pot)
  ELSE InvertAll(trans, ToAdd(trans, reach, pot), pot)

(* The relation getPredRel builds for the envelope reach.                  *)
PredRel(trans, reach, pot) ==
  LET rel     == Invert(NextRel(trans), pot)
      toadd   == ToAdd(trans, reach, pot)
      protect == ToProtect(trans, reach, pot)
  IN  IF IsExact(trans, reach, pot) THEN rel
      ELSE IF toadd # {}
           THEN InvertAll(trans, toadd, pot)
                  \cup Within(InvertAll(trans, protect, pot), reach)
           ELSE Within(rel, reach)

(* Reference: the states to which the transitions of w lead from S, one    *)
(* after the other, by states of K; after the first n, and after all.      *)
Plays(trans, w, K, S) ==
  LET play[n \in Nat] == IF n = 0 THEN S ELSE Post(trans[w[n]], play[n - 1]) \cap K
  IN  play

Played(trans, w, K, S) == Plays(trans, w, K, S)[Len(w)]
=============================================================================
