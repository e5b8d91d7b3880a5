------------------------------ MODULE PetriNet ------------------------------
(***************************************************************************)
(* Petri nets (its/petri/PNet.hh) and the homomorphisms of their arcs      *)
(* (its/petri/TPNetSemantics.hpp), applied to one marking.                 *)
(*                                                                         *)
(* A net is a record: places, trans that gives a transition to each name,  *)
(* and inits that gives a marking to the names of its states.  A transition*)
(* has a label, is public or not, has arcs in the order they were added,   *)
(* and a clock [eft, lft].  An arc has a type and places <<place, value>>: *)
(* several of them make a hyper-arc.                                       *)
(***************************************************************************)
EXTENDS Integers, Sequences

CLOCK_INFINITY == -1

ArcTypes == {"INPUT", "OUTPUT", "INHIBITOR", "RESET", "TEST"}

Arcs(places) == [type : ArcTypes, places : Seq(places \X Int)]

TransitionsOf(net) == DOMAIN net.trans

(* getEnablerHom: any place of a hyper-arc will do.                        *)
EnablerHom(a, m) ==
  \/ a.type \in {"OUTPUT", "RESET"}
  \/ a.type = "INHIBITOR" /\ \E k \in DOMAIN a.places : m[a.places[k][1]] <= a.places[k][2] - 1
  \/ a.type \in {"INPUT", "TEST"} /\ \E k \in DOMAIN a.places : m[a.places[k][1]] > a.places[k][2] - 1

IsEnabled(t, m) == \A k \in DOMAIN t.arcs : EnablerHom(t.arcs[k], m)

(* getActionHom of an arc and of one of its places: postPlace tests        *)
(* nothing, and an output place must hold something afterwards.            *)
PlaceActionHom(type, p, val, m) ==
  CASE type = "INPUT" -> {[m EXCEPT ![p] = @ - val]}
    [] type = "OUTPUT" -> {n \in {[m EXCEPT ![p] = @ + val]} : n[p] > 0}
    [] type = "RESET" -> {[m EXCEPT ![p] = 0]}

(* An arc that only tests is the identity.                                 *)
ActionHom(a, m) ==
  IF a.type \in {"INHIBITOR", "TEST"} THEN {m}
  ELSE UNION {PlaceActionHom(a.type, a.places[k][1], a.places[k][2], m) : k \in DOMAIN a.places}

(* The arcs that act: a transition without any is a selector.              *)
Acting(t) == {k \in DOMAIN t.arcs : t.arcs[k].type \notin {"INHIBITOR", "TEST"}}

(* What the first k arcs of t do, in the order they were added.            *)
ActionsOfArcs(t, m) ==
  LET after[k \in 0 .. Len(t.arcs)] ==
        IF k = 0 THEN {m} ELSE UNION {ActionHom(t.arcs[k], n) : n \in after[k - 1]}
  IN  after

Actions(t, m) == ActionsOfArcs(t, m)[Len(t.arcs)]

(* getFullHom *)
Full(t, m) == IF IsEnabled(t, m) THEN Actions(t, m) ELSE {}
-----------------------------------------------------------------------------
(* The usual definition of a net with these arcs, from the sums of the     *)
(* values of its arcs.                                                     *)
Gives(a, type, p) == a.type = type /\ a.places[1][1] = p

SumOfArcs(t, type, p) ==
  LET sum[k \in 0 .. Len(t.arcs)] ==
        IF k = 0 THEN 0
        ELSE sum[k - 1] + (IF Gives(t.arcs[k], type, p) THEN t.arcs[k].places[1][2] ELSE 0)
  IN  sum

Sum(t, type, p) == SumOfArcs(t, type, p)[Len(t.arcs)]

Touches(t, type, p) == \E k \in DOMAIN t.arcs : Gives(t.arcs[k], type, p)

MayOccur(t, m) ==
  /\ \A p \in DOMAIN m : m[p] >= Sum(t, "INPUT", p)
  /\ \A k \in DOMAIN t.arcs :
       /\ t.arcs[k].type = "TEST" => \E j \in DOMAIN t.arcs[k].places :
                                        m[t.arcs[k].places[j][1]] >= t.arcs[k].places[j][2]
       /\ t.arcs[k].type = "INHIBITOR" => \E j \in DOMAIN t.arcs[k].places :
                                        m[t.arcs[k].places[j][1]] < t.arcs[k].places[j][2]

MarkingAfter(t, m) ==
  [p \in DOMAIN m |-> (IF Touches(t, "RESET", p) THEN 0 ELSE m[p] - Sum(t, "INPUT", p))
                        + Sum(t, "OUTPUT", p)]

(* The transitions for which the two agree: an arc that acts has one place,*)
(* no place is consumed by two arcs, nor after it was reset, nor is it     *)
(* reset after something was produced, and something is produced by each   *)
(* output, of which an empty one would still test its place.               *)
IsPlain(t) ==
  /\ \A k \in Acting(t) : Len(t.arcs[k].places) = 1
  /\ \A k \in Acting(t) : t.arcs[k].type = "INPUT" => t.arcs[k].places[1][2] >= 0
  /\ \A k \in Acting(t) : t.arcs[k].type = "OUTPUT" => t.arcs[k].places[1][2] > 0
  /\ \A j, k \in Acting(t) : j < k /\ t.arcs[j].places[1][1] = t.arcs[k].places[1][1] =>
       <<t.arcs[j].type, t.arcs[k].type>> \notin
         {<<"INPUT", "INPUT">>, <<"RESET", "INPUT">>, <<"OUTPUT", "RESET">>}
=============================================================================
