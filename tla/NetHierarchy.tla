---------------------------- MODULE NetHierarchy ----------------------------
(***************************************************************************)
(* Nets that are loaded as composite types.  With --json-order a hierarchy *)
(* of places is given and JsonPNetType (Romeo nets) or JSONLoader (PROD    *)
(* and CAMI nets) builds a net for each of its leaves and a composite for  *)
(* each of its levels, handling the transitions that touch them; those that*)
(* are not yet complete are exported under their name.  Without it,        *)
(* RdPELoader makes one net for each module of a PROD net.  The types are  *)
(* read with the meaning of Composite, next to the net itself, as loaded   *)
(* without hierarchy, which runs once they are built.                      *)
(***************************************************************************)
EXTENDS TPNetType, Composite, SequencesExt

CONSTANTS
  Hierarchies(_),   \* the hierarchies in which a net is loaded
  MaxTokens         \* the markings compared have no more tokens in a place

Loaders == {"JsonPNetType", "JSONLoader", "RdPELoader"}

VARIABLES
  loader,
  hier,             \* the nodes of the hierarchy, in the order they are completed
  todo,             \* the transitions that are not completed
  types             \* the types of the first nodes

hvars == <<loader, hier, todo, types>>

Current == Len(types) + 1
Root == Len(hier)
IsLeaf(node) == "places" \in DOMAIN node

(* The places of a node, or of those below it.                             *)
PlacesOf(h, i) ==
  LET of[k \in 1 .. Len(h)] ==
        IF IsLeaf(h[k]) THEN h[k].places ELSE UNION {of[j] : j \in Range(h[k].kids)}
  IN  of[i]

Touched(n) ==
  UNION {{net.trans[n].arcs[k].places[j][1] : j \in DOMAIN net.trans[n].arcs[k].places} :
           k \in DOMAIN net.trans[n].arcs}

-----------------------------------------------------------------------------
(* Mutant: a transition of which one arc is inside is taken for local.     *)
LocalityOfAny(n, places) ==
  IF Touched(n) \cap places # {} THEN "local"
  ELSE IF Touched(n) # {} THEN "none" ELSE "mixed"

(* isLocal: whether a transition has arcs inside and outside of the places.*)
(* Without arcs it is mixed, everywhere.                                   *)
LocalityOf(n, places) ==
  LET local == Touched(n) \cap places # {}
      global == Touched(n) \ places # {}
  IN  CASE global /\ ~local -> "none"
        [] local /\ ~global -> "local"
        [] OTHER -> "mixed"

(* isLocal of RdPELoader: one without arcs is in no module.                *)
ModuleLocality(n, places) ==
  IF Touched(n) = {} THEN "none"
  ELSE LocalityOf(n, places)

Locality(n, places) ==
  IF loader = "RdPELoader" THEN ModuleLocality(n, places) ELSE LocalityOf(n, places)

(* addArc for each place of each arc that is in the leaf.                  *)
ArcsIn(arcs, places) ==
  LET Single(a) == [k \in DOMAIN a.places |-> [type |-> a.type, places |-> <<a.places[k]>>]]
  IN  SelectSeq(FoldLeft(LAMBDA s, a : s \o Single(a), <<>>, arcs),
                LAMBDA a : a.places[1][1] \in places)

Mine(places) == {n \in todo : Locality(n, places) # "none"}

(* Private local transitions are completed, public ones go on to be        *)
(* exported by the levels above.                                           *)
Completed(places) == {n \in todo : Locality(n, places) = "local" /\ ~net.trans[n].public}

(* JsonPNetType erases a completed transition from its list before it reads*)
(* the arcs, through references to that place in the list: they are then   *)
(* those of the next transition, under a name that addArc and addSyncPart  *)
(* refuse, as it is not yet in the type, and the transition is left with   *)
(* nothing.  When it was the last of the list what is read is no longer    *)
(* there, and may still be its own (or the program may end).               *)
Erased(places) == IF loader = "JsonPNetType" THEN Completed(places) ELSE {}
WhatIsLost(places) == {Erased(places)} \cup {Erased(places) \ {last} : last \in Erased(places)}

(* A private local transition keeps its label, a mixed one is public under *)
(* its name.  The clocks are not copied.                                   *)
LeafTransition(n, places, lost) ==
  LET t == net.trans[n]
      local == Locality(n, places) = "local"
  IN  [label |-> IF local THEN t.label ELSE n, public |-> ~local \/ t.public,
       arcs |-> IF n \in lost THEN <<>> ELSE ArcsIn(t.arcs, places),
       eft |-> 0, lft |-> CLOCK_INFINITY]

Leaf(places, lost) ==
  [places |-> places, trans |-> [n \in Mine(places) |-> LeafTransition(n, places, lost)],
   inits |-> [st \in DOMAIN net.inits |-> [p \in places |-> net.inits[st][p]]]]

(* targets: the nodes of a level that have one of the places touched.      *)
Targets(n, node, lost) ==
  {k \in DOMAIN node.kids : n \notin lost /\ Touched(n) \cap PlacesOf(hier, node.kids[k]) # {}}

(* A transition that is local to one node below bears its label there; the *)
(* others bear their name.                                                 *)
PartLabel(n, places, targets) ==
  IF loader = "JsonPNetType" /\ Cardinality(targets) = 1 /\ Locality(n, places) = "local"
  THEN net.trans[n].label ELSE n

LabelsOf(ty) ==
  IF IsLeaf(ty) THEN {ty.trans[n].label : n \in {u \in DOMAIN ty.trans : ty.trans[u].public}}
  ELSE {s.label : s \in ty.syncs} \ {""}

(* addSyncPart refuses a label that the instance does not have.            *)
Parts(n, node, places, lost) ==
  LET targets == Targets(n, node, lost)
      label == PartLabel(n, places, targets)
  IN  SetToSeq({<<k, label>> : k \in {j \in targets : label \in LabelsOf(types[node.kids[j]])}})

(* The label of a synchronization: none for a private transition that is   *)
(* complete, and in the composite of RdPELoader for all that are left.     *)
SyncLabel(n, places) ==
  CASE loader = "RdPELoader" -> ""
    [] Locality(n, places) = "local" -> IF net.trans[n].public THEN net.trans[n].label ELSE ""
    [] OTHER -> n

SyncsOf(node, places, lost) ==
  {[name |-> n, label |-> SyncLabel(n, places), parts |-> Parts(n, node, places, lost)] :
     n \in IF loader = "RdPELoader" THEN todo ELSE Mine(places)}

(* updateStateDef gives "init" to each instance, and defines no other.     *)
Level(node, places, lost) ==
  [insts |-> node.kids, syncs |-> SyncsOf(node, places, lost),
   inits |-> [st \in {"init"} |-> [k \in DOMAIN node.kids |-> "init"]]]

-----------------------------------------------------------------------------
(* PROD and CAMI nets have private transitions only, and those of Romeo    *)
(* are TPNets, to which the constructor gives a public "elapse".  Their    *)
(* clocks are not carried over: the nets compared have none.               *)
IsRdPE(n) == \A t \in TransitionsOf(n) : ~n.trans[t].public /\ n.trans[t].label = t
CanLoad(l, n) ==
  /\ \A t \in TransitionsOf(n) : ~IsTimed(n.trans[t])
  /\ l = "JsonPNetType" \/ IsRdPE(n)

HInit ==
  /\ Init
  /\ loader \in Loaders
  /\ hier \in IF CanLoad(loader, net) THEN Hierarchies(net) ELSE {<<>>}
  /\ hier = <<>> => loader = "JsonPNetType"
  /\ loader = "RdPELoader" => \A k \in DOMAIN hier : IsLeaf(hier[k]) <=> k < Len(hier)
  /\ todo = TransitionsOf(net)
  /\ types = <<>>

(* buildComposite of a leaf: "a basic petri net module".                   *)
BuildLeaf ==
  /\ Current <= Root /\ IsLeaf(hier[Current])
  /\ \E lost \in WhatIsLost(hier[Current].places) :
       types' = Append(types, Leaf(hier[Current].places, lost))
  /\ todo' = todo \ Completed(hier[Current].places)
  /\ UNCHANGED <<loader, hier, vars>>

(* buildComposite of a level, once those below it are built.               *)
BuildLevel ==
  /\ Current <= Root /\ ~IsLeaf(hier[Current])
  /\ LET places == PlacesOf(hier, Current)
     IN  /\ \E lost \in WhatIsLost(places) : types' = Append(types, Level(hier[Current], places, lost))
         /\ todo' = todo \ Completed(places)
  /\ UNCHANGED <<loader, hier, vars>>

Run == Current > Root /\ Next /\ UNCHANGED hvars

HNext == BuildLeaf \/ BuildLevel \/ Run

HSpec == HInit /\ [][HNext]_<<vars, hvars>>
-----------------------------------------------------------------------------
Markings(places) == [places -> 0 .. MaxTokens]

(* Some of the transitions of an untimed net, on those markings.           *)
Relation(trans, names, places) ==
  UNION {{<<m, n>> : n \in UNION {Full(trans[t], m) : t \in names} \cap Markings(places)} :
           m \in Markings(places)}

Labelled(trans, l) == {t \in DOMAIN trans : trans[t].label = l}

(* The types in the form Composite takes: leaves by their relations.       *)
Table ==
  [i \in 1 .. Root |->
     IF ~IsLeaf(types[i]) THEN types[i]
     ELSE LET ty == types[i]
          IN  [states |-> Markings(ty.places), inits |-> ty.inits,
               locals |-> Relation(ty.trans, {t \in DOMAIN ty.trans : ~ty.trans[t].public}, ty.places),
               succs |-> [l \in {ty.trans[t].label : t \in DOMAIN ty.trans} |->
                            Relation(ty.trans, Labelled(ty.trans, l), ty.places)]]]

(* The marking of the net that a state of a node gives.                    *)
RECURSIVE Flat(_, _)
Flat(i, s) ==
  IF IsLeaf(hier[i]) THEN s
  ELSE [p \in PlacesOf(hier, i) |->
          LET k == CHOOSE j \in DOMAIN hier[i].kids : p \in PlacesOf(hier, hier[i].kids[j])
          IN  Flat(hier[i].kids[k], s[k])[p]]

FlatRelation(R) == {<<Flat(Root, e[1]), Flat(Root, e[2])>> : e \in R}

(* The nets for which this holds: see README.  A hyper-arc is not loaded as*)
(* one; with a hierarchy a transition without arcs is exported under its   *)
(* name, and not its label, even when it is private; a label that a private*)
(* transition bears, or the name under which one is exported, is not the   *)
(* label of another.                                                       *)
Supported ==
  \A n \in TransitionsOf(net) :
     /\ \A k \in DOMAIN net.trans[n].arcs : Len(net.trans[n].arcs[k].places) = 1
     /\ loader # "RdPELoader" /\ Touched(n) = {} => net.trans[n].public /\ net.trans[n].label = n
     /\ \A u \in TransitionsOf(net) \ {n} :
          /\ net.trans[u].label # n
          /\ net.trans[u].label = net.trans[n].label => net.trans[u].public /\ net.trans[n].public

Loaded == Root > 0 /\ Len(types) = Root /\ Supported

(* The steps that the net takes on its own, and those of what is loaded.   *)
PrivateSteps(names) ==
  Relation(net.trans, {n \in names : ~net.trans[n].public}, DOMAIN net.inits["init"])
LoadedSteps == FlatRelation(Locals(Table, Root))

(* The transitions that JsonPNetType may leave without their arcs.         *)
MayBeLost ==
  {n \in TransitionsOf(net) : loader = "JsonPNetType" /\ ~net.trans[n].public /\ Touched(n) # {}}

(* What is loaded is the net: it takes the same steps on its own and when  *)
(* a label is fired, offers the labels of the net and no other, and has its*)
(* initial marking ("this option modifies the way the model is loaded",    *)
(* README.md:200, and not the model).  With JsonPNetType a private         *)
(* transition is lost: of the steps taken on its own, those that are not of*)
(* the net change nothing, and those of the transitions lost may miss.     *)
HierarchyIsTheNet ==
  Loaded =>
    LET all == DOMAIN net.inits["init"]
        idle == {e \in LoadedSteps : MayBeLost # {} /\ e[1] = e[2]}
    IN  /\ LoadedSteps \ idle \subseteq PrivateSteps(TransitionsOf(net))
        /\ PrivateSteps(TransitionsOf(net) \ MayBeLost) \subseteq LoadedSteps
        /\ \A l \in PublicLabels :
             FlatRelation(Succs(Table, Root, <<l>>)) = Relation(net.trans, Labelled(net.trans, l), all)
        /\ LabelsOf(types[Root]) = PublicLabels
        /\ {Flat(Root, s) : s \in StateOf(Table, Root, "init")} = {net.inits["init"]}

(* No step of the net is lost, whatever it is loaded by: JsonPNetType does *)
(* not keep this (see README).                                             *)
NothingIsLost == Loaded => PrivateSteps(TransitionsOf(net)) \subseteq LoadedSteps
=============================================================================
