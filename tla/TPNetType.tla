------------------------------ MODULE TPNetType ------------------------------
(***************************************************************************)
(* PNetType and TPNetType (its/petri): what a net answers to the model     *)
(* that contains it.  A state gives a value to each place and to the clock *)
(* of each timed transition but those whose bounds are [0, 0].  A clock    *)
(* stops at its bound, and is put back to 0 when its transition is fired   *)
(* or found disabled.  The model takes the steps of getLocals, of getSuccs *)
(* with a public label, and of getSuccs with "elapse".  age is not in the  *)
(* code: it tells for how long each timed transition has been enabled.     *)
(***************************************************************************)
EXTENDS PetriNet

CONSTANTS
  Nets,          \* the nets considered
  AgeBound       \* no age goes beyond it

(* addClock asserts the order of the bounds.                               *)
ASSUME NetsAreTyped ==
  \A n \in Nets : \A t \in TransitionsOf(n) :
     /\ n.trans[t].eft \in Nat /\ n.trans[t].lft \in Nat \cup {CLOCK_INFINITY}
     /\ n.trans[t].lft # CLOCK_INFINITY => n.trans[t].eft <= n.trans[t].lft

ASSUME ArcsAreTyped ==
  \A n \in Nets :
     /\ \A st \in DOMAIN n.inits : n.inits[st] \in [n.places -> Nat]
     /\ \A t \in TransitionsOf(n) : n.trans[t].arcs \in Seq(Arcs(n.places))

VARIABLES
  net,
  marking,       \* the places of a state
  clock,         \* the clocks of a state
  age

vars == <<net, marking, clock, age>>

IsTimed(t) == ~(t.eft = 0 /\ t.lft = CLOCK_INFINITY)

Timed == {n \in TransitionsOf(net) : IsTimed(net.trans[n])}

(* getVarSet: the transitions that have a clock.                           *)
Clocked == {n \in Timed : net.trans[n].lft # 0}

Enabled(n) == IsEnabled(net.trans[n], marking)

-----------------------------------------------------------------------------
(* getOK: the bounds are tested unless they are 0 or infinite.             *)
OK(n) ==
  n \in Clocked =>
    /\ net.trans[n].lft # CLOCK_INFINITY => clock[n] <= net.trans[n].lft
    /\ net.trans[n].eft > 0 => clock[n] > net.trans[n].eft - 1

(* getRZ, the reset of a clock.                                            *)
RZ(n) == [u \in Clocked |-> IF u = n THEN 0 ELSE clock[u]]

(* Mutant: only private transitions are looked at, a test that is switched *)
(* off in the code (TPNetType.hh:34).                                      *)
ResetDisabledPrivate(clocks, m) ==
  [u \in Clocked |->
     IF IsEnabled(net.trans[u], m) \/ net.trans[u].public THEN clocks[u] ELSE 0]

(* getResetDisabled: each turn reads the places and changes one clock.     *)
ResetDisabled(clocks, m) ==
  [u \in Clocked |-> IF IsEnabled(net.trans[u], m) THEN clocks[u] ELSE 0]

IsSelector(n) == Acting(net.trans[n]) = {} /\ n \notin Clocked

(* Mutant: a clock may go one step beyond the latest time.                 *)
MayIncrLate(n) ==
  /\ net.trans[n].lft # 0
  /\ net.trans[n].lft # CLOCK_INFINITY => clock[n] <= net.trans[n].lft

(* getIncr.  Without latest time a clock goes on until the earliest one.   *)
MayIncr(n) ==
  /\ net.trans[n].lft # 0
  /\ net.trans[n].lft # CLOCK_INFINITY => clock[n] <= net.trans[n].lft - 1

Incr(n) ==
  IF net.trans[n].lft = CLOCK_INFINITY /\ clock[n] > net.trans[n].eft - 1
  THEN clock[n] ELSE clock[n] + 1

-----------------------------------------------------------------------------
(* getState: what a marking does not give is 0.                            *)
Init ==
  /\ net \in Nets
  /\ \E st \in DOMAIN net.inits : marking = net.inits[st]
  /\ clock = [n \in Clocked |-> 0]
  /\ age = [n \in Timed |-> 0]

(* getTransitionHom, and then the clocks of disabled transitions unless    *)
(* the step was taken by selectors only.                                   *)
Step(n, selectors) ==
  /\ OK(n) /\ Enabled(n)
  /\ marking' \in Actions(net.trans[n], marking)
  /\ clock' = IF selectors THEN RZ(n) ELSE ResetDisabled(RZ(n), marking')
  /\ age' = [u \in Timed |-> IF u = n \/ ~IsEnabled(net.trans[u], marking') THEN 0 ELSE age[u]]
  /\ UNCHANGED net

(* getLocals *)
FireLocal(n) == ~net.trans[n].public /\ Step(n, IsSelector(n))

(* getSuccs with one label, which all that is in the code asks for.        *)
WithLabel(l) == {n \in TransitionsOf(net) : net.trans[n].label = l}

FireLabel(l) == \E n \in WithLabel(l) : Step(n, \A u \in WithLabel(l) : IsSelector(u))

(* getTransLabels, without "elapse", which has no arc.                     *)
PublicLabels == {net.trans[n].label : n \in {u \in TransitionsOf(net) : net.trans[u].public}}

(* getSuccs with "elapse".  A transition [0, 0] is never left enabled.     *)
MayElapse == \A n \in Timed : Enabled(n) => MayIncr(n)

ElapseClocks == [n \in Clocked |-> IF Enabled(n) THEN Incr(n) ELSE 0]

Elapse ==
  /\ MayElapse
  /\ clock' = ElapseClocks
  /\ \A n \in Timed : age[n] < AgeBound
  /\ age' = [n \in Timed |-> IF Enabled(n) THEN age[n] + 1 ELSE 0]
  /\ UNCHANGED <<net, marking>>

Next ==
  \/ \E n \in TransitionsOf(net) : FireLocal(n)
  \/ \E l \in PublicLabels \ {"elapse"} : FireLabel(l)
  \/ Elapse

Spec == Init /\ [][Next]_vars
-----------------------------------------------------------------------------
TypeOK ==
  /\ net \in Nets
  /\ clock \in [Clocked -> Nat]
  /\ age \in [Timed -> Nat]

(* A clock tells the age of its transition, up to what its bounds need,    *)
(* and no transition is late.                                              *)
ClockOf(t, a) == IF t.lft = CLOCK_INFINITY /\ a > t.eft THEN t.eft ELSE a

ClocksAreAges ==
  /\ \A n \in Clocked : clock[n] = ClockOf(net.trans[n], age[n])
  /\ \A n \in Timed : ~Enabled(n) => age[n] = 0
  /\ \A n \in Timed : net.trans[n].lft # CLOCK_INFINITY => age[n] <= net.trans[n].lft

(* The type is a time Petri net: no step is taken too early, too late or   *)
(* with a clock that was not put back to 0 (README.md:164).                *)
TimedNet == INSTANCE TimedNet
KeepsTime == TimedNet!Spec

NetsArePlain == \A n \in Nets : \A t \in TransitionsOf(n) : IsPlain(n.trans[t])

(* And it can do all that the net can, no more: a transition changes the   *)
(* marking as its arcs say (TPNetSemantics.hpp:86), it can be fired when   *)
(* its age is within its bounds, and time goes on unless a transition is at*)
(* its latest time (TPNetType.hh:104).                                     *)
StepsAreExact ==
  LET InTime(n) == n \in Timed => /\ age[n] >= net.trans[n].eft
                                  /\ net.trans[n].lft # CLOCK_INFINITY => age[n] <= net.trans[n].lft
      Urgent(n) == age[n] = net.trans[n].lft /\ MayOccur(net.trans[n], marking)
  IN  /\ \A n \in TransitionsOf(net) :
           (IF OK(n) THEN Full(net.trans[n], marking) ELSE {})
             = IF MayOccur(net.trans[n], marking) /\ InTime(n)
               THEN {MarkingAfter(net.trans[n], marking)} ELSE {}
      /\ MayElapse = \A n \in Timed : ~Urgent(n)
=============================================================================
