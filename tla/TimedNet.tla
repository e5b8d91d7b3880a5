------------------------------ MODULE TimedNet ------------------------------
(***************************************************************************)
(* What a time Petri net promises ("discrete time models: Time Petri nets",*)
(* README.md:164): each timed transition has an age, the time for which it *)
(* has been enabled since it became so or was last fired.  It may fire     *)
(* when its age is in [eft, lft], and time may not carry it beyond lft.    *)
(* The firing of public transitions is up to the model around the net.     *)
(***************************************************************************)
EXTENDS Integers

CONSTANTS
  Nets,             \* the nets considered
  IsEnabled(_, _),  \* whether a transition is enabled in a marking
  Actions(_, _)     \* the markings to which it leads

VARIABLES net, marking, age

vars == <<net, marking, age>>

CLOCK_INFINITY == -1

(* The bounds [0, infinity] leave the firing of a transition free.                 *)
IsTimed(t) == t.eft > 0 \/ t.lft # CLOCK_INFINITY

Transitions == DOMAIN net.trans
Timed == {n \in Transitions : IsTimed(net.trans[n])}

Enabled(n) == IsEnabled(net.trans[n], marking)

Init ==
  /\ net \in Nets
  /\ \E st \in DOMAIN net.inits : marking = net.inits[st]
  /\ age = [n \in Timed |-> 0]

MayFire(n) ==
  /\ Enabled(n)
  /\ n \in Timed =>
       /\ age[n] >= net.trans[n].eft
       /\ net.trans[n].lft # CLOCK_INFINITY => age[n] <= net.trans[n].lft

Fire(n) ==
  /\ MayFire(n)
  /\ marking' \in Actions(net.trans[n], marking)
  /\ age' = [u \in Timed |-> IF u = n \/ ~IsEnabled(net.trans[u], marking') THEN 0 ELSE age[u]]
  /\ UNCHANGED net

MayElapse ==
  \A n \in Timed : Enabled(n) /\ net.trans[n].lft # CLOCK_INFINITY => age[n] < net.trans[n].lft

Elapse ==
  /\ MayElapse
  /\ age' = [n \in Timed |-> IF Enabled(n) THEN age[n] + 1 ELSE 0]
  /\ UNCHANGED <<net, marking>>

Next == Elapse \/ \E n \in Transitions : Fire(n)

Spec == Init /\ [][Next]_vars
=============================================================================
