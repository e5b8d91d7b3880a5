----------------------------- MODULE FrontEnds -----------------------------
(* Systems written in other languages and analysed as GAL programs: DVE    *)
(* systems and AIGER circuits.  A program that is a translation is followed*)
(* through GALType, and compared with what its source does.                *)
EXTENDS GalType, DveToGal, AigerToGal

CONSTANTS
  Systems,   \* the DVE systems
  Circuits   \* the AIGER circuits

DvePrograms == [sys \in Systems |-> ConvertFromDve(sys)]
CircuitPrograms == [c \in Circuits |-> ConvertFromAiger(c)]

(* A state of a DVE system, as one of its translation, and back.           *)
ToGal(sys, s) ==
  [x \in DOMAIN DvePrograms[sys].init |->
     IF x.op = "cell" THEN s.val[x.v][x.i + 1]
     ELSE IF x.v \in DOMAIN sys.proc THEN s.at[x.v] ELSE s.val[x.v][1]]

FromGal(sys, g) ==
  [at |-> [p \in DOMAIN sys.proc |-> IF SingleState(sys, p) THEN 0 ELSE g[ProcessState(p)]],
   val |-> [v \in DOMAIN sys.type |->
              IF sys.size[v] = 0 THEN <<g[Var(v)]>>
              ELSE [i \in 1 .. sys.size[v] |-> g[Cell(v, i - 1)]]]]

(* The states that are not transient and that the system reaches from S    *)
(* after one step, and then through transient states only.                 *)
DveStable(sys, S) ==
  LET DveSteps(T) == UNION {DveSuccs(sys, s) : s \in T}
      Transient(T) == {s \in T : \E p \in DOMAIN sys.proc : s.at[p] \in sys.proc[p].transient}
      met[n \in Nat] == IF n = 0 THEN DveSteps(S) ELSE met[n - 1] \cup DveSteps(Transient(met[n - 1]))
      all == met[TransientDepth]
  IN  all \ Transient(all)

(* The private steps, until no transient state is left.                    *)
Answered == answer.kind = "locals" /\ pc # "leave" /\ ~stutterOnDeadlock

(* "committed states": "if the system is in a committed state, then only   *)
(* processes in committed states can transit" (dve2GAL::gen_transitions),  *)
(* and "a single big synchronous assignment" (aiger2GAL::gen_transitions). *)
(* The program starts where its source does, and its private steps are     *)
(* those of the source: no step that is an error for the source, such as an*)
(* index out of bounds, no interleaving of a rendezvous, no latch that sees*)
(* the new value of another one.                                           *)
TranslationsAreExact ==
  /\ \A sys \in Systems :
       gal = DvePrograms[sys] =>
         /\ gal.init = ToGal(sys, DveInit(sys))
         /\ (Answered => answer.res = {ToGal(sys, t) : t \in DveStable(sys, {FromGal(sys, g) : g \in answer.arg})})
  /\ \A c \in Circuits :
       gal = CircuitPrograms[c] /\ Answered =>
         answer.res = UNION {CircuitSuccs(c, g) : g \in answer.arg}
=============================================================================
