----------------------------- MODULE CtlFormula -----------------------------
(***************************************************************************)
(* CTL formulas as its-ctl handles them (CTL/src/ctlp): the formula that   *)
(* was parsed, its existential form, and its forward form, in which a set  *)
(* computed from the initial states is compared with the empty one.  A     *)
(* formula is a sequence: its type, then its children.  XOR and EQ are     *)
(* left out: the checker does not evaluate them.                           *)
(***************************************************************************)
EXTENDS Naturals, Sequences, FiniteSets

CONSTANTS
  Props,     \* the atomic propositions
  Forms      \* the formulas

Id(ap) == <<"ID", ap>>
True == <<"TRUE">>
False == <<"FALSE">>
Start == <<"INIT">>
Not(f) == <<"NOT", f>>
And(f, g) == <<"AND", f, g>>
Or(f, g) == <<"OR", f, g>>
Then(f, g) == <<"THEN", f, g>>
EX(f) == <<"EX", f>>
EG(f) == <<"EG", f>>
EU(f, g) == <<"EU", f, g>>

(* Compare the states of f with FALSE: not equal when c = 1, equal when    *)
(* c = 0.                                                                  *)
Cmp(f, c) == <<"CMP", f, c>>

Temporal == {"EX", "EU", "EF", "EG"}

(* The types of formulas by their number of children.                      *)
Leaves == {"ID", "TRUE", "FALSE", "INIT"}
Unary == {"NOT", "EX", "EY", "EG", "EF", "AX", "AG", "AF", "CMP"}
Binary == {"AND", "OR", "THEN", "EU", "AU", "FWDU", "FWDG"}

(* Propositional formulas.                                                 *)
QuantifierFree[f \in Forms] ==
  \/ f[1] \in {"ID", "TRUE", "FALSE"}
  \/ f[1] = "NOT" /\ QuantifierFree[f[2]]
  \/ f[1] \in {"AND", "OR", "THEN"} /\ QuantifierFree[f[2]] /\ QuantifierFree[f[3]]

(* The subformulas of a formula, itself included.                          *)
Subformulas[f \in Forms] ==
  {f} \cup (IF f[1] \in Leaves THEN {} ELSE Subformulas[f[2]])
      \cup (IF f[1] \in Binary THEN Subformulas[f[3]] ELSE {})

(* The formulas of a file: the others come from their conversion.          *)
ParsedTypes == {"ID", "TRUE", "FALSE", "NOT", "AND", "OR", "THEN",
                "EX", "EF", "EG", "EU", "AX", "AF", "AG", "AU"}

IsParsed(f) == \A g \in Subformulas[f] : g[1] \in ParsedTypes

-----------------------------------------------------------------------------
(* Mutant: a path on which the second formula never comes is forgotten.    *)
NotUntilFinite(f, g) == EU(Not(g), And(Not(f), Not(g)))

(* Some path along which g is not reached through states of f.             *)
NotUntil(f, g) == Or(EU(Not(g), And(Not(f), Not(g))), EG(Not(g)))

(* Universal operators are replaced; F is an until.                        *)
Existential[f \in Forms] ==
  LET g == Existential[f[2]]
      h == Existential[f[3]]
  IN  CASE f[1] = "EF" -> EU(True, g)
        [] f[1] = "AX" -> Not(EX(Not(g)))
        [] f[1] = "AG" -> Not(EU(True, Not(g)))
        [] f[1] = "AF" -> Not(EG(Not(g)))
        [] f[1] = "AU" -> Not(NotUntil(g, h))
        [] f[1] \in {"NOT", "EX", "EG"} -> <<f[1], g>>
        [] f[1] \in {"AND", "OR", "THEN", "EU"} -> <<f[1], g, h>>
        [] OTHER -> f

(* How well a formula is converted: 0 no, 1 yes, 2 (or 4) partially.       *)
Convertible[f \in Forms] ==
  IF QuantifierFree[f] \/ f[1] \in Temporal THEN 1
  ELSE CASE f[1] = "NOT" /\ f[2][1] \in Temporal -> 0
         [] f[1] = "NOT" /\ f[2][1] = "NOT" -> Convertible[f[2][2]]
         [] f[1] = "NOT" /\ f[2][1] \notin Temporal \cup {"NOT"} -> 2
         [] f[1] \in {"AND", "OR"} -> Convertible[f[2]] * Convertible[f[3]]
         [] f[1] = "THEN" -> (Convertible[f[2]] % 2) * Convertible[f[3]]

(* init ^ f != FALSE, or init ^ !f == FALSE.                               *)
CompareValue(f) == IF Convertible[f] = 0 THEN 0 ELSE 1

(* Both parts are compared: one that is not FALSE is enough, or both have  *)
(* to be.                                                                  *)
Either(f, g, c) == IF c = 1 THEN Or(f, g) ELSE And(f, g)

(* Of two conjuncts, the one that is left for the end.                     *)
LastConjunct(p, q) == IF QuantifierFree[q] THEN p ELSE q

LastOfNor(p, q) ==
  IF QuantifierFree[p] THEN q
  ELSE IF QuantifierFree[q] \/ Convertible[q] # 0 THEN p ELSE q

Other(p, q, g) == IF g = p THEN q ELSE p

(* !(p -> q) ends with !q, or with p.                                      *)
EndsWithNotQ(p, q) ==
  QuantifierFree[p] \/ (~QuantifierFree[q] /\ Convertible[q] = 0)

(* r ^ !f, where f is not propositional; fwd gives the forward form.       *)
ForwardNegation(fwd, r, f, c) ==
  LET p == f[2]
      q == f[3]
      g == LastOfNor(p, q)
  IN  CASE f[1] = "NOT" -> fwd[<<r, p, c>>]
        [] f[1] = "AND" -> Either(fwd[<<r, Not(p), c>>], fwd[<<r, Not(q), c>>], c)
        [] f[1] = "OR" -> fwd[<<And(r, Not(Other(p, q, g))), Not(g), c>>]
        [] f[1] = "THEN" -> IF EndsWithNotQ(p, q) THEN fwd[<<And(r, p), Not(q), c>>]
                            ELSE fwd[<<And(r, Not(q)), p, c>>]
        [] OTHER -> Cmp(And(r, Not(f)), c)

(* The types that are not existential do not come here (assert(0)).        *)
ForwardConnective(fwd, r, f, c) ==
  LET p == f[2]
      q == f[3]
      g == LastConjunct(p, q)
  IN  CASE f[1] = "THEN" -> Either(fwd[<<r, Not(p), c>>], fwd[<<r, q, c>>], c)
        [] f[1] = "OR" -> Either(fwd[<<r, p, c>>], fwd[<<r, q, c>>], c)
        [] f[1] = "AND" -> fwd[<<And(r, Other(p, q, g)), g, c>>]
        [] OTHER -> Cmp(And(r, f), c)

(* The forward form of r ^ f, where r is converted already: of temporal     *)
(* formulas, of negations, of connectives.                                 *)
Forward[call \in Forms \X Forms \X {0, 1}] ==
  LET r == call[1]
      f == call[2]
      c == call[3]
  IN  IF QuantifierFree[f] THEN Cmp(And(r, f), c)
      ELSE CASE f[1] = "EX" -> Forward[<<(<<"EY", r>>), f[2], c>>]
             [] f[1] = "EU" -> Forward[<<(<<"FWDU", r, f[2]>>), f[3], c>>]
             [] f[1] = "EG" -> Cmp(<<"FWDG", r, f[2]>>, c)
             [] f[1] = "NOT" -> ForwardNegation(Forward, r, f[2], c)
             [] OTHER -> ForwardConnective(Forward, r, f, c)

(* The forward form of a parsed formula, and the backward one.             *)
ForwardFormula(f) ==
  LET e == Existential[f]
      c == CompareValue(e)
  IN  Forward[<<Start, IF c = 0 THEN Not(e) ELSE e, c>>]

BackwardFormula(f) == Cmp(And(Start, Existential[f]), 1)
=============================================================================
