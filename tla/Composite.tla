------------------------------ MODULE Composite ------------------------------
(***************************************************************************)
(* The meaning of composite types (its/composite/CompositeType.cpp): their *)
(* states and the relations that getLocals and getSuccs return, from those *)
(* of the types of their instances.  A type table T gives each type: one   *)
(* that is not a composite has states, locals, succs and inits; a          *)
(* composite has insts (a type for each instance), syncs (a name, a label, *)
(* and parts <<instance, label>>) and inits.  A state of a composite gives *)
(* the state of each instance; when there is one instance the code leaves  *)
(* this level out, which changes the encoding only.                        *)
(***************************************************************************)
EXTENDS Naturals, FiniteSets, Sequences

IsBasic(type) == "states" \in DOMAIN type

(* Identity, and h1 & h2 (h2 comes first).                                 *)
Identity(S) == {<<s, s>> : s \in S}
Compose2(h1, h2) == UNION {{<<e[1], f[2]>> : f \in {g \in h1 : g[1] = e[2]}} : e \in h2}

(* localApply(h, i) on some states: h is applied to instance i.            *)
LocalApply(h, i, S) ==
  UNION {{<<s, [s EXCEPT ![i] = e[2]]>> : e \in {f \in h : f[1] = s[i]}} : s \in S}

RECURSIVE StatesOf(_, _), Succs(_, _, _), Locals(_, _), StateOf(_, _, _)

StatesOf(T, ty) ==
  IF IsBasic(T[ty]) THEN T[ty].states
  ELSE LET parts == [i \in DOMAIN T[ty].insts |-> StatesOf(T, T[ty].insts[i])]
           product[J \in SUBSET DOMAIN parts] ==
             IF J = {} THEN {[i \in {} |-> {}]}
             ELSE LET i == CHOOSE j \in J : TRUE
                  IN  {[j \in J |-> IF j = i THEN p[1] ELSE p[2][j]] : p \in parts[i] \X product[J \ {i}]}
       IN  product[DOMAIN parts]

(* getFullShom: the parts in turn, each in its instance, or in "self" when *)
(* the part names none.                                                    *)
FullShom(T, ty, sync) ==
  LET S == StatesOf(T, ty)
      Part(p) == IF p[1] \in DOMAIN T[ty].insts
                 THEN LocalApply(Succs(T, T[ty].insts[p[1]], <<p[2]>>), p[1], S)
                 ELSE Succs(T, ty, <<p[2]>>)
      upTo[k \in 0 .. Len(sync.parts)] ==
        IF k = 0 THEN Identity(S) ELSE Compose2(Part(sync.parts[k]), upTo[k - 1])
  IN  upTo[Len(sync.parts)]

(* getSuccs: the labels of the bag in turn; for each, any synchronization  *)
(* that bears it, and none for an unknown label.                           *)
Succs(T, ty, tau) ==
  LET One(l) == IF IsBasic(T[ty])
                THEN IF l \in DOMAIN T[ty].succs THEN T[ty].succs[l] ELSE {}
                ELSE UNION {FullShom(T, ty, s) : s \in {x \in T[ty].syncs : x.label = l}}
      upTo[k \in 0 .. Len(tau)] ==
        IF k = 0 THEN Identity(StatesOf(T, ty)) ELSE Compose2(One(tau[k]), upTo[k - 1])
  IN  upTo[Len(tau)]

(* getLocals: the private synchronizations, and the steps of an instance.  *)
Locals(T, ty) ==
  IF IsBasic(T[ty]) THEN T[ty].locals
  ELSE UNION {FullShom(T, ty, s) : s \in {x \in T[ty].syncs : x.label = ""}} \cup
       UNION {LocalApply(Locals(T, T[ty].insts[i]), i, StatesOf(T, ty)) : i \in DOMAIN T[ty].insts}

(* getState: the set with the state of that label, empty if unknown, also  *)
(* in one of the instances only (a state that is not defined is "").       *)
StateOf(T, ty, label) ==
  IF label \notin DOMAIN T[ty].inits THEN {}
  ELSE IF IsBasic(T[ty]) THEN {T[ty].inits[label]}
  ELSE LET of == T[ty].inits[label]
           sub == [i \in DOMAIN T[ty].insts |->
                     StateOf(T, T[ty].insts[i], IF i \in DOMAIN of THEN of[i] ELSE "")]
       IN  {s \in StatesOf(T, ty) : \A i \in DOMAIN sub : s[i] \in sub[i]}
=============================================================================
