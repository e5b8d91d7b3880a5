# A verification project for libITS

libITS is a C++ library of symbolic model checking on top of the decision
diagrams of libDDD, with three tools: `its-reach` (reachability, bounds,
witnesses), `its-ctl` (CTL, backward and forward evaluation) and `its-ltl` (LTL,
symbolic observation graphs and products).  Models are written as Petri nets, time
Petri nets, GAL programs, and composites and sets of these.  This directory holds TLA+
modules that model the parts of it where a mistake is easy to make and hard to see in
a test, the TLC configurations that check them on small instances, and theorems about
them that TLAPS proves for all instances.

The program is sequential and keeps nothing on disk.  What is hard in it is not
concurrency.  It is *algorithms on sets of states with hidden preconditions*
(an inverse that is only right inside an envelope, a search that must not meet
a state twice), *results kept across calls* (caches that survive a change of
what they were computed from), *encodings* (a net, a program, a set of instances or an
automaton turned into something else that must mean the same), *loops with several
exits* (an odometer, a fixpoint that an observer may interrupt) and *sequences of calls
nobody wrote a test for*.  The properties are about these.

## 1. Inventory

| Part | Files | State it keeps | Operations | What makes it correct |
|---|---|---|---|---|
| Model | `its/ITSModel.cpp,hh` | `types_`, `model_`, `initName_`, `reached_`, `predRel_`, storage type | `addType`, `setInstance`, `setInstanceState`, `computeReachable`, `getNextRel`, `getPredRel`, `loadOrder` | what is kept is what would be computed now; the predecessor relation is the inverse of the next-state relation inside the envelope |
| Witnesses | `its/ITSModel.cpp` | local: layers, cursors, the witness built so far | `findPath`, `printPaths`, `findCycle`, `playPath` | shortest, playable, precise when asked, none forgotten, none twice; a failure only when there is none |
| its-reach | `bin/main.cpp`, `bin/EarlyBreakObserver.hh`, `bin/MaxComputer.cpp`, `its/Property.cpp` | options, properties, states found, the observer's counters | exploration, early interruption, `-reachable-from`, answers, bounds, calls for traces | answers on a state space that may be partial are those of the whole one |
| Type caches | `its/TypeCacher.*`, `its/TypeDecorator.hh`, `its/Type.hh` | `state_cache`, `trans_keys`, `trans_vals`, `locals_` per type | `getState`, `getSuccs`, `getLocals`, `setVarOrder` | a cached type answers as the type itself |
| Variable orders | `its/Ordering.*`, `its/TypeBasics.cpp` | `indexes_` of each type | `setFromCollection`, `updateOrder`, `loadOrder` | the order loaded is a permutation, sections apply in turn |
| Composite types | `its/composite/*` | instances, synchronizations | `getState`, `getLocals`, `getSuccs`, `getFullShom` | the relation built level by level is the synchronized product |
| Petri net types | `its/petri/*` | places, arcs, clocks; while loading, the transitions to complete | arcs, `getLocals`, `getSuccs`, `elapse`, loading in a hierarchy or by modules | the type is the time Petri net; the composites loaded are the net |
| GAL types | `its/gal/*` | variables, arrays, transitions, calls | guarded actions, `fixpoint`, expression evaluation, inverses | homomorphisms over a diagram, in any order of its variables, have the meaning of the program |
| Scalar, circular sets | `its/scalar/*` | a count, a contained type, delegators | the encodings `-ssD2`, `-ssDR`, `-ssDS` | each encodes the flat product |
| its-ctl | `CTL/bin/main.cpp`, `CTL/src/mc/*` | `predRel_`, `deadlocks_`, `scc_`, fairness of time | `getStateVerifying`, `getHomomorphism`, `getReachableDeadlocks`, `getReachableTimelocks`, `explain` | forward and backward evaluation answer as the semantics does, deadlocks included |
| CTL formulas | `CTL/src/ctlp/ctlpUtil.c` | the trees of the formulas | existential form, forward form, comparison with FALSE | a converted formula has the same truth value in the initial state |
| its-ltl | `LTL/src/*` | the relation, the aggregates | products for Spot (SOG, BCZ99, SOP, SLAP, SLAP-FST, SLAP-FSA), symbolic search (FSOWCTY, FSEL) | each finds an accepting run exactly when the flat product has one |
| DVE front-end | `its/divine/dve2GAL.cpp`, `its/divine/legacy/system/dve` | the system read, the pairs of transitions that synchronize | translation of variables, expressions, rendezvous, committed and transient states | the GAL program takes the steps that the interpreter of DiVinE does |
| AIGER front-end | `its/aiger/aigerModel.cpp` | none | translation of latches and gates | the GAL program takes the steps of the circuit |
| Other front-ends | `its/parser_*`, `its/etf`, `CTL/src/ctlp/ctlp.y` | none | parsing | not modelled |
| Output | `bin/Graph.cpp`, `bin/SMTExporter.cpp`, `bin/ToTransRel.cpp`, `bin/Projector.hh`, `bin/ExactStateCounter.cpp` | none | export | not modelled |
| libDDD, Spot | outside this repository | unicity tables, operation caches | `+`, `*`, `-`, `fixpoint`, `invert`; `twa_graph`, `otf_product`, the emptiness check | external: what the code relies on |

How they interact: a tool parses its options (`its/Options.cpp`), which builds
the types, puts a `TypeCacher` in front of each, loads the orders and sets the
main instance of the `ITSModel`.  From then on it only asks questions.  The
model asks the (cached) type of its main instance for named transitions,
`getLocals` and `getState`; a composite asks the cached types of its instances, a scalar set
the composite it has built, and nets and GAL programs answer with homomorphisms of their own.
`getPredRel` uses `computeReachable`; `findPath` and `printPaths` use
`getPredRel`; `its-reach` calls `computeReachable`-like fixpoints of its own,
then `findPath` or `printPaths`; `its-ctl` calls `getPredRel` and `findPath`
from its explanations, with envelopes that are not the reachable states; `its-ltl` gives
Spot a product that is built when Spot asks for successors, and runs its symbolic search
inside one of them for SLAP-FST and SLAP-FSA.
`EarlyBreakObserver` is called back by the top-level fixpoint of libDDD.

## 2. Plan

Built, in this order, the most depended upon first:

1. `TransitionSystem`, `PredecessorRelation`: sets, relations, `getPredRel`.
2. `FindPath` and `PrintPaths`, each with its proofs: the searches for witnesses.
3. `ReachTool` with its proofs: its-reach around them.
4. `TypeContract`, `TypeCacher`, with the proofs about it in those of `ITSModel`: the contract of a type and its caching
   implementation (a refinement).
5. `Ordering`: the order files.
6. `ITSModel`: what the model keeps between questions; with the proofs about it and about `Ordering`.
7. `CtlFormula`, `CtlCheck` with its proofs: its-ctl.
8. `Explain` with its proofs: the explanations of its-ctl, which compose `CtlCheck` with `FindPath`.
9. `FairCycles`, with the proofs about it in those of `ITSModel` (`fsltlModel` is an `ITSModel`), `LtlCheck`: its-ltl, which composes the symbolic search with
   the products.
10. `Composite`, `ScalarSet`, `ScalarTypes`: composites, and the sets encoded by them.
11. `GalExpr`, `GalHom`, `GalType`: GAL, in three layers.
12. `PetriNet`, `TimedNet`, `TPNetType` with its proofs (a refinement), and `NetHierarchy`, which
    composes the nets with `Composite`.
13. `CArith`, `DveToGal`, `AigerToGal`, `FrontEnds`: the translations to GAL, composed with
    `GalType` and compared with what is translated.

Left: `playPath` (its parser is most of it), the predicates of types
(`TypeBasics::getPredicate`, `getAPredicate`, whose substance is the parsing of names), the
testing automata of its-ltl (TGTA), and the buffered channels of DVE.

Runs keep to two or three components of at most four states each: what can go
wrong in these parts goes wrong between two levels, two labels or two paths.

## 3. The modules and the code

**`TransitionSystem`** states what the code takes from libDDD: a homomorphism is a
relation on states, `Post` its application to a set, `Invert` its inverse inside a
potential space, `Within` the intersection of its images with a set, `Fixpoint` and
`GreatestFixpoint` the two kinds of `fixpoint`.  These are external definitions.

**`PredecessorRelation`** is `getPredRel` (`its/ITSModel.cpp:173`): the inverse of each
named transition, protected by an intersection with the envelope when its images
leave it, left alone when they do not, and dropped when it is never enabled.  The
operator `PredRel` gives the whole relation; `Live`, `ToProtect` and `ToAdd` are the three
sets of transitions that the code builds.

**`FindPath`** is `findPath` (`its/ITSModel.cpp:551`).  `pc` says in which loop the
function is; `rev` is `revcomponents`, the list of layers from the initial states to the
goal, `M3` the last layer found, `M2` the next one, `seen` the states met so far.  Actions: `AlreadyThere`,
`StartSearch`, then one action for each outcome of a turn of the backward loop
(`SearchFails`, `SearchMeetsInit`, `SearchBack`), of the forward loop (`StepForward`,
`EndForward`) and of the precise pass (`StepPrecise`, `EndPrecise`).  The transition of a
step is the first of the list that matches, as in the code.

**`PrintPaths`** is `printPaths` and its call in `bin/main.cpp`: the same backward
search, then an odometer over the layers.  `Try` is a turn of the inner loop,
`Report` the output of a witness, `Backtrack` a move of a cursor, `Restart` a new
witness, and the recursive call for the initial states that are farther is the
return to the start with the other states.  `Filtered` and `Searched` are the
invariant, the `-reachable-from` selection and the gadget that main puts in front.

**`ReachTool`** is `main_noex` with the observer.  `PassUnobserved`, `PassCounted`,
`Interrupt`, `Resume`, `FixpointReached` are the passes of the top-level fixpoint and
what `EarlyBreakObserver` decides at each; `BmcStep` and `BmcEnd` the bounded
exploration; `AddMaxBound`, `StartChecks`, `SelectSource`, `NoSource`, `CheckBounds`,
`CheckProperty`, `Exit` the rest of main.  A pass may add any states that a chained
fixpoint could add: some successors, at least one new when there is one.

**`TypeContract`** is the abstract specification of a type seen by those that use
it: a question, an order, an answer that depends on them only.  **`TypeCacher`** is
the decorator that keeps the answers, in front of a composite and of a type nested
in it; its `Transparent` property is the refinement `TypeContract!Spec`.

**`Ordering`** is `loadOrder` with `updateVarOrder` and `VarOrder`: each section of a file
is read, checked and applied; `DuplicateAborts` is the assertion on repeated names, which
a build with NDEBUG does not have (`asserts` is either).  Its specification is `LoadSpec`, so that the proofs can extend it with `ITSModel`, whose method it is.

**`ITSModel`** is the model: `AddType`, `SetInstance`, `SetInstanceState` configure it,
`ComputeReachable`, `GetPredRel` and `GetPredRelWithin` ask.  `Staged` says that nothing
is configured after a question, as all the tools do.

**`CtlFormula`** converts formulas: `Existential` removes universal operators,
`Convertible` and `CompareValue` choose what is compared, `Forward` turns the tree round
from the initial states.  **`CtlCheck`** is its-ctl: `ComputeReachable`, then for each formula
`CheckBackward` or `SkipBackward`, and `CheckForward`; or `FindDeadlocks`, `FindTimelocks`.
`Verify` is `getStateVerifying`, by cases on the formula; `Exact` and `Inexact` are its two uses.
`Forms` is the set of all formulas: recursion on formulas is a function on it, and TLC only ever
asks whether a value is one.  `Label` gives the states of each atomic proposition; `ElapseIsTime`
says of a timed model that elapse is a function and that a state it comes back to is one it does not change
(time bounded by the caps of clocks), on which the timelocks rest.
Sets that the code computes when they are first asked for (`deadlocks_`, `predRel_`,
`scc_`) are computed with the reachable states: they depend on nothing that changes
later.  The caches `ctl_cache` and `ctl_statecache` are never filled by the code.

**`Explain`** is `--witness` (`CTLChecker::explain`, `ITSModel::findCycle`, `printPath`).  `todo` is the
stack of calls: a recursive call and what its caller does after it are put in front
(`Call`, `CallAgain`, `CallAside`, `Return`, `Show`), and `result` is the value returned by the
last call.  There is one action for each branch of the switch on the type of the formula,
`ExplainX` when it is true in some of the states given and `ExplainNoX` when it is false in all;
a branch that asks for a trace starts a `FindPath`, whose steps are `SearchStep`, and goes on in
`PrintX`.  `calls` and `paths` record what was said: of a subformula before it was
explained (`said`), and of the ends of a trace.  `Dead` is the trace of main to a deadlock.

**`FairCycles`** is `findSCC_fsltl`, the fully symbolic search of its-ltl in its two variants:
`ComputeReach`, then turns (`StartTurn`, `ReduceByAcc` for each acceptance condition,
`EndTurn`) that shrink `div`, the candidates, until a turn changes nothing.
**`LtlCheck`** is `LTLChecker::model_check`.  `nodes`, `todo` and `edges` are the product as far as
Spot has seen it; `ExpandSog`, `ExpandSop`, `ExpandSlap` are the `succ_iter` of the products,
with an operator for what the iterator gives (`SogEdges`, `SopEdges`, `SlapEdges`).  For
SLAP-FST and SLAP-FSA, `AskFs` starts a `FairCycles` from an aggregate, whose steps are `SearchStep`;
`FsFindsRun`, `FsFindsNone` and `FsFallsBack` are what the product does with its answer.
`RunFound` may come as soon as an accepting cycle has been met, as Spot does.

**`Composite`** gives a meaning to a table of types: the states and relations that
`getState`, `getPotentialStates`, `getLocals` and `getSuccs` return, for a composite from those of its instances.
**`ScalarSet`** is the construction of composites for a scalar or circular set: `buildNaryRepresentation`
as `BuildNary`, the basic strategy (`SizeOne`, `LimitGrain`, `BuildBlocks`, `BuildLargerBlocks`, `BuildTop`),
and the recursive one with its stack of calls (`StartRecursion` to `EndRecursion`).
**`ScalarTypes`** reads the result with `Composite`, next to the flat product of the instances.

**`GalExpr`** is the partial evaluation of expressions: `Given` replaces a subexpression by a
value and simplifies, `IsSupport`, `FirstSubExpr`, `SubExprExcept` say what is left to ask.
**`GalHom`** is `ExprHom.cpp`: `Query`, `Assigned`, `Selected`, `SyncAssigned` and `Inverted` are the `eval` of the
homomorphisms of the same names.  A path of the diagram is a state, and a homomorphism only knows
the variables from the current node down: `vs` is what is left of the order of the variables.
**`GalType`** is `GALType`: `AskLocals` and `LeaveTransient` explore, then one question is asked
(`AskSuccs`, `AskPredicate`, `AskInverse`).  **`CArith`** holds the operations of C that GAL and DVE share.

**`DveToGal`** begins with the interpreter of DiVinE, which libITS has inherited with its parser and does not run:
`FastEval` an expression, `DveSuccs` the successors of a state, by `EnabledAlone` and `EnabledPairs` with what
`ApplyEffects` and `Transmit` do to it; what is an error has no successor.  Then comes `dve2GAL`, which
translates the same system to GAL: `ConvertInt`, `ConvertBool`, `ExtTransitions` (the rendezvous are paired
statically), `GenTransitions`, `GenTransient`, `GenInitialState`.  **`AigerToGal`** is `aiger2GAL`: one transition for each
input, the one that is 1, with one synchronous assignment of all the latches; `Clock` is what the circuit does.
**`FrontEnds`** gives the results to `GalType`, and compares what their type answers with their source.

**`PetriNet`** is the homomorphisms of arcs: a transition tests each arc, then the arcs are
applied in the order they were added (`ActionsOfArcs`), those that only test being the identity.  **`TPNetType`** is `PNetType` with `TPNetType`: `FireLocal` is `getLocals`,
`FireLabel` is `getSuccs` with a label, `Elapse` is `getSuccs` with `"elapse"`; `Step` is what the two
former share, the reset of the clocks of disabled transitions (`ResetDisabled`) included.  `age` is a
history variable: for how long a transition has been enabled.  **`TimedNet`** is the time Petri net
that the type should be, which knows no clock; `KeepsTime` is the refinement.
**`NetHierarchy`** is the three loaders that build composites (`JsonPNetType`, `JSONLoader`,
`RdPELoader`): `hier` lists the nodes of the hierarchy in the order in which `buildComposite` completes
them, `todo` the transitions that no level has completed, `BuildLeaf` and `BuildLevel` a call.
`JsonPNetType` erases a completed private transition from the vector before it reads its arcs, through
references into that vector (`JSONPNetType.cpp:119`, `:215`).  `Erased` is those transitions: what is read belongs to the
next one of the list, and `addArc` and `addSyncPart` refuse its name.  For the last of the list it is past the end, undefined
behaviour: `WhatIsLost` chooses between its own arcs and none, and a program that ends there is a
behaviour that stops.  The list is a set, so that each transition may be the last.  Once
all is built `Run` makes the net itself run as a `TPNetType`.

The module with the prefix `MC` of each gives values to its constants
(`TypeCacher` needs none).


## 4. The runs

| Run | Question | Instances |
|---|---|---|
| `find_path` | are witnesses shortest, playable, precise when asked, and failures justified? | all systems of 2 transitions of at most 2 edges on 4 states, 4 calls |
| `print_paths` | are all the shortest witnesses printed, once each and in order? | the same size, 6 calls: several initial states, limit, invariant, gadget, trivial goal |
| `reach_tool` | are answers on a partial state space those of the whole one; do traces asked for exist? | all graphs of at most 4 edges on 5 states, 24 command lines |
| `type_cacher` | do cached types answer as uncached ones? | 2 orders, 2 labels, 4 bags, orders set before questions about successors |
| `ordering` | are files applied section by section, with indexes apart? | all files of at most 2 sections among 15 |
| `its_model` | is what is kept what would be computed? | 3 types, 2 names, 2 initial labels, all envelopes |
| `its_ctl` | are CTL answers right in both directions, with their sets, deadlocks and timelocks; is what `--witness` says true, and does it end? | relations of at most 4 edges on 3 states; one initial state with about 100 formulas, or two of them explained with 32 formulas in both directions; 3 elapses of at most 2 edges |
| `ltl_check` | does each method of its-ltl answer as the flat product does, and does it end? | models of 3 states, at most 3 edges and 3 labellings by 2 propositions; 10 automata of at most 2 states and 2 acceptance sets; the eight methods |
| `scalar_types` | does each encoding of a set mean the flat product of its instances? | three strategies, all options, sizes 1 to 16; compared with the flat product up to 6, the instances counted above; with delegators and rings up to 6 |
| `gal_types` | do the homomorphisms of a GAL program compute its successors, predicates and predecessors; are translations exact? | two programs of 4 variables, one of them an array of 2, in all 24 orders; two DVE systems of 3 processes and two circuits of 4 latches, translated |
| `petri_types` | does a time net step as it should; is a net loaded in a hierarchy the net? | time nets of 2 places and 2 transitions with 4 intervals each; 6 nets of 4 places in 6 hierarchies by each loader that takes them |
| `gal_sync` | do the latches of a circuit change at once? (no) | a register of two latches with another between them |

Why these bounds are enough to be interesting.  In `find_path` and `print_paths` four
states hold a path of length three, a branch that joins, a cycle, a state outside
the envelope that leads in and one that leads out; two transitions are enough for
one to be protected and the other not, or for one step to have two labels.  In
`reach_tool` five states hold a property settled before, at and after the
interruption.  In `its_ctl` three states hold a cycle with an exit to a deadlock, and
a state that is not reachable but a predecessor; the formulas have every operator
alone, every operator over five temporal ones, and every connective over temporal
formulas of the kinds that the conversion tells apart, and their negations.  The two
propositions overlap, so that both, one or none of two subformulas hold.  Two initial
states let a formula hold in one only; every branch of the explanations is taken (the one of EG
for deadlocks along false paths excepted, which `EGStates` makes impossible).
In `ltl_check` three states hold a loop on states of one label (a divergence), one through two
labels and an exit to a deadlock; the automata have self-loops with and without acceptance, terminal states,
a transient state, and two acceptance sets that no single label need meet.
In `scalar_types` sizes up to 16 reach three levels of blocks with a remainder at each.  In
`gal_types` all orders of the variables put the index of an array before, between and
after its cells, which is what decides what a homomorphism knows when it needs it; programs of more than
four variables are followed in the rotations of one order and of its reverse (`MCOrders`).  The DVE systems have a rendezvous that
passes two values and whose sides read what the other changes, synchronizations of a committed process with one that is
and one that is not, transient states, and an index that may be out of bounds.  In
`petri_types` two transitions in conflict or independent, immediate or not, with or without a
latest time, hold every case of the reset of a clock; `AgeBound` stops the history variable after the largest constant of an interval,
past which it changes nothing, and `MaxTokens` is the largest marking of a place in which a composite and its net are compared.

Preconditions, each a named operator of the module:

- `its_model`, `type_cacher`: configuration before questions, as all the tools do (`Staged`, `Disciplined`).
- `ltl_check`: terminal states of the automata accept (`MCUsual`); SOG and SLAP-FSA are asked with
  automata that do not count steps (`Stuttering`), and SOP with the one that has no acceptance set; SOG, SOP and the symbolic
  methods are not asked with `-stutter-deadlock`.
- `scalar_types`: `Supported` says what the encodings are right for: grains that fit
  (`Fits`), no private delegator or ring for a set of one instance or where the loop is not closed, no private ANY
  delegator in nested blocks; and the instances use no label twice and have one initial state for all.
- `gal_types`: assignments whose array index is not itself a cell of the same array that it selects, synchronous
  assignments for which the order computed is right, inverses of the forms the code inverts
  right, transient states that are never deadlocks and no cycle of transient states; for DVE, no value
  beyond its type, no rendezvous both sides of which assign a global variable, no negative operand on the right of `&&`, `||`
  and `->`, as many initial values as cells, no property process, no typed nor buffered channel; for AIGER, latches
  for which the order computed is right.
- `petri_types`: `IsPlain` transitions, that is arcs to one place each, except for tests; no two consuming arcs on one place;
  a reset before what is produced on its place, and no empty output (`MCNetsArePlain` has TLC evaluate that the nets of the run are so); for hierarchies, every place is in the
  hierarchy and `Supported`: a transition without arcs is public under its own name, and labels of private transitions are not shared.
  With `JsonPNetType` and private transitions, `HierarchyIsTheNet` asks less of the steps that the net takes on its own:
  one that is not of the net changes nothing, and those of `MayBeLost` may miss.  One of the nets has public
  transitions only, so that nothing may be lost there; two have transitions of both kinds.

Each of these is there because without it the code does something else, listed below.

`TypeOK` documents the types of the variables in each module; `TypeCorrect` proves that of `FindPath` and
`FairCyclesTyped` that of `FairCycles`; those of `ITSModel` and `TPNetType` are parts of inductive invariants.  `PrintedInOrder` includes that each path printed is a shortest
one, `AggregatesAreTheProduct` that a divergent aggregate loops, `MeansFlatProduct` that the top type
holds all the instances.

### Disagreements met

One has a run, `gal_sync`, whose trace was followed in the source, and which `PROJECT.json` quotes.  Others
are shown by changing one line of a configuration:

| Configuration | Line | Violates | What the code does |
|---|---|---|---|
| `MCFindPath.cfg` | `TransChoices <- MCHoldsInOne`, `Queries <- MCOutsideQueries` | `StaysInReach` | `findPath` leaves the envelope when the goal is outside (`its/ITSModel.cpp:551`) |
| `MCReachTool.cfg` | `Commands <- MCMaxBoundCommands` | `BoundIsMaximum` | the property of `-maxbound` is added after the observer, so that the state space may be a part |
| `MCReachTool.cfg` | invariant `BoundIsMinimum` | `BoundIsMinimum` | the minimum printed starts from 0 |
| `MCExplain.cfg` | `Models <- MCTotal`, `Commands <- MCGlobally`, invariant `CyclesComeBack` | `CyclesComeBack` | the cycle printed for EG does not come back to where it starts |
| `MCScalarTypes.cfg` | `Sets <- MCTooFewBlocks`, invariant `HoldsAllInstances` | `HoldsAllInstances` | `-ssD2 g` with n % g > n / g builds more blocks than the instances need: 15 instances for n = 11 and g = 4 (`ScalarSetType.cpp:285`) |
| `MCLtlCheck.cfg` | `Commands <- MCFsaCommands` | `AnswersAreCorrect` | SLAP-FSA leaves out the self-loop of an accepting state and asks whether it is followed for ever, where `sogtgbautils.hh:135` says "at least one infinite" sequence |
| `MCLtlCheck.cfg` | `Commands <- MCSinkCommands` | `AnswersAreCorrect` | SLAP-FST takes a rejecting sink (from `-hoa`) for a state from which all is accepted (`sogtgbautils.hh:28`) |
| `MCNetHierarchy.cfg` | invariant `NothingIsLost` | `NothingIsLost` | `JsonPNetType` leaves private transitions without arcs or parts: it erases them before it reads them (`JSONPNetType.cpp:119`, `:215`) |
| `MCGalType.cfg` | `Programs <- MCSelfIndex` | `SuccessorsAreExact` | `t[t[i]]` is simplified with the old value when t[i] = i (`PIntExpression.cpp:441`) |

Those met without an instance, by part.

Witnesses, its-reach, model:

- `findPath` without `precise` returns the layers narrowed by the forward pass, from
  whose first states the whole witness need not be playable (`its/ITSModel.cpp:673`);
  the comment of `its/ITSModel.hh:195` does not say so.
- the usage text of `--fixpass` says 5000, the value is 2 (`bin/main.cpp:62`).
- an ATOM property is not watched by the observer but is answered at the end as a
  reachability property, possibly on a truncated state space
  (`bin/EarlyBreakObserver.hh:32`).
- with `--nowitness` and no property at all the exploration is interrupted and the
  count of a part is printed as the total.
- `setInstance` on a model that has been asked keeps the reachable states, the
  predecessor relation and the initial label of the previous instance
  (`its/ITSModel.cpp:79`); no tool does it, and `Staged = FALSE` shows it.
- `setVarOrder` of a cached type clears `trans_vals` but not `trans_keys` (`its/TypeCacher.hh:27`): after
  a question about successors a key is found without its value.  The tools set orders
  first; `Disciplined = FALSE` shows it, against "it is stored as two congruent vector of values".
- `updateOrder` accepts an order that leaves variables out (`its/Ordering.cpp:62`), where
  `its/Ordering.hh:37` says it "checks that vars is a permutation of the current variables".

its-ctl:

- with `--fair-time` there are several initial states.  The backward form is true when
  one of them satisfies the formula, where the comment of `CTL/bin/main.cpp:269` compares
  with all of them.
- `CTLChecker::explain` announces that NOT a holds in states where a does, when an
  implication is true, and explains the left operand of `->` and `|` when it is the right one
  that holds (`CTL/src/mc/ctlCheck.cpp:338`, `:344`, `:377`); `ExplanationsAgree` leaves out what is said of
  these operands.
- it looks for the path of EG, and for that of FwdU, in a set larger than the states
  that the semantics allows (`CTL/src/mc/ctlCheck.cpp:528`, `:661`), and for that of EU with a goal outside the envelope
  (`:452`): the states between the ends of a trace may not satisfy the formula.
- when `a -> b` is true only because a is false, it is announced that b is true, in 0 states if it is not, and a
  is explained in these states (`CTL/src/mc/ctlCheck.cpp:342`): none may be explained and returned, where the comment promises
  some of the input.  `ExplainedAreInputs` allows the empty set after an implication only.
- when EX is false because the states have no successor, their empty set of successors is
  explained, as if there were some (`CTL/src/mc/ctlCheck.cpp:433`).

its-ltl (`LTL/src/`):

- SOP does not copy the acceptance conditions of the automaton and asserts that it has no self-loop left
  (`dsog.cpp:252`).
- SOG and SOP with `-stutter-deadlock`: `getDivergent` does not see the loops added to deadlocks (`sogIts.cpp:126`).
- FSOWCTY and FSEL ignore `-stutter-deadlock` and elapse (`fsltl.cpp:60` only uses `getLocals`), and with several formulas the
  relations of the first are reused.
- an acceptance set that labels no arc is not required.
- the optimisation for self-loops of SLAP (`slap.cpp:154`) has no effect: its result is overwritten at line 168.
- `formulaCache` is keyed by the number of a BDD that nothing keeps alive.

Scalar sets (`its/scalar/`):

- `README.md:224` says that nine instances with blocks of two give five variables; the code builds four blocks.
- `-ssDS` builds a `DepthRecStrategy` too (`setStrategy`); `ShallowRecStrategy` is never instantiated.
- `-ssDR` of fewer instances than the grain, or with a grain of one, does not close the loop: private ALL delegators become
  public and the ring has an end.  A set of one instance is the contained type itself.
- a private ANY delegator nested in a block gives synchronizations without parts, which are identity self-loops.
- the public labels of rings in nested pairs are not relayed; `addEdges` merges synchronizations
  when a label is both current and next, or that of a delegator.
- an initial state that is not uniform, or whose name is not that of the contained type, is `State::null` in nested encodings.

GAL (`its/gal/`):

- inverses: `getSubExprExcept` of a binary operation returns the operand that carries the variable
  (`PIntExpression.cpp:991`), so that x = x - i, x = i - x and x = (x == i) lose predecessors; x = t[x] and
  t[0] = t[i] lose some and invent others; a sequence loses those whose intermediate value no
  reachable state has; `invertExprValues` asserts that it is given a constant.
- a wrapped boolean used as an index, or as an operand before an access that is not resolved, is asked for
  ever.
- OR drops the operands that are undefined; a division by zero gives 2^30 - 1.
- `stutterOnDeadlock` looks at guards only, and lets a transient deadlock be returned; the flag is not initialised
  by the constructor (`ITSModel` sets it).
- `getNamedLocals` (`GALType.cpp:189`) omits the closure over transient states; `getTransLabels` returns the empty label of
  private transitions; a variable that does not exist gets index -1; `createNary` computes flattened
  operands and uses the others.

DVE and AIGER (`its/divine/`, `its/aiger/`):

- buffered channels: the variables declared are `c[l].xj` (`dve2GAL.cpp:314`), the transitions use arrays
  `c.content.xj` (`:390`) that do not exist.
- a variable of another process is declared `P.x` and translated as `P->x` (`dve2GAL.cpp:93`), which does not exist.
- the state that a property process comes from and its guard are not tested (`dve2GAL.cpp:476`), only its new state is set.
- `~x` is translated to x ^ x, which is 0 (`dve2GAL.cpp:167`).
- `&` and `|` in a condition are translated as `&&` and `||` (`dve2GAL.cpp:204`), where 1 & 2 is false for the interpreter.
- a negative right operand of `&&`, `||` or `->` is false for the interpreter (`dve_system.cc:849`), true in the translation.
- the index of what receives a value is evaluated by the interpreter in the state that is left (`dve_explicit_system.cc:742`), by
  the translation after the values received before.
- a value beyond its type, and a rendezvous both sides of which assign a global variable, are errors for the interpreter,
  and steps of the translation.
- the cells of a vector without initial value are read past the end of the values given (`dve2GAL.cpp:266`); a vector of constants is
  "undeclared" (`:118`) and gets size 0.
- a circuit without inputs has no transition (`aigerModel.cpp:218`); the last latch is taken for the bad state and kept at 0.

Petri nets (`its/petri/`):

- `--json-order` on a time net of Romeo drops all clocks and makes "elapse" the identity
  (`Options.cpp:283`), against `README.md:164` and `:200`.
- `--json-order` on a net of Romeo loses the private transitions: `it = trans.erase(it)` (`JSONPNetType.cpp:119`, `:215`) precedes the loops that read `curt`
  and `tname` (`:144`, `:232`), references that are then to the next transition, or past the end of the vector.  "Unknown transition" or "Unknown synchronization"
  is printed, the transition has no arcs or no parts and is the identity, against `README.md:200`.  Transitions
  of Romeo are private unless they say otherwise (`XMLLoader.cpp:27`).  `JSONLoader` erases last (`JSON2ITS.cpp:177`, `:235`).
- in a hierarchy a transition without arcs never fires when it is private, and loses its label when it is public; places
  that are missing from the hierarchy leave transitions that never fire.
- `getSuccs` of a label also fires the private transitions that have it (`PNetType.hh:130`); those of
  Romeo keep their label.
- an INPUT hyper-arc is enabled by any of its places and takes from any other, which may get a negative
  marking; `addHArc` has no caller.
- two consuming arcs on one place are each tested alone, and RESET after OUTPUT on a place removes what was just produced.
- a timed transition whose latest time is 0 asks for the index of a clock that does not exist, and does not use
  it; `getSuccs` of a bag with "elapse" and another label asserts.
- `getAPredicate` and `observe` of `JsonPNetType` assert.

## 5. Fairness

The program is one thread, and each action of `FindPath`, `PrintPaths`, `ReachTool`, `LtlCheck` and `ScalarSet` is
a turn of a loop that it is in: it goes on as long as it can.  `WF_vars(Next)` says no
more than that, and `Terminates` is checked under it.  `GalType` asks for weak fairness of `AskLocals` and `LeaveTransient`
for the same reason.  The other modules have safety
properties and action properties only.  That explaining ends is one of them: `ExplainingEnds`
says that every step outside a search decreases the work left (proved, section 6), and searches end.
`TPNetType` has none: nothing in the code makes a net fire or time pass.

## 6. What is proved

The only assumptions are `StatesFinite`, `NbTransIsNat` (a finite number of states and of named transitions),
`SystemsAreTyped`, `QueriesAreTyped` (of `FindPath` and of `PrintPaths`), `DefinitionsAreTyped`, `CallsAreTyped` (the arguments of calls are sets
of states, the envelope is in the potential space and not empty), `CommandsAreTyped` (of `ReachTool`: what the options
give), `NextChoicesAreTyped`, `ValueIsTyped`, `LabelsAreTyped`,
`NetsAreTyped` (times are natural numbers or infinite, the earliest one is not after the latest), `FilesAreTyped` (a type has finitely many variables, an order file is a
sequence of sections, which are sequences of names) and `ArcsAreTyped` (the
arcs of a net are to its places, and it starts with tokens or nothing).  TLC evaluates them in the runs, with those of the
modules without theorems (`ModelsAreTyped`, `AutomataAreTyped`, `CommandsAreTyped` of `LtlCheck`, `ProductStates`, `SetsAreTyped`, `BaseIsTyped`).
A theorem that needs more says so in its statement.

**Recursive functions.**  The distances, the bounded searches, the sequences that are played and the sums of arcs are
recursive functions of a number.  The library's theorems on them take an operator as a parameter, which no prover instantiates, so
`PredecessorRelation_proofs` begins with what is needed, about sets: a set of numbers has a least one (`LeastNumber`, from
the well-foundedness of `<`), a set with 0 that is closed under successor is `Nat` (`Induction`), and a recursive function
exists (`Recursion`, the union of its restrictions).  On these rest the lemmas on walks: `BackwardWalk` and `ForwardWalk` unfold,
grow, stop for good once they stop, and are within the fixpoint; the layers of a walk are played (`LayersArePlayed`).

**Predecessors** (`PredecessorRelation_proofs`).  `PredRelForward`: from any set of states
the relation finds predecessors only.  `PredRelComplete`: from states of the envelope it
finds all those of the envelope.  `PredRelSound`: from states of the envelope it does not
leave it, which holds because a transition is left unprotected only when its inverse
does not lead out.  Together `PredRelExact`.

**findPath** (`FindPath_proofs`).  None of the properties is inductive.  The invariant `IInv`
is the conjunction of `TypeOK`, `Positions` (the cursors and lists agree with `pc`),
`LinkedBehind` (in the layers that the precise pass has left behind each state has a successor in
the next layer by the transition chosen), `Ahead` (each state of a layer that the forward
pass has not left has a successor in the next one), `SeenBehind`
(predecessors of the states seen, but for the frontier, are seen) and `FailureIsJustified`.
`Ahead` gives `ForwardProgress`; `SeenBehind` with an empty frontier says that the states
seen are closed under predecessors, so that no path of the envelope leads from
`init` to the goal (`SearchIsComplete`); the precise pass keeps of each layer the states
that lead to the next, which is `PreciseWitness`.

Distances need a second invariant, `PathInv`, on top of the first.  `Layers`: the layers are not empty, end in the goal, and are
in the envelope if the goal is.  `Driven`: each layer behind the forward pass is reached from the one before it by the transition
chosen, which the narrowing of the precise pass must not lose.  `Distances`: the states seen are those at each distance,
or at least those when the goal is outside the envelope, where the search may go through states that are not in it.
`Nearest`: no state of `init` is nearer to the goal than there are layers.  It gives `BreadthFirst` (the layers are
the sets of states at each distance, whatever `getPredRel` had to protect), `ShortestWitness` (the witness leads from the initial states returned to the goal, and no
state of `init` has a shorter one) and `WitnessInEnvelope`.

**printPaths** (`PrintPaths_proofs`).  `PrintInv` has a part for each thing that the loops leave to one another.
`GoalsKept`: a goal that is given up is one to which the initial states left do not lead.  `Treated`: all the witnesses of the initial
states given up are printed.  `Farther`: those left are farther from the goal than the witnesses printed, so that the next call prints longer ones.
`Layers` and `Searching`: the layers are the sets of states at each distance from the goal left.  `Cursors`: the odometer
stands on a sequence of transitions played up to `cur` through the layers, in front of which all cursors still match and behind which all are reset.  `Enumerated`: what
is printed of this length is before the cursors in lexicographic order, and every sequence before them that can be played
is printed.  A sequence can be played through the layers exactly when it is a shortest witness (`ShortestIsGood`), because a step from distance d to a layer nearer than d-1 does not exist.
There is one lemma for each action, and `NoneIsForgotten` follows: unless the limit is reached every shortest witness from every
initial state is printed, whatever their lengths.  `OnlyShortestInOrder` adds that nothing else is printed, nor twice, nor out of order.  It
has a hypothesis, that after a gadget the initial states are in the invariant of the command line: the search starts from the states after the gadget
without testing them, so that one outside the invariant is in no layer, but the odometer starts from it all the same; with
`inv` = {1, 2, 4} and the transitions {1->2, 3->4} and {1->3, 2->4} it prints a sequence that leaves a state
which was never searched.

**The model** (`ITSModel_proofs`).  With `Staged`, `IInv` is `TypeOK`, `KeptIsCurrent` (nothing
is kept before the first question, and what is kept is what would be computed), `ReachedIsCurrent` and `PredRelIsCurrent`; the
assumption that configuration comes first is what makes it inductive, and the steps
of questions use the theorems on predecessors.  `ReachableIsCurrent`, `BackwardIsCurrent`.

**Variable orders** (`ITSModel_proofs`).  `LoadInv` says that each type has the order of a sequence of
names, that of its last section so far or the one it made for itself (`OrderIsOfLast`), for variables of the type only.  The index of a
variable is where its name first stands (`FirstOccurrence`), so no two share one; and if a sequence has as many names as
places (`NamesAreDistinct`) each index is the label of a variable (`LabelsAreComplete`).  So `LoadedOrdersAreComplete` and
`LoadedSectionsAreApplied`, for files of any length.

**Caches** (`ITSModel_proofs`).  With `Disciplined` (orders change while nothing that was encoded with them is kept),
`CachesAreCurrent` is inductive, with the facts that the keys and the values are sequences: a question that the composite does not find is
answered from the caches of its instances, which are current too (`AnswerIsCurrent`), what is added
is an answer of that kind (`AskStep`), and an order only changes what has been emptied (`OrderStep`).
`CachesStayCurrent`; and as each answer is then that of the contract, `CachesAreTransparent`.  `LabelsAreTyped` is
the assumption: labels are those of the type.

**its-ctl** (`CtlCheck_proofs`).  The hypothesis `FormsAreAll` says that `Forms` is closed under the
connectives and that each formula is made of formulas of lower height: it is the set of finite formulas.  The theorems
hold for every finite `States`, every model, labelling and list of formulas.

The recursive functions on formulas are defined (`RankedRecursion`: an equation that asks only for arguments of
lower rank has a solution, found by iterating it), so that each is what its equation says
(`VerifyUnfolds`, `SatUnfolds`...); for `Forward` the rank is `Effort`, by which pushing a negation inside goes down.
There is induction on formulas (`FormInduction`), as a lemma about sets of them.
The reference semantics, n steps at a time, gives fixed points (`UntilIs`, `AlwaysUntilIs`, `GloballyIs`): a monotone
iteration has nothing to add after as many turns as there are states (`IterationSaturates`).

`Kept` is what the rest needs of what the checker keeps: the reachable states are the least set that `next` does not leave, with or
without `--fair-time` (`FairReachesAll`), `predRel_` gives the predecessors inside them (from `PredRelExact`), `deadlocks_` and `scc_` are right.
Then the fixpoints of the code are those of the semantics: `EUStatesAreUntil`; `EGStatesAreGlobally`, where a set of which
each state has a successor in it has one of which each has a predecessor (`FeedingIsFed`), so that skipping the greatest fixpoint
when there is no cycle loses nothing; `SomeEGIsEnough`, where starting from all the states of `l` is not needed.  The forward ones meet a set
exactly when the backward ones meet the start: `FwdUMeetsUntil`, `FwdGMeetsGlobally`.

The conversions: the existential form holds where the parsed formula does (`SatExistential`, with the dualities of AU and AF), and
has no universal operator (`ExistentialIs`).  `VerifyIs`, by induction: an existential formula is evaluated to its states.
`ForwardIs`, by induction: `IsConverted(f)` says that the forward form of r ^ f compares whether a state of r satisfies f, for every r
that is evaluated forward; a negation is pushed through two connectives at a time, which is why it
is proved of f and of !f together.  So a verdict is whether some initial state satisfies the formula, or whether all do
(`BackwardVerdict`, `ForwardVerdict`).

`Inv` adds the program: nothing is kept or answered before the reachable states are computed, what is kept is then what `Computed`
says, the answers given are right, what is printed is what was asked for.  From it `CorrectAnswers`, `ExactStates`,
`DeadlocksAndTimelocks` (with `ElapseIsTime`) and `TypeCorrect`.

**Explanations** (`Explain_proofs`, under `FormsAreAll`).  `ExplainingIsChecking`: every step of `ExplainSpec` is one of `CtlCheck` or a stutter of it, so
`ExplainedAnswersAreCorrect` has the three properties of its-ctl with `--witness` too.
`ExplainInv` adds what the explanation needs, in the parts below; `ExplanationInvariance` says it is an invariant, and
`ExplainTypeCorrect` that the types are kept.

- The search: while a `findPath` runs, `CallInv` of `FindPath_proofs` holds of it (`Looking`; `CallStart` and `CallStep` say that
  any call starts with it and keeps it, and `PathInvariance` is the same for the specification of `FindPath`).  The arguments are proved to be those that
  `FindPath_proofs` is about (`Proper`): states of the envelope, with something to
  look for.  The one call that looks for nothing, after EG because of a deadlock, fails at once.  A search whose goal can be reached in the envelope
  succeeds (`SearchSucceeds`); at its end it keeps a part of what it was given, not empty if that was not (`SearchEnds`), and its trace can be played (`TraceIsPlayed`).
- The calls: `Stacked` says that each task that remains is about a formula that is explained and states that
  are reachable (`Fits`), and, of a trace to come, that the states looked for are what the text says of them (`Searched`) and can be reached from
  those it starts with (`Hopeful`; not for EG, whose trace may fail).  This is where the evaluation enters: `ExactIs` gives the states that the checker finds for each operand,
  the fixpoints of EU and EG the paths, and the forward forms are those that the conversion builds (`ForwardIsShaped`).
- What is returned: a task hands its states over to the next one.  `Chained` says that there are intermediate sets
  by which all that remains ends with some of the states first given (`Delivers`: a part of them,
  not empty unless they are or an implication was explained).  A call is replaced by its tasks: it is enough
  that those lead from what it was given to a part of it (`Leads`), which is proved for each branch of the switch.
- What was said and printed (`CallsAgree`, `Traced`) is recorded when it is; it depends on what the checker keeps only.

`ExplanationsEnd` is `ExplainingEnds`: the work left is the sum of the weights of the tasks (`WorkSplits`: that of the first one and of the others), the size of a formula
is more than those of its children (`SizeIs`), and a call, a trace or a return is replaced by up to three tasks that weigh less together.

`ExplanationsAreRight`, `TracesAreRight` and `InputsAreExplained` follow.  The attempt to prove the last one showed that it did not hold as it was stated: an implication
may be explained in no state (section 4).  The property and the run were changed accordingly.

**Fair cycles** (`ITSModel_proofs`).  A set of states is fair (`IsFair`) when each of its states is after
another one and after an arc of each acceptance condition from the set.  That every fair set of reachable
states stays among the candidates (`FairRunsAreKept`) is inductive: each reduction is a fixpoint, of which lemmas
say that it is monotonic and keeps such sets (there is no induction in them: a least fixpoint is an intersection of closed sets,
a greatest one a union).  That the result is a fair set (`ResultsAreFair`) is not: `Candidates` says besides that
the candidates are reachable and closed under successors, that a turn only removes some of those that it began with, and
that after the conditions it has gone through each candidate is after an arc of each of them from
a candidate of the start; when the turn has changed nothing, the start is the end.

**its-reach** (`ReachTool_proofs`).  The invariant `SearchInv` says what each phase leaves to the next.  Until the checks
start, the states found are reachable, or are those within the depth of a bounded search, and only the observer has answered (`BeforeChecks`); a property that it does not watch any more is settled by
the states found, and it interrupts when there is none left (`Observed`); an exploration that ends by itself ends
with all the states it is asked for, a closed set or those within the bound, and each state is reached through states that were found (`Complete`); a bounded search that adds nothing at a step adds nothing at
the later ones, which is why it may stop; the properties are then checked on what the command is about, or, after an interruption,
on a part of it (`AfterChecks`).  So a partial exploration gives the answers of a complete one
(`EarlyAnswersAreCorrect`: an answer given early is positive for what it looks for, which more states do not change), also
with `-bmc`, but for command lines with an ATOM under an observer that skips it (`AllWatched`; with one the
answer may be that of a part, see the disagreements); the
properties watched are all settled (`PartialSearchSettles`), a goal given to a trace is reached in the states
given with it (`TraceGoalsAreReached`), and the maximum printed is that of the states the command is about (`MaximaAreExact`).
The last one is for values that are not negative, a state to start from, and no observer beside `-maxbound`
(`Bounding`): the maximum starts from 0, and an interrupted search with `-maxbound` prints that of a part.

**Time** (`TPNetType_proofs`).  The clocks of the type say less than ages: there is none for the interval
[0, 0], and without latest time a clock stops at the earliest one.  `ClocksAreAges` relates each clock to the history
variable, up to that cap, says that the age of a disabled transition is 0, and bounds ages
by the latest times; with `TypeOK` it is inductive (`ClocksTellAges`).  `TypeKeepsTime` maps the type to
`TimedNet` with it: the initial state is one of the net, and a step of a label, of a private
transition or of elapse is one of the net or a stutter.  That is one half, no step too many.  `StepsStayExact` is the other one, for nets whose transitions
are plain (`NetsArePlain`): each transition leads to the marking that the sums of its arcs define exactly when the
marking has the tokens and the age is in time, and time goes on exactly when no transition is at its latest time.  By induction on the
arcs, the marking after k of them is given by the sums of these k (`OneMoreArc`): an output finds its place at 0 or more because what is
consumed before it is at most the whole, which the transition had; an input finds a place that was not reset, a reset one where
nothing was produced.  That places hold natural numbers (`MarkingTyped`) is part of the invariant, since the tests of the arcs are
one by one and say nothing of a negative place.

## 7. What is only model-checked, and what is not modelled

Liveness and `ENABLED` are out of reach of TLAPS.  `GalExpr`, `GalHom`, `GalType`, `Composite`,
`ScalarTypes`, `LtlCheck`, `NetHierarchy`, `DveToGal`, `AigerToGal` and `FrontEnds` declare RECURSIVE
operators or extend modules that do, which a module with theorems may not reach; their recursion is on expressions and hierarchies, not on numbers.
So these stay with TLC: `AnswersAreCorrect` and `AggregatesAreTheProduct` of `LtlCheck`, `MeansFlatProduct`, `TranslationsAreExact`,
`SuccessorsAreExact`, `PredicatesAreExact`, `PredecessorsAreExact`, `HierarchyIsTheNet`.

The minimum
of `BOUNDS`, the answers to an ATOM beside an observer and what `printPaths` prints after a gadget that leads out of the invariant are not proved
because they do not hold (sections 4 and 6).

Not modelled: the parsers, the ETF front-end, the vendored libraries (DiVinE but for its interpreter, LTSmin, AIGER, cJSON), the exports and
statistics (input or output only); the buffered and typed channels and the property processes of DVE; the internals of libDDD and Spot, which are other
programs; `playPath`; the predicates of types and `observe`, whose substance is the parsing of names, but for those of GAL; the
testing automata (TGTA) of its-ltl; the C export of GAL; the orders
that FORCE computes; `CompositeNet`, which nothing uses; the elapse of a `TComposite`.
Explanations are modelled without `--fair-time`, and not for forward
forms that join several comparisons: there the code intersects the state that says
"true" with sets of states, which is up to libDDD.  In `CtlFormula` XOR and EQ are left out because the checker stops on
an assertion there (with NDEBUG it evaluates them to the empty set), and the sharing of
subformulas because it changes no answer.
