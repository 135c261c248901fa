# TypeConfusionDetector in TLA+

TypeConfusionDetector finds bad C++ casts in LLVM bitcode. A Clang 7 that is
changed to call a stub at each cast produces the bitcode; SVF 7.0.0, a library
of pointer analyses, computes what each cast pointer may point to; the detector
judges each cast by the types of those objects. LLVM and Clang are vendored.
The program's own logic is under `src/SVF-7.0.0` (paths below are relative to
it), and all of it is sequential C++: what makes it hard is not threads but
worklists, caches and representatives that one handler changes while another
one still holds on to them, and orders of iteration that depend on how nodes
happen to be numbered.

## 1. Inventory

| Component | State | Operations | What is hard | What makes it correct |
|---|---|---|---|---|
| Work lists, `include/Util/WorkList.h` | a deque and a set that mirrors it | push, pop, find, clear | clients push while they drain | list and set agree; nothing waits twice or starves |
| Cycle detection, `include/Util/SCC.h` | visit numbers, candidate roots, sub nodes, two stacks | `find()`, recursive `visit()`, `rep()`, `clear()` | one detector reused on a changing graph; a root is lent to a caller only while a component is open | components of the graph as it is now, roots in topological order |
| Andersen wave-diff analysis, `lib/WPA/Andersen*.cpp`, `include/WPA/WPASolver.h` | points-to sets, reverse map, difference sets, caches, work list, stack of the wave | address statements, cycle elimination, copies, geps, collapsing, loads, stores, indirect calls | merging, collapsing and new edges in the middle of all loops | result neither invents nor misses pointees; data structures agree |
| Constraint graph, `lib/MemoryModel/ConsG.cpp` | nodes, edges, rep and sub maps, PWC flags | add, remove, retarget, collapse | an edge that is dropped or left behind | no dangling edge; each node is represented by one that is in the graph |
| Call graph, `lib/MemoryModel/PointerAnalysis.cpp`, `lib/Util/PTACallGraph.cpp` | resolved indirect calls | resolve, connect | a limit that stops resolution half-way | resolved calls are connected |
| Type confusion detector, `lib/TCD/TCD.cpp` | cast sets, verdicts, info list, counts, histogram | gather, judge, count, report | the collector is static and outlives each analysis | kept verdicts hold; the report is complete |
| Demand-driven analysis, `include/DDA/DDAVFSolver.h`, `lib/DDA` | caches of queries, visited marks, the items met, the objects looked for, budget, a growing value-flow graph | `findPT`, `reCompute`, contexts, out-of-budget fallback | cached results that are still incomplete; records that live for a query, caches that live for ever | answers miss nothing, and within budget are as precise as the least solution |
| Location sets, `lib/MemoryModel/LocationSet.cpp`, `MemModel.cpp`, `lib/Util/AnalysisUtil.cpp` | index, byte offset, base type and negative offset of each field node | flatten a type, offset of a gep, add, modulus, look up by index, type at an offset | negative offsets; nodes shared by index alone | a pointer gets the node of the field it points to; the type found there judges casts rightly |
| Memory model and symbol table, `MemModel.cpp`, `PAG*.cpp` | objects, field nodes | get or add a field node; one-pass build | a field of an object that was collapsed | field-insensitive objects have no new fields |
| Other Andersen solvers | as Andersen | lazy cycle detection, type filter | merging while iterating | as Andersen |
| Flow-sensitive analysis, `lib/WPA/FlowSensitive.cpp`, `include/MemoryModel/PointsToDFDS.h` | points-to sets of pointers, IN/OUT sets per value-flow node, marks of updated objects, work list, a growing value-flow graph | one handler per kind of node, propagation, connection of resolved calls | strong updates that turn weak, marks that are cleared once for all later visits, edges that come late | every fact is passed on or due to a node that will be visited; the result is the least solution |
| Memory SSA and value-flow graph, `lib/MSSA` | graph | one-pass build, node removal | def-use reconnection | paths are preserved |
| Multithreaded analysis, `lib/MTA` | interleavings, lock spans | data flow | joins remove facts | over-approximates |
| Leak and double-free checkers, `lib/SABER` | slices | forward and backward traversal | conditions along slices | – |
| Path conditions and CUDD; class hierarchy; IR utilities; tools; instrumented compiler | tables | – | – | – |

Interaction: `WPAPass` (or `DDAPass`) runs the selected analyses on one
program assignment graph. Each analysis owns a constraint graph; the solver
calls cycle detection, the graph and the memory model synchronously. After each
analysis the pass hands it to the one static collector of the detector, which
asks it for the points-to set of every cast pointer. There are no threads and
no messages, and nothing is persisted that the models would need: every hazard
below is one of ordering, stale state, limits, boundaries and long sequences of
legal steps. `PROJECT.json` lists them, each at the line where it bites. With
`-cxt` the pass is `DDAPass`: the whole-program analysis runs first, its result
guards the value-flow graph, and the demand-driven analysis answers one query
for each cast pointer.

## 2. Modules and the code

| Module | Models |
|---|---|
| `PendingSet` | what a solver relies on: a set of pending nodes, from which `pop()` takes one |
| `WorkList` | `FIFOWorkList` and `FILOWorkList`, shown to implement `PendingSet` |
| `SCCDetection` | `SCCDetection` of `SCC.h`; recursion as a stack of frames |
| `AndersenWaveDiff` | the default analysis on its constraint graph, from `processAllAddr()` to the fixed point of `analyze()` |
| `TypeConfusion` | the detector and the pass that runs it |
| `ValueFlow` | programs as value-flow graphs, and the decisions of one step of the demand-driven analysis: contexts, recursion, agreement of objects, strong updates |
| `DDAVFSolver` | the query engine on such a graph with its instances `FlowDDA` and `ContextDDA` |
| `DDAMeaning` | the abstract specification: the least solution of the transfer functions, and what the answers promise in terms of it |
| `FlowSensitive` | the sparse flow-sensitive analysis on such a graph, from `analyze()` to the last round |
| `LocationSets` | the field nodes of one object, the pointers that reach them, and the types found there |
| `MC...` | instances for TLC; `MCWaveDiff` names programs and `MCWaveFamily` adds a family to them, `MCValueFlow` has the value-flow graphs that `MCDDA` and `MCFlowSensitive` share, `MCLocationSets` has type layouts |
| `...Proofs` | theorems |

**WorkList.** `data_list` and `data_set` are the two members; `Push`, `Pop`,
`Clear` are the three mutators with the guard each has in the code, and `popEnd`
says which of the two classes the list is. A client
may call them in any order, as solvers do. `find()` and `empty()` only read.

**SCCDetection.** A frame is a call of `visit()`: its node, the children it has
not looked at, and the child it is waiting for. `NextRoot` is an iteration of
`find()`; `NextChild`, `ReturnFromChild`, `NotRoot` and `CloseComponent` are the
pieces of `visit()` between two calls. The order of nodes and children is
any order. `Find` may be called again on any other graph, which is
how one detector is reused between rounds.

**AndersenWaveDiff.** `pc` says which function is running:

| `pc` | code | actions |
|---|---|---|
| `addr` | `processAllAddr()` | `ProcessAllAddr` |
| `solve`, `merge` | `SCCDetect()`, `mergeSccNodes()`, `mergeSccCycle()` | `SCCDetect`, `MergeSccNode`, `UpdateReps` |
| `wave` | `solve()`, `AndersenWave::processNode()`, `postProcessNode()` | `ProcessNode`, `ProcessPWCNode`, `PopFromWorklist`, `UpdateCallGraph` |
| `copygep` | `handleCopyGep()`, `processCopy()`, `processGepPts()` | `ProcessCopy`, `ProcessGep`, `GepPtd`, `FinishGep`, `FinishCopyGep` |
| `pwc`, `drain` | `collapsePWCNode()`, `collapseFields()`, `collapseNodePts()`, `collapseField()` | `ResumePWCNode`, `CollapseNext`, `CollapseNodePts`, `CollapseOneField`, `FinishCollapseField` |
| `post` | `handleLoad()`, `handleStore()` | `HandleLoad`, `HandleStore` |
| `connect` | the second half of `AndersenWaveDiff::updateCallGraph()` | `ConnectPair`, `FinishCallGraph` |
| `done` | `analyze()` has returned | `Terminated` |

One action is one iteration of one loop, so that TLC interleaves the orders in
which loops may iterate. `Pick(S)` is the choice a loop makes. The code iterates
over `std::set`s and sparse bit vectors ordered by node numbers (edges:
by kind, then numbers); node numbers come from the order in which the program
assignment graph was built, so any order of nodes is possible. Orders the code
does fix are kept: the stack of the wave is topological (`waveOrder`), edges of
a node go copies, normal geps, variant geps, and loads go before stores. With
`AnyOrder = FALSE` each loop takes one order only.

Abstractions of data, and why they lose nothing a property here tells apart:

* A *field* is `<<object, index>>`. `LocationSet`s compare by index alone, and
  `getModulusOffset()` wraps the index by the object's field limit. Offsets are
  natural numbers here; byte offsets and negative offsets are left out.
* The work list and `nodesToBeCollapsed` are sets from which any member is
  taken. That is `PendingSet`, which `WorkList` is shown to implement; the order
  of a real FIFO list is one of the orders allowed here.
* `SCCDetect` is one step: the components of the direct edges, any member as
  root, roots in a topological order. That is what `SCCDetection` is shown to
  compute. The step also has the guard that no part of a component is closed
  (`StronglyConnected`) and that components are disjoint, which is always true of
  components; it is there for the proofs to use.
* Address edges are only read by `processAllAddr()` (and are never retargeted to
  another effect afterwards), so they are data of the program.
* A program is `prog`: address statements, other statements, and for each
  indirect call and possible target the pairs it would connect. There are finitely many
  calls, statements are about variables, and none copies a variable to itself
  (`ProgramAssumption`, `StatementAssumption`): the builder makes no others,
  and `addCopyCGEdge()` drops them. The graph has
  the nodes that program names (`Named`); others would stay empty. `bound` is a
  ghost: some field-insensitive solution of the program (`BoundCovers`), against
  which precision is measured. It influences no step.
* In `moveInEdgesToRepNode()` and `moveOutEdgesFromRepNode()`
  (`ConsG.cpp:404-410`, `455-461`) a gep edge is deleted before its
  offset is read. What is read is either the old edge or other content, hence the choice
  `junk` in `MergeNodeToRep`.
* `IndirectCallLimit` is tested after an edge has been added, so one more than
  the limit is resolved; `UpdateCallGraph` takes any subset of that size, since
  call sites are visited in the order of a pointer-keyed map.

**TypeConfusion.** `RunPointerAnalysis` is an iteration of the pass with the
gathering of casts of the first one; `FindPossibleTypeConfusion(c)` is one
iteration of the loop over casts; `PrintHistogram` and `TypeConfusionReport` end
an analysis. The results of the pointer analyses are a constant
(`Solutions`): any sequence of points-to sets. `IsBadCast` and `IsRightCast` are
the type tests with their walks along first fields and through contained structs.
`opt` holds the command line options. `pointsCnt` is keyed by cast, since each stub call has its own pointer value.
The type of an object is the struct found at its offset, a constant here;
`LocationSets` is about how it is found.

**ValueFlow, DDAVFSolver.** A program is a value-flow graph with the results of
the pre-analysis (`PreAnalysed`: they solve the program's constraints, which is
what `AndersenWaveDiff` is for). The recursion of `findPT()` and `reCompute()` is
an explicit stack; a frame is an activation of `findPT()`, and its `stage` says how
far it has come:

| `stage` | code | actions |
|---|---|---|
| `funptr` | `resolveFunPtr()` | `ResolveFunPtr`, `BeginStatement` |
| `base` | `startNewPTCompFromLoadSrc()`, `...StoreDst()` | `BackwardPropDpm`, `BaseDone` |
| `stmt` | the rest of `handleSingleStatement()` | `BackwardPropDpm`, `LoadObject`, `StoreObject`, `OldValues`, `EndStatement` |
| `new`, `out` | `reCompute()`: edges of new calls, then out edges | `NextEdge`, `ReCompute`, `OutEdges`, `Return` |

`FindPT` is the entry of `findPT()`: marks, record, budget, and either the cached
result (`Give`) or a new frame. `UpdateCachedPointsTo` is its end: if the cache
grows, the calls that this decides are connected and a frame for the
recomputation follows. `pc` tells queries (`StartQuery`, `AnswerInBudget`) from
the fallback (`Downgrade`, `DegradeFlow`, `DegradeContext`, `AnswerDegraded`).
Each of the two engines has its own caches, marks, edges and call graph. Loops over sets
of edges, objects and items may run in any order: the sets are ordered by
addresses or node numbers.

* Contexts are compared without the flag `concreteCxt`, as in
  `ContextCond::operator==`; a set keeps the element that was there first
  (`UnionPts`, `Insert`).
* An indirect call has one value-flow edge set per target, added when the engine
  connects it; call site ids of edges the call graph does not have cannot then
  occur, so `getCSIDAtCall()` never returns 0 here.
* `resolves` names, for a node at the entry of a function or behind a call, the function
  pointers that decide the call in the pre-analysis: `resolveFunPtr()` asks for those at exactly the nodes
  that `isFunEntrySVFGNode()` and `isCallSiteRetSVFGNode()` know, which are those where
  edges of calls end (`ResolvesAssumption`, checked for every program).
* `weak` marks arrays, field-insensitive objects and allocations in loops or
  recursion, `opaque` constants and non-pointer objects: data of the program.
* `setObjFieldInsensitive()` in `processGepPts()` finds the object already
  field-insensitive, since the demand-driven result is within that of the
  pre-analysis (`Precise`, proved) which has made it so. For the same reason
  `IndirectCallLimit` is not reached.
* `isMustAlias()` is always false in both instances. `getConservativeCPts()` is
  never called.

**DDAMeaning.** `Round` applies all transfer functions at once to the items that
are demanded so far; `Least` is what it converges to. It shares the decisions of
one step with `ValueFlow`, and has neither caches nor marks, order nor budget. Unlike
the code, an item that looks for an object names the object *with its context*.
`Complete`, `Exact` and the second half of `Settled` compare with this least
solution. `RefinesFlow` and `FlowSettled`, the first half of `Settled`, speak of any
solution (`SolvesFlow`: whatever `Round` demands, derives or calls is in it already),
for which no recursion is needed, so that they can be proved. `RefinesFlow` compares
answers with solutions from outside: `Candidates` are those tried, `Relaxed` the
equations for an engine. `FlowSettled` says that the marks, the cache and the call graph of `FlowDDA` are
a solution themselves (`FlowResult`) whenever it is not at work.

**FlowSensitive.** `pc` follows `analyze()`: `solve` is the two cycle detections
(`callGraphSCC->find()`, `SCCDetect()`), `process` the two loops of `solve()`
(`ProcessNode` from the stack, `PostProcessNode` from the work list), then
`UpdateCallGraph` and, while `pc` is `connect`, `ConnectEdge` for each iteration of
`updateConnectedNodes()`. A visit of a node is one action: its handler
(`processAddr()` to `processStore()`), `propagate()` behind it and the clearing of
OUT marks at its end. Between visits no OUT mark is set, so OUT marks are
local to a visit (`Propagate`); IN marks are `inUpdated`. The stack holds all nodes
component by component; `OnTop` lets the components come in any topological order
and the nodes of one in any order. The work list is `PendingSet` again.

* An edge and a load that name the base object of a structure take its field
  nodes along (`AllFields`): `isFIObjNode()` asks whether the node is a base
  object, not whether the object is field-insensitive.
* Edges of calls are as `SVFGOPT` connects them, into a PHI or into the memory at
  an entry or behind a call (`Connected`, the assumption `ConnectedAssumption`).
  `SVFGOPT` replaces parameters and returns by PHIs, so the cases of
  `propAlongDirectEdge()` for them do not occur.
* What the transfer functions ask of a result is `Solves`: `Round`, applied to it,
  adds nothing. `LeastSolution` says that the result solves its program and is within
  each of the `Candidates` that does. In TLC that is the one `MCFlowSensitive`
  computes in rounds; in the proof it is any.
* A variant gep finds its object field-insensitive already, since the pre-analysis
  has made it so; that flag is `weak`. `IndirectCallLimit` is not reached either.
  Both rest on `RefinesPreAnalysis`, so on its premise (section 4).

**LocationSets.** A state is an object with the field nodes made so far and one
pointer of the program, with the node the analysis gives it and the byte it holds at run time
(`at`, the ghost everything is measured against). `Field`, `Step`, `CastToFirst`
and `DownCast` are what Clang emits for `&p->f[j]`, `p + n`, an upcast and a
downcast: geps and bitcasts, each with the edge the builder adds. `GetGepObjNode`
is the solver's look-up of a node; `Restart` goes on with another pointer over the same
nodes, in any number. `Flat` is type flattening with number-stride pairs, which
`getFldIdxViaByteOffset()` searches; `AbstractType` is the detector's
`GetAbstractObjectType()`. Sizes are in bytes as in the code. `wild` marks a pointer that a
cast has given a type the object does not have there. `mishap` is a ghost that
notes which of three known weaknesses (section 4) a node has met; the properties
say which they excuse. Objects of unknown type, whose location sets have no base
type, and collapsed objects are not in this module.

## 3. What the runs check

Each property of a passing run has a mutant of the code in `PROJECT.json` that
violates it under the same configuration; mutants are definitions marked
`mutant:` and used nowhere else.

| Run | Bounds | Shows |
|---|---|---|
| `work_list` | 5 data, both classes | `Mirror` and the refinement `ImplementsPendingSet`; for the first-in-first-out class `NoOvertaking` and `Served` |
| `scc` | all graphs of at most 3 nodes, self loops included, and 256 of 4 nodes, searched one after another in any sequence | `ComponentsFound` against mutual reachability; `Decided` and `Topological` at every step of the traversal; `Returns` |
| `wave_orders` | 15 programs of 3 to 7 statements over up to 7 pointers and 5 objects, and every program of at most 3 statements over 2 pointers and 2 two-field objects; every order | all structural invariants, precision, what is guaranteed of the result, termination |
| `tcd` | 3 casts, 7 types, 6 objects, every single result and every pair of the 78, every combination of options | kept verdicts hold, the report is complete |
| `dda` | 72 loops of stores and loads and nine further programs in variants, most with several budgets; up to 8 pointers, 3 memory nodes, 5 objects, 2 queries, call strings of length 2 | `Complete`, `Exact` against the least solution; `RefinesFlow` against a solution of the flow-sensitive equations; `Settled` between queries, for `FlowDDA` also as a solution (`FlowSettled`); `Precise`; `NoAssertionFails`; every query ends |
| `locations` | 10 objects of 12 struct types with up to 5 fields, all walks of any length | `FieldRight`, `NoFalseAlarm`, `WrongCastSeen` |
| `flow_sensitive` | 90 programs: 72 loops of stores and loads and 18 further ones; up to 8 pointers, 3 memory nodes, 5 objects; every order | `NothingLost` while nodes are visited, `RefinesPreAnalysis`, `LeastSolution` at the end, `Terminates` |

Why the bounds are enough. Three data would do for every way in which order can
go wrong; five leave room. A component that closes inside an open one needs
three nodes; four, along one path with edges back and over it, let a node lose
its candidate root twice. In the
wave, two fields are the fewest for which wrapping around and collapsing
differ from doing
nothing; single-field, heap, constant and black-hole objects have programs of
their own. The named programs were chosen so that every
action fires, including a collapse inside a collapse, a merge of a node that is
still on the stack, a load that is handled again after its pointee was
merged, and a call found by a call. The family has no such intention behind it
and reaches every mix of three statements. Bounds by name: `MaxStmts`
(statements of a family program), `MCLimit` (fields per object), `CallLimit`
(2, with programs that resolve up to four calls, so that the limit is exceeded).
No state constraint cuts a behaviour short. No run uses symmetry.

The programs of `dda` are one per hazard: two copies in a cycle (`Cycle`), every
way to close a loop of loads and stores in which a strong update may turn weak
(`Grow`, `Loops`), one store overwriting another (`Overwrite`, on stack, heap and array
objects), a gep in a cycle (`Fields`), a call found by the result of a call
(`CallByCall`), one function called from two sites (`Identity`, `Allocate`), a
function that calls itself (`Recursive`), an allocation deeper than call
strings are long (`Deep`). Budgets (`budget`, in steps of `findPT()`) run out in each
part of a computation: at once, in the middle, in the second query, in
both engines. `MaxCxt` is 2 against up to three nested calls. `MaxRounds` (26) is
checked to be enough by `RoundsAssumption`: the last round changes nothing. The
`Candidates` of `RefinesFlow` are the least solutions of the flow-sensitive equations;
`CandidatesAssumption` checks that they are solutions, so the comparison is never
empty.

`flow_sensitive` runs on the programs of `MCValueFlow`, except the one that is only
about the length of contexts, and on four of its own: a memory edge of a call that is found
after its source has been visited and unmarked (`CallThroughMemory`), a call that
closes a recursion, by which an update that was strong becomes weak
(`ClosesRecursion`), a load of a structure with a field (`WholeStructure`), and
two fields of which a load reads one (`Siblings`). `LeastSolution` compares pointers,
IN and OUT sets and the call graph with a solution computed in rounds, without marks,
work list or order (`CandidatesAssumption` again: it is one).

The layouts of `locations` have a first base with fewer and with more fields than
what follows, bases of bases, arrays of structs behind another element, and
elements of equal size; an object is also an array of two or three structs. The
state space is finite without a bound, since nodes and locations are.

The properties of the wave, from the inside out: `RepsOnGraph` (no edge
dangles, no representative is gone); `PropagatedArrived` (what counts as sent
has arrived behind each edge, also behind edges inherited in merges);
`CachedConnected` (what a load or store will not look at again has its copy
edge); `RevPtsComplete` (collapsing finds every holder of a field);
`CollapsedEverywhere` (a field-insensitive object with several fields has no
field left that a pointer holds); `Precision`; and of the result `CopiesSatisfied`
(copies of the program and those found), `CallsSatisfied` (arguments and results of
resolved calls) and `UnmergedServed` (loads, stores and geps of pointers that were
never merged). All of them are proved as well (section 5). The last three say no
more than the code guarantees, and their exceptions are named:

* `Mixed`: a variable that shares a node with a field may be given facts after its turn
  in the last wave (`late_field` in section 4).
* `Unmerged`: what a pointer gets by a merge may find its loads and stores handled
  already (`store_cycle`); geps of merged pointers may have been dropped (`two_geps`).
* `Skipped`: constant objects and objects without pointers get no copy edges; neither does
  an object that was collapsed after one of its fields was skipped for that reason.

**Fairness.** `FairSpec` of the wave and of the detection have weak fairness of
the program's own step: a sequential program that can take a step takes one. In
`WorkList` only `Pop` is fair, since every solver loops `while (!empty()) pop()`
whatever is pushed in between; nothing is assumed of pushes and of `clear()`.
`Terminates` says that `analyze()` returns although each round may ask for the
next one. The demand-driven analysis has weak fairness of its next step for the
same reason; there `Terminates` says that items which ask each other again
come to rest. The flow-sensitive analysis is fair in the same way: it is one
thread in a `do ... while`, and `Terminates` says that the visits of a round and the
rounds end. Runs end in a state where `Terminated` stutters, and walks over an
object never end; so deadlock is checked everywhere.

## 4. Disagreements between code and comments

Each of these is a run that TLC refutes; the trace can be followed in the code.

* `store_cycle`: `mergeNodeToRep()` (`Andersen.cpp:474`) gives the root the
  pointees of the merged node but does not queue it. The post phase looks at
  queued nodes only, so at the fixed point a load or a store can lack the copy
  edge for a pointee that arrived by the merge. It needs three statements
  (`b = a; a = *a; *a = b`) and happens in the first order of the loops. The same for
  a load is `LateCycle` of `MCWaveDiff` (invariant `LoadsSatisfied`).
* `two_geps`: `hasEdge()` ignores the offset of a gep, so of two geps from one
  pointer into one cycle the second is dropped when edges are retargeted.
* `late_field`: the copy edge from an object to its first field is added in the
  middle of the wave (`Andersen.cpp:289`) and does not ask for another round. What the
  field then receives it passes on only if its turn in the wave is still to
  come; the same goes for a pointer that has been merged with the field. At the
  fixed point a *copy statement* from such a pointer lacks a pointee (program
  `LateField` of `MCWaveDiff`). It was found where a proof of `CopiesSatisfied` for
  all copies failed; no program of the family of `wave_orders` shows it.
* `dda_two_objects`: an item that looks for an object (`DPIm` and
  `loadToPTCVarMap`, `DDAVFSolver.h:576`) does not carry the object's context. If a
  load's pointer points to one allocation in two calling contexts, the second
  search finds the items of the first one visited, and what was stored in the second object
  is missed. All other programs of `MCDDA` are `Complete`.
* `later_cast`: `GetAbstractObjectType()` takes a negative offset back to find
  the type before a wrong downcast, but the negative offset of a node is the
  sum over its chain of geps, or that of whichever gep created the node. The
  type found is then another one and the cast passes unreported. With the cast's own
  offset it is always seen (`WrongCastSeen`).

Seen while modelling, without a run of their own:

* The flag `concreteCxt` does not take part in comparisons. An object met
  with a full call string first keeps `TRUE` when a truncated string arrives
  and is overwritten by a strong update: program `Truncated` of `MCDDA` with
  `MaxCxt = 1` violates `Complete`.
* `LocationSet::operator+` reads `fieldInfo[fldIdx]` before it knows that the
  index is needed, or in range: past the end if the base type is a first base with fewer
  fields than the index (`"overrun"` in `LocationSets`; the outcome is any field).
* A wrong cast can create a node with a negative byte offset that a right pointer
  with the same index then shares (`"wild node shared"`).
* `computeGepOffset()` takes every negative offset for a downcast. A step back in
  an array member (`Steps <- {-1, 1}`) gets the node of another field and
  violates `FieldRight`, although the comment there treats "whole array as one".
* `getFldIdxViaByteOffset()` tries one number-stride pair at a time, so an array in
  an array is not found by its bytes and its fields become field 0.
* If the first element of an object is an array of structs, its first node is
  shared by the object and that element, and the type depends on who came first.
* An object with one field has two nodes that stay apart. A normal gep makes its
  field node, a variant gep makes the object field-insensitive, and then
  `collapseField()` returns early (`isSingleFieldObj()`, `Andersen.cpp:379`), so
  nothing joins them: what is stored through the one is not loaded through the
  other (program `OneField` of `MCWaveDiff`). That is why `CollapsedEverywhere`
  excepts these objects.
* A load or store skips a field without pointers (`isNonPointerObj()`). If its object
  is collapsed later, the field's holders point to the object instead, but the
  field has no copy edge that the object could inherit, and `collapseField()` does
  not queue the holders (`Andersen.cpp:398-406`). The object's pointees are then not
  loaded (program `LateCollapse` of `MCWaveDiff`, which `Skipped` in
  `UnmergedServed` excepts). This too was found by a proof that failed.
* `isFIObjNode()` is true of every base object. The flow-sensitive analysis
  therefore takes a load of a structure for a load of all its fields, while the
  pre-analysis reads the base node only: its result can be *coarser* than the
  one it refines (program `WholeStructure` of `MCFlowSensitive`). That is the
  premise `FieldsCovered` of `RefinesPreAnalysis`, and it matters to the
  detector, whose kept verdicts rely on later analyses refining earlier ones
  (`Refining`).
* `SVFG::isFunEntrySVFGNode()` tests `mphi` and returns `phi->getFun()` where `phi` is
  the null pointer of the failed cast before it (`SVFG.cpp:892-894`). The demand-driven
  analysis does not get there: it keeps the `FormalIN` nodes as they are
  (`setTokeepActualOutFormalIn`).
* The context-sensitive analysis can be *coarser* than the flow-sensitive one. Every
  object it meets carries the context of the item (`ContextDDA.h:140-147`), so one
  global that is reached through two call strings counts as two elements, and
  `isStrongUpdate()` (`DDAVFSolver.h:360-371`), which wants exactly one, does not
  overwrite where `FlowDDA` does (program `TwoObjects` of `MCValueFlow` with `heap` empty).
  This was found while `RefinesFlow` was being proved; it compares `ContextDDA`
  with weak updates now (`Relaxed`).
* `PrintHistogram()` does not clear its counts between two analyses. Class `List`
  (`WorkList.h`) tests a set it never fills; nothing uses it.

## 5. What is proved

All theorems hold for every value of the constants that meets the named
assumptions (`...Assumption`, which TLC evaluates for each instance).

* `WorkListProofs`: `MirrorHolds`, `NobodyOvertakes` (the action property `NoOvertaking`) and
  `Refinement`. The invariant is `Mirror` itself
  with the type of the list: the set is the list's content and the list has no
  repetition; without the second part a pop could leave a second copy
  in the list that the set no longer knows, and a datum could overtake itself.
* `SCCDetectionProofs`: `TypeCorrect`, `DecidedForGood` (`Decided`),
  `StackTopological` (`Topological`) and `ComponentsRight` (`ComponentsFound`), for any
  graphs in any sequence. An induction on paths of the graph is out of reach, so the
  invariant speaks of sets that edges do not leave. `Search` describes the depth-first
  search: frames are a path in the order of their numbers, what is open is on it or
  waits on `SS`, sorted. `Paths`: a candidate root is open, older and reached; the
  path reaches all that is open and younger; what waits reaches something older on the
  path. `Roots`: each child that was looked at is decided or not older than the
  candidate of its parent, and what waits has passed its candidate on to
  the path, up to the call that has just returned. From these a root at the
  end of `visit()` takes exactly its component: its members reach each other, and no
  edge leaves them but into closed ones (`Closed`). So whatever a closed node
  reaches is closed, with which two nodes that reach each other share a root.
* `AndersenWaveDiffProofs`: `TypeCorrect`, for every program and order; one step
  per action. `SoundAlways` and `AndersenIsPrecise`: `Precision`
  is not inductive: a step also moves facts that wait in difference sets,
  caches, half-processed handlers and on retargeted edges. The invariant
  `Sound` says that *bound* solves the program (`BoundCovers`), that points-to
  sets stay within bound (`PtsSound`), that **every edge** in the graph, derived
  or retargeted, is a constraint that bound satisfies (`EdgesSound`), that a node and
  its representative have equal bounds (`RepsSound`), and the same of what the
  running handler holds (`HandlerSound`). The key lemma is `ComponentSound`: if
  each edge of a strongly connected set is satisfied, all its members have the same
  bound - which is why merging cycles costs no precision - and it needs
  exactly the fact that no part of a component is closed. Collapsing is
  harmless because bound ignores fields. In words: no merge, collapse,
  retargeting, cache or call resolution, in whatever order, invents a pointee that
  a textbook field-insensitive analysis would not have.
* `AndersenGraphProofs`: `GraphWellFormed` (`RepsOnGraph`), `HoldersFound`
  (`RevPtsComplete`), `SentHasArrived` (`PropagatedArrived`), `CollapseIsComplete`
  (`CollapsedEverywhere`) and `CachesNeverStale` (`CachedConnected`). All five say
  something only between two handlers; the invariant says what is true in the
  middle of one. While a cycle is merged the maps lag behind the graph, and what
  is represented by a node that has gone is represented by one of
  `changedReps` (`Reps`, `Merges`); whatever is pointed to, or on its way to be, has
  a node or such a representative (`Facts`); a holder is in the reverse map at
  least by the name of a node that was merged into it (`Holders`). What is sent has
  arrived except for what the running handler still holds (`Sending`);
  fields of a field-insensitive object are queued or being redirected
  (`Collapsing`); a cached pair has its copy edge, or both ends are one node
  (`Cached`). The last needs the argument that retargeting an edge never loses a copy edge
  except one that would become a loop. `SCCDetect` takes disjoint components: what
  the detection is shown to compute, and all that the proofs use of it.
* `AndersenResultProofs`: what holds of the result, from the invariants of
  `AndersenGraphProofs`. `CopiesComplete` (`CopiesSatisfied`): a fact can only be missing
  behind an edge that was not followed again, so the invariant says where
  that can be. `Ordered`: unless a further round is due (`reanalyze`), every edge that
  constrains copies leads up the stack of the wave, or to a node that shares its place with a field
  (`Late`), and every node whose turn has passed has sent all it points to. This needs
  that merging keeps the order that `SCCDetect` has found (`MergeOrdered`), that every
  step that adds another edge or collapses a held field asks for a further
  round, and that `analyze()` ends only without one (`Finished`). With `PropagatedArrived` each remaining edge is
  then satisfied. `Linking` says that copy statements keep an edge, or both
  ends one node, through all merges; the same of connected calls gives `CallsComplete`
  (`CallsSatisfied`), since no target is left to resolve at the end.
  `UnmergedComplete` (`UnmergedServed`) needs a third part: a node that
  was never merged keeps its own edges (`EdgesKept`), and each of its pointees has its copy
  edge, or the node is queued or in hand (`PointeesServed`). What makes this
  inductive is that collapsing a field replaces it at every holder by an object
  that takes over its copy edges - unless it had none (`Skipped`) - and that those
  named as holders really held it (`HoldersTrue`, the converse of `HoldersFound`).
* `TypeConfusionProofs`: `TypeCorrect`; `VerdictsGrounded` (each kept verdict was
  given for the points-to set of an analysis that has run) and from it
  `VerdictsStillHold` and `VerdictsDisjoint` for analyses that refine each other. `Refining` is
  needed: without it an earlier, smaller set says nothing of a later one.
  `ReportsComplete` says under the same condition that a skipped or kept verdict never
  hides a bad cast from the report.
* `DDAVFSolverProofs`: `TypeCorrect`, from `Valid`, which adds that the program is one of
  those the pre-analysis has seen. Call strings stay within `MaxCxt` by lemmas about `PushContext` and
  `PopRecursive`. `StaysPrecise`: no cache and no answer has a pointee that
  the pre-analysis rules out. The invariant says the same of everything that
  is on its way there: partial results of all frames on the stack, the objects they
  have left, the objects being looked for (`StackFine`, `LoadVarFine`), and that all edges,
  those of connected calls too, satisfy the pre-analysis (`EdgesFine`). This
  is what makes it sound to take guards, field objects and call targets from the
  pre-analysis.
  `AssertionsHold`: the assertions of `clearbkVisited()` and
  `getLoadCVar()` cannot fail. Every item recorded in this query, and every item an
  activation is still to visit, is marked as visited and, when it is a search through
  memory, has its object on record; so have the frames on the stack that search memory
  and the edges through memory they are still to follow (`RecordAsked`, `StackAsked`).
  `AnswersRefine` (`RefinesFlow`): unless `FlowDDA` has run out of budget, no answer is
  coarser than any solution of the flow-sensitive equations, least or not. The
  invariant is `Under` each such solution: the edges, connected calls, records,
  caches and answers of both engines, and all that the frames hold and
  wait for, are part of it - with the call strings left away. A store
  overwrites only until its operand has a second pointee or a recursion shows up. Both
  only grow, and a store passes nothing on before it has a pointee; so the equations
  are monotone, and what has to be shown is that where a solution overwrites, the analysis
  does as soon as it handles the store (`StrongKept`): its operand is within the
  solution's, so a single element, and the solution has seen every recursion that
  the analysis has (`RecursionGrows`). `ContextDDA` has no such guarantee, whence `Relaxed`. What
  it takes over from `FlowDDA` in the middle of a query is within the solution as
  long as that one has not fallen back on the pre-analysis (`Clean`). The proof needs
  that the node ids of variables and objects differ (`NamesAssumption`).
  `SettlesOnSolution` (`FlowSettled`) is the other half: between its queries what `FlowDDA` has
  found solves the equations, so nothing that flows to an item it has visited is
  missing, in whatever order edges, objects and recomputations were taken. Together with `AnswersRefine` this
  makes its answers those of the least solution. `FlowSettled` is not inductive:
  in the middle of a query an item may be marked and lack values, and even have been
  left with a cache that was read too early in a cycle. The invariant `Sound` says who will make up for it
  (`Serves`). An item that was met in this query is done, or an activation on the stack is computing it and
  has, of everything it has looked at, all there is now (`UpToDate`, with what it awaits from
  the activation above it), or an activation that recomputes has it on
  its list, or will have it there when it reaches the edge between them (`Due`).
  Items of earlier queries are done by themselves: they are asked nothing again, since the
  record that `reCompute()` reads was emptied, so all they depend on must be items of
  earlier queries too (`Settling`). When a cache grows, each item that reads it becomes due
  (`GrowthServes`); when calls are connected, each item at the new edges does, which
  needs that such items have asked for the function pointer first
  (`ResolvesAssumption`, `GrownLinks`) - so an item of an earlier query cannot get an edge.
  Two conditions are stated: `InBudget`, since an aborted query leaves
  marks behind, and `RecursionKnown`: calls found on the way close no recursion, since a store
  that has overwritten an object of a function that is later found to be recursive is not
  looked at again. The invariant needs them to have held all along, and they have, because
  neither the calls nor the items beyond budget ever shrink (`FaithfulBefore`).
* `FlowSensitiveProofs`: `TypeCorrect`, `StaysWithinPreAnalysis`,
  `NothingIsLost` and `ResultIsLeast`, for every program that meets `ProgramAssumption` and
  `ConnectedAssumption`. `NothingLost` is not inductive: that a node which is not due has
  passed everything on says nothing of what has arrived while it was due, or
  of an update that will turn weak. The invariant `IInv` adds where a fact may be
  waiting. `Marks`: what is in a load's or store's IN set and has not reached
  its pointer or OUT set is marked there, and what has not come through an edge
  is marked at the memory region it leaves, whose marks stay (a store has always
  delivered its OUT set, except through edges that have just come); `Known`: the edges are those of the program and of resolved
  calls; `Settled`: nodes that are not due are done, with all edges behind them. A visit
  is reduced to a frame (`Frame`: it changes one node's sets, and queues each node behind
  it that is changed by it), so that each kind of node proves what it does and one
  lemma proves that all other nodes stay settled.
  `ResultIsLeast` (`LeastSolution`) is the other half: a result that was
  reached with strong and weak updates in turn has nothing superfluous. `Under` says that
  pointers, IN and OUT sets, edges and calls are within every solution at every step; the
  key is `StrongThroughout`: a store that overwrites in the solution has
  overwritten in every visit that had a pointee to write. With
  `NothingLost` at the end the result solves the equations, so it is the least solution.

Only model-checked:

* every liveness property (`Served`, `Returns`, each `Terminates`), which the proof
  system does not handle;
* `Complete` and the second half of `Settled` in `DDAMeaning`. They are not true of every program: for the
  context-sensitive engine `dda_two_objects` refutes the one, and `Truncated`
  (section 4) shows another way. For the programs of `dda` they hold. What they say of `FlowDDA`
  follows in substance from `SettlesOnSolution`; that the least solution is below every other would
  take an induction over rounds;
* `Exact`, which compares contexts too, flags `concreteCxt` included, with a solution defined
  by recursion over rounds. What it says of `FlowDDA` follows in substance from
  `AnswersRefine`, since the least solution is a solution;
* the properties of `LocationSets`, whose layouts are recursive: what type flattening
  computes for every layout would take an induction over types.

## 6. What is not modelled

`PROJECT.json` has the reason for each part. In short: building graphs from IR
(one pass, data for the models), printing and statistics, reading analysis
results from files, heap cloning, virtual calls (targets are data), CUDD and
LLVM (vendored), and the multithreaded and leak
analyses and the alternative Andersen solvers. LLVM and Clang are over nine
tenths of the repository, so the modelled lines are a small share of all lines
although they are the core of the program's own code. The native stack on which `visit()` recurses is
unbounded in the model.

## 7. Plan

Done: the work lists, cycle detection, the default pointer analysis, the
detector, the demand-driven analysis, location sets, the flow-sensitive analysis. Next, in
this order:

1. `AndersenLCD`: lazy cycle detection on the same graph operators.
2. `SVFGOPT`'s node elimination, with `DDAMeaning` and `LeastSolution` unchanged
   before and after.
3. Recursion that a query of the demand-driven analysis discovers (`_callGraphSCC->find()` after results have been
   cached), with a specification of what may then be lost.
4. `MHP`, then the slicing of SABER.
5. Proofs: `FieldRight` for layouts whose flattening is given by assumptions; an
   assumption on contexts under which `ContextDDA` settles on a solution as `FlowDDA` does.
