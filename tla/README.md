# A verification development for SVF with the source-sink path checker

This directory holds TLA+ models of the analyses of this repository (SVF, a
static value-flow analysis framework for LLVM bitcode, extended with the
`srcsnka` tool, which finds the paths between user-given sources and sinks), the
TLC configurations that check them on small instances, and theorems about them
checked by TLAPS. Every module is translated from the code under `src/`; the
table `map` of `PROJECT.json` gives the lines each definition stands for.

An analysis is a sequential program, but its difficulty is that of a
distributed one: it reaches a fixed point through steps whose order (the order of
worklists, hash sets, bit vectors, the depth-first search) is an accident, while
it rewrites the very graph it walks on and relies on caches of what was done
before. The models leave all these orders open and check what must hold for every
one of them.

## 1. Inventory

### What runs when

`srcsnka` (tools/SRCSNKA) builds the PAG from bitcode (`PAGBuilder`), runs
Andersen's analysis (`AndersenWaveDiff`), builds memory SSA and the sparse
value-flow graph (`SVFGBuilder`), and runs `PathChecker` on it. `saber` does the
same with the leak, double-free and file checkers on top of `SrcSnkDDA`. `wpa`
runs one of the whole-program pointer analyses, `dvf` the demand-driven ones and
`mta` the analyses of multithreaded programs.

| Component | State | Operations | Talks to | What is hard |
|---|---|---|---|---|
| Andersen solver (`WPA/Andersen.cpp`, `AndersenWaveDiff.cpp`) | points-to sets, already propagated sets, worklist, `reanalyze` | solve one wave, merge cycles, collapse sites, turn loads/stores into copies, resolve indirect calls | constraint graph, PAG, SCC detection, call graph | caching of propagated targets against new edges; rewriting of the graph while it is walked; order of the wave; the end of the outer loop |
| Constraint graph (`Graphs/ConsG.*`) | edges by kind, `nodeToRepMap`, `nodeToSubsMap`, PWC marks | add, retarget and remove edges, merge | solver | edges that become equal when retargeted, transitive merging |
| SCC detection (`Util/SCC.h`) | `_NodeSCCAuxInfo` per node, `_SS`, `_T`, `repNodes` | `find`, `visit`, queries | every solver, call graphs, MHP, DDA | representatives guessed and changed during the search |
| Generic solvers, worklists (`WPA/WPASolver.h`, `Util/WorkList.h`) | node stack, worklist with membership set | push, pop | all whole-program solvers | uniqueness, representatives at push and pop |
| Points-to data (`MemoryModel/*PointsToDS.h`, `PersistentPointsToCache.h`) | maps to sets, diff and propagated maps, reverse maps, id caches | union, diff, memoised set algebra | all analyses | a derived cache entry or a reverse map that is stale |
| Path checker (`SABER/PathChecker.*`) | sources, sinks, edited graph, current slice, visited maps | match, edit, traverse forward and backward, report | CFL solver, SVFG | call strings cut at a limit, visited tests, nothing matched |
| CFL solver, call strings (`Util/CFLSolver.h`, `Util/DPItem.h`) | worklist of items, static limit | push/match context, traverse | checkers, DDA | cutting, empty strings that match everything, recursion |
| Source-sink detectors (`SABER/SrcSnkDDA.*`, `LeakChecker`, ...) | slice per source, visited maps, sources' call sites | analyze, wrappers, report | CFL solver, ProgSlice | state left over between two sources; globals |
| Program slice, path conditions (`SABER/ProgSlice.*`, `Util/PathCondAllocator.*`) | guard per node (BDD), worklist | solve guards over the slice | CUDD | fixed point over guards that still change |
| Multithreaded analyses (`MTA/`) | thread creation tree, interleavings per statement and context, lock spans | forks, joins, calls, returns, locks | call graphs, points-to | order of fork, join and sibling information |
| Demand-driven analysis (`DDA/`) | cached points-to by item, visited items, budget | `findPT`, recompute, reset | SVFG, Andersen | re-entrance in cycles, queries out of budget |
| Flow-sensitive analyses (`WPA/FlowSensitive*`, `VersionedFlowSensitive*`) | IN/OUT sets, versions | transfer functions, strong updates | SVFG | strong updates that become weak |
| Other solvers (`Steensgaard`, `AndersenLCD/HCD/SCD/SFR`, `TypeAnalysis`) | as the Andersen solver | variants of it | constraint graph | lazy merging |
| Memory SSA, SVFG (`MSSA/`, `Graphs/SVFG*`, `VFG`) | mod-ref sets, regions, graph | compute, partition, build, optimise | Andersen | mod-ref over call graph cycles |
| PAG, objects (`Graphs/PAG*`, `SVF-FE/*`) | nodes, edges, field objects | build, get field object, remove field | LLVM, all | field limit |
| Call graphs, ICFG; class hierarchy; node ids and bit vectors; external API tables, options; CUDD, FastCluster | | | | built once, data, or third-party |

### What makes each of them correct

* *Andersen*: the result is a solution of all constraints of the program and no
  worse than field-insensitive analysis; no target is ever lost; the loop ends.
* *Constraint graph*: after any sequence of merges no edge touches a merged node,
  and the two representative maps are inverse.
* *SCC detection*: components, sub-node sets, the topological stack.
* *Path checker*: every realizable path from a source to a sink is found; nothing
  is reported that no matched path explains; it always ends in a report.
* *Leak checker, slices*: guards equal the disjunction of the path conditions;
  each source is judged as if it were the only one.
* *Points-to cache*: ids stand for the sets plain set algebra gives.
* *MTA*: two statements that some interleaving runs in parallel are related.
* *DDA*: a query within budget answers as the exhaustive analysis would.
* *Flow-sensitive analysis*: the result is the least solution of the constraints of the
  sparse graph, strong updates included; incremental propagation loses nothing.

`PROJECT.json` lists the hazards at their lines with the properties that
guard against them.

## 2. Modules

| Module | Models |
|---|---|
| `StrongComponents` | what cycle detection means: `Cycles`, `Reached`, `Find` (definitions by closed sets, no algorithm) |
| `SCCDetection` | the algorithm of `Util/SCC.h`, one action per piece of `find` and `visit`, the call stack of `visit` explicit |
| `ConstraintGraph` | objects and fields, edges, `addCopyCGEdge`, retargeting on a merge |
| `AndersenWaveDiff` | the solver, built on `ConstraintGraph` |
| `AndersenReference` | the least solution of the constraints without fields, and the properties that compare the solver with it |
| `MutableDiffPTData` | points-to data as plain sets: the abstract specification of points-to data |
| `PersistentPointsToCache` | the id cache: interning, and memoised set operations with derived entries |
| `PersistentDiffPTData` | points-to data as ids of the cache; implements `MutableDiffPTData` |
| `ContextReachability` | edges of the value-flow graph, call strings with limit, context-sensitive steps |
| `PathChecker` | the path checker, built on `ContextReachability` |
| `PathCheckerReference` | realizable paths with exact call strings, and the properties that compare the checker with them |
| `SrcSnkDDA` | the leak and double free checkers with the guards of `ProgSlice`, built on `ContextReachability` |
| `SrcSnkReference` | the verdict on one source alone, and the properties that compare the detectors with it |
| `PathCondAllocator` | the guard of a value flow on a control-flow graph |
| `PathCondReference` | the runs of a control-flow graph, and the properties that compare guards with them |
| `ThreadCreateTree` | the thread create tree of a program with forks, joins and calls |
| `ForkJoinAnalysis` | which thread is joined where, on the tree |
| `MHP` | which threads may run at a statement, from both, with the query `MayHappenInParallel` |
| `LockAnalysis` | which locks are held at a statement, with the query `isProtectedByCommonLock`, built on `ForkJoinAnalysis` |
| `PCG` | the procedure creation graph, on functions: who spawns, is spawned, follows |
| `MHPReference` | the composition of them, one after the other, then the program itself in all interleavings |
| `ValueFlowGraph` | the sparse value-flow graph the flow-sensitive analyses work on: statements, guarded edges, edges that calls add |
| `DDAVFSolver` | the demand-driven flow-sensitive analysis `FlowDDA`, built on `ValueFlowGraph`, the recursion of `findPT` as an explicit stack |
| `FlowSensitiveSolution` | the least flow-sensitive solution, computed forward, the reference of both flow-sensitive analyses |
| `DDAReference` | the property that compares the answers of `DDAVFSolver` with it |
| `FlowSensitive` | the whole-program flow-sensitive analysis, built on `ValueFlowGraph`, and the constraints it is to solve |
| `FlowSensitiveTools` | the composition of both flow-sensitive analyses, as the tools `dvf` and `wpa` run one of them |
| `MC...` | the inputs of the TLC runs |
| `Iteration_proofs`, `AndersenWaveDiff_proofs`, `SCCDetection_proofs`, `PathChecker_proofs`, `SrcSnk_proofs`, `PathCond_proofs`, `PersistentDiffPTData_proofs`, `FlowSensitiveTools_proofs` | theorems |

Definitions introduced by the word *Fault* are wrong variants of the definition
they precede. No specification uses them; the table `mutants` of `PROJECT.json`
says which property notices each of them, so that a property is known to depend on
the code it is about.

### The solver (`AndersenWaveDiff`)

`prog` is the program; `pts` and `propa` are the points-to and propagated maps of
`MutableDiffPTData`; `rep` and `subs` are `nodeToRepMap` and `nodeToSubsMap`;
`copy`, `ngep`, `vgep`, `load`, `store` are the edges; `flds`, `redundant` are the
field nodes created and folded; `fi` the field-insensitive sites; `pwc` the marks
of positive weight cycles. Control state: `phase`, `toMerge` (members of cycles not
merged yet), `todo` and `dag` (the node stack and the order it obeys), `cur` (the
node popped), `coll` and `fold` (the loops of `collapseNodePts` and `collapseField`
in progress), `worklist`, `tmp`, `pend` (copy edges of the current node or call not
added yet), `reanalyze`, `resolved`.

| Action | Code |
|---|---|
| `SCCDetect`, `MergeSccNode`, `EndMerge` | `Andersen::SCCDetect`, `mergeSccCycle`, `mergeSccNodes`, `mergeNodeToRep` |
| `CollapsePWCNode`, `ProcessNode` (with `HandleCopyGep`) | one pop of the node stack: `collapsePWCNode`, `processNode`, `handleCopyGep`, `processCopy`, `processGep` |
| `CollapseField`, `FoldField` | `collapseFields`, `collapseNodePts`, `collapseField`, one field at a time |
| `EndWave`, `PopAgain`, `EndAgain` | the second loop of `solveWorklist` when PWC merging is off |
| `PostProcessNode`, `AddCopyEdge` | `postProcessNode`, `handleLoad`, `handleStore`, `processLoad`, `processStore`, `addCopyEdge` |
| `UpdateCallGraph`, then `AddCopyEdge` | `updateCallGraph`, `resolveIndCalls`, `connectCaller2CalleeParams` |
| `Reanalyze`, `Finalize` | the loop condition of `analyze`; `finalize`, `normalizePointsTo`, `cleanConsCG` |

Abstractions, all of them widening: the worklist is a set and any element may be
popped (the code's is FIFO); any topological order of the node stack and any
member of a cycle as its representative are possible (the code's follow node
numbers). As in the code, a second normal gep edge between two nodes is dropped
whatever its offset, points-to sets of merged nodes stay behind, and field 0 is
the base. Left out: C++ virtual calls, heap wrappers found by indirect calls, the
time limit, results read from or written to files, clustering of object ids.

### SCC detection (`SCCDetection`)

`frames` is the call stack of `visit` (node, successors left, call in progress);
`visited`, `inSCC`, `rep`, `subNodes`, `repNodes` are the per-node information and
`repNodes`; `dfs`, `count` are `_D`, `_I`; `ss`, `topo` are `_SS`, `_T`. Actions:
`Candidate` (the loop of both `find`s), `Descend` and `Look` (the loop body of
`visit`), `Return` (its end, with the loop that pops `_SS`).
`ComponentsFound` states what `AndersenWaveDiff!SCCDetect` assumes.

### The path checker (`PathChecker`)

`edges`, `sources`, `sinks` are the value-flow graph after `initSrcSnk` edited it
and the nodes the files matched; `root` says for which source the slice was made
(`NoNode`: no slice); `forwardslice`, `backwardslice`, `sinksMet` are the slice;
`worklist` the items of the CFL solver; the visited maps are as in the code.
Actions: `PushSources`, `ForwardTraverse` (one iteration of `forwardTraverse` with
`FWProcessCurNode` and `FWProcessOutgoingEdge` on every edge), `PushSinks` (with
the crash when there is no slice), `BackwardTraverse`, `Finalize`. What the regular
expressions match is an input: the pattern matching itself is not modelled, nor is
the graph printed by `finalize`.

### Points-to data (`MutableDiffPTData`, `PersistentDiffPTData`)

`ptsMap`, `revPtsMap`, `diffPtsMap` and `propaPtsMap` are the maps of
`MutableDiffPTData` and of `PersistentDiffPTData`: in the first they hold sets, in the
second ids of the cache, whose content is the record `cache` (`idToPts`, `ptsToId`,
`idCounter` and the three operation caches). There is one action per operation:
`AddPts`, `UnionKey`, `UnionData`, `ClearPts`, `ClearFullPts`, `ComputeDiffPts`,
`UpdatePropaPtsMap`, `ClearPropaPts`; `answer` is what the last one returned. An
operation of the cache is looked up, computed and stored as the code does, with the
entries it derives (of a union, the unions of its arguments with the result; of a
complement, the intersection and the unions) and its special cases (equal, empty,
subset). `aborted` is the failed assertion of `newPointsToId` when ids run out. The
refinement `Mutable` maps every id to the set it stands for and states that the
persistent data does, call for call, what the mutable data does. `remapAllPts`,
`clear` and `clearAllPts` have no caller while an analysis runs and are left out.

### The detectors (`SrcSnkDDA`)

`svfg` is the value-flow graph with the guard of each edge, the call sites of
allocation functions, those in functions without a caller (`dead`) and the sinks;
`sources` are what `initSrcs` found (following `isInAWrapper` to the callers of a
wrapper, at most `MaxStepInWrapper` steps, and leaving out what is dead);
`slice` is the current `ProgSlice` (its root, the two slices, the sinks met,
`vfCond`, the flags for globals), `forwardVisited` and `backwardVisited` the
visited maps of the detector, which are reset in `setCurSlice`.

| Action | Code |
|---|---|
| `SetCurSlice` | the head of the loop of `analyze`: `setCurSlice`, reset of the visited maps |
| `ForwardTraverse`, `ForwardEnd` | `forwardTraverse` with `FWProcessCurNode` and `FWProcessOutgoingEdge`; the early end when a global is reached |
| `PushSink`, `BackwardTraverse` | `backwardTraverse` from each sink |
| `StartGuards`, `SolveGuards`, `EndGuards` | `AllPathReachableSolve`: the worklist over `vfCond`; `isSatisfiableForAll` or `isSatisfiableForPairs` |
| `ReportBug`, `Finalize` | `LeakChecker::reportBug`, `DoubleFreeChecker::reportBug`; the end |

A condition is the set of the truth assignments under which it holds, which is
what a BDD stands for. Which calls allocate and free, and the guards of edges, are
inputs here (the guards are what `PathCondAllocator` computes). Left out:
annotations of test programs, the text of reports.

An allocation in functions that only call each other has no source: each is a wrapper
and none is dead, because `isDeadFunction` asks for any caller. `NeverCalled` describes
these allocations, and those that only dead functions get, by the value-flow graph,
without the worklist of `initSrcs`; `AllocationsJudged` is about all others.

### Guards of value flows (`PathCondAllocator`)

`req` is a request: a control-flow graph with at most two functions, a source and
a target block, the kind of the flow (in a function, into a call, out of a
return), blocks that exit the program, the branches that test the value against
null. `bbToCondMap`, `worklist` are those of `ComputeIntraVFGGuard`; its two
invocations of an interprocedural guard follow each other (`Cross`). `BeginIntra`,
`EarlyTermination`, `VisitBlock`, `EndIntra` are the parts of that function. Branch
conditions are allocated as `allocateForBB` does: one atom for two successors,
bits of the case number for more. The limit on the size of a BDD is abstracted;
`getPHIComplementCond` has no caller. What LLVM guarantees of its input is `WellFormed`:
successors, post-dominators and the two ends of each walk are in one function (asserted at
lib/Util/PathCondAllocator.cpp:482, and at :254 for a loop exit), a graph has finitely many
blocks. A loop is made of the latches control can come to, as LLVM's `LoopInfo` takes no
others. `Run` in `PathCondReference` is what the guard is compared with: the blocks a run
comes to when every test turns out as an assignment says, where a block that calls a program
exit is the last.

### Multithreaded programs (`ThreadCreateTree`, `ForkJoinAnalysis`, `MHP`, `LockAnalysis`, `PCG`)

`prog` gives every function a sequence of operations (`fork`, `join`, `call`, `br`,
`nop`, `ret`). `threads`, `ctpList`, `visitedCTPs` are the tree under construction
(`BuildStep` is one pop of `ctpList`: `handleCallRelation` on every call and fork of
the function); `aliveFlag`, `directJoin`, `symmetricJoins`, `HBPair`, `HPPair`,
`fullJoin`, `partialJoin` the maps of `ForkJoinAnalysis`; `interleav`, `reachable`
those of `MHP`; `cxtStmtList` is the worklist, FIFO as in the code. There is one
action per kind of statement handled (`FJAFork`, `FJAJoin`, `FJACall`, `FJARet`,
`FJAIntra`; `MHPFork`, ...), one for the choice of the next root thread, and
`MHPFinish`. Contexts, cycles of the call graph, loops that contain a join, functions
that neither fork nor join, threads started many times are as in the code.
`Execute` is not the code but the analysed program: threads run one operation at a
time in any order, a join waits, a lock is held by one thread, a return of `main` ends
everything.

`LockAnalysis` first finds the spans that begin and end in one function (`ciSpan`,
`condSpan`: the two maps from statements to locks, by lock), then the contexts of all
locks (`cxtLocks`), then walks from the entry procedures: `stmtLocks` is
`cxtStmtToCxtLockSet` and `lockStmts` `instToCxtStmtSet`; there is one action per kind
of statement. The assertion that a lock met was collected is a guard of `Visit`, whose
failure would violate `Termination`. Of the two lock maps the one from locks to
statements is left out: nothing but the queries about equal spans reads it.
A basic block ends before a target of a branch. Pointers to locks alias if they are to
the same lock. `PCG` is a function of the program and is computed in the initial state.

Handles are named by the routine they are for, so that a join aliases exactly the
forks of its routine; the code asks the pointer analysis and takes the answer as
must-alias, an assumption its comments state. The inputs therefore never have two
live threads of one handle, a join behind a loop of what the loop created, or a
loop of no rounds around the join of a thread created before, and loops are not nested. The
inputs of `mhp` with locks leave out what the findings are about: threads created under
a lock, calls behind a release, a lock held on one of two ways. What follows the release of a lock
that is not held is undefined, and no execution goes there. Not
modelled: forks through pointers that were not resolved, parallel for loops,
validators, printing. The test `isSameSCEV` in `handleJoin` is implied by
`isAliasedForkJoin`. The cache of queries about functions that are no candidates is
the set of answers it may give.

### Demand-driven analysis (`DDAVFSolver`)

`prog` is the value-flow graph: statements, indirect edges with the objects they
carry, indirect calls with the edges each callee would add, entry nodes, objects that
`isStrongUpdate` refuses, Andersen's sets, the budget, the variables asked about. An
item (`LocDPItem`) is a node with the variable it defines or with an object.
`backwardVisited`, `cached`, `locToDpm`, `numOfStep`, `outOfBudgetQuery`,
`outOfBudgetDpms` are the members of the solver (`cached` is the points-to map of
variables and `dpmToADCPtSetMap`), `callees` the indirect calls resolved so far.
`stack` holds the calls of `findPT` in progress: the item, the part of
`handleSingleStatement` or `reCompute` reached (`funptr`: `resolveFunPtr`; `address`:
`startNewPTCompFromLoadSrc` or `...StoreDst`; `backtrace`; `newcalls` and
`recompute`: the two calls of `reComputeForEdges`), what was collected, which calls are
still to be made, and which edges are still to be looked at.

| Action | Code |
|---|---|
| `ResetQuery`, `StartQuery`, `Answer` | the loop of `DDAClient::answerQueries` with `FlowDDA::computeDDAPts`; `resetQuery` with `OOBResetVisited` |
| `Call` | a call of `findPT` up to `handleSingleStatement` (marks, budget) |
| `Proceed` | the parts of `handleSingleStatement`, when the calls before have returned |
| `Update` | `updateCachedPointsTo`, and the head of `reCompute` with `updateCallGraphAndSVFG` if the set grew |
| `NextEdge` | one edge of `reComputeForEdges`, or the end of it and the return |
| `Downgrade`, `AnswerDowngraded` | `handleOutOfBudgetDpm` with the recomputation it causes; `addOutOfBudgetDpm` |

`FlowSensitiveSolution` computes what a query is to answer from the other end: forward, over
the whole program at once, from the semantics of the statements (a store through a
pointer to one object overwrites it), with the calls the solution itself resolves.

Abstractions: sets are iterated in any order and variables are asked about in any
order (the code's follow ids). The edges of a statement are read when its tracing
starts; the code reads them again for each target of a load or store, and makes a
call for the same edge once per target, which returns at once. Left out: fields
(`processGepPts`), constant objects, `isMustAlias` (it always answers no) with the load
items recorded for it, locals of functions that a query makes recursive
(`isLocalCVarInRecursion`), the limit on indirect calls resolved, the
context-sensitive variant `ContextDDA`, the choice of candidates by the clients,
statistics.

### The whole-program flow-sensitive analysis (`FlowSensitive`)

`prog` and `callees` are as above. `pts` are the points-to sets of variables, `dfIn` and
`dfOut` the IN sets of nodes and the OUT sets of stores, `inUpdated` is
`inUpdatedVarMap` (the IN sets with something their node has not used yet),
`worklist` and `phase` are those of `analyze`.

| Action | Code |
|---|---|
| `ProcessNode` with `ProcessVar` | `processSVFGNode` on an address, copy, phi or load, then `propagate` along direct edges |
| `ProcessNode` with `ProcessStore` | `processStore` with `updateAllDFOutFromIn`, `isStrongUpdate` and `clearAllDFOutVarFlag`; `propAlongIndirectEdge` with `propDFOutToIn` |
| `ProcessNode` with `ProcessMemRef` | memory phis, formal and actual ins and outs: `propAlongIndirectEdge` with `propDFInToIn` |
| `UpdateCallGraph` | `updateCallGraph`, `connectCallerAndCallee`, `updateConnectedNodes`; the next round of `analyze` with `initWorklist`, or its end |

`Closed` states the constraints of the nodes and edges over any sets, without the
algorithm; `FlowSensitiveTools` compares the result with `FlowSensitiveSolution`, too.

Abstractions: any node on the worklist may be processed (the code's worklist is
FIFO). The flags of OUT sets are local to the step of a store, since the code clears
them at its end. The mutable and the persistent incremental data have this logic in
common; that ids stand for sets is the subject of `PersistentDiffPTData`. The edges
of a resolved call are all added before anything is carried, as in the code, where
one pass over the new edges follows. Left out: fields and geps, constant objects,
clustering, results read from or written to files, and the versioned and
type-based variants.

## 3. Runs

| Run | Question | Instance | States |
|---|---|---|---|
| `solver` | Is the solution complete and no coarser than field-insensitive analysis, is nothing left behind by difference propagation, merging and collapsing, does the solver stop, are indirect calls solved? | up to five pointers, sites a, b with up to two fields each, functions f, g: every three-pointer program of phis and loads with at most two stores; programs that close a cycle through memory late; three indirect calls to two functions with a budget of two call edges; geps in copy cycles and an opaque site, with `MergePWC` on and off | 1.13 million |
| `loop` | findings 1 and 11 | one program for each | until the counterexample |
| `scc` | Does the search find the components, in every order? | every graph with four nodes and at most one self loop (up to renaming), whole or from one candidate | 673 thousand |
| `ptcache` | Do the users of ids see plain sets, derived entries, reverse map and the end of ids included? | two pointers, three targets (up to renaming), five ids for eight sets, any six calls | 311 thousand |
| `paths` | Are all realizable source-sink paths reported, for cut call strings too? Does it end? | six nodes in a caller, a callee called twice and a function it calls or itself; three call sites, `CxtLimit` 1, 540 graphs edited in three ways with four choices of sources and sinks, and an input without a source | 209 thousand |
| `nosource` | finding 2 | inputs of `paths` | 3 |
| `leak` | Is every source judged as if it were alone, by exact guards, and every allocation at some source? | eight nodes, wrappers (one recursive, one that only calls itself, one through memory), with a dead caller and without, two uses, two sinks with guards over one branch condition, a global; `CxtLimit` 1 | 144 thousand |
| `guards` | Does a guard hold for every path and for none that is passed by? Does the worklist end? | functions of five blocks with at most one edge back, program exits, null tests, switches of up to four cases; calls and returns between two functions or within one | 75 thousand |
| `loopexit` | finding 3 | inputs of `guards` | until the counterexample |
| `mhp` | Is everything that happens in parallel reported, and in programs without branches nothing else? Are statements that are said to be protected by a common lock never run in parallel? Do the analyses end? | forks and joins of up to three routines from `main` and one child: straight, with a branch, with a loop, in a function called twice or recursively; `main` and a child with up to four operations on two locks, around calls and in the function called, in branches and loops; executions with at most four threads and a stack of three frames | 150 thousand |
| `valueflow` | Is an answer within the budget that of the exhaustive analysis, and sound in any case? Is what one query leaves marked final for the next? Is the walk within Andersen's sets? Does the whole-program analysis lose nothing and end with the least solution? Do both end? | loops of two stores and a load over two objects with aliases, strong updates and strong updates that become weak, and loops around an indirect call whose callee stores what is called next; one of the two tools is run; budgets of 8 and 60 steps, two queries in both orders | 1.31 million |
| `mhpmissed` | findings 4 to 10 | one program for each | until the counterexample |

*Bounds.* Three pointers and one site are the least with which a load, a store and
a copy form a cycle through memory; `LateCyclePrograms` adds what it takes for the
cycle to close after one member has propagated a target to the other; two fields
are the least with which a gep moves a target and wraps around the field limit; normal
geps have offset 1, but for the program of finding 11.
Four nodes hold two cycles that join, a cycle with a chord and a cycle entered from
a finished component. Three targets give eight sets, so that five ids run out and,
before, a derived entry answers a later query. A limit of one call site cuts every
nested call; `PathBound` is longer than a path that visits all nodes and bounds the
references only, not the code. Two sources with a shared sink are the least for
state to leak from one slice into the next. Five blocks hold a loop with a branch in
it and a way around it. Four threads are main, two siblings and a child of one.
A budget of 8 steps ends queries in the middle of a walk or a recomputation, one of 60
none; the programs whose strong store becomes weak by what it stores itself are too large
for the demand-driven walks, and of them nothing is asked. `Rounds`, 34, is the number
of pairs of an item and an object, at most one of which every round of the reference's iteration
needs to add (`RoundsAssumption`). `MaxThreads` and `MaxDepth` bound executions of a program, not its analysis. Every
property of these runs is violated by the mutant `PROJECT.json` names, within these
bounds.

*Properties.* Each is stated in a comment above its definition. In short:
`PropagatedReached` (what is recorded as propagated was received by every copy
successor), `MergedNodesDetached` and `RepSubsAgree` (merging), `NoDanglingField`
(collapsing), `VisitedSettled` (the topological wave visits each node once),
`DirectConstraintsSolved`, `SolvedWithoutMerges`, `IndirectCallsSolved` (the final
solution), `NoCoarserThanFieldInsensitive` (its precision), `NoLostTarget`
(monotony), `Termination`; `RepsConnected`, `TopologicalOrder`, `ComponentsFound`
(representatives, sub-node sets and the cycle test at the end); `CacheExact`, `RevPtsInverse`, `ImplementsMutable`;
`ForwardClosed`, `ReportedReachSink`, `PathsFound`, `ForwardSliceRealizable`;
`JudgedAlone`, `GuardsExact`, `AllocationsJudged`; `PathsCovered`,
`NothingPassedBy`; `ParallelReported`, `LockedApart`, `NothingSpurious`; `WithinAndersen`,
`VisitedComplete`, `AnswersExact`, `Settled`, `FlowSensitiveExact`, `AnalysesEnd`.
Type invariants are run for cycle detection; those of the solver, cycle detection, the
path checker, the detectors, points-to data and both flow-sensitive analyses are theorems.
`RepSubsAgree` speaks of
the time until the analysis ends, because `cleanConsCG` then erases the map entries
of removed fields. `AllConstraintsSolved` is `DirectConstraintsSolved` and
`LoadsAndStoresSolved`; `SolvedWithoutMerges` is the part of the latter that holds
(finding 1), and the former holds of programs without geps of offset 0 (finding 11), and `PathsCovered` the part of `LoopExitsCovered` (finding 3).
`ForwardSliceRealizable` speaks of inputs on which no call string was cut.
`AnswersExact` asks for exactness of answers given before the first downgrade, since
Andersen's result is cached like any other and later queries may rest on it, and for
soundness of all answers.

*Fairness.* `WF_vars(Step)` (`WF_vars(Analyse)` for the multithreaded analyses): the
program is sequential and its loops keep running as long as there is something to
do; nothing is assumed about which element an unordered worklist gives next, and
nothing about the threads of an analysed program. Deadlock is checked in all runs
but `mhp` and `mhpmissed`, where an executed program stops, at its end or in the
bounds of the execution; elsewhere only ended states stutter.

## 4. Findings

1. **`loop`**: `mergeSrcToTgt` (lib/WPA/Andersen.cpp:771) does not put the
   representative on the worklist. A load or store of a merged node is then not
   processed for targets the other members of the cycle contributed. With
   `p1=&a; p2=phi(p1,p3); p3=*p1; p4=*p3; *p1=p2` the result for `p4` is empty,
   although the rule above `processLoad` asks that it contain `a`.
2. **`nosource`**: when no source pattern matches, `PathChecker::analyze` follows a
   null slice (lib/SABER/PathChecker.cpp:339), where the code elsewhere has
   warnings for exactly this case (lines 276 and 491).
3. **`loopexit`**: `evaluateLoopExitBranch` (lib/Util/PathCondAllocator.cpp:280)
   takes any block for the only exit of a loop whose exits all end the program, and
   the early return then answers with the condition of the loop header.
4. **`mhpmissed`**, `JoinOfMany`: a join removes a thread forked many times, because
   `isMustJoin` is asked about the joining thread (include/MTA/MHP.h:172).
5. **`mhpmissed`**, `DetachedChild`: a sibling that was joined before hides the child
   it left running (lib/MTA/MHP.cpp:455).
6. **`mhpmissed`**, `CreatedUnderLock`: a new thread is taken to hold the locks of its
   creator (lib/MTA/LockAnalysis.cpp:420).
7. **`mhpmissed`**, `SameStatement`: a statement met in one context is taken to be
   protected from itself (lib/MTA/LockAnalysis.cpp:632).
8. **`mhpmissed`**, `CalledBehindRelease`: the walk stops at every release, because the
   release is looked for among the locks held (lib/MTA/LockAnalysis.cpp:368); calls
   behind it do not count.
9. **`mhpmissed`**, `LockedOnOneWay`: an empty lock set that reaches a statement first
   does not count in the intersection (include/MTA/LockAnalysis.h:338).
10. **`mhpmissed`**, `CalledBefore`: a function called before a spawn site, and again
    when the spawner is called again, is no follower (lib/MTA/PCG.cpp:198). The one
    user of the graph, in lib/MTA/FSMPTA.cpp, also asks `MHP` and is content with either.
11. **`loop`**, `ZeroOffsetPrograms`: `addNormalGepCGEdge` (lib/Graphs/ConsG.cpp:198)
    takes a normal gep between two nodes for the one it is asked to add, whatever the
    offset. When geps are retargeted by a merge, a gep of offset 1 disappears behind one of
    offset 0, and the cycle that is merged next seems to have no weight: the node is not
    marked, and its sites are not collapsed. With
    `p1=&a; p3=phi(p1,p4,p5); p4=&p3->f0; p5=&p3->f1` the result of `p5` is `a` without its
    field, if `p5` is merged into `p4` before `p3` is. Met when the proof of
    `ConstraintsSolved` did not go through.

Each of the two programs of `loop` violates `AllConstraintsSolved` by itself. Each of the
seven programs of `mhpmissed` violates `RacesReported` by itself: the first
two and the last `ParallelReported`, the others `LockedApart`. Two
things were met that contradict no document and have no run:

* The guard of a flow into or out of a recursive call is computed by two walks over
  one `bbToCondMap`: the second begins with the conditions the first left in its
  blocks (lib/Util/PathCondAllocator.cpp:451-474) and the guard may then hold where
  no path takes the flow. It still covers every path. `NothingPassedBy` is therefore
  stated for requests whose two halves lie in different functions.
* The backward traversal of the checkers matches no contexts, "as forward analysis
  already did it" (include/SABER/SrcSnkDDA.h:263). A node that is forward reachable,
  and connected to a sink only through the return of another call, is in the slice;
  `ReportedReachSink` and `ForwardSliceRealizable` say what remains true.

## 5. Proofs

All theorems are about `Spec` for every value of the constants under the
assumptions named in the modules: `MaxFieldAssumption`, `OpaqueAssumption`,
`NodeAssumption` (pointers are not objects), `NoNodeAssumption`,
`LimitAssumption` (the limit on indirect call edges is a number), `ProgramAssumption`
(programs are finite, operands are nodes, nothing is copied to itself and, as in SSA form,
a gep is the one definition of its result), `CxtLimitAssumption`,
`InputsAssumption`, `MaxIdAssumption`, `ProgramsAssumption`, `NAssumption` (the graph
whose cycles are sought is finite). No bound on pointers, sites, fields, programs or paths
is used. The two references that unfold paths do so to a depth `PathBound`;
`PathBoundAssumption` asks of the path checker's that it be a number, and of the
detectors' that it be at least the number of nodes of a finite value-flow graph, which is
what makes the unfolding reach everything.

* `AndersenWaveDiff_proofs`
  * `TypeCorrect`: `TypeOK`, one lemma per action that moves data.
  * `DifferencePropagation`: `PropagatedReached`. Not inductive by itself: folding
    a field replaces it by its base, so what was sent may only be found in its
    collapsed form, which needs that a folded field belongs to a field-insensitive
    site (`FoldInFi`) and that a node still holds what it recorded as propagated
    (`PropaHeld`). `PropagationInv` is the conjunction.
  * `TargetsKept`: `NoLostTarget`, from the same invariant.
  * `MergedDetached`, `RepSubsInverse` from `MergeInv`: representatives represent
    themselves, the maps are inverse, edges are between representatives, the pending
    merges of a phase name nodes that represent themselves, their targets are never
    merged in the same phase (`PendingMerges`; it rests on `CyclesDisjoint`: two
    components are equal or disjoint), and visits and folds occur in the wave only.
  * `FieldsFoldedForGood`: `NoDanglingField`. `FieldInv` says of every field of a collapsed
    site that it is pointed to by nobody and represented by another node, or is still to
    be folded: the fields left of the site being collapsed, and those of the sites that
    wait for it (`Unfolded`). No step makes such a field again, because a field-insensitive
    site gives its base.
  * `WaveSettles`: `VisitedSettled`. `GraphInv` says that edges, targets and pending work
    are about nodes of the graph, no direct edge starts where it ends; `WaveInv` that the
    order the wave follows covers the edges through all merges (`DagInMerge`,
    `DagInWave`) and that a visited node has sent what it points to (`VisitsDone`): what
    reaches a visited node in the same wave was sent by a node that would have come before
    it. The conjunction with the invariants above is `CoreInv`.
  * `ConstraintsSolved`: `Weighted => DirectConstraintsSolved`, and `CopiesSolved`, which
    has no hypothesis. What a node has sent has reached the ends of its geps, in the form
    in which it can be found (`GepsReached`; the result of a gep holds nothing else
    as long as it was not merged, `ResultInv`, which is where SSA is needed); each
    constraint of the program is carried by an edge between representatives, by a common
    representative or, for geps on a cycle, by a mark (`CarriedInv`); marked nodes of
    which the wave is done hold sites without fields only (`EndInv`). At the end all nodes
    have sent everything (`VisitsDone`), so that the three together are the claim. `Weighted`
    excludes programs that have a normal gep of offset 0 and whose cycles of geps are
    merged: for these the claim is false (finding 11), and the part of it that is true is
    `CopiesSolved`.
  * `LoadsSolvedUnmerged`: `SolvedWithoutMerges`. As long as nothing was merged
    (`NoMerge`), a pointer that is dereferenced is on the worklist, or its loads and stores
    have their copy edges for all it points to (`LoadsKept`).
  * `CallsResolved`: `IndirectCallsSolved`, from `CallsInv`: the bindings of each call edge
    are carried like copies of the program, or are about to be added; and when no call edge
    is new, all functions a call pointer holds are callees, or the limit was reached.
  * `NoCoarserThanAnySolution`, `SitesOfLeastSolution` (`NoCoarserThanFieldInsensitive`):
    take any set of pairs of a node and a site that the constraints of the program, read
    without fields, do not add to. Targets, representatives, copy edges, loads, stores and
    calls found stay within it (`Within`): two nodes that are merged lie on a cycle of
    direct edges, so that they have the same sites in it. `LeastSolution` is such a
    set (`LeastIsSolution`): the iteration that defines it grows within the pairs of a
    finite program and has as many steps as there are pairs.
* `SCCDetection_proofs` (assumption: `NAssumption`)
  * `TypeCorrect`, `GuessesSound` (`RepsConnected`), `StackTopological`
    (`TopologicalOrder`) and `ComponentsRight` (`ComponentsFound`), for every finite graph,
    every set of candidates and every order in which nodes and successors are visited. The
    invariant `Search` is the one of Nuutila's variant of Tarjan's algorithm: discovery
    numbers grow along the stack of calls; from each frame of that stack the next is
    reached, and every node of `_SS` reaches the representative guessed for it; what is
    finished has no edge to a node that is not; the nodes finished above a frame are those
    of `_SS` with a number above the frame's. A component is closed at a frame that guesses
    itself: everything of `_SS` above it is reached from it and reaches it, and no node
    outside does both. `Kept` adds that components once closed are not touched again.
* `Iteration_proofs`
  * Induction over numbers, for the proofs about references that are iterations. The
    library's induction theorems take operators and cannot be used here; the least number
    of a nonempty set of numbers exists by `NatLessThanWellFounded`, and from `LeastNumber`
    follow `Induction` (a set of numbers that holds 0 and successors holds all),
    `Iteration` (a recursive function on `0 .. n` satisfies its equation), `StaysIn` (what
    each step of an iteration keeps holds of all) and `Stable` (an iteration that only grows
    within a finite set is stable after as many steps as that set has members). Recursive
    functions over numbers, as the references are written, are thereby within reach.
* `PathChecker_proofs`
  * `TypeCorrect`, `SliceClosed`: from `Inv`, which adds that nothing is visited
    before the sources are pushed.
  * `NoPathLost`: after the forward traversal every node at the end of a
    realizable path of any length is in the slice. Argument: if the exact call
    string of the path has the kept one as a suffix, it still has after one more edge
    (`PushSuffix`: cutting drops the oldest site; `PopSuffix`: a return that matches
    the exact string matches its suffix, the empty one included); with
    `ForwardClosed` the item with the kept string was visited. The ends of realizable paths
    are stated as the members of every set of items that holds the sources and is closed
    under exact steps.
  * `ReportRight` (`ReportedReachSink`): what is reported is a source that reaches a sink
    met in its slice, along edges; the invariant `Slices` says of each slice what its nodes
    are connected to.
  * `SliceRealizable` (`ForwardSliceRealizable`) and `AllPathsFound` (`PathsFound`): the two
    comparisons with `PathCheckerReference`, by induction over the steps of its iteration:
    while nothing was cut, kept strings are exact, and every item visited is one the
    reference reaches; and what the reference reaches was visited.
* `SrcSnk_proofs` (assumptions: `InputsAssumption`, `CxtLimitAssumption`, `PathBoundAssumption`)
  * `TypeCorrect`; `VerdictsRight` (`JudgedAlone`): each bug reported, and each source passed
    without a report, is what `Verdict` says of that source alone, however many sources
    were judged before; `ConditionsRight` (`GuardsExact`): the guards computed over
    `vfCond` are those of the paths within the slice. The invariant has a part for each
    phase: visited items and slices lie within what the reference derives from the source
    at hand and are closed but for the worklist (`Forward`, `Backward`), conditions lie
    within those of paths and are closed but for the worklist (`Guards`); visited maps that
    `setCurSlice` did not clear would violate the first. Closed and within means equal to
    the reference, whose iteration is stable after `PathBound` steps (`Stable`).
  * `SourcesComplete` (`AllocationsJudged`), for every graph of wrappers, cyclic ones
    included, and every limit on the search for them. What `initSrcs` pushes is closed under
    the callers of wrappers after as many rounds as there are call sites
    (`SourceSitesClosed`), and a caller's result is one the value is returned to, since the
    body of a wrapper is (`BodyReturned`). So if every call site the value comes to were a
    wrapper's or dead, these call sites would show that the allocation is `NeverCalled`
    (`AllocationsHaveSources`). The invariant `Kept`: a source waits or is judged. From
    `InputsAssumption` this uses that a direct return edge ends at the node of its call
    site's result.
* `PathCond_proofs` (assumptions: `BBAssumption`, `RequestsAssumption`, that every request is
  `WellFormed`)
  * `GuardsCoverPaths` (`PathsCovered`) and `NoRunPasses` (`NothingPassedBy`), for every
    control-flow graph, switches and loops included, and every kind of value flow. Beside
    where a walk is, the invariant has two parts. `HandedOn`: a block that does not wait in
    the worklist has handed its condition on, so that, when none waits, every block a run
    comes to holds the run's assignment, and so does the guard (`GuardsCover`).
    `MapCatches`: under an assignment a block holds, no run leaves the function
    without the block. An assignment is handed on to a post-dominator, which no run avoids,
    to the one successor it takes (`OneWay`), past a sibling that only leads to a program exit, or
    behind a loop all of whose exits come there. The second walk over blocks that hold
    conditions of a first would violate it, hence `IsRecursive`.
  * Reachability is iterated as often as there are blocks; `ReachedLeast`
    (by `Iteration_proofs`) makes it the least set closed under steps. `BitsDiffer` and
    `SuccCondsDisjoint`: the numbers `allocateForBB` gives the successors of a switch tell
    them apart, however many there are.
* `PersistentDiffPTData_proofs` (assumption: `MaxIdAssumption`)
  * `CacheStaysExact`: `CacheExact`, for any number of pointers, targets and ids. The
    inductive invariant is `TypeOK /\ CacheInv(cache) /\ RevPtsInverse`; `CacheInv` is
    `Exact` of a cache that was never asked for an id after the last. One lemma per
    operation of the cache states what it returns and that it keeps `CacheInv`; the
    derived entries rest on laws of sets.
  * `ReverseMapIsInverse`: `RevPtsInverse`.
  * `PersistentImplementsMutable`: `Spec => Mutable!Spec`. Initial states map to
    initial states; each operation maps to the operation of the same name, because ids
    once given keep their set (`idToPts` only grows), or ids ran out and the step
    stutters.
* `FlowSensitiveTools_proofs` (assumptions: `ProgramsAssumption`, `NodeAssumption`, and for
  `ResultExact` `RoundsAssumption`, that the pairs of an item and an object are finite and
  no more than `Rounds`)
  * `FSTypeCorrect`, of the whole-program analysis.
  * `AlwaysSettled`: `FSSettled`, for every value-flow graph and order of the worklist. A
    node may leave the worklist although its IN sets were not propagated whole; what
    makes that right is that an IN set without a flag has been used (`Flags`: read by
    its load if the address holds the object, stored by its store if that lets it
    pass). A strong update keeps the flag of the object it overwrites, so that the set
    is used when the update becomes weak. `CalleesResolved` bounds the call graph by
    the points-to sets of function pointers.
  * `ResultIsLeast`: `ResultLeast`. When the worklist is empty and no call is new, what is
    settled is closed; and no step leaves any closed sets, because what a store lets
    pass only grows with the targets of its address (`PassesByMonotone`: none, then all
    but one, then all), so that a strong update never has to be taken back.
  * `ResultExact`, a lemma: at the end the sets are `LeastSolution`. The rounds of the
    reference only add, since the rules are monotone (`AdvanceMonotone`; what `Contents` lets pass
    grows with the targets of the store, too), so that it is stable after as many rounds as there are
    pairs (`SolutionStable`, by `Iteration_proofs`). Its sets are closed (`SolutionClosed`), hence
    no smaller than the result; no round leaves the result, which is closed itself
    (`ClosedHolds`, `WithinPreAnalysis`: calls are resolved within Andersen's sets), hence they
    are no larger.
  * `TypeCorrect`, `NeverCoarser` (`WithinAndersen`) and `CallsWithinPreAnalysis`, of the
    demand-driven analysis: for
    every value-flow graph, budget and order of queries. The calls in progress hold
    partial results, so the invariant bounds those of every frame of the stack by the
    set of its item (`FrameWithin`), which needs that the item of each frame is one the
    frame below waits for (`StackWithin`), and that the call graph stays within that of
    the pre-analysis, since a resolved call adds edges to walk. The rest is what
    `WellFormed` says of Andersen's solution: it satisfies the constraint of every
    statement, and guards of edges are not needed at all.
  * `NeverCoarserInTools`, `SettledInTools` (`Settled`) and `EndsWithLeastSolution`
    (`FlowSensitiveExact`): the same of the composition the run `valueflow` checks.
  * `MarksAreFinal` (`VisitedComplete`, of the composition). Between two queries it is
    the state of the cache only; inductive is what it becomes in the middle of the
    recursion (`AllInWork`): within the budget, every item of the query is complete, or
    a frame of the stack is evaluating it and what that frame has used is still cached
    as it was (`Working`), or a frame is to evaluate it again (`Again`), be it by a call
    not begun yet, by an edge not looked at yet, or, before the new call edges are done,
    by an edge out of the node whose set grew. When a set grows, every user of it is
    at the end of such an edge (`Users`), and nobody else notices (`Untouched`). Items
    of earlier queries rest only on each other (`KeptComplete`). A call found now adds
    edges only to nodes that asked its function pointer first (`WaitForPointer`), so
    that none of them is touched; this is what `resolveFunPtr` is for. `OfQuery` says
    which items recomputation and the reset are about.
  * `AnswersAreExact` (`AnswersExact`, of the composition; also from
    `RoundsAssumption`). Nothing is missed: answered items keep their mark, downgraded
    ones have all of Andersen's targets (`AnsweredInv`), and on marked items a round of
    the reference adds nothing to what is cached (`CompleteHolds`, where the calls the
    reference resolves have been found, `EdgesFound`), so that no round does
    (`AnswersSound`). Nothing is added: until the first downgrade the cache, the call
    graph and the partial results of all frames are within every set of pairs that the
    rules do not leave (`PreciseInv`, by `BacktraceExact`), the solution for one.

Only model-checked: everything under fairness (`Termination`, `AnalysesEnd`), which the
prover has no rule for; `DirectConstraintsSolved` of programs that are not `Weighted` (the instances of `solver` all are); the
multithreaded analyses, whose properties do not hold of every program (findings of `mhpmissed`)
but of those of the run.

## 6. Not modelled

Translation of LLVM bitcode (PAG, ICFG, class hierarchy builders) is a pass over
the input without interleaving or retry; tables, options, printing, file formats
and statistics carry no behaviour the properties could tell apart; CUDD and
FastCluster are third-party. The remaining components are in the plan.

## 7. Plan

1. *Done*: the Andersen solver with its graph and cycle detection, the path checker,
   points-to data with its refinement, the detectors, guards, thread creation,
   fork-join and may-happen-in-parallel analysis, locks, the procedure creation graph, both
   flow-sensitive analyses; proofs of section 5.
2. *Flow-sensitive analysis of multithreaded programs*: the edges `MTASVFGBuilder` adds
   between statements that may happen in parallel, and those it removes for equal spans.
3. *Versioned flow-sensitive analysis*: versions of objects instead of IN and OUT sets,
   shown to implement `FlowSensitive`; type-based heap cloning.
4. *Abstract inclusion analysis*: a specification that adds one implied target at a
   time; the solver shown to implement it (`INSTANCE ... WITH`), as a `PROPERTY` first
   and as a theorem where it holds (merging and collapsing only coarsen). FIFO
   worklists as refinements of the set worklist.
5. *Proofs*: the thread create tree, of which every other multithreaded analysis asks.
