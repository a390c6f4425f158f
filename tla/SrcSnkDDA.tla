----------------------------- MODULE SrcSnkDDA ------------------------------
(***************************************************************************)
(* The source-sink detectors (lib/SABER/SrcSnkDDA.cpp, LeakChecker.cpp,    *)
(* DoubleFreeChecker.cpp) with the slices they make (lib/SABER/            *)
(* ProgSlice.cpp): for one source after the other, slice forward with call *)
(* strings, slice backward from the sinks met, compute the condition under *)
(* which each node of the slice is reached, and judge the source.          *)
(* A condition is the set of the assignments of the branch atoms under     *)
(* which it holds.                                                         *)
(***************************************************************************)
EXTENDS ContextReachability

CONSTANTS Inputs, NoNode,
          Atom,             \* branch conditions
          MaxStepInWrapper  \* option -max-step

ASSUME NoNodeAssumption == NoNode \notin SVFGNode

Cond == SUBSET SUBSET Atom
TrueCond == SUBSET Atom
FalseCond == {}

\* Well-formed inputs.
InputOK(in) ==
    /\ in.edges \subseteq Edge /\ in.vfCond \in [in.edges -> Cond]
    /\ in.sinks \subseteq SVFGNode /\ in.dead \subseteq CallSite
    /\ in.allocs \subseteq CallSite \ in.dead
    /\ in.retNode \in [CallSite -> SVFGNode]
    /\ \A e \in in.edges : e.kind = "ret" /\ ~e.indirect => e.dst = in.retNode[e.cs]

ASSUME InputsAssumption == IsFiniteSet(CallSite) /\ \A in \in Inputs : InputOK(in)

\* The value-flow graph: its edges, what PathCondAllocator computes as the
\* guard of each, stores to globals, loads, nodes a wrapper search does not
\* enter (actual parameters and others), sinks among them; the call sites in
\* functions without a caller, those of allocation functions elsewhere, and
\* the node each call site's result defines.
VARIABLES svfg,
          sources,  \* found by initSrcs, not analysed yet
          phase,
          slice,    \* the current ProgSlice
          worklist,
          forwardVisited, backwardVisited,  \* nodeToDPItemsMap and visitedSet
          sinksLeft,                        \* of the slice, to go backward from
          verdicts                          \* what reportBug said of each source

vars == <<svfg, sources, phase, slice, worklist, forwardVisited, backwardVisited, sinksLeft,
          verdicts>>

NewSlice(src) ==
    [root |-> src, forwardslice |-> {}, backwardslice |-> {}, sinks |-> {},
     partialReachable |-> FALSE, fullReachable |-> FALSE, reachGlob |-> FALSE,
     vfCond |-> [n \in {} |-> FalseCond]]

Init ==
    /\ svfg \in Inputs
    /\ sources = {} /\ phase = "init" /\ slice = NewSlice(NoNode)
    /\ worklist = {} /\ forwardVisited = {} /\ backwardVisited = {}
    /\ sinksLeft = {}
    /\ verdicts = [n \in {} |-> [leak |-> "none", doubleFree |-> FALSE]]
-----------------------------------------------------------------------------
\* The edges isInAWrapper follows: direct ones to statements, and one level of
\* store and load.
Tracked(e) ==
    /\ e.kind = "intra"
    /\ IF e.indirect THEN e.dst \in svfg.loads ELSE e.dst \notin svfg.loads \cup svfg.params

\* The nodes its search visits from n.
WrapperBody(n) ==
    LET visited[i \in 0 .. Cardinality(SVFGNode)] ==
            IF i = 0 THEN {n}
            ELSE UNION {seen \cup {e.dst : e \in {d \in svfg.edges : d.src \in seen /\ Tracked(d)}} :
                           seen \in {visited[i - 1]}}
    IN  visited[Cardinality(SVFGNode)]

WrapperEdges(n) == LET body == WrapperBody(n) IN {e \in svfg.edges : e.src \in body}

\* Fault: the value need not leave the function.
isInAWrapperOrLocal(n) ==
    /\ Cardinality(WrapperBody(n)) <= MaxStepInWrapper + 1
    /\ \A e \in WrapperEdges(n) : e.kind # "call" /\ ~(e.kind = "ret" /\ e.indirect)

\* The value of n leaves its function by direct returns, and enters no other.
isInAWrapper(n) ==
    /\ Cardinality(WrapperBody(n)) <= MaxStepInWrapper + 1
    /\ \A e \in WrapperEdges(n) : e.kind # "call" /\ ~(e.kind = "ret" /\ e.indirect)
    /\ \E e \in WrapperEdges(n) : e.kind = "ret"

\* The call sites a value allocated at cs is returned from by a wrapper.
CallersOf(cs) ==
    LET n == svfg.retNode[cs]
    IN  IF isInAWrapper(n) THEN {e.cs : e \in {d \in WrapperEdges(n) : d.kind = "ret"}} ELSE {}

\* The call sites the worklist of initSrcs holds at some time: those of
\* allocation functions, and the callers of each wrapper.
SourceSites ==
    LET pushed[i \in 0 .. Cardinality(CallSite)] ==
            IF i = 0 THEN svfg.allocs
            ELSE UNION {before \cup UNION {CallersOf(cs) : cs \in before} : before \in {pushed[i - 1]}}
    IN  CallSite \cap pushed[Cardinality(CallSite)]

\* initSrcs
InitSrcs ==
    /\ phase = "init"
    /\ sources' = {n \in {svfg.retNode[cs] : cs \in SourceSites \ svfg.dead} : ~isInAWrapper(n)}
    /\ phase' = "next"
    /\ UNCHANGED <<svfg, slice, worklist, forwardVisited, backwardVisited, sinksLeft, verdicts>>
-----------------------------------------------------------------------------
\* Fault: what the last slice visited stays.
ClearedNever(visited) == visited

\* clearVisitedMap, called by setCurSlice when there was a slice.
Cleared(visited) == IF slice.root = NoNode THEN visited ELSE {}

SetCurSlice(src) ==
    /\ phase = "next" /\ src \in sources
    /\ forwardVisited' = Cleared(forwardVisited)
    /\ backwardVisited' = Cleared(backwardVisited)
    /\ slice' = NewSlice(src)
    /\ worklist' = {<<src, <<>>>>}
    /\ phase' = "forward"
    /\ UNCHANGED <<svfg, sources, sinksLeft, verdicts>>

\* FWProcessOutgoingEdge gives up at a global, matched or not; from then on no
\* edge leads anywhere.
TouchesGlobal(x) == slice.reachGlob \/ \E e \in OutEdges(svfg.edges, x[1]) : e.dst \in svfg.globals

\* FWProcessCurNode, then FWProcessOutgoingEdge on every outgoing edge; those
\* handled before a global one still count.
ForwardTraverse(x) ==
    LET new == NextItems(svfg.edges, x) \ forwardVisited
    IN  /\ phase = "forward" /\ x \in worklist
        /\ slice' = [slice EXCEPT !.forwardslice = @ \cup {x[1]},
                                  !.sinks = @ \cup ({x[1]} \cap svfg.sinks),
                                  !.partialReachable = @ \/ x[1] \in svfg.sinks,
                                  !.reachGlob = @ \/ (TouchesGlobal(x) /\ OutEdges(svfg.edges, x[1]) # {})]
        /\ \E reached \in (IF slice.reachGlob THEN {{}}
                           ELSE IF TouchesGlobal(x) THEN SUBSET {y \in new : y[1] \notin svfg.globals}
                           ELSE {new}) :
              /\ forwardVisited' = forwardVisited \cup reached
              /\ worklist' = (worklist \ {x}) \cup reached
        /\ UNCHANGED <<svfg, sources, phase, backwardVisited, sinksLeft, verdicts>>

ForwardEnd ==
    /\ phase = "forward" /\ worklist = {}
    /\ IF slice.reachGlob
       THEN phase' = "report" /\ UNCHANGED sinksLeft
       ELSE phase' = "backward" /\ sinksLeft' = slice.sinks
    /\ UNCHANGED <<svfg, sources, slice, worklist, forwardVisited, backwardVisited, verdicts>>

PushSink(s) ==
    /\ phase = "backward" /\ worklist = {} /\ s \in sinksLeft
    /\ sinksLeft' = sinksLeft \ {s}
    /\ worklist' = {<<s, <<>>>>}
    /\ UNCHANGED <<svfg, sources, phase, slice, forwardVisited, backwardVisited, verdicts>>

\* Fault: nodes the source's value does not flow to join the slice.
BackwardSliceOfAny(n) == {n}

\* BWProcessCurNode
BackwardSliceOf(n) == {n} \cap slice.forwardslice

\* BWProcessCurNode, then BWProcessIncomingEdge on every incoming edge.
BackwardTraverse(x) ==
    LET new == {e.src : e \in InEdges(svfg.edges, x[1])} \ backwardVisited
    IN  /\ phase = "backward" /\ x \in worklist
        /\ slice' = [slice EXCEPT !.backwardslice = @ \cup BackwardSliceOf(x[1])]
        /\ backwardVisited' = backwardVisited \cup new
        /\ worklist' = (worklist \ {x}) \cup {<<n, <<>>>> : n \in new}
        /\ UNCHANGED <<svfg, sources, phase, forwardVisited, sinksLeft, verdicts>>

\* The beginning of AllPathReachableSolve.
StartGuards ==
    /\ phase = "backward" /\ worklist = {} /\ sinksLeft = {}
    /\ phase' = "guards"
    /\ slice' = [slice EXCEPT !.vfCond = [n \in {slice.root} |-> TrueCond]]
    /\ worklist' = {<<slice.root, <<>>>>}
    /\ UNCHANGED <<svfg, sources, forwardVisited, backwardVisited, sinksLeft, verdicts>>

getVFCond(sl, n) == IF n \in DOMAIN sl.vfCond THEN sl.vfCond[n] ELSE FalseCond

\* The condition under which one step leads from n to m.
StepCond(n, m) ==
    getVFCond(slice, n)
        \cap UNION {svfg.vfCond[e] : e \in {d \in OutEdges(svfg.edges, n) : d.dst = m}}

\* Faults: a node is solved once; or whenever a condition reaches it.
ChangedOnce(m, cond) == m \notin DOMAIN slice.vfCond
ChangedAlways(m, cond) == TRUE

\* setVFCond: whether the condition is new.
Changed(m, cond) == m \notin DOMAIN slice.vfCond \/ slice.vfCond[m] # cond

\* One iteration of AllPathReachableSolve.
SolveGuards(n) ==
    LET succs == {e.dst : e \in OutEdges(svfg.edges, n)} \cap slice.backwardslice
        cond == [m \in succs |-> getVFCond(slice, m) \cup StepCond(n, m)]
        changed == {m \in succs : Changed(m, cond[m])}
    IN  /\ phase = "guards" /\ <<n, <<>>>> \in worklist
        /\ slice' = [slice EXCEPT !.vfCond =
                        [m \in DOMAIN @ \cup succs |-> IF m \in changed THEN cond[m] ELSE @[m]]]
        /\ worklist' = (worklist \ {<<n, <<>>>>}) \cup {<<m, <<>>>> : m \in changed}
        /\ UNCHANGED <<svfg, sources, phase, forwardVisited, backwardVisited, sinksLeft, verdicts>>

\* isSatisfiableForAll
SatisfiableForAll(sl) == UNION {getVFCond(sl, s) : s \in sl.sinks} = TrueCond

EndGuards ==
    /\ phase = "guards" /\ worklist = {}
    /\ phase' = "report"
    /\ slice' = [slice EXCEPT !.fullReachable = SatisfiableForAll(slice)]
    /\ UNCHANGED <<svfg, sources, worklist, forwardVisited, backwardVisited, sinksLeft, verdicts>>

\* isSatisfiableForPairs
SatisfiableForPairs(sl) ==
    \A s, t \in sl.sinks : s # t => getVFCond(sl, s) \cap getVFCond(sl, t) = FalseCond

\* LeakChecker::reportBug
Leak(sl) ==
    IF sl.fullReachable \/ sl.reachGlob THEN "none"
    ELSE IF sl.partialReachable THEN "partial" ELSE "never"

\* reportBug of the leak checker and of the double-free checker.
ReportBug ==
    /\ phase = "report"
    /\ verdicts' = [n \in DOMAIN verdicts \cup {slice.root} |->
                        IF n = slice.root
                        THEN [leak |-> Leak(slice), doubleFree |-> ~SatisfiableForPairs(slice)]
                        ELSE verdicts[n]]
    /\ sources' = sources \ {slice.root}
    /\ phase' = "next"
    /\ UNCHANGED <<svfg, slice, worklist, forwardVisited, backwardVisited, sinksLeft>>

Finalize ==
    /\ phase = "next" /\ sources = {}
    /\ phase' = "done"
    /\ UNCHANGED <<svfg, sources, slice, worklist, forwardVisited, backwardVisited, sinksLeft,
                   verdicts>>

Step ==
    \/ InitSrcs
    \/ \E src \in sources : SetCurSlice(src)
    \/ \E x \in worklist : ForwardTraverse(x) \/ BackwardTraverse(x) \/ SolveGuards(x[1])
    \/ ForwardEnd
    \/ \E s \in sinksLeft : PushSink(s)
    \/ StartGuards
    \/ EndGuards
    \/ ReportBug
    \/ Finalize

Next == Step \/ (phase = "done" /\ UNCHANGED vars)

Spec == Init /\ [][Next]_vars /\ WF_vars(Step)
-----------------------------------------------------------------------------
TypeOK ==
    /\ sources \subseteq SVFGNode
    /\ phase \in {"init", "next", "forward", "backward", "guards", "report", "done"}
    /\ slice \in [root : SVFGNode \cup {NoNode}, forwardslice : SUBSET SVFGNode,
                  backwardslice : SUBSET slice.forwardslice, sinks : SUBSET svfg.sinks,
                  partialReachable : BOOLEAN, fullReachable : BOOLEAN, reachGlob : BOOLEAN,
                  vfCond : {slice.vfCond}]
    /\ DOMAIN slice.vfCond \subseteq SVFGNode /\ slice.vfCond \in [DOMAIN slice.vfCond -> Cond]
    /\ worklist \subseteq Item /\ forwardVisited \subseteq Item /\ backwardVisited \subseteq SVFGNode
    /\ \A x \in worklist \cup forwardVisited : Len(x[2]) <= CxtLimit
    /\ sinksLeft \subseteq svfg.sinks

\* Every source is judged in the end, whatever cycles slices and wrappers have.
Termination == <>(phase = "done")
=============================================================================
