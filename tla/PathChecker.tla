---------------------------- MODULE PathChecker -----------------------------
(***************************************************************************)
(* The source-sink path checker (lib/SABER/PathChecker.cpp, the srcsnka    *)
(* tool): edit the value-flow graph as the user's files ask, slice forward *)
(* from all sources with call strings, slice backward from the sinks that  *)
(* were met, report the nodes of the backward slice.                       *)
(***************************************************************************)
EXTENDS ContextReachability

CONSTANTS Inputs,   \* value-flow graphs with the nodes the files matched
          NoNode

ASSUME NoNodeAssumption == NoNode \notin SVFGNode

\* An input: the graph SVFGBuilder made, its store nodes that belong to a
\* function, the pairs the add-edge file links, the sources and the sinks.
InputType == [edges : SUBSET Edge, stores : SUBSET SVFGNode,
              addEdge : SUBSET (SVFGNode \X SVFGNode),
              sources : SUBSET SVFGNode, sinks : SUBSET SVFGNode]

ASSUME InputsAssumption == Inputs \subseteq InputType

VARIABLES
    edges,       \* the edited graph
    sources, sinks,
    phase,
    root,        \* the source the current slice was made for, NoNode: no slice
    forwardslice, backwardslice, sinksMet,  \* the current slice
    worklist,
    forwardVisited, backwardVisited         \* nodeToDPItemsMap and visitedSet

graph == <<edges, sources, sinks>>
vars  == <<graph, phase, root, forwardslice, backwardslice, sinksMet, worklist,
           forwardVisited, backwardVisited>>

\* initSrcSnk: stores lose their indirect edges; then direct edges are added.
Edited(in) ==
    {e \in in.edges : ~(e.indirect /\ e.src \in in.stores)}
    \cup {IntraEdge(p[1], p[2]) : p \in {q \in in.addEdge : q[1] # q[2]}}

Init ==
    \E in \in Inputs :
        /\ edges = Edited(in) /\ sources = in.sources /\ sinks = in.sinks
        /\ phase = "init" /\ root = NoNode
        /\ forwardslice = {} /\ backwardslice = {} /\ sinksMet = {}
        /\ worklist = {} /\ forwardVisited = {} /\ backwardVisited = {}

\* The slice is made for the first source, and all sources are pushed.
PushSources ==
    /\ phase = "init"
    /\ phase' = "forward"
    /\ root' \in (IF sources = {} THEN {NoNode} ELSE sources)
    /\ worklist' = {<<s, <<>>>> : s \in sources}
    /\ UNCHANGED <<graph, forwardslice, backwardslice, sinksMet, forwardVisited, backwardVisited>>

\* Faults: a node counts as visited whatever the context; or never.
UnvisitedNodes(X) == {x \in X : x[1] \notin NodesOf(forwardVisited)}
UnvisitedOrNot(X) == X

\* forwardVisited is asked about the node with its context.
Unvisited(X) == X \ forwardVisited

\* One iteration of forwardTraverse: FWProcessCurNode, then
\* FWProcessOutgoingEdge on every outgoing edge.
ForwardTraverse(x) ==
    LET new == Unvisited(NextItems(edges, x))
    IN  /\ phase = "forward" /\ x \in worklist
        /\ forwardslice' = forwardslice \cup {x[1]}
        /\ sinksMet' = sinksMet \cup ({x[1]} \cap sinks)
        /\ forwardVisited' = forwardVisited \cup new
        /\ worklist' = (worklist \ {x}) \cup new
        /\ UNCHANGED <<graph, phase, root, backwardslice, backwardVisited>>

\* The sinks of the slice are pushed; without a source there is no slice to
\* ask for them, and the null pointer is followed.
PushSinks ==
    /\ phase = "forward" /\ worklist = {}
    /\ IF root = NoNode
       THEN phase' = "crashed" /\ UNCHANGED worklist
       ELSE phase' = "backward" /\ worklist' = {<<s, <<>>>> : s \in sinksMet}
    /\ UNCHANGED <<graph, root, forwardslice, backwardslice, sinksMet, forwardVisited,
                   backwardVisited>>

\* Fault: what is not in the forward slice is kept too.
SlicedOrNot(n) == {n}

\* BWProcessCurNode: only nodes of the forward slice are kept.
Sliced(n) == {n} \cap forwardslice

\* One iteration of backwardTraverse: BWProcessCurNode, then
\* BWProcessIncomingEdge on every incoming edge, without contexts.
BackwardTraverse(x) ==
    LET new == {e.src : e \in InEdges(edges, x[1])} \ backwardVisited
    IN  /\ phase = "backward" /\ x \in worklist
        /\ backwardslice' = backwardslice \cup Sliced(x[1])
        /\ backwardVisited' = backwardVisited \cup new
        /\ worklist' = (worklist \ {x}) \cup {<<n, <<>>>> : n \in new}
        /\ UNCHANGED <<graph, phase, root, forwardslice, sinksMet, forwardVisited>>

\* finalize prints the backward slice.
Finalize ==
    /\ phase = "backward" /\ worklist = {}
    /\ phase' = "done"
    /\ UNCHANGED <<graph, root, forwardslice, backwardslice, sinksMet, worklist,
                   forwardVisited, backwardVisited>>

Step ==
    \/ PushSources
    \/ \E x \in worklist : ForwardTraverse(x) \/ BackwardTraverse(x)
    \/ PushSinks
    \/ Finalize

Terminated == phase \in {"done", "crashed"} /\ UNCHANGED vars

Next == Step \/ Terminated

Spec == Init /\ [][Next]_vars /\ WF_vars(Step)

-----------------------------------------------------------------------------
TypeOK ==
    /\ edges \subseteq Edge /\ sources \subseteq SVFGNode /\ sinks \subseteq SVFGNode
    /\ phase \in {"init", "forward", "backward", "done", "crashed"}
    /\ root \in SVFGNode \cup {NoNode}
    /\ forwardslice \subseteq SVFGNode /\ backwardslice \subseteq SVFGNode
    /\ sinksMet \subseteq SVFGNode
    /\ worklist \subseteq Item /\ forwardVisited \subseteq Item
    /\ backwardVisited \subseteq SVFGNode
    /\ \A x \in worklist \cup forwardVisited : Len(x[2]) <= CxtLimit

Sources == {<<s, <<>>>> : s \in sources}

\* The forward slice is closed under context-sensitive steps but for what
\* still waits in the worklist: a step is only left out because the node was
\* entered before with the very same call string.
ForwardClosed ==
    phase # "init" =>
        \A x \in (Sources \cup forwardVisited) \ {y \in worklist : phase = "forward"} :
            /\ x[1] \in forwardslice
            /\ NextItems(edges, x) \subseteq forwardVisited

\* The nodes from which M is reached along the edges of the graph.
Reaching(M) ==
    LET closed == {S \in SUBSET SVFGNode : M \subseteq S /\ \A e \in edges : e.dst \in S => e.src \in S}
    IN  {n \in SVFGNode : \A S \in closed : n \in S}

\* What is reported: the sliced nodes that reach a sink that was met, even
\* through nodes that are not sliced themselves.
ReportedReachSink ==
    phase = "done" =>
        /\ sinksMet = forwardslice \cap sinks
        /\ backwardslice = forwardslice \cap Reaching(sinksMet)

\* Both traversals come to an end, cycles and recursion notwithstanding.
Termination == <>(phase \in {"done", "crashed"})

\* The analysis gets to its report, the empty one included: finalize has a
\* warning for it, and initSrcSnk one for a source without a node.
Completes == phase # "crashed"
=============================================================================
