-------------------------- MODULE SrcSnkReference ---------------------------
(***************************************************************************)
(* What the detectors are measured against: the verdict on one source,     *)
(* from the items its value flows to and the paths of its slice.           *)
(***************************************************************************)
EXTENDS SrcSnkDDA

CONSTANT PathBound

\* One step on from items, and from nodes along edges E.
ItemsOnward(E, X) == X \cup UNION {NextItems(E, x) : x \in X}
Onward(E, N) == N \cup {e.dst : e \in {d \in E : d.src \in N}}

\* The items the value of src flows to in the value-flow graph of input in.
FlowsTo(in, src) ==
    LET reached[i \in 0 .. PathBound] ==
            IF i = 0 THEN {<<src, <<>>>>} ELSE ItemsOnward(in.edges, reached[i - 1])
    IN  reached[PathBound]

\* The nodes n leads to along edges E.
Along(E, n) ==
    LET reached[i \in 0 .. PathBound] == IF i = 0 THEN {n} ELSE Onward(E, reached[i - 1])
    IN  reached[PathBound]

\* The bound is no restriction: no shortest path through the nodes, nor
\* through the items of an input, has more edges.
ASSUME PathBoundAssumption ==
    /\ PathBound \in Nat /\ IsFiniteSet(SVFGNode) /\ Cardinality(SVFGNode) <= PathBound
    /\ \A in \in Inputs, n \in SVFGNode :
          LET items == FlowsTo(in, n) IN \A x \in items : NextItems(in.edges, x) \subseteq items

ReachesGlobal(in, src) ==
    \E n \in NodesOf(FlowsTo(in, src)) : \E e \in OutEdges(in.edges, n) : e.dst \in in.globals

SinksOf(in, src) == NodesOf(FlowsTo(in, src)) \cap in.sinks

SliceOf(in, src) ==
    LET sinks == SinksOf(in, src)
    IN  {n \in NodesOf(FlowsTo(in, src)) : Along(in.edges, n) \cap sinks # {}}

\* The nodes on paths through the slice whose guards all hold under as.
Taken(in, src, body, as) == Along({e \in in.edges : e.dst \in body /\ as \in in.vfCond[e]}, src)

\* The sinks src meets under each assignment.
Met(in, src) ==
    LET body == SliceOf(in, src)
    IN  [as \in SUBSET Atom |-> Taken(in, src, body, as) \cap SinksOf(in, src)]

Verdict(in, src) ==
    LET met == Met(in, src)
    IN  [leak |-> IF ReachesGlobal(in, src) \/ \A as \in SUBSET Atom : met[as] # {} THEN "none"
                  ELSE IF SinksOf(in, src) = {} THEN "never" ELSE "partial",
         doubleFree |-> ~ReachesGlobal(in, src) /\ \E as \in SUBSET Atom : Cardinality(met[as]) > 1]

\* A source is judged as if it were the only one: no visited item, slice or
\* condition of the sources judged before has a part in it, in any order.
JudgedAlone == \A src \in DOMAIN verdicts : verdicts[src] = Verdict(svfg, src)

\* The comment on AllPathReachableSolve: the condition of a node is the
\* disjunction over the paths that reach it of the conjunctions of their
\* guards; on the way to the fixed point it is never weaker.
GuardsExact ==
    phase \in {"guards", "report"} /\ ~slice.reachGlob =>
        \A as \in SUBSET Atom :
            LET taken == Taken(svfg, slice.root, slice.backwardslice, as)
            IN  \A n \in slice.backwardslice :
                   /\ as \in getVFCond(slice, n) => n \in taken
                   /\ phase = "report" /\ n \in taken => as \in getVFCond(slice, n)

\* The nodes the value of n moves to by returns and within functions.
Returned(n) == Along({e \in svfg.edges : e.kind # "call"}, n)

\* The call sites whose function returns the result of cs, within the function
\* as isInAWrapper follows it.
ReturnSites(cs) == {e.cs : e \in {d \in WrapperEdges(svfg.retNode[cs]) : d.kind = "ret"}}

\* No function that runs keeps the result of cs: it is handed around by calls
\* in functions without a caller and in functions that only call each other.
NeverCalled(cs) ==
    \E S \in SUBSET CallSite :
        cs \in S /\ \A c \in S \ svfg.dead : ReturnSites(c) # {} /\ ReturnSites(c) \subseteq S

\* Every allocation is judged: behind wrappers, recursive ones included,
\* initSrcs comes to a source its value is returned to, unless only
\* functions that nothing else calls ever get it.
AllocationsJudged ==
    phase = "done" =>
        \A cs \in svfg.allocs :
            Returned(svfg.retNode[cs]) \cap DOMAIN verdicts # {} \/ NeverCalled(cs)
=============================================================================
