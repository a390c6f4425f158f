--------------------------- MODULE FlowSensitive ---------------------------
(***************************************************************************)
(* The whole-program flow-sensitive pointer analysis                       *)
(* (lib/WPA/FlowSensitive.cpp) on the value-flow graph: a worklist of      *)
(* nodes, points-to sets of variables, and IN and OUT sets of the objects  *)
(* at a node.  The data is incremental (MutableIncDFPTData and the         *)
(* persistent one): of an IN set, only what came since the node used it    *)
(* last is propagated, and of an OUT set what the node has just added.     *)
(***************************************************************************)
EXTENDS ValueFlowGraph

VARIABLES pts,         \* of variables
          dfIn, dfOut, \* what an object may hold before and after a node
          inUpdated,   \* inUpdatedVarMap: the IN sets with something new
          worklist,
          fsPhase      \* of analyze

fsVars == <<pts, dfIn, dfOut, inUpdated, worklist, fsPhase>>

FSInit ==
    /\ prog \in Programs /\ callees = {}
    /\ pts = [v \in Var |-> {}]
    /\ dfIn = [l \in Node \X Obj |-> {}] /\ dfOut = [l \in Store \X Obj |-> {}]
    /\ inUpdated = {}
    /\ worklist = Node /\ fsPhase = "solve"
-----------------------------------------------------------------------------
(* Propagation.                                                            *)

\* What node n passes on of object o, with OUT sets out.
Passed(n, o, out) == IF n \in Store THEN out[<<n, o>>] ELSE dfIn[<<n, o>>]

\* The IN sets after edges have carried the objects in sent, each a pair of
\* the node that sends and the object.
Carried(edges, sent, out) ==
    [l \in Node \X Obj |-> dfIn[l] \cup
        UNION {Passed(e.src, l[2], out) :
               e \in {i \in edges : i.dst = l[1] /\ l[2] \in i.guard /\ <<i.src, l[2]>> \in sent}}]

\* propAlongIndirectEdge on edges, with flags set before and rest on the
\* worklist.
Propagate(edges, sent, out, flags, rest) ==
    LET in == Carried(edges, sent, out)
        new == {l \in Node \X Obj : ~(in[l] \subseteq dfIn[l])}
    IN  /\ dfIn' = in
        /\ inUpdated' = flags \cup new
        /\ worklist' = rest \cup {l[1] : l \in new}

IndirectFrom(n) == {e \in Indirect : e.src = n}
-----------------------------------------------------------------------------
(* processNode.                                                            *)

\* The targets of the address a load dereferences.
Targets(v) == UNION {pts[e[1]] : e \in {l \in prog.load : l[2] = v}}

\* updateTLVPts: the objects a load reads now.
Fresh(v) == {o \in Targets(v) : <<v, o>> \in inUpdated}

\* processAddr, processCopy, processPhi, processLoad.
Value(v) ==
    {e[1] : e \in {a \in prog.addr : a[2] = v}}
    \cup (UNION {pts[e[1]] : e \in {c \in Direct : c[2] = v}})
    \cup UNION {dfIn[<<v, o>>] : o \in Fresh(v)}

\* The nodes direct edges lead to.
Uses(v) ==
    {e[2] : e \in {c \in Direct \cup prog.load : c[1] = v}}
    \cup {s \in Store : v \in {prog.storeDst[s], prog.storeSrc[s]}}

\* What propagate pushes if the node has changed.
Pushed(v) == {n \in Uses(v) : ~(Value(v) \subseteq pts[v])}

ProcessVar(v) ==
    /\ pts' = [pts EXCEPT ![v] = @ \cup Value(v)]
    /\ inUpdated' = inUpdated \ {<<v, o>> : o \in Fresh(v)}
    /\ worklist' = (worklist \ {v}) \cup Pushed(v)
    /\ UNCHANGED <<dfIn, dfOut>>

ProcessMemRef(m) ==
    /\ Propagate(IndirectFrom(m), inUpdated, dfOut, inUpdated, worklist \ {m})
    /\ UNCHANGED <<pts, dfOut>>

\* Fault: a store whose address points to nothing yet lets everything pass.
PassesUnlessStrong(targets, o) == ~(IsStrongUpdate(targets) /\ o \in targets)

\* Whether a store through targets lets pass what object o held before.
PassesBy(targets, o) == targets # {} /\ ~(IsStrongUpdate(targets) /\ o \in targets)

\* Fault: a strong update takes the flag of the object it overwrites, too.
FlagsTaken(s, targets) == {<<s, o>> : o \in {x \in Obj : targets # {}}}

\* The flags updateAllDFOutFromIn removes; a strong update leaves that of its
\* object, for it may become a weak one.
Used(s, targets) == {<<s, o>> : o \in {x \in Obj : PassesBy(targets, x)}}

\* The OUT sets after store s through targets.
Stored(s, targets) ==
    [l \in Store \X Obj |->
        IF l[1] # s THEN dfOut[l]
        ELSE dfOut[l]
             \cup (IF l[2] \in targets THEN pts[prog.storeSrc[s]] ELSE {})
             \cup (IF l \in inUpdated /\ PassesBy(targets, l[2]) THEN dfIn[l] ELSE {})]

ProcessStore(s) ==
    LET targets == pts[prog.storeDst[s]]
        out == Stored(s, targets)
    IN  /\ dfOut' = out
        /\ Propagate(IndirectFrom(s), {l \in Store \X Obj : out[l] # dfOut[l]}, out,
                     inUpdated \ Used(s, targets), worklist \ {s})
        /\ UNCHANGED pts

ProcessNode(n) ==
    /\ fsPhase = "solve" /\ n \in worklist
    /\ \/ n \in Var /\ ProcessVar(n)
       \/ n \in Store /\ ProcessStore(n)
       \/ n \in MemRef /\ ProcessMemRef(n)
    /\ UNCHANGED <<prog, callees, fsPhase>>
-----------------------------------------------------------------------------
(* updateCallGraph.                                                        *)

\* onTheFlyCallGraphSolve, bounded by Andersen's call graph.
FSNewCallees ==
    {c \in prog.calls \X Obj : c[2] \in pts[c[1].funPtr] \cap prog.ander[c[1].funPtr]} \ callees

NewFlows == UNION {c[1].indirect[c[2]] : c \in FSNewCallees}

\* propVarPtsAfterCGUpdated: a new edge carries all there is.
SentAtOnce == Node \X Obj

\* When the worklist is empty: the new edges, and the next round of analyze
\* with every node (initWorklist), or its end.  What one new edge brings to
\* the start of another follows when that node is processed.
UpdateCallGraph ==
    /\ fsPhase = "solve" /\ worklist = {}
    /\ callees' = callees \cup FSNewCallees
    /\ IF FSNewCallees = {} THEN fsPhase' = "done" /\ UNCHANGED <<dfIn, inUpdated, worklist>>
       ELSE Propagate(NewFlows, SentAtOnce, dfOut, inUpdated, Node) /\ UNCHANGED fsPhase
    /\ UNCHANGED <<prog, pts, dfOut>>

FSDone == fsPhase = "done"

FSStep == (\E n \in Node : ProcessNode(n)) \/ UpdateCallGraph

FSNext == FSStep \/ (FSDone /\ UNCHANGED <<prog, callees, fsVars>>)

FSSpec == FSInit /\ [][FSNext]_<<prog, callees, fsVars>> /\ WF_<<prog, callees, fsVars>>(FSStep)
-----------------------------------------------------------------------------
FSTypeOK ==
    /\ WellFormed(prog) /\ callees \subseteq prog.calls \X Obj
    /\ pts \in [Var -> SUBSET Obj]
    /\ dfIn \in [Node \X Obj -> SUBSET Obj] /\ dfOut \in [Store \X Obj -> SUBSET Obj]
    /\ inUpdated \subseteq Node \X Obj
    /\ worklist \subseteq Node /\ fsPhase \in {"solve", "done"}

\* The constraints of the nodes and edges of the graph.
VarSolved(v) ==
    /\ \A e \in prog.addr : e[2] = v => e[1] \in pts[v]
    /\ \A e \in Direct : e[2] = v => pts[e[1]] \subseteq pts[v]
    /\ \A e \in prog.load : e[2] = v => \A o \in pts[e[1]] : dfIn[<<v, o>>] \subseteq pts[v]

StoreSolved(s) ==
    LET targets == pts[prog.storeDst[s]]
    IN  \A o \in Obj : /\ o \in targets => pts[prog.storeSrc[s]] \subseteq dfOut[<<s, o>>]
                       /\ PassesBy(targets, o) => dfIn[<<s, o>>] \subseteq dfOut[<<s, o>>]

FlowSolved(e) == \A o \in e.guard : Passed(e.src, o, dfOut) \subseteq dfIn[<<e.dst, o>>]

\* A node that is not on the worklist has nothing left to do, whatever
\* incremental propagation skipped: its constraint holds and what it passes
\* on has been received, also where a strong update has become a weak one or
\* an edge is new.  At the end this is a solution, all calls resolved.
FSSettled ==
    /\ \A v \in Var \ worklist : VarSolved(v)
    /\ \A s \in Store \ worklist : StoreSolved(s)
    /\ \A e \in Indirect : e.src \in Store \/ e.src \notin worklist => FlowSolved(e)
    /\ FSDone => worklist = {} /\ FSNewCallees = {}
-----------------------------------------------------------------------------
(* The constraints of all nodes and edges, apart from the algorithm: closed *)
(* points-to sets P, IN sets I and OUT sets O, where P resolves the calls.  *)

Resolved(P) == {c \in prog.calls \X Obj : c[2] \in P[c[1].funPtr] \cap prog.ander[c[1].funPtr]}

ClosedAt(P, I, O) ==
    /\ \A e \in prog.addr : e[1] \in P[e[2]]
    /\ \A e \in prog.load : \A o \in P[e[1]] : I[<<e[2], o>>] \subseteq P[e[2]]
    /\ \A s \in Store : \A o \in Obj :
          /\ o \in P[prog.storeDst[s]] => P[prog.storeSrc[s]] \subseteq O[<<s, o>>]
          /\ PassesBy(P[prog.storeDst[s]], o) => I[<<s, o>>] \subseteq O[<<s, o>>]

ClosedAlong(P, I, O, direct, indirect) ==
    /\ \A e \in direct : P[e[1]] \subseteq P[e[2]]
    /\ \A e \in indirect : \A o \in e.guard :
          (IF e.src \in Store THEN O[<<e.src, o>>] ELSE I[<<e.src, o>>]) \subseteq I[<<e.dst, o>>]

Closed(P, I, O) ==
    /\ ClosedAt(P, I, O) /\ ClosedAlong(P, I, O, prog.copy, prog.indirect)
    /\ \A c \in Resolved(P) : ClosedAlong(P, I, O, c[1].direct[c[2]], c[1].indirect[c[2]])

\* Nothing is in a set that the constraints do not put there, in the middle
\* of the analysis as at its end: not by a store whose address is not known
\* yet, nor along the edge of a call that is not made.
WithinClosed ==
    \A P \in [Var -> SUBSET Obj], I \in [Node \X Obj -> SUBSET Obj], O \in [Store \X Obj -> SUBSET Obj] :
        Closed(P, I, O) =>
            /\ \A v \in Var : pts[v] \subseteq P[v]
            /\ \A l \in Node \X Obj : dfIn[l] \subseteq I[l]
            /\ \A l \in Store \X Obj : dfOut[l] \subseteq O[l]

\* The result is the least solution of the constraints.
ResultLeast == FSDone => Closed(pts, dfIn, dfOut) /\ WithinClosed
=============================================================================
