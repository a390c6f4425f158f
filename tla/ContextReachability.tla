------------------------ MODULE ContextReachability -------------------------
(***************************************************************************)
(* Context-sensitive steps on the sparse value-flow graph: the items the   *)
(* CFL solver (include/Util/CFLSolver.h) propagates are nodes with a call  *)
(* string (include/Util/DPItem.h, ContextCond).  A call edge pushes its    *)
(* call site, a return edge must match the last one.  The call string is   *)
(* limited to CxtLimit call sites; the oldest ones are forgotten.          *)
(***************************************************************************)
EXTENDS Naturals, Sequences, FiniteSets

CONSTANTS SVFGNode, CallSite,
          NoCallSite,
          CxtLimit  \* option -cxt-limit, ContextCond::maximumCxtLen

ASSUME CxtLimitAssumption == CxtLimit \in Nat

\* Edges of the value-flow graph: within a function, from an actual to a
\* formal, from a returned value to its receiver.
Edge == [src : SVFGNode, dst : SVFGNode, kind : {"intra"}, cs : {NoCallSite}, indirect : BOOLEAN]
        \cup [src : SVFGNode, dst : SVFGNode, kind : {"call", "ret"}, cs : CallSite,
              indirect : BOOLEAN]

IntraEdge(s, d) == [src |-> s, dst |-> d, kind |-> "intra", cs |-> NoCallSite, indirect |-> FALSE]

Item == SVFGNode \X Seq(CallSite)

OutEdges(E, n) == {e \in E : e.src = n}
InEdges(E, n) == {e \in E : e.dst = n}

\* Fault: a full context stays as it is.
PushContextKeeping(c, cs) == IF Len(c) < CxtLimit THEN Append(c, cs) ELSE c

\* pushContext
PushContext(c, cs) ==
    IF Len(c) < CxtLimit THEN Append(c, cs)
    ELSE IF c # <<>> THEN Append(Tail(c), cs)
    ELSE c

\* Fault: any return matches.
MatchContextAlways(c, cs) == TRUE

\* matchContext: an empty context matches every return.
MatchContext(c, cs) == c = <<>> \/ c[Len(c)] = cs

PopContext(c) == SubSeq(c, 1, Len(c) - 1)

\* The contexts in which edge e leads on from context c: one, or none for a
\* return that does not match.
Contexts(e, c) ==
    {d \in {c} : e.kind = "intra"} \cup
    {d \in {PushContext(c, e.cs)} : e.kind = "call"} \cup
    {d \in {PopContext(c)} : e.kind = "ret" /\ MatchContext(c, e.cs)}

\* The items the outgoing edges of item x lead to.
NextItems(E, x) == UNION {{e.dst} \X Contexts(e, x[2]) : e \in OutEdges(E, x[1])}

NodesOf(X) == {x[1] : x \in X}
=============================================================================
