----------------------- MODULE FlowSensitiveSolution ------------------------
(***************************************************************************)
(* The least flow-sensitive solution of a value-flow graph, computed       *)
(* forward and apart from both analyses, along all call edges that the     *)
(* solution itself resolves.                                               *)
(***************************************************************************)
EXTENDS ValueFlowGraph, FiniteSets

CONSTANT Rounds   \* enough to reach the solution of every program

ASSUME RoundsAssumption ==
    Rounds \in Nat /\ IsFiniteSet(Item \X Obj) /\ Cardinality(Item \X Obj) <= Rounds

\* A solution is a set of pairs of an item and an object it may point to.
Pts(sol, d) == {o \in Obj : <<d, o>> \in sol}
VarPts(sol, v) == Pts(sol, VarItem(v))

\* The copies and flows of the graph with the calls that sol resolves.
ResolvedCopies(sol) ==
    prog.copy \cup UNION {UNION {c.direct[f] : f \in VarPts(sol, c.funPtr)} : c \in prog.calls}
ResolvedFlows(sol) ==
    prog.indirect \cup UNION {UNION {c.indirect[f] : f \in VarPts(sol, c.funPtr)} : c \in prog.calls}

\* What object o may hold before node n.
Incoming(sol, n, o) ==
    UNION {Pts(sol, <<e.src, o>>) : e \in {i \in ResolvedFlows(sol) : i.dst = n /\ o \in i.guard}}

Values(sol, v) ==
    {e[1] : e \in {i \in prog.addr : i[2] = v}}
    \cup (UNION {VarPts(sol, e[1]) : e \in {i \in ResolvedCopies(sol) : i[2] = v}})
    \cup UNION {UNION {Incoming(sol, v, o) : o \in VarPts(sol, e[1])} : e \in {i \in prog.load : i[2] = v}}

\* A store through a pointer to one object, one whose contents are known,
\* overwrites it; any other leaves what was there.
Contents(sol, s, o) ==
    LET T == VarPts(sol, prog.storeDst[s])
    IN  (UNION {VarPts(sol, prog.storeSrc[s]) : t \in T \cap {o}})
        \cup UNION {Incoming(sol, s, o) : t \in {k \in T : T # {o} \/ o \in prog.weak}}

Advance(sol) ==
    UNION {{<<d, o>> : o \in IF d[1] \in Var THEN Values(sol, d[1])
                             ELSE IF d[1] \in Store THEN Contents(sol, d[1], d[2])
                             ELSE Incoming(sol, d[1], d[2])} : d \in Item}

LeastSolution ==
    LET round[i \in 0 .. Rounds] == IF i = 0 THEN {} ELSE Advance(round[i - 1])
    IN  round[Rounds]
=============================================================================
