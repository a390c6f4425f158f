------------------------- MODULE StrongComponents --------------------------
(***************************************************************************)
(* The strongly connected components of a graph with edges E between the   *)
(* nodes in N, as the solvers use them: the meaning of SCCDetection        *)
(* (include/Util/SCC.h), whose algorithm is module SCCDetection.           *)
(***************************************************************************)
EXTENDS FiniteSets, Naturals

Closed(E, N) == {S \in SUBSET N : \A e \in E : e[1] \in S => e[2] \in S}

\* What n reaches: no closed set holds n and not it.
Reached(E, N, n) == {m \in N : \A S \in Closed(E, N) : n \in S => m \in S}

\* The strongly connected components with more than one node: no closed set
\* holds one of its nodes and not the others.
Cycles(E, N) ==
    LET closed == Closed(E, N)
        component(n) == {m \in N : \A S \in closed : n \in S <=> m \in S}
    IN  {C \in {component(n) : n \in N} : Cardinality(C) > 1}

\* The representative of n once the cycles have the given roots.
Find(cycles, root, n) ==
    IF \E C \in cycles : n \in C THEN root[CHOOSE C \in cycles : n \in C] ELSE n

=============================================================================
