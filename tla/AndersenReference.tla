------------------------- MODULE AndersenReference --------------------------
(***************************************************************************)
(* What the solver is compared with: the least solution of the constraints *)
(* of a program when no object has fields, computed directly from the      *)
(* rules of inclusion-based analysis (the comments above processAddr,      *)
(* processCopy, processGep, processLoad and processStore in                *)
(* lib/WPA/Andersen.cpp), without a constraint graph.                      *)
(***************************************************************************)
EXTENDS AndersenWaveDiff

\* The copies program p makes, when F says which pointer (or site) points to
\* which site.
CopiesOf(p, F) ==
    p.copy \cup p.vgep \cup GepPairs(p.ngep) \cup
    (UNION {{<<x, e[2]>> : x \in {m \in Base \ NoDeref : <<e[1], m>> \in F}} : e \in p.load}) \cup
    (UNION {{<<e[1], x>> : x \in {m \in Base \ NoDeref : <<e[2], m>> \in F}} : e \in p.store}) \cup
    UNION {Binding(x[1], x[2]) :
              x \in {y \in p.calls \X p.funs : /\ <<y[1].fp, y[2].obj>> \in F
                                               /\ Len(y[1].args) = Len(y[2].params)}}

Derive(p, F) ==
    F \cup {<<e[2], e[1]>> : e \in p.addr}
      \cup UNION {{<<e[2], x>> : x \in {m \in Base : <<e[1], m>> \in F}} : e \in CopiesOf(p, F)}

\* Every application of the rules but the last adds a pair of a node and a
\* site whose address is taken.
LeastSolution(p) ==
    LET bound == Cardinality(p.nodes) * Cardinality({e[1] : e \in p.addr})
        step[i \in 0 .. bound] == IF i = 0 THEN {} ELSE Derive(p, step[i-1])
    IN  step[bound]

\* Merging cycles and collapsing fields never makes the result worse than
\* field-insensitive analysis: every target of a pointer, and of a field of
\* a site, lies in a site of the least solution.
NoCoarserThanFieldInsensitive ==
    phase = "done" =>
        LET ref == LeastSolution(prog)
        IN  /\ \A x \in Ptr : \A o \in Pts(x) : <<x, o[1]>> \in ref
            /\ \A f \in Obj \ redundant : \A o \in Pts(f) : <<f[1], o[1]>> \in ref

\* Unless the budget ran out, every function that the pointer of an indirect
\* call may hold, with as many parameters as the call has arguments, is a
\* callee; and the arguments and results of every callee are connected,
\* although the call was found in the middle of the solving.
IndirectCallsSolved ==
    phase = "done" =>
        /\ \A c \in prog.calls, f \in prog.funs :
              /\ \E o \in Pts(c.fp) : o[1] = f.obj
              /\ Len(c.args) = Len(f.params)
              /\ Cardinality(resolved) < IndCallLimit
              => <<c, f>> \in resolved
        /\ \A x \in resolved : \A e \in Binding(x[1], x[2]) : Pts(e[1]) \subseteq Pts(e[2])
=============================================================================
