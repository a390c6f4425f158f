--------------------------- MODULE MCPathChecker ----------------------------
(***************************************************************************)
(* Small value-flow graphs for PathChecker: a function main with value m   *)
(* and the results r1 and r2 of the calls c1 and c2 of function f, whose   *)
(* parameter is f1 and result f2; at c3, f calls itself or a function that *)
(* returns its parameter g1.                                               *)
(***************************************************************************)
EXTENDS PathCheckerReference

CONSTANTS m, r1, r2, f1, f2, g1, c1, c2, c3

Call(s, d, c) == [src |-> s, dst |-> d, kind |-> "call", cs |-> c, indirect |-> FALSE]
Ret(s, d, c) == [src |-> s, dst |-> d, kind |-> "ret", cs |-> c, indirect |-> FALSE]

\* Through memory, when f1 is a store and f2 a load.
Body == {[IntraEdge(f1, f2) EXCEPT !.indirect = TRUE]}

Graphs ==
    {a \cup b \cup c \cup d \cup e :
        a \in {{}, {Call(m, f1, c1)}, {Call(r2, f1, c1)}},
        b \in {{}, {Call(m, f1, c2)}, {Call(r1, f1, c2)}},
        c \in SUBSET {Ret(f2, r1, c1), Ret(f2, r2, c2)},
        d \in {{}, {Call(f1, f1, c3), Ret(f2, f2, c3)}, {Call(f1, g1, c3), Ret(g1, f2, c3)}},
        e \in {{IntraEdge(m, r2)}, {IntraEdge(r1, r2)}, Body,
               Body \cup {IntraEdge(m, r2)}, Body \cup {IntraEdge(r1, r2)}}}

\* What the user's files say.
Asked == {[s |-> {}, a |-> {}], [s |-> {f1}, a |-> {}], [s |-> {f1}, a |-> {<<f1, f2>>, <<r1, r1>>}]}

Input(g, q, src, snk) ==
    [edges |-> g, stores |-> q.s, addEdge |-> q.a, sources |-> src, sinks |-> snk]

NoSourceInputs == {Input({IntraEdge(m, r2)}, [s |-> {}, a |-> {}], {}, {r2})}

AllInputs ==
    {Input(g, q, src, snk) : g \in Graphs, q \in Asked, src \in {{m}, {m, f2}},
                             snk \in {{r2}, {f2, r1}}}
    \cup NoSourceInputs
=============================================================================
