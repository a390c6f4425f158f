------------------------------ MODULE MCSrcSnk ------------------------------
(***************************************************************************)
(* Small value-flow graphs for SrcSnkDDA.  At c0 an allocation defines a,  *)
(* which a function returns from w, to r1 and r2 at its calls c1 and c2;   *)
(* at c3 and c4 they are handed to a function with parameter p that frees  *)
(* it at s2 and may return it to s1, another argument of free; g is a      *)
(* store to a global.  a may move to w through memory, where w may be a    *)
(* load.                                                                   *)
(***************************************************************************)
EXTENDS SrcSnkReference, TLC

CONSTANTS a, w, r1, r2, p, s1, s2, g, c0, c1, c2, c3, c4, c

CallE(s, d, cs) == [src |-> s, dst |-> d, kind |-> "call", cs |-> cs, indirect |-> FALSE]
RetE(s, d, cs) == [src |-> s, dst |-> d, kind |-> "ret", cs |-> cs, indirect |-> FALSE]

\* A wrapper called twice, one that calls itself (then r2 is in it, and r1 is
\* in its caller), one that only calls itself, no wrapper.
Allocation == {{IntraEdge(a, w), RetE(w, r1, c1), RetE(w, r2, c2)},
               {IntraEdge(a, w), RetE(w, r1, c1), RetE(w, r2, c2), IntraEdge(r2, w)},
               {IntraEdge(a, w), RetE(w, r2, c2), IntraEdge(r2, w)},
               {[IntraEdge(a, w) EXCEPT !.indirect = TRUE], RetE(w, r1, c1), RetE(w, r2, c2)},
               {IntraEdge(a, r1)}}

Uses == {{CallE(r1, p, c3), CallE(r2, p, c4)}, {CallE(r2, p, c4)}, {IntraEdge(r1, r2)}}

Freed == {{IntraEdge(p, s2)}, {IntraEdge(p, s2), RetE(p, s1, c3)}, {IntraEdge(r2, s2)}}

Directly == {{}, {IntraEdge(r1, s1)}, {IntraEdge(r1, s1), IntraEdge(s1, r1)}, {IntraEdge(r2, g)}}

\* Edges to the sinks carry branch conditions.
Guards(E) ==
    LET then == {{}} IN
    {[e \in E |-> IF e.dst = s1 THEN x ELSE IF e.dst = s2 THEN y ELSE TrueCond] :
        x \in {TrueCond, then}, y \in {TrueCond, then, TrueCond \ then}}

AllInputs ==
    UNION {{[edges |-> E, vfCond |-> v, globals |-> {g}, loads |-> l, params |-> {s1, s2},
             sinks |-> {s1, s2}, dead |-> unused, allocs |-> {c0},
             retNode |-> (c0 :> a @@ c1 :> r1 @@ c2 :> r2 @@ c3 :> s1 @@ c4 :> r2)] :
               v \in Guards(E), l \in {{}, {w}}, unused \in {{}, {c1}}} :
        E \in {F \in {x \cup y \cup z \cup d : x \in Allocation, y \in Uses, z \in Freed, d \in Directly} :
                 ~({IntraEdge(r2, w), IntraEdge(r1, r2)} \subseteq F)}}
=============================================================================
