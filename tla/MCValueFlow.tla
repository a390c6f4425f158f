---------------------------- MODULE MCValueFlow -----------------------------
(***************************************************************************)
(* Small instances of FlowSensitiveTools: programs of two families.        *)
(*   loop:  p = &a, q = &b, y = phi(p, x), and in a loop                   *)
(*          S1; x = *y; S2, where S1 and S2 store q and x through p and y, *)
(*          and the memory phi m joins the loop's objects at its head.     *)
(*   call:  p = &a, q = &b, b being a function, y = phi(p, r), and in a    *)
(*          loop S1; x = *p and the call r = x(p), where b(z) is           *)
(*          {w = *z; S2; return w}, with formal in fi and actual out ao:   *)
(*          what b stores may be what is called next.                      *)
(* The def-use chains of memory are those of Andersen's analysis.          *)
(***************************************************************************)
EXTENDS FlowSensitiveTools, FiniteSets, TLC

CONSTANTS p, q, x, y, z, w, r, a, b, s1, s2, m, fi, ao, Budgets

\* Andersen's sets of variables and objects, as pairs, the statements of the
\* resolved calls included.
Andersen(addr, copy, load, dst, src, calls) ==
    LET of(S, n) == {o \in Obj : <<n, o>> \in S}
        step(S) ==
            {<<e[2], e[1]>> : e \in addr}
            \cup UNION {{<<e[2], o>> : o \in of(S, e[1])} :
                        e \in copy \cup UNION {UNION {c.direct[f] : f \in of(S, c.funPtr)} : c \in calls}}
            \cup UNION {{<<e[2], o>> : o \in UNION {of(S, k) : k \in of(S, e[1])}} : e \in load}
            \cup UNION {UNION {{<<k, o>> : o \in of(S, src[s])} : k \in of(S, dst[s])} : s \in Store}
        round[i \in 0 .. Rounds] == IF i = 0 THEN {} ELSE step(round[i - 1])
        all == round[Rounds]
    IN  [n \in Var \cup Obj |-> of(all, n)]

Program(copy, load, dst, src, indirect, calls, entries, A, weak, budget, asked) ==
    [addr |-> {<<a, p>>, <<b, q>>}, copy |-> copy, load |-> load, storeDst |-> dst, storeSrc |-> src,
     indirect |-> indirect, weak |-> weak, calls |-> calls, entries |-> entries,
     ander |-> [v \in Var |-> A[v]], anderObj |-> [o \in Obj |-> A[o]],
     budget |-> budget, queries |-> asked]

Flow(n1, n2, S) == [src |-> n1, dst |-> n2, guard |-> S]
NonEmpty(flows) == {e \in flows : e.guard # {}}
Nothing == [o \in Obj |-> {}]

\* The chains of the loop: m, s1, the load, s2 and back, each object's
\* through the stores that may be to it.
LoopFlows(D1, D2, L) ==
    NonEmpty({Flow(m, s1, D1), Flow(s1, x, D1 \cap L), Flow(m, x, (L \cap D2) \ D1),
              Flow(s1, s2, D1 \cap D2), Flow(m, s2, D2 \ D1), Flow(s2, m, D2), Flow(s1, m, D1 \ D2)})

LoopProgram(dst, src, weak, budget, asked) ==
    LET copy == {<<p, y>>, <<x, y>>}
        A == Andersen({<<a, p>>, <<b, q>>}, copy, {<<y, x>>}, dst, src, {})
    IN  Program(copy, {<<y, x>>}, dst, src, LoopFlows(A[dst[s1]], A[dst[s2]], A[y]), {}, Nothing,
                A, weak, budget, asked)

Both(n1, n2) == [s \in Store |-> IF s = s1 THEN n1 ELSE n2]

\* In the last ones S1 is strong until its address has grown by what it
\* stores, with something else to let pass then; they are too large for the
\* walks, and of them nothing is asked.
LoopPrograms ==
    {LoopProgram(dst, src, weak, budget, {x, y}) :
        dst \in [Store -> {p, y}], src \in {Both(q, x), Both(x, q)}, weak \in {{}, {b}}, budget \in Budgets}
    \cup {LoopProgram(Both(y, v), Both(q, p), {}, budget, {}) : v \in {p, y}, budget \in Budgets}

\* The call, where S1 stores to D1, and S2 to D2.
TheCall(D1, D2) ==
    [funPtr |-> x, rets |-> {r, ao},
     direct |-> [Nothing EXCEPT ![b] = {<<p, z>>, <<w, r>>}],
     indirect |-> [Nothing EXCEPT ![b] =
         NonEmpty({Flow(s1, fi, D1 \cap D2), Flow(m, fi, D2 \ D1), Flow(s2, ao, D2)})]]

CallProgram(v1, weak, budget) ==
    LET copy == {<<p, y>>, <<r, y>>}
        load == {<<p, x>>, <<z, w>>}
        dst == Both(v1, z)
        src == Both(q, w)
        A == Andersen({<<a, p>>, <<b, q>>}, copy, load, dst, src, {TheCall({}, {})})
        D1 == A[v1]
        D2 == A[z]
        flows == NonEmpty({Flow(m, s1, D1), Flow(s1, x, {a}), Flow(s1, m, D1 \ D2),
                           Flow(ao, m, D2), Flow(fi, w, D2), Flow(fi, s2, D2)})
    IN  Program(copy, load, dst, src, flows, {TheCall(D1, D2)}, [Nothing EXCEPT ![b] = {z, fi}],
                A, weak, budget, {x, y})

CallPrograms ==
    {CallProgram(v1, weak, budget) : v1 \in {p, y}, weak \in {{b}, {a, b}}, budget \in Budgets}

LoopAndCallPrograms == LoopPrograms \cup CallPrograms
-----------------------------------------------------------------------------
\* The whole-program analysis has no budget, so that one will do.
MCInit == ToolInit /\ (tool = "wpa" => \A n \in Budgets : n <= prog.budget)

MCSpec == MCInit /\ [][ToolNext]_<<tool, vars, fsVars>> /\ WF_<<tool, vars, fsVars>>(ToolStep)
=============================================================================
