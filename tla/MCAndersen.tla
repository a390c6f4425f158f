---------------------------- MODULE MCAndersen ------------------------------
(***************************************************************************)
(* Small instances of AndersenWaveDiff.  Inputs are in the form the PAG    *)
(* builder produces from SSA code: a pointer has one definition (an        *)
(* address, a gep, a load, or a phi of copies), stores are free.           *)
(***************************************************************************)
EXTENDS AndersenReference, TLC

CONSTANTS p1, p2, p3, p4, p5, a, b, f, g

\* Definitions of a pointer, as <<kind, operand>>.
Phis(P)      == {"copy"} \X {S \in SUBSET P : Cardinality(S) \in 1 .. 2}
Loads(P)     == {"load"} \X P
FieldGeps(P) == {"ngep"} \X P  \* at offset 1
IndexGeps(P) == {"vgep"} \X P

\* The program given by the definitions def and the stores st; a pointer
\* without a definition does not occur in it.
Program(def, st) ==
    LET of(kind) == {<<def[v][2], v>> : v \in {u \in Ptr : def[u][1] = kind}}
    IN  [nodes |-> {v \in Ptr : def[v][1] # "none"} \cup {<<e[1], 0>> : e \in of("addr")},
         addr |-> of("addr"),
         copy |-> UNION {def[v][2] \X {v} : v \in {u \in Ptr : def[u][1] = "copy"}},
         ngep |-> {<<e[1], e[2], 1>> : e \in of("ngep")},
         vgep |-> of("vgep"), load |-> of("load"), store |-> st,
         fi |-> {}, calls |-> {}, funs |-> {}, mergePWC |-> TRUE]

\* A pointer is not its own operand, except through memory.
NoSelf(def) ==
    \A v \in Ptr : /\ def[v][1] = "copy" => v \notin def[v][2]
                   /\ def[v][1] \in {"ngep", "vgep"} => def[v][2] # v

\* One to n stores between the pointers in P.
Stores(P, n) == {S \in SUBSET (P \X P) : Cardinality(S) \in 1 .. n}

\* All programs whose pointers in dom(given) are defined as given says, the
\* others in one of the ways of kinds, with one to n stores.
ProgramsOver(given, kinds, n) ==
    LET free == [Ptr \ DOMAIN given -> kinds]
    IN  {Program(def, st) : def \in {d \in {given @@ h : h \in free} : NoSelf(d)},
                            st \in Stores({v \in Ptr : v \notin DOMAIN given \/ given[v][1] # "none"}, n)}

Unused(P) == [v \in P |-> <<"none">>]

ThreePointerPrograms ==
    LET P == {p1, p2, p3}
    IN  ProgramsOver(p1 :> <<"addr", a>> @@ Unused(Ptr \ P), Phis(P) \cup Loads(P), 2)

\* p3 and p4 are interchangeable: the kind of p3 comes first.
FieldPrograms ==
    LET P == {p1, p2, p3, p4}
        kinds == <<Phis(P), Loads(P), FieldGeps(P), IndexGeps(P)>>
        From(k) == UNION {kinds[l] : l \in k .. 4}
    IN  UNION {UNION {ProgramsOver(p1 :> <<"addr", a>> @@ p2 :> <<"addr", b>> @@ p3 :> def @@ Unused({p5}),
                                   From(k), 1) : def \in kinds[k]} : k \in 1 .. 4}

\* Programs in which site a or its field, held by p1, may lie on a cycle
\* with a gep edge: p4 is computed from what p3 loads and stored back; p2
\* holds site, or the field of a.
CyclePrograms(site) ==
    {Program(p1 :> <<"addr", a>> @@ p2 :> def @@ p3 :> <<"load", q>> @@ p4 :> <<k, p3>>
                @@ Unused(Ptr \ {p1, p2, p3, p4}),
             {<<p4, q>>} \cup st) :
        def \in {<<"ngep", p1>>, <<"addr", site>>}, q \in {p1, p2}, k \in {"ngep", "vgep"},
        st \in Stores({p1, p2, p4}, 2)}

\* Programs in which a cycle through memory is closed late, when p4 has
\* already propagated b to one of its successors.
LateCyclePrograms ==
    {Program(p1 :> <<"addr", a>> @@ p2 :> <<"addr", b>> @@ p3 :> <<"load", p1>>
                @@ p4 :> <<"copy", S>> @@ p5 :> <<"copy", {p3}>>,
             {<<p1, p1>>, st}) :
        S \in {T \in SUBSET (Ptr \ {p4}) : Cardinality(T) = 2}, st \in Ptr \X {p3, p4, p5}}

\* The same with the opaque site g and option MergePWC off.
UnmergedPrograms == {[q EXCEPT !.mergePWC = FALSE] : q \in CyclePrograms(g)}

\* A loop through memory: p2 is stored to *p1, loaded back as p3 and joins
\* p1 in the phi p2; then p3 is dereferenced.
LoopPrograms ==
    {Program(p1 :> <<"addr", a>> @@ p2 :> <<"copy", {p1, p3}>> @@ p3 :> <<"load", p1>>
                @@ p4 :> <<"load", p3>> @@ Unused(Ptr \ {p1, p2, p3, p4}), {<<p2, p1>>})}

\* A phi p3 of the site p1 holds and of two fields of p3 itself, at offset 0
\* and 1: the only programs here with a gep of offset 0.
ZeroOffsetPrograms ==
    {[Program(p1 :> <<"addr", a>> @@ p3 :> <<"copy", {p1, p4, p5}>> @@ p4 :> <<"ngep", p3>>
                @@ p5 :> <<"ngep", p3>> @@ Unused({p2}), {})
         EXCEPT !.ngep = {<<p3, p4, 0>>, <<p3, p5, 1>>}]}

\* Programs with a constraint the final solution leaves unanswered.
UnsolvedPrograms == LoopPrograms \cup ZeroOffsetPrograms

\* Functions f (one parameter, returned) and g (two parameters), called
\* through p1, through the result p4 of that call, and through p2.
CallPrograms ==
    LET calls == {[fp |-> p1, args |-> <<p2>>, ret |-> {p4}],
                  [fp |-> p4, args |-> <<p1>>, ret |-> {}],
                  [fp |-> p2, args |-> <<p1, p1>>, ret |-> {p4}]}
        funs  == {[obj |-> f, params |-> <<p3>>, ret |-> {p3}],
                  [obj |-> g, params |-> <<p3, p3>>, ret |-> {}]}
        given == Unused(Ptr \ {p1, p2})
        kinds == {"addr"} \X {a, f, g} \cup Phis({p1, p2, p3, p4}) \cup Loads({p1, p2})
    IN  {[q EXCEPT !.calls = calls, !.funs = funs, !.nodes = @ \cup {p3, p4}] :
            q \in {Program(given @@ def, st) :
                      def \in {d \in [{p1, p2} -> kinds] : NoSelf(given @@ d)},
                      st \in {S \in SUBSET {<<p1, p2>>, <<p4, p2>>, <<p2, p1>>} :
                                 Cardinality(S) < 2}}}

AllPrograms ==
    ThreePointerPrograms \cup FieldPrograms \cup CyclePrograms(b) \cup UnmergedPrograms
    \cup LateCyclePrograms \cup CallPrograms
=============================================================================
