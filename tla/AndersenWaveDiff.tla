------------------------- MODULE AndersenWaveDiff --------------------------
(***************************************************************************)
(* The wave-propagation Andersen solver with difference propagation        *)
(* (lib/WPA/AndersenWaveDiff.cpp on top of lib/WPA/Andersen.cpp), the      *)
(* analysis every client of this repository starts from.                   *)
(*                                                                         *)
(* One iteration of AndersenBase::analyze is: detect the cycles of the     *)
(* constraint graph and merge them (phase "merge"); visit every node once  *)
(* in topological order, propagating what is new in its points-to set      *)
(* ("wave", and "again" when cycles with a gep are not merged); turn the   *)
(* loads and stores of the nodes that changed into copy edges ("post");    *)
(* resolve the indirect calls ("cg").  Another iteration follows when      *)
(* reanalyze was set.                                                      *)
(***************************************************************************)
EXTENDS ConstraintGraph, Sequences

CONSTANTS Programs,       \* the inputs: constraints, initial object flags and calls
          IndCallLimit,   \* option IndirectCallLimit
          NoNode

ASSUME NoNodeAssumption == NoNode \notin Node
ASSUME LimitAssumption  == IndCallLimit \in Nat

\* A program: its pointers and objects, address-of pairs <<object, pointer>>, copies, geps, loads and
\* stores between pointers, the sites that are field-insensitive from the
\* start, the indirect call sites and the functions they may reach, and option
\* MergePWC: cycles through gep edges are merged.
ProgramType ==
    [nodes : SUBSET Node, addr : SUBSET (Base \X Ptr), copy : SUBSET (Ptr \X Ptr),
     ngep : SUBSET (Ptr \X Ptr \X (0 .. MaxField - 1)), vgep : SUBSET (Ptr \X Ptr),
     load : SUBSET (Ptr \X Ptr), store : SUBSET (Ptr \X Ptr),
     fi : SUBSET Base,
     calls : SUBSET [fp : Ptr, args : Seq(Ptr), ret : SUBSET Ptr],
     funs : SUBSET [obj : Base, params : Seq(Ptr), ret : SUBSET Ptr],
     mergePWC : BOOLEAN]

Elements(s) == {s[i] : i \in DOMAIN s}

\* The pointers of program p that a gep defines.
GepResults(p) == {e[2] : e \in p.vgep \cup GepPairs(p.ngep)}

\* Programs are those of a PAG: finite, every operand is a node, no copy or gep is of
\* a node to itself, and a gep is the one definition of its result.
ASSUME ProgramAssumption ==
    \A p \in Programs :
        /\ p \in ProgramType
        /\ IsFiniteSet(p.nodes) /\ IsFiniteSet(p.calls) /\ IsFiniteSet(p.funs)
        /\ \A e \in p.addr : <<e[1], 0>> \in p.nodes /\ e[2] \in p.nodes
        /\ \A e \in p.copy \cup p.vgep \cup GepPairs(p.ngep) \cup p.load \cup p.store :
              e[1] \in p.nodes /\ e[2] \in p.nodes
        /\ \A c \in p.calls : Elements(c.args) \cup c.ret \subseteq p.nodes
        /\ \A f \in p.funs : Elements(f.params) \cup f.ret \subseteq p.nodes
        /\ \A e \in p.copy \cup p.vgep \cup GepPairs(p.ngep) : e[1] # e[2]
        /\ \A e \in p.copy \cup p.load : e[2] \notin GepResults(p)
        /\ \A c \in p.calls : c.ret \cap GepResults(p) = {}
        /\ \A f \in p.funs : Elements(f.params) \cap GepResults(p) = {}
        /\ \A e, g \in p.ngep : e[2] = g[2] => e = g
        /\ \A e \in p.ngep, g \in p.vgep : e[2] # g[2]
        /\ Opaque \cap p.fi = {}

VARIABLES
    prog,       \* the program under analysis
    pts, propa, \* points-to and already propagated sets, by node
    rep, subs,  \* nodeToRepMap and nodeToSubsMap of the constraint graph
    copy, ngep, vgep, load, store,  \* edges, between representatives
    flds,       \* field nodes created so far
    fi,         \* field-insensitive sites
    pwc,        \* representatives on a positive weight cycle
    redundant,  \* redundantGepNodes: field nodes folded into their base
    phase, toMerge, todo, dag, cur,  \* the node stack and the node being visited
    coll, fold, \* sites to collapse; fields left of the one being collapsed
    worklist, tmp, pend, reanalyze,
    resolved    \* indirect call edges found so far

ptVars   == <<pts, propa>>
repVars  == <<rep, subs>>
edgeVars == <<copy, ngep, vgep, load, store>>
objVars  == <<flds, fi, pwc, redundant>>
wave     == <<toMerge, todo, dag>>
collVars == <<coll, fold>>
workVars == <<worklist, tmp>>
vars == <<prog, ptVars, repVars, edgeVars, objVars, phase, wave, cur, collVars,
          workVars, pend, reanalyze, resolved>>

\* The nodes of the graph that have not been merged away.
GraphNode == {n \in prog.nodes \cup flds : rep[n] = n}

\* Fault: loads are followed too.
SCCEdgesWithLoads == copy \cup vgep \cup GepPairs(ngep) \cup load

\* The edges cycle detection follows (setPWCOpt).
SCCEdges == copy \cup (IF prog.mergePWC THEN vgep \cup GepPairs(ngep) ELSE {})

Reps(S) == {rep[n] : n \in S}

Quiet == cur = NoNode /\ coll = {} /\ fold = {}

-----------------------------------------------------------------------------
\* Andersen::initialize: build the graph, process all address edges.
Init ==
    /\ prog \in Programs
    /\ pts = [n \in Node |-> {<<e[1], 0>> : e \in {a \in prog.addr : a[2] = n}}]
    /\ propa = [n \in Node |-> {}]
    /\ rep = [n \in Node |-> n]
    /\ subs = [n \in Node |-> {}]
    /\ copy = prog.copy /\ ngep = prog.ngep /\ vgep = prog.vgep
    /\ load = prog.load /\ store = prog.store
    /\ flds = {} /\ fi = prog.fi /\ pwc = {} /\ redundant = {}
    /\ phase = "scc" /\ toMerge = {} /\ todo = {} /\ dag = {} /\ cur = NoNode
    /\ coll = {} /\ fold = {}
    /\ worklist = {a[2] : a \in prog.addr}
    /\ tmp = {} /\ pend = {} /\ reanalyze = FALSE
    /\ resolved = {}

\* The loop head of analyze and the cycle detection: one member of each
\* cycle, whichever the traversal met first, will represent it.
SCCDetect ==
    /\ phase = "scc"
    /\ \E cycles \in {Cycles(SCCEdges, GraphNode)} :
       \E root \in {f \in [cycles -> UNION cycles] : \A C \in cycles : f[C] \in C} :
          LET find(n) == Find(cycles, root, n)
          IN  /\ toMerge' = {<<n, find(n)>> : n \in {m \in UNION cycles : find(m) # m}}
              /\ todo' = {find(n) : n \in GraphNode}
              /\ dag' = {<<find(e[1]), find(e[2])>> : e \in SCCEdges}
    /\ phase' = "merge"
    /\ reanalyze' = FALSE
    /\ UNCHANGED <<prog, ptVars, repVars, edgeVars, objVars, cur, collVars, workVars,
                   pend, resolved>>

\* Fault: the source forgets nothing.
ForgetNothing(s, d) == propa[s]

\* updatePropaPtsMap: what s still counts as propagated once what d has not
\* propagated may be missing from a successor of s.
Forget(s, d) == propa[s] \cap propa[d]

\* Fault: the nodes merged into n earlier are left behind.
NodeRepsAloneMoved(n, r) == [rep EXCEPT ![n] = r]

\* updateNodeRepAndSubs: n and all it represents are represented by r.
NodeReps(n, r) == [m \in Node |-> IF m = n \/ m \in subs[n] THEN r ELSE rep[m]]

\* mergeNodeToRep: node n, whose points-to sets are those of p, joins r.
MergeNodeToRep(n, r, p) ==
    /\ pts' = [p EXCEPT ![r] = p[r] \cup p[n]]
    /\ propa' = [propa EXCEPT ![r] = Forget(r, n)]
    /\ copy' = MoveCopy(copy, n, r)
    /\ ngep' = MoveNormalGep(ngep, n, r)
    /\ vgep' = MoveVariantGep(vgep, n, r)
    /\ load' = MovePairs(load, n, r)
    /\ store' = MovePairs(store, n, r)
    /\ rep' = NodeReps(n, r)
    /\ subs' = [subs EXCEPT ![r] = subs[r] \cup {n} \cup subs[n], ![n] = {}]
    /\ pwc' = pwc \cup {m \in {r} : GepInside(ngep, vgep, n, r) \/ n \in pwc}

\* mergeSccNodes, one member of a cycle.
MergeSccNode(n, r) ==
    /\ phase = "merge" /\ <<n, r>> \in toMerge
    /\ toMerge' = toMerge \ {<<n, r>>}
    /\ MergeNodeToRep(n, r, pts)
    /\ UNCHANGED <<prog, flds, fi, redundant, phase, todo, dag, cur, collVars, workVars,
                   pend, reanalyze, resolved>>

EndMerge ==
    /\ phase = "merge" /\ toMerge = {}
    /\ phase' = "wave"
    /\ UNCHANGED <<prog, ptVars, repVars, edgeVars, objVars, wave, cur, collVars, workVars,
                   pend, reanalyze, resolved>>

-----------------------------------------------------------------------------
\* Fault: the stack is popped from its bottom.
OnTopReversed(n) == n \in todo /\ \A m \in todo \ {n} : <<n, m>> \notin dag

\* The stack of cycle detection lists sources before targets.
OnTop(n) == n \in todo /\ \A m \in todo \ {n} : <<m, n>> \notin dag

\* Fault: the node is read from the stack and left on it.
CollapsePWCNodeUnpopped(n) ==
    /\ phase = "wave" /\ Quiet
    /\ OnTop(n)
    /\ cur' = n
    /\ coll' = IF prog.mergePWC /\ rep[n] \in pwc THEN Collapsible(pts[rep[n]], fi) ELSE {}
    /\ UNCHANGED <<prog, ptVars, repVars, edgeVars, objVars, phase, wave, fold, workVars, pend,
                   reanalyze, resolved>>

\* Pop the next node of the node stack; collapse what it points to if it is
\* on a positive weight cycle.
CollapsePWCNode(n) ==
    /\ phase = "wave" /\ Quiet
    /\ OnTop(n)
    /\ todo' = todo \ {n}
    /\ cur' = n
    /\ coll' = IF prog.mergePWC /\ rep[n] \in pwc THEN Collapsible(pts[rep[n]], fi) ELSE {}
    /\ UNCHANGED <<prog, ptVars, repVars, edgeVars, objVars, phase, toMerge, dag, fold,
                   workVars, pend, reanalyze, resolved>>

\* The nodes the step pushes because their points-to sets changed.
Grown == {d \in Node : pts'[d] # pts[d]}

\* computeDiffPts: the targets of n it has never propagated.
Diff(n) == pts[n] \ propa[n]

\* What the normal geps of n in E send.
Fields(n, E) == UNION {NormalGepTargets(Diff(n), e[3], fi) : e \in E}

\* What n sends to d.
Sent(n, d) ==
    {o \in Diff(n) : <<n, d>> \in copy} \cup
    {o \in VariantGepTargets(Diff(n)) : <<n, d>> \in vgep} \cup
    Fields(n, {e \in ngep : e[1] = n /\ e[2] = d})

\* handleCopyGep on node n: send what was never propagated along the
\* outgoing copy, normal gep and variant gep edges.
HandleCopyGep(n) ==
    LET insens == IF \E e \in vgep : e[1] = n THEN Collapsible(Diff(n), fi) ELSE {}
    IN  /\ propa' = [propa EXCEPT ![n] = pts[n]]
        /\ pts' = [d \in Node |-> pts[d] \cup Sent(n, d)]
        /\ worklist' = worklist \cup Grown
        /\ flds' = flds \cup {o \in Fields(n, {e \in ngep : e[1] = n}) : o[2] # 0}
        /\ fi' = fi \cup insens
        /\ coll' = insens

\* processNode on the node just popped, unless it was merged meanwhile.
ProcessNode ==
    /\ cur # NoNode /\ coll = {} /\ fold = {}
    /\ cur' = NoNode
    /\ IF rep[cur] = cur THEN HandleCopyGep(cur)
       ELSE UNCHANGED <<ptVars, worklist, flds, fi, coll>>
    /\ UNCHANGED <<prog, repVars, edgeVars, pwc, redundant, phase, wave, fold, tmp, pend,
                   reanalyze, resolved>>

\* collapseNodePts on the representative r of a base just collapsed.
CollapseBase(r) ==
    IF r \in pwc' THEN Collapsible(pts'[r], fi') ELSE {}

\* collapseField up to its loop over the fields of site b.
CollapseField(b) ==
    /\ b \in coll /\ fold = {}
    /\ fi' = fi \cup {b}
    /\ fold' = {f \in flds : f[1] = b} \ redundant
    /\ UNCHANGED <<pts, pwc>>
    /\ coll' = (coll \ {b}) \cup (IF fold' = {} THEN CollapseBase(rep[<<b, 0>>]) ELSE {})
    /\ UNCHANGED <<prog, propa, repVars, edgeVars, flds, redundant, phase, wave, cur,
                   workVars, pend, reanalyze, resolved>>

\* Faults: the field stays in the sets; or the base is not put in.
RetargetKeepingField(S, f) == IF f \in S THEN S \cup {FIObjNode(f)} ELSE S
RetargetDroppingField(S, f) == S \ {f}

\* Set S once field f of a collapsed site is replaced by the site's base.
Retarget(S, f) == IF f \in S THEN (S \ {f}) \cup {FIObjNode(f)} ELSE S

\* One iteration of that loop: every pointer to field f now points to the
\* base, and the node of f is merged with the node of the base.
FoldField(f) ==
    LET base   == FIObjNode(f)
        r      == rep[base]
        ptrs   == {n \in Node : f \in pts[n]}
        folded == [n \in Node |-> Retarget(pts[n], f)]
    IN  /\ f \in fold
        /\ fold' = fold \ {f}
        /\ worklist' = worklist \cup Reps(ptrs)
        /\ reanalyze' = (reanalyze \/ ptrs # {})
        /\ IF rep[f] # r
           THEN MergeNodeToRep(rep[f], r, folded)
           ELSE pts' = folded /\ UNCHANGED <<propa, repVars, edgeVars, pwc>>
        /\ redundant' = redundant \cup ({f} \ {r})
        /\ UNCHANGED fi
        /\ coll' = coll \cup (IF fold' = {} THEN CollapseBase(r) ELSE {})
        /\ UNCHANGED <<prog, flds, phase, wave, cur, tmp, pend, resolved>>

EndWave ==
    /\ phase = "wave" /\ todo = {} /\ Quiet
    /\ phase' = IF prog.mergePWC THEN "post" ELSE "again"
    /\ UNCHANGED <<prog, ptVars, repVars, edgeVars, objVars, wave, cur, collVars, workVars,
                   pend, reanalyze, resolved>>

\* Without merging of positive weight cycles the wave is followed by a
\* worklist loop; the nodes it pops are put back for the post-processing.
PopAgain(n) ==
    /\ phase = "again" /\ Quiet /\ n \in worklist
    /\ worklist' = worklist \ {n}
    /\ tmp' = tmp \cup {rep[n]}
    /\ cur' = rep[n]
    /\ UNCHANGED <<prog, ptVars, repVars, edgeVars, objVars, phase, wave, collVars, pend,
                   reanalyze, resolved>>

EndAgain ==
    /\ phase = "again" /\ worklist = {} /\ Quiet
    /\ worklist' = Reps(tmp)
    /\ tmp' = {}
    /\ phase' = "post"
    /\ UNCHANGED <<prog, ptVars, repVars, edgeVars, objVars, wave, cur, collVars, pend,
                   reanalyze, resolved>>

-----------------------------------------------------------------------------
Deref(n) == {o \in pts[rep[n]] : o[1] \notin NoDeref}

\* postProcessNode: the copy edges the loads and stores of n ask for.
PostProcessNode(n) ==
    /\ phase = "post" /\ n \in worklist /\ pend = {}
    /\ worklist' = worklist \ {n}
    /\ pend' = {<<o, e[2]>> : o \in Deref(n), e \in {l \in load : l[1] = rep[n]}} \cup
               {<<e[1], o>> : o \in Deref(n), e \in {s \in store : s[2] = rep[n]}}
    /\ UNCHANGED <<prog, ptVars, repVars, edgeVars, objVars, phase, wave, cur, collVars,
                   tmp, reanalyze, resolved>>

\* processLoad, processStore and connectCaller2CalleeParams: a new copy
\* edge makes the source forget what its new successor never propagated.
AddCopyEdge(e) ==
    LET s == rep[e[1]]
        d == rep[e[2]]
    IN  /\ e \in pend
        /\ pend' = pend \ {e}
        /\ IF CanAddCopy(copy, s, d)
           THEN /\ copy' = copy \cup {<<s, d>>}
                /\ propa' = [propa EXCEPT ![s] = Forget(s, d)]
                /\ worklist' = worklist \cup {n \in {s} : phase = "cg"}
                /\ reanalyze' = TRUE
           ELSE UNCHANGED <<copy, propa, worklist, reanalyze>>
        /\ UNCHANGED <<prog, pts, repVars, ngep, vgep, load, store, objVars, phase, wave,
                       cur, collVars, tmp, resolved>>

\* connectCaller2CalleeParams: actual to formal parameters, results back.
Binding(c, f) == {<<c.args[i], f.params[i]>> : i \in DOMAIN c.args} \cup (f.ret \X c.ret)

Matches(c, f) ==
    (\E o \in pts[rep[c.fp]] : o[1] = f.obj) /\ Len(c.args) = Len(f.params)

\* The call edges that are missing.
Callees == {x \in prog.calls \X prog.funs : Matches(x[1], x[2]) /\ x \notin resolved}

\* resolveIndCalls: the new call edges, within the budget, and the copies
\* between actual and formal parameters and between returned values.
UpdateCallGraph ==
    /\ phase = "post" /\ worklist = {} /\ pend = {}
    /\ LET room == IndCallLimit - Cardinality(resolved)
       IN  \E new \in SUBSET Callees :
             /\ Cardinality(new) = IF Cardinality(Callees) <= room THEN Cardinality(Callees)
                                   ELSE room
             /\ resolved' = resolved \cup new
             /\ reanalyze' = (reanalyze \/ new # {})
             /\ pend' = UNION {Binding(x[1], x[2]) : x \in new}
    /\ phase' = "cg"
    /\ UNCHANGED <<prog, ptVars, repVars, edgeVars, objVars, wave, cur, collVars, workVars>>

Reanalyze ==
    /\ phase = "cg" /\ pend = {} /\ reanalyze
    /\ phase' = "scc"
    /\ UNCHANGED <<prog, ptVars, repVars, edgeVars, objVars, wave, cur, collVars, workVars,
                   pend, reanalyze, resolved>>

\* normalizePointsTo and cleanConsCG: the redundant field nodes leave the
\* PAG and the maps of the constraint graph.
Finalize ==
    /\ phase = "cg" /\ pend = {} /\ ~reanalyze
    /\ phase' = "done"
    /\ flds' = flds \ redundant
    /\ rep' = [n \in Node |-> IF \E f \in redundant : n = f \/ n \in subs[f] THEN n ELSE rep[n]]
    /\ subs' = [n \in Node |-> IF n \in redundant \cup Reps(redundant) THEN {} ELSE subs[n]]
    /\ UNCHANGED <<prog, ptVars, edgeVars, fi, pwc, redundant, wave, cur, collVars, workVars,
                   pend, reanalyze, resolved>>

Step ==
    \/ SCCDetect
    \/ \E e \in toMerge : MergeSccNode(e[1], e[2])
    \/ EndMerge
    \/ \E n \in todo : CollapsePWCNode(n)
    \/ ProcessNode
    \/ \E b \in coll : CollapseField(b)
    \/ \E f \in fold : FoldField(f)
    \/ EndWave
    \/ \E n \in worklist : PopAgain(n) \/ PostProcessNode(n)
    \/ EndAgain
    \/ \E e \in pend : AddCopyEdge(e)
    \/ UpdateCallGraph
    \/ Reanalyze
    \/ Finalize

Terminated == phase = "done" /\ UNCHANGED vars

Next == Step \/ Terminated

Spec == Init /\ [][Next]_vars /\ WF_vars(Step)

-----------------------------------------------------------------------------
\* The types; with the field of a gep inside the object (getModulusOffset),
\* so that getGepObjNode always finds or makes a node of the site.
TypeOK ==
    /\ prog \in ProgramType
    /\ pts \in [Node -> SUBSET Obj] /\ propa \in [Node -> SUBSET Obj]
    /\ rep \in [Node -> Node] /\ subs \in [Node -> SUBSET Node]
    /\ copy \subseteq Pair /\ vgep \subseteq Pair /\ ngep \subseteq Gep
    /\ load \subseteq Pair /\ store \subseteq Pair
    /\ flds \subseteq Obj /\ fi \subseteq Base /\ pwc \subseteq Node /\ redundant \subseteq Obj
    /\ phase \in {"scc", "merge", "wave", "again", "post", "cg", "done"}
    /\ toMerge \subseteq Pair /\ todo \subseteq Node /\ dag \subseteq Pair
    /\ cur \in Node \cup {NoNode}
    /\ coll \subseteq Base /\ fold \subseteq Obj
    /\ worklist \subseteq Node /\ tmp \subseteq Node /\ pend \subseteq Pair
    /\ reanalyze \in BOOLEAN
    /\ resolved \subseteq prog.calls \X prog.funs

\* Object o, or the object it was collapsed into, is in S.
Holds(o, S) == o \in S \/ (o[1] \in fi /\ FIObjNode(o) \in S)

\* Everything a node is recorded to have propagated has really reached every
\* copy successor: what difference propagation leaves out was sent before.
\* It relates computeDiffPts with every place that adds or retargets a copy
\* edge (addCopyEdge, mergeNodeToRep) and with collapseField.
PropagatedReached ==
    \A e \in copy : \A o \in propa[e[1]] : Holds(o, pts[e[2]])

\* A merged node has left the graph: every edge and every pending visit of
\* the worklist solver is about nodes that still represent themselves, and
\* representatives are never merged nodes (updateNodeRepAndSubs).
MergedNodesDetached ==
    /\ \A n \in Node : rep[rep[n]] = rep[n]
    /\ \A e \in copy \cup vgep \cup load \cup store \cup GepPairs(ngep) :
          rep[e[1]] = e[1] /\ rep[e[2]] = e[2]

\* nodeToSubsMap is the inverse of nodeToRepMap while the analysis runs.
RepSubsAgree ==
    phase # "done" =>
        \A r \in Node : subs[r] = {n \in Node \ {r} : rep[n] = r}

\* Once a field is folded into its base no points-to set mentions it again,
\* nor is it a node of the graph: removing it from the PAG in
\* normalizePointsTo leaves no dangling target (the assertion of cleanConsCG).
NoDanglingField ==
    /\ \A n \in Node : pts[n] \cap redundant = {}
    /\ phase # "done" => \A f \in redundant : rep[f] # f
    /\ \A e \in copy \cup vgep \cup load \cup store \cup GepPairs(ngep) :
          {e[1], e[2]} \cap redundant = {}

\* The wave: the set of a node that was visited does not change again in
\* the same iteration unless another iteration was asked for.
VisitedSettled ==
    /\ phase \in {"post", "cg"} \/ (phase = "wave" /\ prog.mergePWC)
    /\ coll = {} /\ fold = {} /\ ~reanalyze
    => \A n \in GraphNode \ (todo \cup {cur}) : pts[n] \subseteq propa[n]

\* The final solution answers every address, copy and gep constraint of the
\* program, through all the merging and collapsing that happened.
Pts(x) == pts[rep[x]]

DirectConstraintsSolved ==
    phase = "done" =>
        /\ \A e \in prog.addr : <<e[1], 0>> \in Pts(e[2])
        /\ \A e \in prog.copy : Pts(e[1]) \subseteq Pts(e[2])
        /\ \A e \in prog.ngep : NormalGepTargets(Pts(e[1]), e[3], fi) \subseteq Pts(e[2])
        /\ \A e \in prog.vgep : VariantGepTargets(Pts(e[1])) \subseteq Pts(e[2])

\* What processLoad and processStore promise: for every pointee o of p,
\* "p --load--> d, o \in pts(p) ==> o --copy--> d", and likewise for stores.
LoadsAndStoresSolved ==
    phase = "done" =>
        /\ \A e \in prog.load : \A o \in Deref(e[1]) : Pts(o) \subseteq Pts(e[2])
        /\ \A e \in prog.store : \A o \in Deref(e[2]) : Pts(e[1]) \subseteq Pts(o)

\* The final solution answers every constraint of the program, of whatever
\* kind: what the rules of AndersenBase's solver promise together.
AllConstraintsSolved == DirectConstraintsSolved /\ LoadsAndStoresSolved

\* The promise holds for programs whose analysis never merges two nodes.
SolvedWithoutMerges ==
    (\A n \in Node : rep[n] = n) /\ redundant = {} => LoadsAndStoresSolved

\* A step never loses a target: it may only replace a field by its base.
NoLostTarget ==
    [][\A n \in Node : \A o \in pts[n] :
          o \in pts'[n] \/ (o[1] \in fi' /\ FIObjNode(o) \in pts'[n])]_vars

\* Solving reaches its fixed point and stops: an iteration of analyze is only
\* repeated because a copy edge, a call edge or a folded field is new.
Termination == <>(phase = "done")
=============================================================================
