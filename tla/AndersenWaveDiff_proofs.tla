---------------------- MODULE AndersenWaveDiff_proofs -----------------------
(***************************************************************************)
(* What holds of the wave solver for every set of programs, every number   *)
(* of pointers, sites and fields, every way of choosing representatives    *)
(* and every order of visits.  Each section adds to the inductive          *)
(* invariant what its theorem needs: types, difference propagation,        *)
(* merging, folded fields, the nodes of the graph, the wave, the geps, the *)
(* program's own constraints, the end of the analysis, loads and stores,   *)
(* indirect calls; the last two compare the result with field-insensitive  *)
(* solutions.                                                              *)
(***************************************************************************)
EXTENDS AndersenReference, Iteration_proofs

-----------------------------------------------------------------------------
(* Objects and the targets of geps. *)

LEMMA ObjNode == Obj \subseteq Node
  BY DEF Node

LEMMA BaseNode == \A b \in Base : <<b, 0>> \in Obj
  BY MaxFieldAssumption DEF Obj

LEMMA FIObjNodeType == \A o \in Obj : o[1] \in Base /\ FIObjNode(o) \in Obj
  BY MaxFieldAssumption DEF Obj, FIObjNode

LEMMA GepObjNodeType ==
  ASSUME NEW o \in Obj, NEW k \in 0 .. MaxField - 1, NEW F
  PROVE  GepObjNode(o, k, F) \in Obj
<1>1. PICK b \in Base, i \in 0 .. MaxField - 1 : o = <<b, i>>
  BY DEF Obj
<1>2. (i + k) % MaxField \in 0 .. MaxField - 1
  BY MaxFieldAssumption, SMT
<1>3. QED
  BY <1>1, <1>2, FIObjNodeType DEF GepObjNode, Obj

LEMMA GepTargetsType ==
  ASSUME NEW S \in SUBSET Obj, NEW k \in 0 .. MaxField - 1, NEW F
  PROVE  /\ NormalGepTargets(S, k, F) \subseteq Obj
         /\ VariantGepTargets(S) \subseteq Obj
<1>1. NormalGepTargets(S, k, F) \subseteq Obj
  BY GepObjNodeType DEF NormalGepTargets
<1>2. VariantGepTargets(S) \subseteq Obj
  BY FIObjNodeType DEF VariantGepTargets
<1>3. QED
  BY <1>1, <1>2

LEMMA CollapsibleType == \A S, F : Collapsible(S, F) \subseteq Base
  BY DEF Collapsible

LEMMA MovedEdgesType ==
  ASSUME NEW n \in Node, NEW r \in Node
  PROVE  /\ \A E \in SUBSET Pair : /\ MovePairs(E, n, r) \subseteq Pair
                                   /\ MoveCopy(E, n, r) \subseteq Pair
                                   /\ MoveVariantGep(E, n, r) \subseteq Pair
         /\ \A E \in SUBSET Gep : MoveNormalGep(E, n, r) \subseteq Gep
<1>1. ASSUME NEW E \in SUBSET Pair
      PROVE  MovePairs(E, n, r) \subseteq Pair
  BY <1>1 DEF MovePairs, Sub, Pair
<1>2. ASSUME NEW E \in SUBSET Pair
      PROVE  MoveCopy(E, n, r) \subseteq Pair /\ MoveVariantGep(E, n, r) \subseteq Pair
  BY <1>1 DEF MoveCopy, MoveVariantGep
<1>3. ASSUME NEW E \in SUBSET Gep
      PROVE  MoveNormalGep(E, n, r) \subseteq Gep
  BY DEF MoveNormalGep, Sub, Gep, Touches
<1>4. QED
  BY <1>1, <1>2, <1>3

-----------------------------------------------------------------------------
(* Type correctness. *)

LEMMA InitType == Init => TypeOK
<1> SUFFICES ASSUME Init PROVE TypeOK
  OBVIOUS
<1>1. prog \in ProgramType
  BY ProgramAssumption DEF Init
<1>2. pts \in [Node -> SUBSET Obj] /\ propa \in [Node -> SUBSET Obj]
  BY <1>1, BaseNode DEF Init, ProgramType
<1>3. /\ copy \subseteq Pair /\ vgep \subseteq Pair /\ ngep \subseteq Gep
      /\ load \subseteq Pair /\ store \subseteq Pair
  BY <1>1 DEF Init, ProgramType, Pair, Gep, Node
<1>4. worklist \subseteq Node /\ fi \subseteq Base
  BY <1>1 DEF Init, ProgramType, Node
<1>5. QED
  BY <1>1, <1>2, <1>3, <1>4 DEF Init, TypeOK

LEMMA GraphNodeType == TypeOK => GraphNode \subseteq Node /\ SCCEdges \subseteq Pair
<1> SUFFICES ASSUME TypeOK PROVE GraphNode \subseteq Node /\ SCCEdges \subseteq Pair
  OBVIOUS
<1>1. prog.nodes \subseteq Node
  BY DEF TypeOK, ProgramType
<1>2. GraphNode \subseteq Node
  BY <1>1, ObjNode DEF GraphNode, TypeOK
<1>3. SCCEdges \subseteq Pair
  BY DEF SCCEdges, TypeOK, GepPairs, Pair, Gep
<1>4. QED
  BY <1>2, <1>3

LEMMA MergeType ==
  ASSUME TypeOK, NEW n \in Node, NEW r \in Node, NEW p \in [Node -> SUBSET Obj],
         MergeNodeToRep(n, r, p)
  PROVE  /\ pts' \in [Node -> SUBSET Obj] /\ propa' \in [Node -> SUBSET Obj]
         /\ rep' \in [Node -> Node] /\ subs' \in [Node -> SUBSET Node]
         /\ copy' \subseteq Pair /\ vgep' \subseteq Pair /\ ngep' \subseteq Gep
         /\ load' \subseteq Pair /\ store' \subseteq Pair /\ pwc' \subseteq Node
<1>1. pts' \in [Node -> SUBSET Obj] /\ propa' \in [Node -> SUBSET Obj]
  BY DEF TypeOK, MergeNodeToRep, Forget
<1>2. rep' \in [Node -> Node] /\ subs' \in [Node -> SUBSET Node]
  BY DEF TypeOK, MergeNodeToRep, NodeReps
<1>3. /\ copy' \subseteq Pair /\ vgep' \subseteq Pair /\ ngep' \subseteq Gep
      /\ load' \subseteq Pair /\ store' \subseteq Pair
  BY MovedEdgesType DEF TypeOK, MergeNodeToRep
<1>4. pwc' \subseteq Node
  BY DEF TypeOK, MergeNodeToRep
<1>5. QED
  BY <1>1, <1>2, <1>3, <1>4

LEMMA BindingType ==
  ASSUME TypeOK, NEW c \in prog.calls, NEW f \in prog.funs, Len(c.args) = Len(f.params)
  PROVE  Binding(c, f) \subseteq Pair
<1>1. /\ c \in [fp : Ptr, args : Seq(Ptr), ret : SUBSET Ptr]
      /\ f \in [obj : Base, params : Seq(Ptr), ret : SUBSET Ptr]
  BY DEF TypeOK, ProgramType
<1>2. /\ c.args \in Seq(Ptr) /\ f.params \in Seq(Ptr)
      /\ f.ret \subseteq Ptr /\ c.ret \subseteq Ptr
  BY <1>1
<1>3. DOMAIN c.args = DOMAIN f.params
  BY <1>2
<1>4. \A i \in DOMAIN c.args : c.args[i] \in Ptr /\ f.params[i] \in Ptr
  BY <1>2, <1>3
<1>5. QED
  BY <1>2, <1>4 DEF Binding, Pair, Node

LEMMA FindType ==
  ASSUME NEW cycles, UNION cycles \subseteq Node, NEW root \in [cycles -> UNION cycles],
         NEW n \in Node
  PROVE  Find(cycles, root, n) \in Node
<1>1. CASE \E C \in cycles : n \in C
  <2>1. (CHOOSE C \in cycles : n \in C) \in cycles
    BY <1>1
  <2>2. root[CHOOSE C \in cycles : n \in C] \in UNION cycles
    BY <2>1
  <2>3. QED
    BY <1>1, <2>2 DEF Find
<1>2. CASE ~ \E C \in cycles : n \in C
  BY <1>2 DEF Find
<1>3. QED
  BY <1>1, <1>2

LEMMA SCCDetectType == TypeOK /\ SCCDetect => TypeOK'
<1> SUFFICES ASSUME TypeOK, SCCDetect PROVE TypeOK'
  OBVIOUS
<1> DEFINE cycles == Cycles(SCCEdges, GraphNode)
<1>1. PICK root \in [cycles -> UNION cycles] :
        /\ toMerge' = {<<n, Find(cycles, root, n)>> :
                          n \in {m \in UNION cycles : Find(cycles, root, m) # m}}
        /\ todo' = {Find(cycles, root, n) : n \in GraphNode}
        /\ dag' = {<<Find(cycles, root, e[1]), Find(cycles, root, e[2])>> : e \in SCCEdges}
  BY DEF SCCDetect
<1>2. UNION cycles \subseteq Node
  BY GraphNodeType DEF Cycles
<1> HIDE DEF cycles
<1>3. \A n \in Node : Find(cycles, root, n) \in Node
  BY <1>2, FindType
<1>4. toMerge' \subseteq Pair
  BY <1>1, <1>2, <1>3 DEF Pair
<1>5. todo' \subseteq Node
  BY <1>1, <1>3, GraphNodeType
<1>6. dag' \subseteq Pair
  <2>1. \A e \in SCCEdges : e[1] \in Node /\ e[2] \in Node
    BY GraphNodeType DEF Pair
  <2>2. QED
    BY <1>1, <1>3, <2>1 DEF Pair
<1>7. QED
  BY <1>4, <1>5, <1>6
  DEF SCCDetect, TypeOK, ptVars, repVars, edgeVars, objVars, collVars, workVars

LEMMA SentType ==
  ASSUME TypeOK, NEW n \in Node
  PROVE  /\ \A E \in SUBSET ngep : Fields(n, E) \subseteq Obj
         /\ \A d \in Node : Sent(n, d) \subseteq Obj
<1>1. Diff(n) \in SUBSET Obj
  BY DEF TypeOK, Diff
<1>2. \A e \in ngep : NormalGepTargets(Diff(n), e[3], fi) \subseteq Obj
  <2>1. \A e \in ngep : e[3] \in 0 .. MaxField - 1
    BY DEF TypeOK, Gep
  <2>2. QED
    BY <2>1, <1>1, GepTargetsType
<1>3. VariantGepTargets(Diff(n)) \subseteq Obj
  BY <1>1, FIObjNodeType DEF VariantGepTargets
<1>4. \A E \in SUBSET ngep : Fields(n, E) \subseteq Obj
  BY <1>2 DEF Fields
<1>5. ASSUME NEW d \in Node PROVE Sent(n, d) \subseteq Obj
  <2>1. Fields(n, {e \in ngep : e[1] = n /\ e[2] = d}) \subseteq Obj
    BY <1>4
  <2>2. QED
    BY <2>1, <1>1, <1>3 DEF Sent
<1>6. QED
  BY <1>4, <1>5

LEMMA ProcessNodeType == TypeOK /\ ProcessNode => TypeOK'
<1> SUFFICES ASSUME TypeOK, ProcessNode PROVE TypeOK'
  OBVIOUS
<1>1. CASE rep[cur] = cur
  <2>1. cur \in Node
    BY DEF TypeOK, ProcessNode
  <2>2. HandleCopyGep(cur)
    BY <1>1 DEF ProcessNode
  <2>3. pts' \in [Node -> SUBSET Obj] /\ propa' \in [Node -> SUBSET Obj]
    <3>1. \A d \in Node : pts[d] \cup Sent(cur, d) \in SUBSET Obj
      BY <2>1, SentType DEF TypeOK
    <3>2. QED
      BY <2>2, <3>1 DEF TypeOK, HandleCopyGep
  <2>4. flds' \subseteq Obj
    <3>1. Fields(cur, {e \in ngep : e[1] = cur}) \subseteq Obj
      BY <2>1, SentType
    <3>2. QED
      BY <2>2, <3>1 DEF TypeOK, HandleCopyGep
  <2>5. fi' \subseteq Base /\ coll' \subseteq Base
    BY <2>2, CollapsibleType DEF TypeOK, HandleCopyGep
  <2>6. worklist' \subseteq Node
    BY <2>2 DEF TypeOK, HandleCopyGep, Grown
  <2>7. QED
    BY <2>3, <2>4, <2>5, <2>6 DEF ProcessNode, TypeOK, repVars, edgeVars, wave
<1>2. CASE rep[cur] # cur
  BY <1>2 DEF ProcessNode, TypeOK, ptVars, repVars, edgeVars, wave
<1>3. QED
  BY <1>1, <1>2

LEMMA RetargetType ==
  ASSUME TypeOK, NEW f \in Obj
  PROVE  [n \in Node |-> Retarget(pts[n], f)] \in [Node -> SUBSET Obj]
<1>1. \A n \in Node : pts[n] \in SUBSET Obj
  BY DEF TypeOK
<1>2. QED
  BY <1>1, FIObjNodeType DEF Retarget

LEMMA FoldFieldType == ASSUME TypeOK, NEW f \in fold, FoldField(f) PROVE TypeOK'
<1> DEFINE r == rep[FIObjNode(f)]
           ptrs == {n \in Node : f \in pts[n]}
           folded == [n \in Node |-> Retarget(pts[n], f)]
<1>1. f \in Obj /\ f \in Node
  BY ObjNode DEF TypeOK
<1>2. r \in Node /\ rep[f] \in Node
  BY <1>1, FIObjNodeType, ObjNode DEF TypeOK
<1>3. folded \in [Node -> SUBSET Obj]
  BY <1>1, RetargetType
<1>4. /\ pts' \in [Node -> SUBSET Obj] /\ propa' \in [Node -> SUBSET Obj]
      /\ rep' \in [Node -> Node] /\ subs' \in [Node -> SUBSET Node]
      /\ copy' \subseteq Pair /\ vgep' \subseteq Pair /\ ngep' \subseteq Gep
      /\ load' \subseteq Pair /\ store' \subseteq Pair /\ pwc' \subseteq Node
  <2>1. CASE rep[f] # r
    <3>1. MergeNodeToRep(rep[f], r, folded)
      BY <2>1 DEF FoldField
    <3>2. QED
      BY <3>1, <1>2, <1>3, MergeType
  <2>2. CASE rep[f] = r
    <3>1. pts' = folded /\ UNCHANGED <<propa, repVars, edgeVars, pwc>>
      BY <2>2 DEF FoldField
    <3>2. QED
      BY <3>1, <1>3 DEF TypeOK, repVars, edgeVars
  <2>3. QED
    BY <2>1, <2>2
<1>5. coll' \subseteq Base
  <2>1. coll' = coll \cup (IF fold' = {} THEN CollapseBase(r) ELSE {})
    BY DEF FoldField
  <2>2. CollapseBase(r) \subseteq Base
    BY CollapsibleType DEF CollapseBase
  <2>3. QED
    BY <2>1, <2>2 DEF TypeOK
<1>6. fold' \subseteq Obj /\ redundant' \subseteq Obj
  BY <1>1 DEF FoldField, TypeOK
<1>7. worklist' \subseteq Node /\ reanalyze' \in BOOLEAN
  <2>1. /\ worklist' = worklist \cup Reps(ptrs)
        /\ reanalyze' = (reanalyze \/ ptrs # {})
    BY DEF FoldField
  <2>2. QED
    BY <2>1 DEF Reps, TypeOK
<1>8. /\ UNCHANGED <<prog, flds, phase, wave, cur, tmp, pend, resolved>>
      /\ fi' = fi
  BY DEF FoldField
<1>9. QED
  BY <1>4, <1>5, <1>6, <1>7, <1>8 DEF TypeOK, wave

LEMMA MergeSccNodeType ==
  ASSUME TypeOK, NEW e \in toMerge, MergeSccNode(e[1], e[2]) PROVE TypeOK'
<1>1. e[1] \in Node /\ e[2] \in Node /\ pts \in [Node -> SUBSET Obj]
  BY DEF TypeOK, Pair
<1>2. MergeNodeToRep(e[1], e[2], pts)
  BY DEF MergeSccNode
<1>3. /\ pts' \in [Node -> SUBSET Obj] /\ propa' \in [Node -> SUBSET Obj]
      /\ rep' \in [Node -> Node] /\ subs' \in [Node -> SUBSET Node]
      /\ copy' \subseteq Pair /\ vgep' \subseteq Pair /\ ngep' \subseteq Gep
      /\ load' \subseteq Pair /\ store' \subseteq Pair /\ pwc' \subseteq Node
  BY <1>1, <1>2, MergeType
<1>4. QED
  BY <1>3 DEF MergeSccNode, TypeOK, collVars, workVars

LEMMA PostProcessNodeType ==
  ASSUME TypeOK, NEW n \in worklist, PostProcessNode(n) PROVE TypeOK'
<1>1. Deref(n) \subseteq Node
  BY ObjNode DEF TypeOK, Deref
<1>2. pend' \subseteq Pair
  <2>1. /\ \A e \in load : e[2] \in Node
        /\ \A e \in store : e[1] \in Node
    BY DEF TypeOK, Pair
  <2>2. QED
    BY <1>1, <2>1 DEF PostProcessNode, Pair
<1>3. QED
  BY <1>2 DEF PostProcessNode, TypeOK, ptVars, repVars, edgeVars, objVars, wave, collVars

LEMMA AddCopyEdgeType ==
  ASSUME TypeOK, NEW e \in pend, AddCopyEdge(e) PROVE TypeOK'
<1>1. rep[e[1]] \in Node /\ rep[e[2]] \in Node
  BY DEF TypeOK, Pair
<1> DEFINE s == rep[e[1]]
           d == rep[e[2]]
<1>2. /\ copy' \subseteq Pair /\ propa' \in [Node -> SUBSET Obj]
      /\ worklist' \subseteq Node /\ reanalyze' \in BOOLEAN
  <2>1. CASE CanAddCopy(copy, s, d)
    <3>1. /\ copy' = copy \cup {<<s, d>>}
          /\ propa' = [propa EXCEPT ![s] = propa[s] \cap propa[d]]
          /\ worklist' = worklist \cup {n \in {s} : phase = "cg"}
          /\ reanalyze' = TRUE
      BY <2>1 DEF AddCopyEdge, Forget
    <3>2. QED
      BY <3>1, <1>1 DEF TypeOK, Pair
  <2>2. CASE ~CanAddCopy(copy, s, d)
    BY <2>2 DEF AddCopyEdge, TypeOK
  <2>3. QED
    BY <2>1, <2>2
<1>3. QED
  BY <1>2 DEF AddCopyEdge, TypeOK, repVars, objVars, wave, collVars

LEMMA UpdateCallGraphType == TypeOK /\ UpdateCallGraph => TypeOK'
<1> SUFFICES ASSUME TypeOK, UpdateCallGraph PROVE TypeOK'
  OBVIOUS
<1>1. PICK new \in SUBSET Callees :
        /\ resolved' = resolved \cup new
        /\ reanalyze' = (reanalyze \/ new # {})
        /\ pend' = UNION {Binding(x[1], x[2]) : x \in new}
  BY DEF UpdateCallGraph
<1>2. pend' \subseteq Pair
  <2>1. ASSUME NEW x \in new PROVE Binding(x[1], x[2]) \subseteq Pair
    <3>1. x[1] \in prog.calls /\ x[2] \in prog.funs /\ Len(x[1].args) = Len(x[2].params)
      BY DEF Callees, Matches
    <3>2. QED
      BY <3>1, BindingType
  <2>2. QED
    BY <1>1, <2>1
<1>3. resolved' \subseteq prog.calls \X prog.funs /\ reanalyze' \in BOOLEAN
  BY <1>1 DEF Callees, TypeOK
<1>4. QED
  BY <1>2, <1>3
  DEF UpdateCallGraph, TypeOK, ptVars, repVars, edgeVars, objVars, wave, collVars, workVars

LEMMA FinalizeType == TypeOK /\ Finalize => TypeOK'
<1> SUFFICES ASSUME TypeOK, Finalize PROVE TypeOK'
  OBVIOUS
<1>1. rep' \in [Node -> Node] /\ subs' \in [Node -> SUBSET Node] /\ flds' \subseteq Obj
  BY DEF Finalize, TypeOK
<1>2. QED
  BY <1>1 DEF Finalize, TypeOK, ptVars, edgeVars, wave, collVars, workVars

LEMMA StepType == TypeOK /\ [Next]_vars => TypeOK'
<1> SUFFICES ASSUME TypeOK, [Next]_vars PROVE TypeOK'
  OBVIOUS
<1> USE DEF ptVars, repVars, edgeVars, objVars, wave, collVars, workVars
<1>1. CASE SCCDetect
  BY <1>1, SCCDetectType
<1>2. CASE \E e \in toMerge : MergeSccNode(e[1], e[2])
  BY <1>2, MergeSccNodeType
<1>3. CASE EndMerge
  BY <1>3 DEF EndMerge, TypeOK
<1>4. ASSUME NEW n \in todo, CollapsePWCNode(n) PROVE TypeOK'
  <2>1. coll' \subseteq Base
    BY <1>4, CollapsibleType DEF CollapsePWCNode
  <2>2. QED
    BY <1>4, <2>1 DEF CollapsePWCNode, TypeOK
<1>5. CASE ProcessNode
  BY <1>5, ProcessNodeType
<1>6. ASSUME NEW b \in coll, CollapseField(b) PROVE TypeOK'
  <2>1. coll' \subseteq Base
    BY <1>6, CollapsibleType DEF CollapseField, CollapseBase, TypeOK
  <2>2. fi' \subseteq Base /\ fold' \subseteq Obj
    BY <1>6 DEF CollapseField, TypeOK
  <2>3. QED
    BY <1>6, <2>1, <2>2 DEF CollapseField, TypeOK
<1>7. CASE \E f \in fold : FoldField(f)
  BY <1>7, FoldFieldType
<1>8. CASE EndWave
  BY <1>8 DEF EndWave, TypeOK
<1>9. ASSUME NEW n \in worklist, PopAgain(n) PROVE TypeOK'
  BY <1>9 DEF PopAgain, TypeOK
<1>10. ASSUME NEW n \in worklist, PostProcessNode(n) PROVE TypeOK'
  BY <1>10, PostProcessNodeType
<1>11. CASE EndAgain
  <2>1. Reps(tmp) \subseteq Node
    BY DEF Reps, TypeOK
  <2>2. QED
    BY <1>11, <2>1 DEF EndAgain, TypeOK
<1>12. CASE \E e \in pend : AddCopyEdge(e)
  BY <1>12, AddCopyEdgeType
<1>13. CASE UpdateCallGraph
  BY <1>13, UpdateCallGraphType
<1>14. CASE Reanalyze
  BY <1>14 DEF Reanalyze, TypeOK
<1>15. CASE Finalize
  BY <1>15, FinalizeType
<1>16. CASE UNCHANGED vars
  BY <1>16 DEF vars, TypeOK
<1>17. QED
  BY <1>1, <1>2, <1>3, <1>4, <1>5, <1>6, <1>7, <1>8, <1>9, <1>10, <1>11, <1>12, <1>13,
     <1>14, <1>15, <1>16 DEF Next, Step, Terminated

\* The state keeps its types: in particular a gep never leaves the fields of
\* its site, whatever the offsets and however often they are added up.
THEOREM TypeCorrect == Spec => []TypeOK
<1>1. QED
  BY InitType, StepType, PTL DEF Spec

-----------------------------------------------------------------------------
(* Difference propagation.  The invariant behind PropagatedReached: a node *)
(* only counts as propagated what it points to (up to folding), and the    *)
(* fields being folded belong to sites already marked field-insensitive.   *)

FoldInFi == \A f \in fold : f[1] \in fi

PropaHeld == \A n \in Node : \A o \in propa[n] : Holds(o, pts[n])

PropagationInv == TypeOK /\ FoldInFi /\ PropaHeld /\ PropagatedReached

\* Merging node n into r, after a change of the points-to sets that keeps
\* every target up to folding.
LEMMA MergePropagation ==
  ASSUME PropagationInv, NEW n \in Node, NEW r \in Node, NEW p \in [Node -> SUBSET Obj],
         \A m \in Node : \A o \in Obj : Holds(o, pts[m]) => Holds(o, p[m]),
         MergeNodeToRep(n, r, p), fi' = fi
  PROVE  PropaHeld' /\ PropagatedReached'
<1>1. \A m \in Node : propa'[m] \subseteq propa[m] /\ p[m] \subseteq pts'[m]
  BY DEF MergeNodeToRep, Forget, PropagationInv, TypeOK
<1>2. \A m \in Node, o \in Obj : Holds(o, pts[m]) => Holds(o, pts[m])'
  BY <1>1 DEF Holds
<1>3. \A m \in Node : propa[m] \subseteq Obj
  BY DEF PropagationInv, TypeOK
<1>4. PropaHeld'
  BY <1>1, <1>2, <1>3 DEF PropaHeld, PropagationInv
<1>5. ASSUME NEW e \in copy', NEW o \in propa'[e[1]]
      PROVE  Holds(o, pts[e[2]])'
  <2>1. PICK g \in copy : e = <<Sub(g[1], n, r), Sub(g[2], n, r)>>
    BY DEF MergeNodeToRep, MoveCopy, MovePairs
  <2>2. g[1] \in Node /\ g[2] \in Node
    BY DEF PropagationInv, TypeOK, Pair
  <2>3. o \in propa[g[1]]
    <3>1. CASE g[1] = n
      BY <3>1, <2>1, <2>2 DEF Sub, MergeNodeToRep, Forget, PropagationInv, TypeOK
    <3>2. CASE g[1] # n
      BY <3>2, <2>1, <2>2, <1>1 DEF Sub
    <3>3. QED
      BY <3>1, <3>2
  <2>4. Holds(o, p[g[2]])
    BY <2>2, <2>3, <1>3 DEF PropagationInv, PropagatedReached
  <2>5. p[g[2]] \subseteq pts'[e[2]]
    BY <2>1, <2>2 DEF Sub, MergeNodeToRep, PropagationInv, TypeOK
  <2>6. QED
    BY <2>4, <2>5 DEF Holds
<1>6. PropagatedReached'
  BY <1>5 DEF PropagatedReached
<1>7. QED
  BY <1>4, <1>6

LEMMA RetargetHolds ==
  ASSUME TypeOK, NEW f \in Obj, f[1] \in fi, NEW S \in SUBSET Obj, NEW o \in Obj, Holds(o, S)
  PROVE  Holds(o, Retarget(S, f))
<1>1. CASE f \notin S
  BY <1>1 DEF Retarget
<1>2. CASE f \in S
  <2>1. Retarget(S, f) = (S \ {f}) \cup {FIObjNode(f)}
    BY <1>2 DEF Retarget
  <2>2. CASE o \in S
    BY <2>1, <2>2 DEF Holds
  <2>3. CASE o[1] \in fi /\ FIObjNode(o) \in S
    <3>1. CASE FIObjNode(o) = f
      <4>1. FIObjNode(o) = FIObjNode(f)
        BY <3>1 DEF FIObjNode
      <4>2. QED
        BY <4>1, <2>1, <2>3 DEF Holds
    <3>2. CASE FIObjNode(o) # f
      BY <3>2, <2>1, <2>3 DEF Holds
    <3>3. QED
      BY <3>1, <3>2
  <2>4. QED
    BY <2>2, <2>3 DEF Holds
<1>3. QED
  BY <1>1, <1>2

\* What a step that keeps the edges and forgets nothing propagated must not
\* do: lose a target.
LEMMA KeptPropagation ==
  ASSUME PropagationInv, TypeOK', copy' \subseteq copy, fold' \subseteq fold,
         \A n \in Node : propa'[n] \subseteq propa[n] /\ pts[n] \subseteq pts'[n],
         fi \subseteq fi'
  PROVE  FoldInFi' /\ PropaHeld' /\ PropagatedReached'
<1>1. \A n \in Node : \A o \in Obj : Holds(o, pts[n]) => Holds(o, pts[n])'
  BY DEF Holds
<1>2. \A n \in Node : propa[n] \subseteq Obj
  BY DEF PropagationInv, TypeOK
<1>3. FoldInFi'
  BY DEF FoldInFi, PropagationInv
<1>4. PropaHeld'
  BY <1>1, <1>2 DEF PropaHeld, PropagationInv
<1>5. PropagatedReached'
  <2>1. \A e \in copy : e[1] \in Node /\ e[2] \in Node
    BY DEF PropagationInv, TypeOK, Pair
  <2>2. QED
    BY <1>1, <1>2, <2>1 DEF PropagatedReached, PropagationInv
<1>6. QED
  BY <1>3, <1>4, <1>5

LEMMA ProcessNodePropagation ==
  ASSUME PropagationInv, TypeOK', ProcessNode
  PROVE  FoldInFi' /\ PropaHeld' /\ PropagatedReached'
<1>1. CASE rep[cur] = cur
  <2>1. cur \in Node
    BY DEF PropagationInv, TypeOK, ProcessNode
  <2>2. HandleCopyGep(cur)
    BY <1>1 DEF ProcessNode
  <2>3. /\ \A n \in Node : pts[n] \subseteq pts'[n]
        /\ fi \subseteq fi' /\ fold' = fold /\ copy' = copy
        /\ \A d \in Node : Sent(cur, d) \subseteq pts'[d]
        /\ propa' = [propa EXCEPT ![cur] = pts[cur]]
    BY <2>2 DEF HandleCopyGep, ProcessNode, edgeVars
  <2>4. \A n \in Node : \A o \in Obj : Holds(o, pts[n]) => Holds(o, pts[n])'
    BY <2>3 DEF Holds
  <2>5. /\ propa \in [Node -> SUBSET Obj] /\ pts \in [Node -> SUBSET Obj]
        /\ \A e \in copy : e[1] \in Node /\ e[2] \in Node
    BY DEF PropagationInv, TypeOK, Pair
  <2>6. FoldInFi'
    BY <2>3 DEF FoldInFi, PropagationInv
  <2>7. ASSUME NEW n \in Node, NEW o \in propa'[n] PROVE Holds(o, pts[n])'
    <3>1. CASE n = cur
      BY <3>1, <2>1, <2>3, <2>5, <2>7 DEF Holds
    <3>2. CASE n # cur
      <4>1. o \in propa[n] /\ o \in Obj
        BY <3>2, <2>3, <2>5, <2>7
      <4>2. QED
        BY <4>1, <2>4 DEF PropaHeld, PropagationInv
    <3>3. QED
      BY <3>1, <3>2
  <2>8. ASSUME NEW e \in copy, NEW o \in propa'[e[1]] PROVE Holds(o, pts[e[2]])'
    <3>1. CASE o \in propa[e[1]]
      BY <3>1, <2>4, <2>5 DEF PropagatedReached, PropagationInv
    <3>2. CASE o \notin propa[e[1]]
      <4>1. e[1] = cur /\ o \in Diff(cur)
        BY <3>2, <2>1, <2>3, <2>5, <2>8 DEF Diff
      <4>2. o \in Sent(cur, e[2])
        <5>1. e = <<cur, e[2]>>
          BY <4>1 DEF PropagationInv, TypeOK, Pair
        <5>2. QED
          BY <5>1, <4>1 DEF Sent
      <4>3. QED
        BY <4>2, <2>3, <2>5 DEF Holds
    <3>3. QED
      BY <3>1, <3>2
  <2>9. QED
    BY <2>3, <2>6, <2>7, <2>8 DEF PropaHeld, PropagatedReached
<1>2. CASE rep[cur] # cur
  <2>1. /\ UNCHANGED <<pts, propa, fi>>
        /\ copy' = copy /\ fold' = fold
    BY <1>2 DEF ProcessNode, ptVars, edgeVars
  <2>2. QED
    BY <2>1, KeptPropagation
<1>3. QED
  BY <1>1, <1>2

LEMMA FoldFieldPropagation ==
  ASSUME PropagationInv, TypeOK', NEW f \in fold, FoldField(f)
  PROVE  FoldInFi' /\ PropaHeld' /\ PropagatedReached'
<1> DEFINE r == rep[FIObjNode(f)]
           folded == [n \in Node |-> Retarget(pts[n], f)]
<1>1. TypeOK /\ f \in Obj /\ f[1] \in fi
  BY DEF PropagationInv, TypeOK, FoldInFi
<1>2. r \in Node /\ rep[f] \in Node
  BY <1>1, FIObjNodeType, ObjNode DEF TypeOK
<1>3. folded \in [Node -> SUBSET Obj]
  BY <1>1, RetargetType
<1>4. \A m \in Node : \A o \in Obj : Holds(o, pts[m]) => Holds(o, folded[m])
  <2>1. \A m \in Node : pts[m] \in SUBSET Obj
    BY <1>1 DEF TypeOK
  <2>2. QED
    BY <1>1, <2>1, RetargetHolds
<1>5. fi' = fi /\ fold' \subseteq fold
  BY DEF FoldField
<1>6. FoldInFi'
  BY <1>5 DEF FoldInFi, PropagationInv
<1>7. CASE rep[f] # r
  <2>1. MergeNodeToRep(rep[f], r, folded)
    BY <1>7 DEF FoldField
  <2> HIDE DEF folded, r
  <2>2. QED
    BY <2>1, <1>2, <1>3, <1>4, <1>5, <1>6, MergePropagation
<1>8. CASE rep[f] = r
  <2>1. pts' = folded /\ propa' = propa /\ copy' = copy
    BY <1>8 DEF FoldField, edgeVars
  <2>2. \A m \in Node : \A o \in Obj : Holds(o, pts[m]) => Holds(o, pts[m])'
    <3> HIDE DEF folded
    <3>1. QED
      BY <2>1, <1>4, <1>5 DEF Holds
  <2>3. /\ propa \in [Node -> SUBSET Obj]
        /\ \A e \in copy : e[1] \in Node /\ e[2] \in Node
    BY <1>1 DEF TypeOK, Pair
  <2>4. PropaHeld'
    BY <2>1, <2>2, <2>3 DEF PropaHeld, PropagationInv
  <2>5. PropagatedReached'
    BY <2>1, <2>2, <2>3 DEF PropagatedReached, PropagationInv
  <2>6. QED
    BY <1>6, <2>4, <2>5
<1>9. QED
  BY <1>7, <1>8

LEMMA AddCopyEdgePropagation ==
  ASSUME PropagationInv, TypeOK', NEW e \in pend, AddCopyEdge(e)
  PROVE  FoldInFi' /\ PropaHeld' /\ PropagatedReached'
<1> DEFINE s == rep[e[1]]
           d == rep[e[2]]
<1>1. /\ pts' = pts /\ fi' = fi /\ fold' = fold
      /\ TypeOK
  BY DEF AddCopyEdge, objVars, collVars, PropagationInv
<1>2. s \in Node /\ d \in Node
  BY <1>1 DEF TypeOK, Pair
<1>3. CASE CanAddCopy(copy, s, d)
  <2>1. copy' = copy \cup {<<s, d>>} /\ propa' = [propa EXCEPT ![s] = propa[s] \cap propa[d]]
    BY <1>3 DEF AddCopyEdge, Forget
  <2> HIDE DEF s, d
  <2>2. \A n \in Node : propa'[n] \subseteq propa[n] /\ propa'[n] \subseteq Obj
    BY <2>1, <1>1, <1>2 DEF TypeOK
  <2>3. \A n \in Node : \A o \in Obj : Holds(o, pts[n]) => Holds(o, pts[n])'
    BY <1>1 DEF Holds
  <2>4. FoldInFi' /\ PropaHeld'
    BY <1>1, <2>2, <2>3 DEF FoldInFi, PropaHeld, PropagationInv
  <2>5. ASSUME NEW g \in copy', NEW o \in propa'[g[1]] PROVE Holds(o, pts[g[2]])'
    <3>1. CASE g \in copy
      <4>1. g[1] \in Node /\ g[2] \in Node
        BY <3>1, <1>1 DEF TypeOK, Pair
      <4>2. QED
        BY <3>1, <4>1, <2>2, <2>3, <2>5 DEF PropagatedReached, PropagationInv
    <3>2. CASE g = <<s, d>>
      <4>1. o \in propa[d] /\ o \in Obj
        BY <3>2, <2>1, <2>2, <1>1, <1>2, <2>5 DEF TypeOK
      <4>2. QED
        BY <3>2, <4>1, <1>2, <2>3 DEF PropaHeld, PropagationInv
    <3>3. QED
      BY <3>1, <3>2, <2>1
  <2>6. QED
    BY <2>4, <2>5 DEF PropagatedReached
<1>4. CASE ~CanAddCopy(copy, s, d)
  BY <1>1, <1>4, KeptPropagation DEF AddCopyEdge
<1>5. QED
  BY <1>3, <1>4

LEMMA InitPropagation == Init => PropagationInv
<1> SUFFICES ASSUME Init PROVE PropagationInv
  OBVIOUS
<1>1. TypeOK
  BY InitType
<1>2. FoldInFi /\ PropaHeld
  BY DEF Init, FoldInFi, PropaHeld
<1>3. PropagatedReached
  BY <1>1 DEF Init, PropagatedReached, TypeOK, Pair
<1>4. QED
  BY <1>1, <1>2, <1>3 DEF PropagationInv

LEMMA StepPropagation == PropagationInv /\ [Next]_vars => PropagationInv'
<1> SUFFICES ASSUME PropagationInv, [Next]_vars PROVE PropagationInv'
  OBVIOUS
<1>1. TypeOK'
  BY StepType DEF PropagationInv
<1>2. SUFFICES FoldInFi' /\ PropaHeld' /\ PropagatedReached'
  BY <1>1 DEF PropagationInv
<1>3. ASSUME pts' = pts, propa' = propa, copy' = copy, fi' = fi, fold' = fold
      PROVE  FoldInFi' /\ PropaHeld' /\ PropagatedReached'
  BY <1>1, <1>3, KeptPropagation
<1> USE DEF ptVars, edgeVars, objVars, collVars
<1>4. CASE SCCDetect
  BY <1>4, <1>3 DEF SCCDetect
<1>5. ASSUME NEW e \in toMerge, MergeSccNode(e[1], e[2])
      PROVE  FoldInFi' /\ PropaHeld' /\ PropagatedReached'
  <2>1. /\ MergeNodeToRep(e[1], e[2], pts)
        /\ fi' = fi /\ fold' = fold
    BY <1>5 DEF MergeSccNode
  <2>2. e[1] \in Node /\ e[2] \in Node /\ pts \in [Node -> SUBSET Obj]
    BY DEF PropagationInv, TypeOK, Pair
  <2>3. PropaHeld' /\ PropagatedReached'
    BY <2>1, <2>2, MergePropagation
  <2>4. QED
    BY <2>1, <2>3 DEF FoldInFi, PropagationInv
<1>6. CASE EndMerge
  BY <1>6, <1>3 DEF EndMerge
<1>7. CASE \E n \in todo : CollapsePWCNode(n)
  BY <1>7, <1>3 DEF CollapsePWCNode
<1>8. CASE ProcessNode
  BY <1>8, <1>1, ProcessNodePropagation
<1>9. ASSUME NEW b \in coll, CollapseField(b)
      PROVE  FoldInFi' /\ PropaHeld' /\ PropagatedReached'
  <2>1. /\ pts' = pts /\ propa' = propa /\ copy' = copy
        /\ fi' = fi \cup {b}
        /\ fold' = {f \in flds : f[1] = b} \ redundant
    BY <1>9 DEF CollapseField
  <2>2. FoldInFi'
    BY <2>1 DEF FoldInFi
  <2>3. \A n \in Node : \A o \in Obj : Holds(o, pts[n]) => Holds(o, pts[n])'
    BY <2>1 DEF Holds
  <2>4. /\ propa \in [Node -> SUBSET Obj]
        /\ \A e \in copy : e[1] \in Node /\ e[2] \in Node
    BY DEF PropagationInv, TypeOK, Pair
  <2>5. PropaHeld' /\ PropagatedReached'
    BY <2>1, <2>3, <2>4 DEF PropaHeld, PropagatedReached, PropagationInv
  <2>6. QED
    BY <2>2, <2>5
<1>10. CASE \E f \in fold : FoldField(f)
  BY <1>10, <1>1, FoldFieldPropagation
<1>11. CASE EndWave
  BY <1>11, <1>3 DEF EndWave
<1>12. CASE \E n \in worklist : PopAgain(n) \/ PostProcessNode(n)
  BY <1>12, <1>3 DEF PopAgain, PostProcessNode
<1>13. CASE EndAgain
  BY <1>13, <1>3 DEF EndAgain
<1>14. CASE \E e \in pend : AddCopyEdge(e)
  BY <1>14, <1>1, AddCopyEdgePropagation
<1>15. CASE UpdateCallGraph
  BY <1>15, <1>3 DEF UpdateCallGraph
<1>16. CASE Reanalyze
  BY <1>16, <1>3 DEF Reanalyze
<1>17. CASE Finalize
  BY <1>17, <1>3 DEF Finalize
<1>18. CASE UNCHANGED vars
  BY <1>18, <1>3 DEF vars
<1>19. QED
  BY <1>4, <1>5, <1>6, <1>7, <1>8, <1>9, <1>10, <1>11, <1>12, <1>13, <1>14, <1>15, <1>16,
     <1>17, <1>18 DEF Next, Step, Terminated

\* Difference propagation is sound: whatever a node is recorded to have
\* propagated is in the set of every copy successor, although edges are
\* added, retargeted and merged and fields are folded between two visits.
THEOREM DifferencePropagation == Spec => []PropagatedReached
<1>1. PropagationInv => PropagatedReached
  BY DEF PropagationInv
<1>2. QED
  BY <1>1, InitPropagation, StepPropagation, PTL DEF Spec

Kept == \A n \in Node : \A o \in pts[n] :
            o \in pts'[n] \/ (o[1] \in fi' /\ FIObjNode(o) \in pts'[n])

LEMMA StepKept == PropagationInv /\ [Next]_vars => Kept
<1> SUFFICES ASSUME PropagationInv, [Next]_vars PROVE Kept
  OBVIOUS
<1>1. TypeOK
  BY DEF PropagationInv
<1>2. ASSUME \A n \in Node : pts[n] \subseteq pts'[n] PROVE Kept
  BY <1>2 DEF Kept
<1> USE DEF ptVars
<1>3. ASSUME NEW e \in toMerge, MergeSccNode(e[1], e[2]) PROVE Kept
  <2>1. pts' = [pts EXCEPT ![e[2]] = pts[e[2]] \cup pts[e[1]]]
    BY <1>3 DEF MergeSccNode, MergeNodeToRep
  <2>2. QED
    BY <2>1, <1>1, <1>2 DEF TypeOK
<1>4. CASE ProcessNode
  <2>1. \A n \in Node : pts[n] \subseteq pts'[n]
    BY <1>4, <1>1 DEF ProcessNode, HandleCopyGep, TypeOK
  <2>2. QED
    BY <2>1, <1>2
<1>5. ASSUME NEW f \in fold, FoldField(f) PROVE Kept
  <2> DEFINE folded == [n \in Node |-> Retarget(pts[n], f)]
  <2>1. f[1] \in fi /\ fi' = fi /\ f \in Obj
    BY <1>1, <1>5 DEF PropagationInv, FoldInFi, FoldField, TypeOK
  <2>2. folded \in [Node -> SUBSET Obj]
    BY <1>1, <2>1, RetargetType
  <2>3. \A n \in Node : folded[n] \subseteq pts'[n]
    <3>1. CASE rep[f] # rep[FIObjNode(f)]
      <4>1. pts' = [folded EXCEPT ![rep[FIObjNode(f)]] =
                       folded[rep[FIObjNode(f)]] \cup folded[rep[f]]]
        BY <1>5, <3>1 DEF FoldField, MergeNodeToRep
      <4> HIDE DEF folded
      <4>2. QED
        BY <4>1, <2>2
    <3>2. CASE rep[f] = rep[FIObjNode(f)]
      BY <1>5, <3>2 DEF FoldField
    <3>3. QED
      BY <3>1, <3>2
  <2>4. ASSUME NEW n \in Node, NEW o \in pts[n]
        PROVE  o \in pts'[n] \/ (o[1] \in fi' /\ FIObjNode(o) \in pts'[n])
    <3>1. CASE o = f
      <4>1. FIObjNode(f) \in folded[n]
        BY <3>1 DEF Retarget
      <4>2. QED
        BY <4>1, <3>1, <2>1, <2>3
    <3>2. CASE o # f
      BY <3>2, <2>3 DEF Retarget
    <3>3. QED
      BY <3>1, <3>2
  <2>5. QED
    BY <2>4 DEF Kept
<1>6. ASSUME pts' = pts PROVE Kept
  BY <1>2, <1>6
<1>7. CASE SCCDetect \/ EndMerge \/ EndWave \/ EndAgain \/ UpdateCallGraph \/ Reanalyze
           \/ Finalize \/ UNCHANGED vars
  BY <1>7, <1>6 DEF SCCDetect, EndMerge, EndWave, EndAgain, UpdateCallGraph, Reanalyze,
                    Finalize, vars
<1>8. CASE \E n \in todo : CollapsePWCNode(n)
  BY <1>8, <1>6 DEF CollapsePWCNode
<1>9. CASE \E b \in coll : CollapseField(b)
  BY <1>9, <1>6 DEF CollapseField
<1>10. CASE \E n \in worklist : PopAgain(n) \/ PostProcessNode(n)
  BY <1>10, <1>6 DEF PopAgain, PostProcessNode
<1>11. CASE \E e \in pend : AddCopyEdge(e)
  BY <1>11, <1>6 DEF AddCopyEdge
<1>12. QED
  BY <1>3, <1>4, <1>5, <1>7, <1>8, <1>9, <1>10, <1>11 DEF Next, Step, Terminated

\* The points-to sets only grow, except that a field may give way to its
\* site: no merge and no collapse loses a target of any pointer.
THEOREM TargetsKept == Spec => NoLostTarget
<1>1. PropagationInv /\ [Next]_vars => [Kept]_vars
  BY StepKept
<1>2. QED
  BY <1>1, InitPropagation, StepPropagation, PTL DEF Spec, NoLostTarget, Kept

-----------------------------------------------------------------------------
(* Merging of nodes: however cycles and collapsed fields are merged, the   *)
(* maps nodeToRepMap and nodeToSubsMap stay inverse to each other and the  *)
(* merged nodes leave the constraint graph.                                *)


RepIdempotent == \A n \in Node : rep[rep[n]] = rep[n]

DetachedPair(e) == rep[e[1]] = e[1] /\ rep[e[2]] = e[2]

EdgesDetached ==
    \A e \in copy \cup vgep \cup load \cup store \cup GepPairs(ngep) : DetachedPair(e)

\* A visit or a collapse in progress belongs to a wave.
VisitInWave ==
    cur # NoNode \/ coll # {} \/ fold # {} => phase \in {"wave", "again"}

\* The merges that cycle detection asked for: between representatives, each
\* node merged once, and never into a node that is merged itself.
PendingMerges ==
    /\ toMerge # {} => phase = "merge"
    /\ \A e \in toMerge : DetachedPair(e)
    /\ \A e, g \in toMerge : e[2] # g[1] /\ (e[1] = g[1] => e = g)

MergeInv ==
    TypeOK /\ RepIdempotent /\ RepSubsAgree /\ EdgesDetached /\ VisitInWave /\ PendingMerges

-----------------------------------------------------------------------------
(* The operators that move edges. *)

LEMMA MovedPair ==
  ASSUME NEW n, NEW r
  PROVE  /\ \A E : \A e \in MovePairs(E, n, r) :
                \E g \in E : e = <<Sub(g[1], n, r), Sub(g[2], n, r)>>
         /\ \A E : \A e \in MoveCopy(E, n, r) :
                \E g \in E : e = <<Sub(g[1], n, r), Sub(g[2], n, r)>>
         /\ \A E : \A e \in MoveVariantGep(E, n, r) :
                e = <<r, r>> \/ \E g \in E : e = <<Sub(g[1], n, r), Sub(g[2], n, r)>>
<1>1. \A E : \A e \in MovePairs(E, n, r) :
         \E g \in E : e = <<Sub(g[1], n, r), Sub(g[2], n, r)>>
  BY DEF MovePairs
<1>2. QED
  BY <1>1 DEF MoveCopy, MoveVariantGep

LEMMA MovedNormalGep ==
  ASSUME NEW n, NEW r, NEW E \in SUBSET Gep, NEW e \in MoveNormalGep(E, n, r)
  PROVE  \E g \in E : e[1] = Sub(g[1], n, r) /\ e[2] = Sub(g[2], n, r)
<1>1. CASE \E g \in E : ~Touches(g, n) /\ e = g
  BY <1>1 DEF Sub, Touches
<1>2. CASE \E g \in E : e = <<Sub(g[1], n, r), Sub(g[2], n, r), g[3]>>
  BY <1>2
<1>3. QED
  BY <1>1, <1>2 DEF MoveNormalGep

-----------------------------------------------------------------------------
(* One merge. *)

LEMMA MergeReps ==
  ASSUME TypeOK, RepIdempotent, RepSubsAgree, phase # "done", NEW n \in Node, NEW r \in Node,
         n # r, rep[n] = n, rep[r] = r, NEW p, MergeNodeToRep(n, r, p)
  PROVE  /\ \A m \in Node : rep'[m] = IF rep[m] = n THEN r ELSE rep[m]
         /\ RepIdempotent'
         /\ \A q \in Node : subs'[q] = {m \in Node \ {q} : rep'[m] = q}
<1>1. \A q \in Node : subs[q] = {m \in Node \ {q} : rep[m] = q}
  BY DEF RepSubsAgree
<1>2. \A m \in Node : rep'[m] = IF rep[m] = n THEN r ELSE rep[m]
  BY <1>1 DEF MergeNodeToRep, NodeReps
<1>3. rep \in [Node -> Node] /\ subs \in [Node -> SUBSET Node]
  BY DEF TypeOK
<1>4. RepIdempotent'
  <2>1. ASSUME NEW m \in Node PROVE rep'[rep'[m]] = rep'[m]
    BY <1>2, <1>3 DEF RepIdempotent
  <2>2. QED
    BY <2>1 DEF RepIdempotent
<1>5. ASSUME NEW q \in Node PROVE subs'[q] = {m \in Node \ {q} : rep'[m] = q}
  <2>1. subs' = [subs EXCEPT ![r] = subs[r] \cup {n} \cup subs[n], ![n] = {}]
    BY DEF MergeNodeToRep
  <2>2. CASE q = n
    <3>1. subs'[q] = {}
      BY <2>1, <2>2, <1>3
    <3>2. {m \in Node \ {q} : rep'[m] = q} = {}
      BY <1>2, <2>2
    <3>3. QED
      BY <3>1, <3>2
  <2>3. CASE q = r
    <3>1. subs'[q] = subs[r] \cup {n} \cup subs[n]
      BY <2>1, <2>3, <1>3
    <3>2. QED
      BY <3>1, <1>1, <1>2, <2>3
  <2>4. CASE q # n /\ q # r
    <3>1. subs'[q] = subs[q]
      BY <2>1, <2>4, <1>3
    <3>2. QED
      BY <3>1, <1>1, <1>2, <2>4
  <2>5. QED
    BY <2>2, <2>3, <2>4
<1>6. QED
  BY <1>2, <1>4, <1>5

LEMMA MergeEdges ==
  ASSUME TypeOK, RepIdempotent, RepSubsAgree, EdgesDetached, phase # "done",
         NEW n \in Node, NEW r \in Node, n # r, rep[n] = n, rep[r] = r, NEW p,
         MergeNodeToRep(n, r, p)
  PROVE  EdgesDetached'
<1>1. \A m \in Node : rep'[m] = IF rep[m] = n THEN r ELSE rep[m]
  BY MergeReps
<1>2. \A m \in Node : rep[m] = m => rep'[Sub(m, n, r)] = Sub(m, n, r)
  BY <1>1 DEF Sub
<1>3. \A e \in Pair : DetachedPair(e)
         => \A g : g[1] = Sub(e[1], n, r) /\ g[2] = Sub(e[2], n, r) => DetachedPair(g)'
  BY <1>2 DEF DetachedPair, Pair
<1>4. rep'[r] = r
  BY <1>1
<1>5. /\ copy \subseteq Pair /\ vgep \subseteq Pair /\ load \subseteq Pair
      /\ store \subseteq Pair /\ GepPairs(ngep) \subseteq Pair /\ ngep \subseteq Gep
  BY DEF TypeOK, GepPairs, Gep, Pair
<1>6. ASSUME NEW e \in copy' \cup load' \cup store' PROVE DetachedPair(e)'
  <2>1. PICK g \in copy \cup load \cup store : e = <<Sub(g[1], n, r), Sub(g[2], n, r)>>
    BY MovedPair DEF MergeNodeToRep
  <2>2. QED
    BY <2>1, <1>3, <1>5 DEF EdgesDetached
<1>7. ASSUME NEW e \in vgep' PROVE DetachedPair(e)'
  <2>1. CASE e = <<r, r>>
    BY <2>1, <1>4 DEF DetachedPair
  <2>2. CASE \E g \in vgep : e = <<Sub(g[1], n, r), Sub(g[2], n, r)>>
    BY <2>2, <1>3, <1>5 DEF EdgesDetached
  <2>3. QED
    BY <2>1, <2>2, MovedPair DEF MergeNodeToRep
<1>8. ASSUME NEW e \in GepPairs(ngep)' PROVE DetachedPair(e)'
  <2>1. PICK h \in ngep' : e = <<h[1], h[2]>>
    BY DEF GepPairs
  <2>2. PICK g \in ngep : h[1] = Sub(g[1], n, r) /\ h[2] = Sub(g[2], n, r)
    <3>1. h \in MoveNormalGep(ngep, n, r)
      BY <2>1 DEF MergeNodeToRep
    <3>2. QED
      BY <3>1, <1>5, MovedNormalGep
  <2>3. <<g[1], g[2]>> \in GepPairs(ngep)
    BY DEF GepPairs
  <2>4. DetachedPair(<<g[1], g[2]>>) /\ <<g[1], g[2]>> \in Pair
    BY <2>3, <1>5 DEF EdgesDetached
  <2>5. QED
    BY <2>1, <2>2, <2>4, <1>3
<1>9. QED
  BY <1>6, <1>7, <1>8 DEF EdgesDetached

-----------------------------------------------------------------------------
(* Cycle detection. *)

\* Strongly connected components do not overlap.
LEMMA CyclesDisjoint ==
  ASSUME NEW E, NEW N, NEW C \in Cycles(E, N), NEW D \in Cycles(E, N), NEW n \in C, n \in D
  PROVE  C = D
<1> DEFINE closed == Closed(E, N)
           component(m) == {k \in N : \A S \in closed : m \in S <=> k \in S}
<1>1. (\E m \in N : C = component(m)) /\ (\E m \in N : D = component(m))
  BY DEF Cycles
<1>2. PICK c \in N, d \in N : C = component(c) /\ D = component(d)
  BY <1>1
<1>3. \A S \in closed : (c \in S <=> n \in S) /\ (d \in S <=> n \in S)
  BY <1>2
<1>4. QED
  BY <1>2, <1>3

LEMMA FindRoot ==
  ASSUME NEW E, NEW N,
         NEW root \in {f \in [Cycles(E, N) -> UNION Cycles(E, N)] :
                          \A C \in Cycles(E, N) : f[C] \in C}
  PROVE  /\ \A C \in Cycles(E, N) : \A n \in C : Find(Cycles(E, N), root, n) = root[C]
         /\ \A C \in Cycles(E, N) : root[C] \in C
<1> DEFINE cycles == Cycles(E, N)
<1>1. ASSUME NEW C \in cycles, NEW n \in C PROVE Find(cycles, root, n) = root[C]
  <2>1. (CHOOSE D \in cycles : n \in D) \in cycles /\ n \in (CHOOSE D \in cycles : n \in D)
    BY <1>1
  <2>2. (CHOOSE D \in cycles : n \in D) = C
    BY <2>1, <1>1, CyclesDisjoint
  <2> HIDE DEF cycles
  <2>3. QED
    BY <2>2, <1>1 DEF Find
<1>2. QED
  BY <1>1

LEMMA SCCDetectMerges ==
  ASSUME MergeInv, SCCDetect PROVE PendingMerges'
<1> DEFINE cycles == Cycles(SCCEdges, GraphNode)
<1>1. PICK root \in {f \in [cycles -> UNION cycles] : \A C \in cycles : f[C] \in C} :
        toMerge' = {<<n, Find(cycles, root, n)>> :
                       n \in {m \in UNION cycles : Find(cycles, root, m) # m}}
  BY DEF SCCDetect
<1>2. \A C \in cycles : root[C] \in C /\ \A n \in C : Find(cycles, root, n) = root[C]
  BY FindRoot
<1>3. \A n \in UNION cycles : rep[n] = n
  BY DEF Cycles, GraphNode
<1>4. rep' = rep /\ phase' = "merge"
  BY DEF SCCDetect, repVars
<1> HIDE DEF cycles
<1>5. ASSUME NEW e \in toMerge'
      PROVE  /\ rep[e[1]] = e[1] /\ rep[e[2]] = e[2]
             /\ e[2] = Find(cycles, root, e[1])
             /\ Find(cycles, root, e[2]) = e[2] /\ Find(cycles, root, e[1]) # e[1]
             /\ e = <<e[1], e[2]>>
  <2>1. PICK C \in cycles : \E n \in C : /\ e = <<n, Find(cycles, root, n)>>
                                         /\ Find(cycles, root, n) # n
    BY <1>1
  <2>2. e[2] = root[C] /\ root[C] \in C /\ Find(cycles, root, root[C]) = root[C]
    BY <2>1, <1>2
  <2>3. QED
    BY <2>1, <2>2, <1>3
<1>6. \A e \in toMerge' : DetachedPair(e)'
  BY <1>4, <1>5 DEF DetachedPair
<1>7. ASSUME NEW e \in toMerge', NEW g \in toMerge'
      PROVE  e[2] # g[1] /\ (e[1] = g[1] => e = g)
  <2>1. e[2] # g[1]
    BY <1>5
  <2>2. ASSUME e[1] = g[1] PROVE e = g
    BY <2>2, <1>5
  <2>3. QED
    BY <2>1, <2>2
<1>8. QED
  BY <1>4, <1>6, <1>7 DEF PendingMerges

-----------------------------------------------------------------------------
(* The invariant. *)

LEMMA InitMerge == Init => MergeInv
<1> SUFFICES ASSUME Init PROVE MergeInv
  OBVIOUS
<1>1. TypeOK
  BY InitType
<1>2. rep = [n \in Node |-> n] /\ subs = [n \in Node |-> {}] /\ toMerge = {}
  BY DEF Init
<1>3. RepIdempotent /\ RepSubsAgree
  BY <1>2 DEF RepIdempotent, RepSubsAgree
<1>4. EdgesDetached
  <2>1. copy \cup vgep \cup load \cup store \cup GepPairs(ngep) \subseteq Pair
    BY <1>1 DEF TypeOK, GepPairs, Gep, Pair
  <2>2. QED
    BY <2>1, <1>2 DEF EdgesDetached, DetachedPair, Pair
<1>5. VisitInWave /\ PendingMerges
  BY <1>2 DEF Init, VisitInWave, PendingMerges
<1>6. QED
  BY <1>1, <1>3, <1>4, <1>5 DEF MergeInv

\* Steps that merge nothing and add no edge.
LEMMA MergeKept ==
  ASSUME MergeInv, rep' = rep, subs' = subs, phase # "done",
         copy' = copy, ngep' = ngep, vgep' = vgep, load' = load, store' = store
  PROVE  RepIdempotent' /\ RepSubsAgree' /\ EdgesDetached'
<1>1. RepIdempotent' /\ EdgesDetached'
  BY DEF MergeInv, RepIdempotent, EdgesDetached, DetachedPair, GepPairs
<1>2. RepSubsAgree'
  BY DEF MergeInv, RepSubsAgree
<1>3. QED
  BY <1>1, <1>2

LEMMA MergeSccNodeInv ==
  ASSUME MergeInv, TypeOK', NEW e \in toMerge, MergeSccNode(e[1], e[2])
  PROVE  MergeInv'
<1> DEFINE n == e[1]
           r == e[2]
<1>1. /\ n \in Node /\ r \in Node /\ n # r /\ rep[n] = n /\ rep[r] = r
      /\ e = <<n, r>>
  BY DEF MergeInv, TypeOK, Pair, PendingMerges, DetachedPair
<1>2. /\ MergeNodeToRep(n, r, pts) /\ phase = "merge" /\ phase' = phase
      /\ toMerge' = toMerge \ {e}
      /\ UNCHANGED <<cur, collVars>>
  BY <1>1 DEF MergeSccNode
<1>3. /\ TypeOK /\ RepIdempotent /\ RepSubsAgree /\ EdgesDetached /\ phase # "done"
  BY <1>2 DEF MergeInv
<1> HIDE DEF n, r
<1>4. /\ \A m \in Node : rep'[m] = IF rep[m] = n THEN r ELSE rep[m]
      /\ RepIdempotent'
      /\ \A q \in Node : subs'[q] = {m \in Node \ {q} : rep'[m] = q}
  BY <1>1, <1>2, <1>3, MergeReps
<1>5. RepSubsAgree'
  BY <1>4 DEF RepSubsAgree
<1>6. EdgesDetached'
  BY <1>1, <1>2, <1>3, MergeEdges
<1>7. VisitInWave'
  BY <1>2 DEF VisitInWave, MergeInv, collVars
<1>8. PendingMerges'
  <2>1. ASSUME NEW g \in toMerge' PROVE DetachedPair(g)'
    <3>1. /\ g \in toMerge /\ g # e /\ g[1] \in Node /\ g[2] \in Node
          /\ rep[g[1]] = g[1] /\ rep[g[2]] = g[2]
      BY <1>2 DEF MergeInv, TypeOK, Pair, PendingMerges, DetachedPair
    <3>2. g[1] # n /\ g[2] # n
      BY <3>1 DEF MergeInv, PendingMerges, n
    <3>3. QED
      BY <3>1, <3>2, <1>4 DEF DetachedPair
  <2>2. QED
    BY <2>1, <1>2 DEF PendingMerges, MergeInv
<1>9. QED
  BY <1>4, <1>5, <1>6, <1>7, <1>8 DEF MergeInv

LEMMA FoldFieldMergeInv ==
  ASSUME MergeInv, TypeOK', NEW f \in fold, FoldField(f)
  PROVE  MergeInv'
<1> DEFINE n == rep[f]
           r == rep[FIObjNode(f)]
           folded == [m \in Node |-> Retarget(pts[m], f)]
<1>1. /\ TypeOK /\ RepIdempotent /\ RepSubsAgree /\ EdgesDetached
      /\ phase \in {"wave", "again"} /\ toMerge = {}
  BY DEF MergeInv, VisitInWave, PendingMerges
<1>2. n \in Node /\ r \in Node /\ rep[n] = n /\ rep[r] = r
  <2>1. f \in Obj
    BY <1>1 DEF TypeOK
  <2>2. f \in Node /\ FIObjNode(f) \in Node
    BY <2>1, FIObjNodeType, ObjNode
  <2>3. QED
    BY <2>2, <1>1 DEF TypeOK, RepIdempotent
<1>3. phase' = phase /\ toMerge' = toMerge
  BY DEF FoldField, wave
<1>4. VisitInWave' /\ PendingMerges'
  BY <1>1, <1>3 DEF VisitInWave, PendingMerges
<1>5. CASE n # r
  <2>1. MergeNodeToRep(n, r, folded)
    BY <1>5 DEF FoldField
  <2> HIDE DEF n, r, folded
  <2>2. /\ RepIdempotent' /\ EdgesDetached'
        /\ \A q \in Node : subs'[q] = {m \in Node \ {q} : rep'[m] = q}
    BY <2>1, <1>1, <1>2, <1>5, MergeReps, MergeEdges
  <2>3. QED
    BY <2>2, <1>4 DEF RepSubsAgree, MergeInv
<1>6. CASE n = r
  <2>1. rep' = rep /\ subs' = subs /\ copy' = copy /\ ngep' = ngep /\ vgep' = vgep
        /\ load' = load /\ store' = store
    BY <1>6 DEF FoldField, repVars, edgeVars
  <2>2. QED
    BY <2>1, <1>1, <1>4, MergeKept DEF MergeInv
<1>7. QED
  BY <1>5, <1>6

LEMMA AddCopyEdgeMergeInv ==
  ASSUME MergeInv, TypeOK', NEW e \in pend, AddCopyEdge(e)
  PROVE  MergeInv'
<1> DEFINE s == rep[e[1]]
           d == rep[e[2]]
<1>1. /\ rep' = rep /\ subs' = subs /\ ngep' = ngep /\ vgep' = vgep /\ load' = load
      /\ store' = store /\ phase' = phase /\ toMerge' = toMerge /\ UNCHANGED <<cur, collVars>>
      /\ copy' = copy \/ copy' = copy \cup {<<s, d>>}
  BY DEF AddCopyEdge, repVars, wave
<1>2. rep[s] = s /\ rep[d] = d
  BY DEF MergeInv, TypeOK, Pair, RepIdempotent
<1> HIDE DEF s, d
<1>3. EdgesDetached'
  BY <1>1, <1>2 DEF MergeInv, EdgesDetached, DetachedPair, GepPairs
<1>4. RepIdempotent' /\ RepSubsAgree' /\ VisitInWave' /\ PendingMerges'
  BY <1>1 DEF MergeInv, RepIdempotent, RepSubsAgree, VisitInWave, PendingMerges, DetachedPair,
              collVars
<1>5. QED
  BY <1>3, <1>4 DEF MergeInv

LEMMA FinalizeMergeInv ==
  ASSUME MergeInv, TypeOK', Finalize PROVE MergeInv'
<1>1. /\ copy' = copy /\ ngep' = ngep /\ vgep' = vgep /\ load' = load /\ store' = store
      /\ phase = "cg" /\ phase' = "done" /\ toMerge' = toMerge /\ UNCHANGED <<cur, collVars>>
  BY DEF Finalize, edgeVars, wave
<1>2. \A n \in Node : rep'[n] = n \/ rep'[n] = rep[n]
  BY DEF Finalize
<1>3. \A n \in Node : rep[n] = n => rep'[n] = n
  BY <1>2
<1>4. RepIdempotent'
  BY <1>2, <1>3 DEF RepIdempotent, MergeInv, TypeOK
<1>5. RepSubsAgree'
  BY <1>1 DEF RepSubsAgree
<1>6. EdgesDetached'
  <2>1. copy \cup vgep \cup load \cup store \cup GepPairs(ngep) \subseteq Pair
    BY DEF MergeInv, TypeOK, GepPairs, Gep, Pair
  <2>2. QED
    BY <2>1, <1>1, <1>3 DEF EdgesDetached, DetachedPair, MergeInv, Pair, GepPairs
<1>7. VisitInWave' /\ PendingMerges'
  BY <1>1 DEF MergeInv, VisitInWave, PendingMerges, collVars
<1>8. QED
  BY <1>4, <1>5, <1>6, <1>7 DEF MergeInv

LEMMA StepMerge == MergeInv /\ [Next]_vars => MergeInv'
<1> SUFFICES ASSUME MergeInv, [Next]_vars PROVE MergeInv'
  OBVIOUS
<1>1. TypeOK'
  BY StepType DEF MergeInv
<1> USE DEF ptVars, repVars, edgeVars, objVars, wave, collVars, workVars
\* A step that changes neither the representatives nor the edges.
<1>2. ASSUME rep' = rep, subs' = subs, copy' = copy, ngep' = ngep, vgep' = vgep,
             load' = load, store' = store, phase # "done",
             VisitInWave', PendingMerges'
      PROVE  MergeInv'
  BY <1>1, <1>2, MergeKept DEF MergeInv
<1>3. ASSUME rep' = rep, toMerge' = toMerge, toMerge # {} => phase' = "merge"
      PROVE  PendingMerges'
  BY <1>3 DEF PendingMerges, MergeInv, DetachedPair
<1>4. CASE SCCDetect
  <2>1. PendingMerges'
    BY <1>4, SCCDetectMerges
  <2>2. VisitInWave'
    BY <1>4 DEF SCCDetect, VisitInWave, MergeInv
  <2>3. QED
    BY <1>2, <1>4, <2>1, <2>2 DEF SCCDetect
<1>5. CASE \E e \in toMerge : MergeSccNode(e[1], e[2])
  BY <1>1, <1>5, MergeSccNodeInv
<1>6. CASE EndMerge
  BY <1>2, <1>3, <1>6 DEF EndMerge, VisitInWave, MergeInv
<1>7. ASSUME NEW n \in todo, CollapsePWCNode(n) PROVE MergeInv'
  <2>1. toMerge = {}
    BY <1>7 DEF CollapsePWCNode, MergeInv, PendingMerges
  <2>2. VisitInWave'
    BY <1>7 DEF CollapsePWCNode, VisitInWave
  <2>3. QED
    BY <1>2, <1>3, <1>7, <2>1, <2>2 DEF CollapsePWCNode
<1>8. CASE ProcessNode
  <2>1. phase \in {"wave", "again"} /\ phase' = phase /\ toMerge = {}
    BY <1>8 DEF ProcessNode, VisitInWave, MergeInv, PendingMerges
  <2>2. VisitInWave'
    BY <2>1 DEF VisitInWave
  <2>3. QED
    BY <1>2, <1>3, <1>8, <2>1, <2>2 DEF ProcessNode
<1>9. ASSUME NEW b \in coll, CollapseField(b) PROVE MergeInv'
  <2>1. phase \in {"wave", "again"} /\ phase' = phase /\ toMerge = {}
    BY <1>9 DEF CollapseField, VisitInWave, MergeInv, PendingMerges
  <2>2. VisitInWave'
    BY <2>1 DEF VisitInWave
  <2>3. QED
    BY <1>2, <1>3, <1>9, <2>1, <2>2 DEF CollapseField
<1>10. CASE \E f \in fold : FoldField(f)
  BY <1>1, <1>10, FoldFieldMergeInv
<1>11. CASE EndWave
  <2>1. VisitInWave' /\ toMerge = {}
    BY <1>11 DEF EndWave, Quiet, VisitInWave, MergeInv, PendingMerges
  <2>2. QED
    BY <1>2, <1>3, <1>11, <2>1 DEF EndWave
<1>12. ASSUME NEW n \in worklist, PopAgain(n) PROVE MergeInv'
  <2>1. VisitInWave' /\ toMerge = {}
    BY <1>12 DEF PopAgain, VisitInWave, MergeInv, PendingMerges
  <2>2. QED
    BY <1>2, <1>3, <1>12, <2>1 DEF PopAgain
<1>13. ASSUME NEW n \in worklist, PostProcessNode(n) PROVE MergeInv'
  <2>1. VisitInWave' /\ toMerge = {}
    BY <1>13 DEF PostProcessNode, VisitInWave, MergeInv, PendingMerges
  <2>2. QED
    BY <1>2, <1>3, <1>13, <2>1 DEF PostProcessNode
<1>14. CASE EndAgain
  <2>1. VisitInWave' /\ toMerge = {}
    BY <1>14 DEF EndAgain, Quiet, VisitInWave, MergeInv, PendingMerges
  <2>2. QED
    BY <1>2, <1>3, <1>14, <2>1 DEF EndAgain
<1>15. CASE \E e \in pend : AddCopyEdge(e)
  BY <1>1, <1>15, AddCopyEdgeMergeInv
<1>16. CASE UpdateCallGraph
  <2>1. VisitInWave' /\ toMerge = {}
    BY <1>16 DEF UpdateCallGraph, VisitInWave, MergeInv, PendingMerges
  <2>2. QED
    BY <1>2, <1>3, <1>16, <2>1 DEF UpdateCallGraph
<1>17. CASE Reanalyze
  <2>1. VisitInWave' /\ toMerge = {}
    BY <1>17 DEF Reanalyze, VisitInWave, MergeInv, PendingMerges
  <2>2. QED
    BY <1>2, <1>3, <1>17, <2>1 DEF Reanalyze
<1>18. CASE Finalize
  BY <1>1, <1>18, FinalizeMergeInv
<1>19. CASE UNCHANGED vars
  BY <1>19, <1>1 DEF vars, MergeInv, RepIdempotent, RepSubsAgree, EdgesDetached, DetachedPair,
                     VisitInWave, PendingMerges, GepPairs
<1>20. QED
  BY <1>4, <1>5, <1>6, <1>7, <1>8, <1>9, <1>10, <1>11, <1>12, <1>13, <1>14, <1>15, <1>16,
     <1>17, <1>18, <1>19 DEF Next, Step, Terminated

\* A node merged into another is gone: no edge starts or ends at it, and its
\* representative is a node that still represents itself.
THEOREM MergedDetached == Spec => []MergedNodesDetached
<1>1. MergeInv => MergedNodesDetached
  BY DEF MergeInv, MergedNodesDetached, RepIdempotent, EdgesDetached, DetachedPair
<1>2. QED
  BY <1>1, InitMerge, StepMerge, PTL DEF Spec

\* The two maps of the constraint graph describe the same merges.
THEOREM RepSubsInverse == Spec => []RepSubsAgree
<1>1. MergeInv => RepSubsAgree
  BY DEF MergeInv
<1>2. QED
  BY <1>1, InitMerge, StepMerge, PTL DEF Spec

-----------------------------------------------------------------------------
(* What is pending in which phase of an iteration.                         *)

Phases ==
    /\ pend # {} => phase \in {"post", "cg"}
    /\ tmp # {} => phase = "again"
    /\ phase = "again" => ~prog.mergePWC
    /\ phase \in {"again", "post", "cg"} => todo = {}
    /\ phase = "cg" /\ ~reanalyze => worklist = {}
    /\ phase = "merge" => ~reanalyze

SolverInv == PropagationInv /\ MergeInv /\ Phases

LEMMA StepPhases == MergeInv /\ Phases /\ [Next]_vars => Phases'
<1> SUFFICES ASSUME MergeInv, Phases, [Next]_vars PROVE Phases'
  OBVIOUS
<1> USE DEF objVars, wave, collVars, workVars
<1>1. CASE SCCDetect \/ EndMerge \/ EndWave \/ EndAgain \/ Reanalyze \/ Finalize
  BY <1>1 DEF SCCDetect, EndMerge, EndWave, EndAgain, Reanalyze, Finalize, Phases
<1>2. CASE \E e \in toMerge : MergeSccNode(e[1], e[2])
  BY <1>2 DEF MergeSccNode, Phases
<1>3. CASE \E n \in todo : CollapsePWCNode(n)
  BY <1>3 DEF CollapsePWCNode, Phases
<1>4. CASE ProcessNode
  <2>1. phase \in {"wave", "again"}
    BY <1>4 DEF ProcessNode, MergeInv, VisitInWave
  <2>2. QED
    BY <2>1, <1>4 DEF ProcessNode, Phases
<1>5. CASE \E b \in coll : CollapseField(b)
  BY <1>5 DEF CollapseField, Phases
<1>6. ASSUME NEW f \in fold, FoldField(f) PROVE Phases'
  <2>1. phase \in {"wave", "again"}
    BY <1>6 DEF MergeInv, VisitInWave
  <2>2. phase' = phase /\ todo' = todo /\ prog' = prog /\ pend' = pend /\ tmp' = tmp
    BY <1>6 DEF FoldField
  <2>3. QED
    BY <2>1, <2>2 DEF Phases
<1>7. CASE \E n \in worklist : PopAgain(n) \/ PostProcessNode(n)
  BY <1>7 DEF PopAgain, PostProcessNode, Phases
<1>8. ASSUME NEW e \in pend, AddCopyEdge(e) PROVE Phases'
  BY <1>8 DEF AddCopyEdge, Phases
<1>9. CASE UpdateCallGraph
  BY <1>9 DEF UpdateCallGraph, Phases
<1>10. CASE UNCHANGED vars
  BY <1>10 DEF vars, Phases
<1>11. QED
  BY <1>1, <1>2, <1>3, <1>4, <1>5, <1>6, <1>7, <1>8, <1>9, <1>10 DEF Next, Step, Terminated

LEMMA InitSolver == Init => SolverInv
<1>1. Init => Phases
  BY DEF Init, Phases
<1>2. QED
  BY <1>1, InitPropagation, InitMerge DEF SolverInv

LEMMA StepSolver == SolverInv /\ [Next]_vars => SolverInv'
BY StepPropagation, StepMerge, StepPhases DEF SolverInv

-----------------------------------------------------------------------------
(* Fields.  A field that was folded into its site is never made, sent or   *)
(* pointed to again.  That takes knowing, of every field there is a node   *)
(* for, whether it was folded: a field of a field-insensitive site was,    *)
(* unless its site or itself is still to be collapsed.                     *)

Unfolded(f) == f[1] \notin fi \/ f[1] \in coll \/ f \in fold

Folds ==
    /\ \A f \in fold \cup redundant : f[2] # 0 /\ f[1] \in fi
    /\ \A f \in fold : f \in flds /\ f[1] \notin coll
    /\ \A f \in flds : f[2] # 0

TargetsNamed ==
    \A n \in Node : \A o \in pts[n] :
        /\ o \notin redundant
        /\ <<o[1], 0>> \in prog.nodes
        /\ o[2] # 0 => o \in flds /\ Unfolded(o)

FieldsPointed == \A f \in flds : Unfolded(f) => \E n \in Node : f \in pts[n]

RedundantMerged == phase # "done" => \A f \in redundant : rep[f] # f

EdgesAlive ==
    \A e \in copy \cup vgep \cup load \cup store \cup GepPairs(ngep) :
        {e[1], e[2]} \cap redundant = {}

FieldInv == Folds /\ TargetsNamed /\ FieldsPointed /\ RedundantMerged /\ EdgesAlive


LEMMA InitFields == Init => FieldInv
<1> SUFFICES ASSUME Init PROVE FieldInv
  OBVIOUS
<1>1. /\ flds = {} /\ redundant = {} /\ fold = {}
      /\ prog \in Programs /\ \A n \in Node : pts[n] = {<<e[1], 0>> : e \in {a \in prog.addr : a[2] = n}}
  BY DEF Init
<1>2. \A e \in prog.addr : <<e[1], 0>> \in prog.nodes
  BY <1>1, ProgramAssumption
<1>3. TargetsNamed
  <2>1. ASSUME NEW n \in Node, NEW o \in pts[n]
        PROVE  o[2] = 0 /\ <<o[1], 0>> \in prog.nodes
    <3>1. PICK e \in prog.addr : o = <<e[1], 0>>
      BY <1>1
    <3>2. QED
      BY <3>1, <1>2
  <2>2. QED
    BY <2>1, <1>1 DEF TargetsNamed
<1>4. QED
  BY <1>1, <1>3 DEF FieldInv, Folds, FieldsPointed, RedundantMerged, EdgesAlive

\* Edges are between representatives, and a redundant field is none.
LEMMA AliveByMerge ==
  ASSUME MergeInv, RedundantMerged, redundant \subseteq Node, phase # "done" PROVE EdgesAlive
BY DEF MergeInv, EdgesDetached, DetachedPair, RedundantMerged, EdgesAlive

\* What the steps do to points-to sets.
LEMMA MergedPts ==
  ASSUME TypeOK, NEW n \in Node, NEW r \in Node, NEW p \in [Node -> SUBSET Obj],
         MergeNodeToRep(n, r, p)
  PROVE  /\ \A m \in Node : pts'[m] = IF m = r THEN p[r] \cup p[n] ELSE p[m]
         /\ \A m \in Node : p[m] \subseteq pts'[m]
         /\ \A m \in Node : \A o \in pts'[m] : \E k \in Node : o \in p[k]
BY DEF MergeNodeToRep

LEMMA FoldedPts ==
  ASSUME TypeOK, NEW f \in fold, FoldField(f)
  PROVE  /\ \A m \in Node : \A o \in pts[m] : o # f => o \in pts'[m]
         /\ \A m \in Node : f \in pts[m] => FIObjNode(f) \in pts'[m]
         /\ \A m \in Node : \A o \in pts'[m] :
               \E k \in Node : (o \in pts[k] /\ o # f) \/ (f \in pts[k] /\ o = FIObjNode(f))
<1> DEFINE n == rep[f]
           r == rep[FIObjNode(f)]
           folded == [m \in Node |-> Retarget(pts[m], f)]
<1>1. f \in Obj /\ n \in Node /\ r \in Node
  BY ObjNode, FIObjNodeType DEF TypeOK
<1>2. folded \in [Node -> SUBSET Obj]
  BY <1>1, RetargetType
<1>3. /\ \A m \in Node : folded[m] \subseteq pts'[m]
      /\ \A m \in Node : \A o \in pts'[m] : \E k \in Node : o \in folded[k]
  <2>1. CASE n # r
    <3>1. MergeNodeToRep(n, r, folded)
      BY <2>1 DEF FoldField
    <3> HIDE DEF folded, n, r
    <3>2. QED
      BY <3>1, <1>1, <1>2, MergedPts
  <2>2. CASE n = r
    BY <2>2 DEF FoldField
  <2>3. QED
    BY <2>1, <2>2
<1>4. \A m \in Node : folded[m] = Retarget(pts[m], f)
  OBVIOUS
<1> HIDE DEF folded
<1>5. ASSUME NEW m \in Node PROVE /\ \A o \in pts[m] : o # f => o \in folded[m]
                                  /\ f \in pts[m] => FIObjNode(f) \in folded[m]
                                  /\ \A o \in folded[m] : \/ o \in pts[m] /\ o # f
                                                          \/ f \in pts[m] /\ o = FIObjNode(f)
  BY <1>4 DEF Retarget
<1>6. QED
  BY <1>3, <1>5

LEMMA SentPts ==
  ASSUME TypeOK, HandleCopyGep(cur), cur \in Node
  PROVE  /\ \A d \in Node : pts'[d] = pts[d] \cup Sent(cur, d)
         /\ \A d \in Node : \A o \in Sent(cur, d) :
               \/ o \in pts[cur]
               \/ \E p \in pts[cur] : o[1] = p[1] /\ (o[2] = 0 \/ (o[1] \notin fi /\ o \in flds'))
         /\ flds' = flds \cup {o \in Fields(cur, {e \in ngep : e[1] = cur}) : o[2] # 0}
         /\ \A o \in Fields(cur, {e \in ngep : e[1] = cur}) : \E d \in Node : o \in Sent(cur, d)
<1>1. /\ \A d \in Node : pts'[d] = pts[d] \cup Sent(cur, d)
      /\ flds' = flds \cup {o \in Fields(cur, {e \in ngep : e[1] = cur}) : o[2] # 0}
  BY DEF HandleCopyGep
<1>2. ASSUME NEW d \in Node, NEW o \in Sent(cur, d)
      PROVE  \/ o \in pts[cur]
             \/ \E p \in pts[cur] : o[1] = p[1] /\ (o[2] = 0 \/ (o[1] \notin fi /\ o \in flds'))
  <2>1. CASE o \in Diff(cur)
    BY <2>1 DEF Diff
  <2>2. CASE o \in VariantGepTargets(Diff(cur))
    BY <2>2 DEF VariantGepTargets, FIObjNode, Diff
  <2>3. CASE o \in Fields(cur, {e \in ngep : e[1] = cur /\ e[2] = d})
    <3>1. PICK e \in ngep : e[1] = cur /\ o \in NormalGepTargets(Diff(cur), e[3], fi)
      BY <2>3 DEF Fields
    <3>2. o \in Fields(cur, {g \in ngep : g[1] = cur})
      BY <3>1 DEF Fields
    <3>3. CASE o \in Diff(cur)
      BY <3>3 DEF Diff
    <3>4. CASE \E p \in Diff(cur) : o = GepObjNode(p, e[3], fi)
      <4>1. PICK p \in Diff(cur) : o = GepObjNode(p, e[3], fi)
        BY <3>4
      <4>2. o[1] = p[1] /\ (o[2] = 0 \/ o[1] \notin fi) /\ p \in pts[cur]
        BY <4>1 DEF GepObjNode, FIObjNode, Diff
      <4>3. QED
        BY <4>2, <3>2, <1>1
    <3>5. QED
      BY <3>1, <3>3, <3>4 DEF NormalGepTargets
  <2>4. QED
    BY <2>1, <2>2, <2>3 DEF Sent
<1>3. ASSUME NEW o \in Fields(cur, {e \in ngep : e[1] = cur})
      PROVE  \E d \in Node : o \in Sent(cur, d)
  <2>1. PICK e \in ngep : e[1] = cur /\ o \in NormalGepTargets(Diff(cur), e[3], fi)
    BY DEF Fields
  <2>2. e[2] \in Node
    BY DEF TypeOK, Gep
  <2>3. o \in Fields(cur, {g \in ngep : g[1] = cur /\ g[2] = e[2]})
    BY <2>1 DEF Fields
  <2>4. QED
    BY <2>2, <2>3 DEF Sent
<1>4. QED
  BY <1>1, <1>2, <1>3

-----------------------------------------------------------------------------
(* A step keeps FieldInv when it sends only targets there are nodes for.   *)

\* Targets after the step: old ones, or bases of old ones.
LEMMA NamedByTargets ==
  ASSUME TargetsNamed, Folds, prog' = prog, redundant' = redundant,
         flds \subseteq flds',
         \A o \in Obj : o \in flds /\ Unfolded(o) => Unfolded(o)',
         TypeOK, TypeOK',
         \A m \in Node : \A o \in pts'[m] : \E k \in Node :
            \/ o \in pts[k]
            \/ \E p \in pts[k] : o[1] = p[1] /\ (o[2] = 0 \/ (o[1] \notin fi /\ o \in flds' /\ Unfolded(o)'))
  PROVE  TargetsNamed'
<1> SUFFICES ASSUME NEW m \in Node, NEW o \in pts'[m]
             PROVE  /\ o \notin redundant
                    /\ <<o[1], 0>> \in prog.nodes
                    /\ o[2] # 0 => o \in flds' /\ Unfolded(o)'
  BY DEF TargetsNamed
<1>1. o \in Obj
  BY DEF TypeOK
<1>2. \A f \in redundant : f[2] # 0 /\ f[1] \in fi
  BY DEF Folds
<1>3. PICK k \in Node :
         \/ o \in pts[k]
         \/ \E p \in pts[k] : o[1] = p[1] /\ (o[2] = 0 \/ (o[1] \notin fi /\ o \in flds' /\ Unfolded(o)'))
  OBVIOUS
<1>4. CASE o \in pts[k]
  BY <1>1, <1>4 DEF TargetsNamed
<1>5. CASE \E p \in pts[k] : o[1] = p[1] /\ o[2] = 0
  BY <1>2, <1>5 DEF TargetsNamed
<1>6. CASE \E p \in pts[k] : o[1] = p[1] /\ o[1] \notin fi /\ o \in flds' /\ Unfolded(o)'
  BY <1>2, <1>6 DEF TargetsNamed
<1>7. QED
  BY <1>3, <1>4, <1>5, <1>6

LEMMA ProcessNodeFields ==
  ASSUME SolverInv, SolverInv', FieldInv, ProcessNode PROVE FieldInv'
<1>1. /\ TypeOK /\ TypeOK' /\ MergeInv' /\ Folds /\ TargetsNamed /\ FieldsPointed /\ RedundantMerged
  BY DEF SolverInv, MergeInv, FieldInv
<1>2. /\ cur \in Node /\ coll = {} /\ fold = {} /\ fold' = {} /\ phase' = phase /\ rep' = rep
      /\ redundant' = redundant /\ prog' = prog /\ phase \in {"wave", "again"}
  BY <1>1 DEF ProcessNode, repVars, SolverInv, MergeInv, VisitInWave, TypeOK
<1>3. RedundantMerged'
  BY <1>1, <1>2 DEF RedundantMerged
<1>4. EdgesAlive'
  BY <1>1, <1>2, <1>3, AliveByMerge, ObjNode DEF TypeOK, MergeInv, EdgesDetached, DetachedPair, RedundantMerged, EdgesAlive
<1>5. CASE rep[cur] = cur
  <2>1. HandleCopyGep(cur)
    BY <1>5 DEF ProcessNode
  <2>2. /\ \A d \in Node : pts'[d] = pts[d] \cup Sent(cur, d)
        /\ \A d \in Node : \A o \in Sent(cur, d) :
               \/ o \in pts[cur]
               \/ \E p \in pts[cur] : o[1] = p[1] /\ (o[2] = 0 \/ (o[1] \notin fi /\ o \in flds'))
        /\ flds' = flds \cup {o \in Fields(cur, {e \in ngep : e[1] = cur}) : o[2] # 0}
        /\ \A o \in Fields(cur, {e \in ngep : e[1] = cur}) : \E d \in Node : o \in Sent(cur, d)
    BY <2>1, <1>1, <1>2, SentPts
  <2>3. fi' = fi \cup coll' /\ coll' \cap fi = {}
    BY <2>1 DEF HandleCopyGep, Collapsible
  <2>4. Folds'
    BY <2>2, <2>3, <1>1, <1>2 DEF Folds
  <2>5. \A o : o[1] \notin fi => Unfolded(o)'
    BY <2>3 DEF Unfolded
  <2>6. TargetsNamed'
    <3>1. \A o \in Obj : o \in flds /\ Unfolded(o) => Unfolded(o)'
      BY <2>5, <1>2 DEF Unfolded
    <3>2. ASSUME NEW m \in Node, NEW o \in pts'[m]
          PROVE  \E k \in Node :
                    \/ o \in pts[k]
                    \/ \E p \in pts[k] : o[1] = p[1] /\ (o[2] = 0 \/ (o[1] \notin fi /\ o \in flds' /\ Unfolded(o)'))
      <4>1. o \in pts[m] \/ o \in Sent(cur, m)
        BY <3>2, <2>2
      <4>2. QED
        BY <4>1, <2>2, <2>5, <1>2
    <3>3. flds \subseteq flds'
      BY <2>2
    <3>4. QED
      BY <3>1, <3>2, <3>3, <1>1, <1>2, NamedByTargets
  <2>7. FieldsPointed'
    <3>1. ASSUME NEW f \in flds', Unfolded(f)' PROVE \E n \in Node : f \in pts'[n]
      <4>1. CASE f \in flds
        <5>1. Unfolded(f)
          BY <3>1, <2>3, <1>2 DEF Unfolded
        <5>2. QED
          BY <5>1, <4>1, <2>2, <1>1 DEF FieldsPointed
      <4>2. CASE f \notin flds
        BY <4>2, <3>1, <2>2
      <4>3. QED
        BY <4>1, <4>2
    <3>2. QED
      BY <3>1 DEF FieldsPointed
  <2>8. QED
    BY <2>4, <2>6, <2>7, <1>3, <1>4 DEF FieldInv
<1>6. CASE rep[cur] # cur
  <2>1. pts' = pts /\ flds' = flds /\ fi' = fi /\ coll' = coll
    BY <1>6 DEF ProcessNode, ptVars
  <2>2. QED
    BY <2>1, <1>1, <1>2, <1>3, <1>4 DEF FieldInv, Folds, TargetsNamed, FieldsPointed, Unfolded
<1>7. QED
  BY <1>5, <1>6

LEMMA CollapseFieldFields ==
  ASSUME SolverInv, SolverInv', FieldInv, NEW b \in coll, CollapseField(b) PROVE FieldInv'
<1>1. /\ TypeOK /\ TypeOK' /\ MergeInv' /\ Folds /\ TargetsNamed /\ FieldsPointed
      /\ RedundantMerged /\ EdgesAlive
  BY DEF SolverInv, MergeInv, FieldInv
<1>2. /\ fold = {} /\ fi' = fi \cup {b} /\ pts' = pts /\ flds' = flds /\ prog' = prog
      /\ fold' = {f \in flds : f[1] = b} \ redundant /\ redundant' = redundant /\ phase' = phase
      /\ \E more : more \cap fi' = {} /\ coll' = (coll \ {b}) \cup more
      /\ rep' = rep /\ copy' = copy /\ vgep' = vgep /\ ngep' = ngep /\ load' = load /\ store' = store
  <2> DEFINE more == IF fold' = {} THEN CollapseBase(rep[<<b, 0>>]) ELSE {}
  <2>1. more \cap fi' = {} /\ coll' = (coll \ {b}) \cup more
    BY DEF CollapseField, CollapseBase, Collapsible
  <2> HIDE DEF more
  <2>2. QED
    BY <2>1 DEF CollapseField, repVars, edgeVars
<1>3. RedundantMerged' /\ EdgesAlive'
  BY <1>1, <1>2 DEF RedundantMerged, EdgesAlive, GepPairs
<1>4. Folds'
  BY <1>1, <1>2 DEF Folds
<1>5. TargetsNamed'
  <2>1. ASSUME NEW n \in Node, NEW o \in pts[n], o[2] # 0 PROVE Unfolded(o)'
    BY <1>1, <1>2, <2>1 DEF TargetsNamed, Unfolded
  <2>2. QED
    BY <2>1, <1>1, <1>2 DEF TargetsNamed
<1>6. FieldsPointed'
  BY <1>1, <1>2 DEF FieldsPointed, Unfolded
<1>7. QED
  BY <1>3, <1>4, <1>5, <1>6 DEF FieldInv

LEMMA FoldFieldFields ==
  ASSUME SolverInv, SolverInv', FieldInv, NEW f \in fold, FoldField(f) PROVE FieldInv'
<1> DEFINE n == rep[f]
           r == rep[FIObjNode(f)]
<1>1. /\ TypeOK /\ TypeOK' /\ MergeInv /\ MergeInv' /\ Folds /\ TargetsNamed /\ FieldsPointed
      /\ RedundantMerged
  BY DEF SolverInv, MergeInv, FieldInv
<1>2. /\ f \in Obj /\ f \in Node /\ FIObjNode(f) \in Node /\ n \in Node /\ r \in Node
      /\ rep[n] = n /\ rep[r] = r
  BY <1>1, FIObjNodeType, ObjNode DEF TypeOK, MergeInv, RepIdempotent
<1>3. /\ fold' = fold \ {f} /\ fi' = fi /\ flds' = flds /\ prog' = prog /\ phase' = phase
      /\ redundant' = redundant \cup ({f} \ {r})
      /\ \E more : more \cap fi = {} /\ coll' = coll \cup more
      /\ phase # "done"
  <2> DEFINE more == IF fold' = {} THEN CollapseBase(r) ELSE {}
  <2>1. more \cap fi' = {} /\ coll' = coll \cup more
    BY DEF FoldField, CollapseBase, Collapsible
  <2> HIDE DEF more
  <2>2. QED
    BY <2>1, <1>1 DEF FoldField, MergeInv, VisitInWave
<1>4. /\ \A m \in Node : \A o \in pts[m] : o # f => o \in pts'[m]
      /\ \A m \in Node : \A o \in pts'[m] :
            \E k \in Node : (o \in pts[k] /\ o # f) \/ (f \in pts[k] /\ o = FIObjNode(f))
  BY <1>1, FoldedPts
<1>5. Folds'
  BY <1>1, <1>3 DEF Folds
<1>6. RedundantMerged'
  <2>1. CASE n # r
    <3>1. \E p : MergeNodeToRep(n, r, p)
      BY <2>1 DEF FoldField
    <3>2. \A m \in Node : rep'[m] = IF rep[m] = n THEN r ELSE rep[m]
      <4> HIDE DEF n, r
      <4>1. QED
        BY <3>1, <2>1, <1>1, <1>2, <1>3, MergeReps DEF MergeInv
    <3>3. rep'[f] = r
      BY <3>2, <1>2
    <3>4. ASSUME NEW g \in redundant PROVE rep'[g] # g
      <4>1. g \in Node /\ rep[g] # g
        BY <1>1, <1>3, ObjNode DEF TypeOK, RedundantMerged
      <4>2. QED
        BY <4>1, <3>2, <1>2
    <3>5. QED
      BY <3>3, <3>4, <1>3 DEF RedundantMerged
  <2>2. CASE n = r
    <3>1. rep' = rep
      BY <2>2 DEF FoldField, repVars
    <3>2. QED
      BY <3>1, <2>2, <1>1, <1>3 DEF RedundantMerged
  <2>3. QED
    BY <2>1, <2>2
<1> HIDE DEF n, r
<1>7. EdgesAlive'
  <2>1. redundant' \subseteq Node /\ phase' # "done"
    BY <1>1, <1>3, ObjNode DEF TypeOK
  <2>2. QED
    BY <2>1, <1>1, <1>6 DEF MergeInv, EdgesDetached, DetachedPair, RedundantMerged, EdgesAlive
<1>8. TargetsNamed'
  <2>1. ASSUME NEW m \in Node, NEW o \in pts'[m]
        PROVE  /\ o \notin redundant' /\ <<o[1], 0>> \in prog.nodes
               /\ o[2] # 0 => o \in flds /\ Unfolded(o)'
    <3>1. PICK k \in Node : (o \in pts[k] /\ o # f) \/ (f \in pts[k] /\ o = FIObjNode(f))
      BY <1>4, <2>1
    <3>2. CASE o \in pts[k] /\ o # f
      BY <3>2, <1>1, <1>3 DEF TargetsNamed, Unfolded
    <3>3. CASE f \in pts[k] /\ o = FIObjNode(f)
      <4>1. o[1] = f[1] /\ o[2] = 0
        BY <3>3 DEF FIObjNode
      <4>2. QED
        BY <3>3, <4>1, <1>1, <1>3 DEF TargetsNamed, Folds
    <3>4. QED
      BY <3>1, <3>2, <3>3
  <2>2. QED
    BY <2>1, <1>3 DEF TargetsNamed
<1>9. FieldsPointed'
  <2>1. ASSUME NEW g \in flds, Unfolded(g)' PROVE \E m \in Node : g \in pts'[m]
    <3>1. g # f /\ Unfolded(g)
      BY <2>1, <1>1, <1>3 DEF Unfolded, Folds
    <3>2. QED
      BY <3>1, <1>1, <1>4 DEF FieldsPointed
  <2>2. QED
    BY <2>1, <1>3 DEF FieldsPointed
<1>10. QED
  BY <1>5, <1>6, <1>7, <1>8, <1>9 DEF FieldInv

LEMMA MergeSccNodeFields ==
  ASSUME SolverInv, SolverInv', FieldInv, NEW e \in toMerge, MergeSccNode(e[1], e[2]) PROVE FieldInv'
<1> DEFINE n == e[1]
           r == e[2]
<1>1. /\ TypeOK /\ TypeOK' /\ MergeInv /\ MergeInv' /\ Folds /\ TargetsNamed /\ FieldsPointed
      /\ RedundantMerged
  BY DEF SolverInv, MergeInv, FieldInv
<1>2. n \in Node /\ r \in Node /\ n # r /\ rep[n] = n /\ rep[r] = r
  BY <1>1 DEF MergeInv, TypeOK, Pair, PendingMerges, DetachedPair
<1>3. /\ MergeNodeToRep(n, r, pts) /\ phase = "merge" /\ phase' = phase
      /\ UNCHANGED <<prog, flds, fi, redundant, coll, fold>>
  BY DEF MergeSccNode, collVars
<1> HIDE DEF n, r
<1>4. /\ \A m \in Node : pts[m] \subseteq pts'[m]
      /\ \A m \in Node : \A o \in pts'[m] : \E k \in Node : o \in pts[k]
  BY <1>1, <1>2, <1>3, MergedPts DEF TypeOK
<1>5. Folds' /\ FieldsPointed' /\ TargetsNamed'
  BY <1>1, <1>3, <1>4 DEF Folds, FieldsPointed, TargetsNamed, Unfolded
<1>6. RedundantMerged'
  <2>1. \A m \in Node : rep'[m] = IF rep[m] = n THEN r ELSE rep[m]
    BY <1>1, <1>2, <1>3, MergeReps DEF MergeInv
  <2>2. ASSUME NEW g \in redundant PROVE rep'[g] # g
    <3>1. g \in Node /\ rep[g] # g
      BY <1>1, <1>3, ObjNode DEF TypeOK, RedundantMerged
    <3>2. QED
      BY <3>1, <2>1, <1>2
  <2>3. QED
    BY <2>2, <1>3 DEF RedundantMerged
<1>7. EdgesAlive'
  <2>1. redundant' \subseteq Node /\ phase' # "done"
    BY <1>1, <1>3, ObjNode DEF TypeOK
  <2>2. QED
    BY <2>1, <1>1, <1>6 DEF MergeInv, EdgesDetached, DetachedPair, RedundantMerged, EdgesAlive
<1>8. QED
  BY <1>5, <1>6, <1>7 DEF FieldInv

LEMMA StepFields == SolverInv /\ SolverInv' /\ FieldInv /\ [Next]_vars => FieldInv'
<1> SUFFICES ASSUME SolverInv, SolverInv', FieldInv, [Next]_vars PROVE FieldInv'
  OBVIOUS
<1>1. /\ TypeOK /\ TypeOK' /\ MergeInv /\ MergeInv' /\ Folds /\ TargetsNamed /\ FieldsPointed
      /\ RedundantMerged /\ EdgesAlive
  BY DEF SolverInv, MergeInv, FieldInv
<1> USE DEF ptVars, repVars, edgeVars, objVars, wave, collVars, workVars
\* A step that leaves targets, fields and representatives alone.
<1>2. ASSUME pts' = pts, rep' = rep, prog' = prog, flds' = flds, fi' = fi, redundant' = redundant,
             fold' = fold, coll' = coll \/ (fold = {} /\ coll = {} /\ coll' \cap fi = {}),
             phase = "done" => phase' = "done",
             \/ phase' # "done"
             \/ UNCHANGED <<copy, vgep, ngep, load, store>>
      PROVE  FieldInv'
  <2>1. Folds' /\ TargetsNamed' /\ FieldsPointed' /\ RedundantMerged'
    BY <1>1, <1>2 DEF Folds, TargetsNamed, FieldsPointed, RedundantMerged, Unfolded
  <2>2. EdgesAlive'
    <3>1. CASE phase' # "done"
      <4>1. redundant' \subseteq Node
        BY <1>1, ObjNode DEF TypeOK
      <4>2. QED
        BY <3>1, <4>1, <1>1, <2>1 DEF MergeInv, EdgesDetached, DetachedPair, RedundantMerged, EdgesAlive
    <3>2. CASE phase' = "done"
      BY <3>2, <1>1, <1>2 DEF EdgesAlive, GepPairs
    <3>3. QED
      BY <3>1, <3>2
  <2>3. QED
    BY <2>1, <2>2 DEF FieldInv
<1>3. CASE SCCDetect \/ EndMerge \/ EndWave \/ EndAgain \/ UpdateCallGraph \/ Reanalyze
  BY <1>2, <1>3 DEF SCCDetect, EndMerge, EndWave, EndAgain, UpdateCallGraph, Reanalyze
<1>4. CASE \E e \in toMerge : MergeSccNode(e[1], e[2])
  BY <1>4, MergeSccNodeFields
<1>5. ASSUME NEW n \in todo, CollapsePWCNode(n) PROVE FieldInv'
  <2>1. fold = {} /\ coll = {} /\ coll' \cap fi = {}
    BY <1>5 DEF CollapsePWCNode, Quiet, Collapsible
  <2>2. QED
    BY <2>1, <1>2, <1>5 DEF CollapsePWCNode
<1>6. CASE ProcessNode
  BY <1>6, ProcessNodeFields
<1>7. CASE \E b \in coll : CollapseField(b)
  BY <1>7, CollapseFieldFields
<1>8. CASE \E f \in fold : FoldField(f)
  BY <1>8, FoldFieldFields
<1>9. CASE \E n \in worklist : PopAgain(n) \/ PostProcessNode(n)
  BY <1>2, <1>9 DEF PopAgain, PostProcessNode
<1>10. ASSUME NEW e \in pend, AddCopyEdge(e) PROVE FieldInv'
  <2>1. pts' = pts /\ rep' = rep /\ phase' = phase /\ UNCHANGED <<prog, objVars, collVars>>
    BY <1>10 DEF AddCopyEdge
  <2>2. phase' # "done" \/ UNCHANGED <<copy, vgep, ngep, load, store>>
    BY <2>1, <1>10 DEF SolverInv, Phases
  <2>3. QED
    BY <2>1, <2>2, <1>2
<1>11. CASE Finalize
  <2>1. /\ pts' = pts /\ prog' = prog /\ fi' = fi /\ redundant' = redundant /\ coll' = coll /\ fold' = fold
        /\ flds' = flds \ redundant /\ phase = "cg" /\ phase' = "done"
        /\ copy' = copy /\ vgep' = vgep /\ ngep' = ngep /\ load' = load /\ store' = store
    BY <1>11 DEF Finalize
  <2>2. fold = {}
    BY <2>1, <1>1 DEF MergeInv, VisitInWave
  <2>3. Folds' /\ TargetsNamed' /\ FieldsPointed' /\ RedundantMerged' /\ EdgesAlive'
    BY <2>1, <2>2, <1>1 DEF Folds, TargetsNamed, FieldsPointed, RedundantMerged, Unfolded, EdgesAlive, GepPairs
  <2>4. QED
    BY <2>3 DEF FieldInv
<1>12. CASE UNCHANGED vars
  BY <1>2, <1>12 DEF vars
<1>13. QED
  BY <1>3, <1>4, <1>5, <1>6, <1>7, <1>8, <1>9, <1>10, <1>11, <1>12 DEF Next, Step, Terminated

\* Once a field is folded into its site nothing points to it, no edge touches it and it is
\* represented by another node, so that taking its node away at the end is safe.
THEOREM FieldsFoldedForGood == Spec => []NoDanglingField
<1> DEFINE Inv == SolverInv /\ FieldInv
<1>1. Init => Inv
  BY InitSolver, InitFields
<1>2. Inv /\ [Next]_vars => Inv'
  BY StepSolver, StepFields
<1>3. Inv => NoDanglingField
  BY DEF FieldInv, TargetsNamed, RedundantMerged, EdgesAlive, NoDanglingField
<1>4. QED
  BY <1>1, <1>2, <1>3, PTL DEF Spec

-----------------------------------------------------------------------------
(* The nodes of the graph.  A field there is no node for yet has no edge,  *)
(* no target and was never merged, so that a new node starts from nothing. *)

Direct == copy \cup vgep \cup GepPairs(ngep)

NodeOf(x) == x \in prog.nodes \cup flds

EdgesKnown ==
    phase # "done" =>
        \A e \in Direct \cup load \cup store \cup pend \cup dag \cup toMerge :
            NodeOf(e[1]) /\ NodeOf(e[2])

NodesKnown ==
    phase # "done" =>
        \A x \in Node : /\ NodeOf(x) => NodeOf(rep[x])
                        /\ ~NodeOf(x) => pts[x] = {} /\ rep[x] = x

NoLoops == \A e \in Direct : e[1] # e[2]

GraphInv == prog \in Programs /\ EdgesKnown /\ NodesKnown /\ NoLoops

LEMMA InitGraph == Init => GraphInv
<1> SUFFICES ASSUME Init PROVE GraphInv
  OBVIOUS
<1>1. /\ prog \in Programs /\ prog \in ProgramType
      /\ copy = prog.copy /\ vgep = prog.vgep /\ ngep = prog.ngep /\ load = prog.load /\ store = prog.store
      /\ pend = {} /\ dag = {} /\ toMerge = {} /\ rep = [n \in Node |-> n]
      /\ \A n \in Node : pts[n] = {<<e[1], 0>> : e \in {a \in prog.addr : a[2] = n}}
  BY ProgramAssumption DEF Init
<1>2. NoLoops
  BY <1>1, ProgramAssumption DEF NoLoops, Direct
<1>3. /\ \A e \in prog.copy \cup prog.vgep \cup GepPairs(prog.ngep) \cup prog.load \cup prog.store :
            e[1] \in prog.nodes /\ e[2] \in prog.nodes
      /\ \A e \in prog.addr : e[2] \in prog.nodes
  BY <1>1, ProgramAssumption
<1>4. EdgesKnown
  BY <1>1, <1>3 DEF EdgesKnown, Direct, NodeOf
<1>5. NodesKnown
  BY <1>1, <1>3 DEF NodesKnown, NodeOf
<1>6. QED
  BY <1>1, <1>2, <1>4, <1>5 DEF GraphInv

\* A merge moves every edge, or drops it; it makes no loop.
LEMMA MergedDirect ==
  ASSUME TypeOK, NoLoops, NEW n \in Node, NEW r \in Node, NEW p, MergeNodeToRep(n, r, p)
  PROVE  /\ \A e \in copy' : e[1] # e[2] /\ \E g \in copy : e = <<Sub(g[1], n, r), Sub(g[2], n, r)>>
         /\ \A e \in vgep' : e[1] # e[2] /\ \E g \in vgep : e = <<Sub(g[1], n, r), Sub(g[2], n, r)>>
         /\ \A e \in ngep' : e[1] # e[2] /\ \E g \in ngep : e = <<Sub(g[1], n, r), Sub(g[2], n, r), g[3]>>
<1>1. /\ copy' = MoveCopy(copy, n, r) /\ vgep' = MoveVariantGep(vgep, n, r)
      /\ ngep' = MoveNormalGep(ngep, n, r)
  BY DEF MergeNodeToRep
<1>2. /\ \A e \in copy \cup vgep \cup ngep : e[1] # e[2]
      /\ \A e \in copy \cup vgep : e = <<e[1], e[2]>> 
      /\ \A e \in ngep : e = <<e[1], e[2], e[3]>>
  <2>1. \A e \in ngep : <<e[1], e[2]>> \in GepPairs(ngep)
    BY DEF GepPairs
  <2>2. ASSUME NEW e \in ngep PROVE e[1] # e[2]
    <3>1. <<e[1], e[2]>>[1] # <<e[1], e[2]>>[2]
      BY <2>1 DEF NoLoops, Direct
    <3>2. QED
      BY <3>1
  <2>3. QED
    BY <2>2 DEF NoLoops, Direct, TypeOK, Pair, Gep
<1>3. ASSUME NEW e \in copy'
      PROVE  e[1] # e[2] /\ \E g \in copy : e = <<Sub(g[1], n, r), Sub(g[2], n, r)>>
  BY <1>1, <1>3 DEF MoveCopy, MovePairs
<1>4. ASSUME NEW e \in vgep'
      PROVE  e[1] # e[2] /\ \E g \in vgep : e = <<Sub(g[1], n, r), Sub(g[2], n, r)>>
  <2>1. <<r, r>> \notin vgep
    BY <1>2
  <2>2. PICK g \in vgep : e = <<Sub(g[1], n, r), Sub(g[2], n, r)>> /\ e # <<r, r>>
    BY <1>1, <1>4, <2>1 DEF MoveVariantGep, MovePairs
  <2>3. g[1] # g[2]
    BY <1>2
  <2>4. Sub(g[1], n, r) # Sub(g[2], n, r)
    BY <2>2, <2>3 DEF Sub
  <2>5. QED
    BY <2>2, <2>4
<1>5. ASSUME NEW e \in ngep'
      PROVE  e[1] # e[2] /\ \E g \in ngep : e = <<Sub(g[1], n, r), Sub(g[2], n, r), g[3]>>
  <2>1. CASE e \in ngep /\ ~Touches(e, n)
    BY <2>1, <1>2 DEF Touches, Sub
  <2>2. CASE \E g \in ngep : /\ e = <<Sub(g[1], n, r), Sub(g[2], n, r), g[3]>>
                             /\ ~(e[1] = r /\ e[2] = r)
    <3>1. PICK g \in ngep : /\ e = <<Sub(g[1], n, r), Sub(g[2], n, r), g[3]>>
                            /\ ~(e[1] = r /\ e[2] = r)
      BY <2>2
    <3>2. g[1] # g[2]
      BY <1>2
    <3>3. Sub(g[1], n, r) # Sub(g[2], n, r)
      BY <3>1, <3>2 DEF Sub
    <3>4. QED
      BY <3>1, <3>3
  <2>3. QED
    BY <2>1, <2>2, <1>1, <1>5 DEF MoveNormalGep
<1>6. QED
  BY <1>3, <1>4, <1>5

LEMMA MergedPairs ==
  ASSUME TypeOK, NoLoops, NEW n \in Node, NEW r \in Node, NEW p, MergeNodeToRep(n, r, p)
  PROVE  /\ \A e \in Direct' : e[1] # e[2] /\ \E g \in Direct : e = <<Sub(g[1], n, r), Sub(g[2], n, r)>>
         /\ \A e \in load' : \E g \in load : e = <<Sub(g[1], n, r), Sub(g[2], n, r)>>
         /\ \A e \in store' : \E g \in store : e = <<Sub(g[1], n, r), Sub(g[2], n, r)>>
<1>1. ASSUME NEW e \in Direct'
      PROVE  e[1] # e[2] /\ \E g \in Direct : e = <<Sub(g[1], n, r), Sub(g[2], n, r)>>
  <2>1. CASE e \in copy' \cup vgep'
    BY <2>1, MergedDirect DEF Direct
  <2>2. CASE e \in GepPairs(ngep)'
    <3>1. PICK h \in ngep' : e = <<h[1], h[2]>>
      BY <2>2 DEF GepPairs
    <3>2. PICK g \in ngep : h = <<Sub(g[1], n, r), Sub(g[2], n, r), g[3]>> /\ h[1] # h[2]
      BY <3>1, MergedDirect
    <3>3. <<g[1], g[2]>> \in Direct
      BY DEF Direct, GepPairs
    <3>4. QED
      BY <3>1, <3>2, <3>3
  <2>3. QED
    BY <2>1, <2>2 DEF Direct
<1>2. QED
  BY <1>1, MovedPair DEF MergeNodeToRep

LEMMA BindingPtr ==
  ASSUME prog \in Programs, NEW c \in prog.calls, NEW f \in prog.funs, Len(c.args) = Len(f.params)
  PROVE  \A e \in Binding(c, f) :
            /\ e[1] \in Ptr \cap prog.nodes /\ e[2] \in Ptr \cap prog.nodes
            /\ e = <<e[1], e[2]>> /\ e[2] \notin GepResults(prog)
<1>1. /\ c \in [fp : Ptr, args : Seq(Ptr), ret : SUBSET Ptr]
      /\ f \in [obj : Base, params : Seq(Ptr), ret : SUBSET Ptr]
      /\ Elements(c.args) \cup c.ret \subseteq prog.nodes /\ c.ret \cap GepResults(prog) = {}
      /\ Elements(f.params) \cup f.ret \subseteq prog.nodes
      /\ Elements(f.params) \cap GepResults(prog) = {}
  BY ProgramAssumption DEF ProgramType
<1>2. \A i \in DOMAIN c.args : i \in DOMAIN f.params /\ c.args[i] \in Ptr /\ f.params[i] \in Ptr
  BY <1>1
<1>3. /\ \A i \in DOMAIN c.args : c.args[i] \in Elements(c.args)
      /\ \A i \in DOMAIN f.params : f.params[i] \in Elements(f.params)
  BY DEF Elements
<1>4. ASSUME NEW e \in {<<c.args[i], f.params[i]>> : i \in DOMAIN c.args}
      PROVE  /\ e[1] \in Ptr \cap prog.nodes /\ e[2] \in Ptr \cap prog.nodes
             /\ e = <<e[1], e[2]>> /\ e[2] \notin GepResults(prog)
  <2>1. PICK i \in DOMAIN c.args : e = <<c.args[i], f.params[i]>>
    OBVIOUS
  <2>2. QED
    BY <2>1, <1>1, <1>2, <1>3
<1>5. ASSUME NEW e \in f.ret \X c.ret
      PROVE  /\ e[1] \in Ptr \cap prog.nodes /\ e[2] \in Ptr \cap prog.nodes
             /\ e = <<e[1], e[2]>> /\ e[2] \notin GepResults(prog)
  BY <1>1, <1>3
<1>6. QED
  BY <1>4, <1>5 DEF Binding

LEMMA PendingFolds ==
  ASSUME FieldInv, NEW f \in fold, prog \in Programs, TypeOK
  PROVE  <<f[1], 0>> \in prog.nodes /\ f \in flds
BY DEF FieldInv, Folds, FieldsPointed, Unfolded, TargetsNamed

LEMMA TargetsKnown ==
  ASSUME FieldInv, TypeOK, NEW n \in Node, NEW o \in pts[n] PROVE NodeOf(o)
<1>1. o \in Obj /\ o = <<o[1], o[2]>>
  BY DEF TypeOK, Obj
<1>2. CASE o[2] = 0
  BY <1>1, <1>2 DEF FieldInv, TargetsNamed, NodeOf
<1>3. CASE o[2] # 0
  BY <1>3 DEF FieldInv, TargetsNamed, NodeOf
<1>4. QED
  BY <1>2, <1>3

\* A merge of two nodes of the graph.
LEMMA MergeGraph ==
  ASSUME TypeOK, MergeInv, GraphInv, phase # "done", NEW n \in Node, NEW r \in Node, n # r,
         rep[n] = n, rep[r] = r, NodeOf(n), NodeOf(r), NEW p \in [Node -> SUBSET Obj],
         \A x \in Node : pts[x] = {} => p[x] = {},
         MergeNodeToRep(n, r, p), prog' = prog, flds' = flds, phase' = phase, pend' = pend,
         dag' = dag, toMerge' \subseteq toMerge
  PROVE  GraphInv'
<1>1. NoLoops /\ EdgesKnown /\ NodesKnown /\ prog \in Programs
  BY DEF GraphInv
<1>2. NoLoops'
  BY <1>1, MergedPairs DEF NoLoops
<1>3. \A x : NodeOf(x)' <=> NodeOf(x)
  BY DEF NodeOf
<1>4. EdgesKnown'
  <2>1. ASSUME NEW e \in (Direct \cup load \cup store)' PROVE NodeOf(e[1]) /\ NodeOf(e[2])
    <3>1. PICK g \in Direct \cup load \cup store : e = <<Sub(g[1], n, r), Sub(g[2], n, r)>>
      BY <1>1, MergedPairs
    <3>2. QED
      BY <3>1, <1>1 DEF Sub, EdgesKnown
  <2>2. QED
    BY <2>1, <1>1, <1>3 DEF EdgesKnown
<1>5. NodesKnown'
  <2>1. \A m \in Node : rep'[m] = IF rep[m] = n THEN r ELSE rep[m]
    BY MergeReps DEF MergeInv
  <2>2. \A m \in Node : pts'[m] = IF m = r THEN p[r] \cup p[n] ELSE p[m]
    BY MergedPts
  <2>3. ASSUME NEW x \in Node, NodeOf(x) PROVE NodeOf(rep'[x])
    BY <2>1, <2>3, <1>1 DEF NodesKnown
  <2>4. ASSUME NEW x \in Node, ~NodeOf(x) PROVE pts'[x] = {} /\ rep'[x] = x
    BY <2>1, <2>2, <2>4, <1>1 DEF NodesKnown
  <2>5. QED
    BY <2>3, <2>4, <1>3 DEF NodesKnown
<1>6. QED
  BY <1>1, <1>2, <1>4, <1>5 DEF GraphInv

LEMMA SCCDetectGraph ==
  ASSUME SolverInv, GraphInv, SCCDetect PROVE GraphInv'
<1> DEFINE cycles == Cycles(SCCEdges, GraphNode)
<1>1. PICK root \in {f \in [cycles -> UNION cycles] : \A C \in cycles : f[C] \in C} :
        /\ toMerge' = {<<n, Find(cycles, root, n)>> :
                       n \in {m \in UNION cycles : Find(cycles, root, m) # m}}
        /\ dag' = {<<Find(cycles, root, e[1]), Find(cycles, root, e[2])>> : e \in SCCEdges}
  BY DEF SCCDetect
<1>2. \A C \in cycles : root[C] \in C /\ C \subseteq GraphNode
  BY FindRoot DEF Cycles
<1>3. \A n : Find(cycles, root, n) = n \/ Find(cycles, root, n) \in GraphNode
  <2> HIDE DEF cycles
  <2>1. SUFFICES ASSUME NEW n, \E C \in cycles : n \in C PROVE Find(cycles, root, n) \in GraphNode
    BY DEF Find
  <2>2. (CHOOSE C \in cycles : n \in C) \in cycles
    BY <2>1
  <2>3. QED
    BY <2>1, <2>2, <1>2 DEF Find
<1>4. GraphNode \subseteq prog.nodes \cup flds /\ UNION cycles \subseteq GraphNode
  BY <1>2 DEF GraphNode
<1>5. /\ \A e \in SCCEdges : e \in Direct
      /\ phase = "scc" /\ phase' = "merge"
      /\ UNCHANGED <<prog, pts, rep, copy, ngep, vgep, load, store, flds, pend>>
  BY DEF SCCEdges, Direct, SCCDetect, ptVars, repVars, edgeVars, objVars
<1> HIDE DEF cycles
<1>6. \A e \in Direct : NodeOf(e[1]) /\ NodeOf(e[2])
  BY <1>5 DEF GraphInv, EdgesKnown
<1>7. ASSUME NEW e \in toMerge' PROVE NodeOf(e[1]) /\ NodeOf(e[2])
  <2>1. PICK n \in UNION cycles : e = <<n, Find(cycles, root, n)>>
    BY <1>1
  <2>2. QED
    BY <2>1, <1>3, <1>4 DEF NodeOf
<1>8. ASSUME NEW e \in dag' PROVE NodeOf(e[1]) /\ NodeOf(e[2])
  <2>1. PICK g \in SCCEdges : e = <<Find(cycles, root, g[1]), Find(cycles, root, g[2])>>
    BY <1>1
  <2>2. QED
    BY <2>1, <1>3, <1>4, <1>5, <1>6 DEF NodeOf
<1>9. EdgesKnown'
  BY <1>5, <1>7, <1>8 DEF GraphInv, EdgesKnown, Direct, GepPairs, NodeOf
<1>10. NodesKnown' /\ NoLoops' /\ prog' \in Programs
  BY <1>5 DEF GraphInv, NodesKnown, NodeOf, NoLoops, Direct, GepPairs
<1>11. QED
  BY <1>9, <1>10 DEF GraphInv

LEMMA ProcessNodeGraph ==
  ASSUME SolverInv, GraphInv, ProcessNode PROVE GraphInv'
<1>1. /\ TypeOK /\ cur \in Node /\ phase' = phase /\ phase # "done"
      /\ UNCHANGED <<prog, rep, copy, vgep, ngep, load, store, pend, dag, toMerge>>
  BY DEF ProcessNode, SolverInv, MergeInv, VisitInWave, TypeOK, repVars, edgeVars, wave
<1>2. NoLoops /\ EdgesKnown /\ NodesKnown
  BY DEF GraphInv
<1>3. NoLoops' /\ prog' \in Programs
  BY <1>1 DEF GraphInv, NoLoops, Direct, GepPairs
<1>4. CASE rep[cur] = cur
  <2>1. HandleCopyGep(cur)
    BY <1>4 DEF ProcessNode
  <2>2. flds \subseteq flds' /\ \A d \in Node : pts'[d] = pts[d] \cup Sent(cur, d)
    BY <2>1 DEF HandleCopyGep
  <2>3. \A x : NodeOf(x) => NodeOf(x)'
    BY <2>2, <1>1 DEF NodeOf
  <2>4. EdgesKnown'
    BY <1>1, <1>2, <2>3 DEF EdgesKnown, Direct, GepPairs
  <2>5. ASSUME NEW x \in Node, ~NodeOf(x) PROVE Sent(cur, x) = {}
    <3>1. \A e \in Direct : e[2] # x
      BY <2>5, <1>1, <1>2 DEF EdgesKnown
    <3>2. <<cur, x>> \notin copy /\ <<cur, x>> \notin vgep
      BY <3>1 DEF Direct
    <3>3. \A e \in ngep : e[2] # x
      <4>1. \A e \in ngep : <<e[1], e[2]>> \in Direct
        BY DEF Direct, GepPairs
      <4>2. QED
        BY <4>1, <3>1
    <3>4. Fields(cur, {e \in ngep : e[1] = cur /\ e[2] = x}) = {}
      BY <3>3 DEF Fields
    <3>5. QED
      BY <3>2, <3>4 DEF Sent
  <2>6. NodesKnown'
    <3>1. ASSUME NEW x \in Node, NodeOf(x)' PROVE NodeOf(rep[x])'
      BY <3>1, <1>1, <1>2, <2>3 DEF NodesKnown
    <3>2. ASSUME NEW x \in Node, ~NodeOf(x)' PROVE pts'[x] = {} /\ rep'[x] = x
      BY <3>2, <2>2, <2>3, <2>5, <1>1, <1>2 DEF NodesKnown
    <3>3. QED
      BY <3>1, <3>2 DEF NodesKnown
  <2>7. QED
    BY <1>3, <2>4, <2>6 DEF GraphInv
<1>5. CASE rep[cur] # cur
  <2>1. pts' = pts /\ flds' = flds
    BY <1>5 DEF ProcessNode, ptVars
  <2>2. QED
    BY <2>1, <1>1, <1>2, <1>3 DEF GraphInv, EdgesKnown, NodesKnown, NodeOf, Direct, GepPairs
<1>6. QED
  BY <1>4, <1>5

LEMMA FoldFieldGraph ==
  ASSUME SolverInv, FieldInv, GraphInv, NEW f \in fold, FoldField(f) PROVE GraphInv'
<1> DEFINE n == rep[f]
           r == rep[FIObjNode(f)]
           folded == [x \in Node |-> Retarget(pts[x], f)]
<1>1. /\ TypeOK /\ MergeInv /\ NoLoops /\ EdgesKnown /\ NodesKnown /\ phase # "done"
      /\ UNCHANGED <<prog, flds, phase, pend, toMerge, dag>>
  BY DEF SolverInv, GraphInv, MergeInv, VisitInWave, FoldField, wave
<1>2. /\ f \in Obj /\ f \in Node /\ FIObjNode(f) \in Node /\ n \in Node /\ r \in Node
      /\ rep[n] = n /\ rep[r] = r
  BY <1>1, FIObjNodeType, ObjNode DEF TypeOK, MergeInv, RepIdempotent
<1>3. NodeOf(n) /\ NodeOf(r)
  <2>1. NodeOf(f) /\ NodeOf(FIObjNode(f))
    BY <1>1, PendingFolds DEF NodeOf, FIObjNode, GraphInv
  <2>2. QED
    BY <2>1, <1>1, <1>2 DEF NodesKnown
<1>4. folded \in [Node -> SUBSET Obj] /\ \A x \in Node : folded[x] = Retarget(pts[x], f)
  BY <1>1, <1>2, RetargetType
<1>5. \A x \in Node : pts[x] = {} => folded[x] = {}
  BY <1>4 DEF Retarget
<1>6. CASE n # r
  <2>1. MergeNodeToRep(n, r, folded)
    BY <1>6 DEF FoldField
  <2> HIDE DEF folded, n, r
  <2>2. QED
    BY <2>1, <1>1, <1>2, <1>3, <1>4, <1>5, <1>6, MergeGraph
<1>7. CASE n = r
  <2>1. pts' = folded /\ UNCHANGED <<rep, copy, ngep, vgep, load, store>>
    BY <1>7 DEF FoldField, repVars, edgeVars
  <2> HIDE DEF folded
  <2>2. EdgesKnown' /\ NoLoops'
    BY <2>1, <1>1 DEF EdgesKnown, NoLoops, Direct, GepPairs, NodeOf
  <2>3. NodesKnown'
    BY <2>1, <1>1, <1>5 DEF NodesKnown, NodeOf
  <2>4. QED
    BY <2>2, <2>3, <1>1 DEF GraphInv
<1>8. QED
  BY <1>6, <1>7

LEMMA StepGraph == SolverInv /\ FieldInv /\ GraphInv /\ [Next]_vars => GraphInv'
<1> SUFFICES ASSUME SolverInv, FieldInv, GraphInv, [Next]_vars PROVE GraphInv'
  OBVIOUS
<1>1. /\ TypeOK /\ MergeInv /\ NoLoops /\ EdgesKnown /\ NodesKnown /\ prog \in Programs
  BY DEF SolverInv, MergeInv, GraphInv
<1> USE DEF ptVars, repVars, edgeVars, objVars, wave, collVars, workVars
\* A step that leaves the graph alone, except for copies between its nodes.
<1>2. ASSUME UNCHANGED <<prog, pts, rep, ngep, vgep, load, store, flds>>,
             toMerge' = toMerge, dag' = dag, phase = "done" => phase' = "done",
             phase' # "done" => \A e \in (copy' \ copy) \cup (pend' \ pend) :
                                   NodeOf(e[1]) /\ NodeOf(e[2]),
             \A e \in copy' \ copy : e[1] # e[2]
      PROVE  GraphInv'
  <2>1. \A x : NodeOf(x)' <=> NodeOf(x)
    BY <1>2 DEF NodeOf
  <2>2. EdgesKnown'
    BY <2>1, <1>1, <1>2 DEF EdgesKnown, Direct, GepPairs
  <2>3. NodesKnown' /\ NoLoops'
    BY <2>1, <1>1, <1>2 DEF NodesKnown, NoLoops, Direct, GepPairs
  <2>4. QED
    BY <2>2, <2>3, <1>1, <1>2 DEF GraphInv
<1>3. CASE SCCDetect
  BY <1>3, SCCDetectGraph
<1>4. ASSUME NEW e \in toMerge, MergeSccNode(e[1], e[2]) PROVE GraphInv'
  <2> DEFINE n == e[1]
             r == e[2]
  <2>1. /\ n \in Node /\ r \in Node /\ n # r /\ rep[n] = n /\ rep[r] = r /\ phase # "done"
        /\ MergeNodeToRep(n, r, pts) /\ UNCHANGED <<prog, flds, phase, pend, dag>>
        /\ toMerge' \subseteq toMerge
    BY <1>1, <1>4 DEF MergeInv, TypeOK, Pair, PendingMerges, DetachedPair, MergeSccNode
  <2>2. NodeOf(n) /\ NodeOf(r)
    BY <2>1, <1>1 DEF EdgesKnown
  <2>3. pts \in [Node -> SUBSET Obj]
    BY <1>1 DEF TypeOK
  <2> HIDE DEF n, r
  <2>4. QED
    BY <2>1, <2>2, <2>3, <1>1, MergeGraph
<1>5. CASE EndMerge \/ EndWave \/ EndAgain \/ Reanalyze
  BY <1>2, <1>5 DEF EndMerge, EndWave, EndAgain, Reanalyze
<1>6. CASE \E n \in todo : CollapsePWCNode(n)
  BY <1>2, <1>6 DEF CollapsePWCNode
<1>7. CASE ProcessNode
  BY <1>7, ProcessNodeGraph
<1>8. CASE \E b \in coll : CollapseField(b)
  BY <1>2, <1>8 DEF CollapseField
<1>9. CASE \E f \in fold : FoldField(f)
  BY <1>9, FoldFieldGraph
<1>10. ASSUME NEW n \in worklist, PopAgain(n) PROVE GraphInv'
  BY <1>2, <1>10 DEF PopAgain
<1>11. ASSUME NEW n \in worklist, PostProcessNode(n) PROVE GraphInv'
  <2>1. phase # "done" /\ n \in Node /\ rep[n] \in Node
    BY <1>1, <1>11 DEF PostProcessNode, TypeOK
  <2>2. ASSUME NEW e \in pend' PROVE NodeOf(e[1]) /\ NodeOf(e[2])
    <3>1. CASE \E o \in Deref(n), l \in load : e = <<o, l[2]>>
      BY <3>1, <2>1, <1>1, TargetsKnown DEF Deref, EdgesKnown
    <3>2. CASE \E o \in Deref(n), l \in store : e = <<l[1], o>>
      BY <3>2, <2>1, <1>1, TargetsKnown DEF Deref, EdgesKnown
    <3>3. QED
      BY <3>1, <3>2, <1>11 DEF PostProcessNode
  <2>3. QED
    BY <2>2, <1>2, <1>11 DEF PostProcessNode
<1>12. ASSUME NEW e \in pend, AddCopyEdge(e) PROVE GraphInv'
  <2> DEFINE s == rep[e[1]]
             d == rep[e[2]]
  <2>1. /\ phase # "done" /\ pend' \subseteq pend
        /\ UNCHANGED <<prog, pts, rep, ngep, vgep, load, store, flds, toMerge, dag, phase>>
        /\ copy' \subseteq copy \cup {<<s, d>>} /\ (copy' = copy \/ s # d)
    BY <1>12, <1>1 DEF AddCopyEdge, CanAddCopy, SolverInv, Phases
  <2>2. NodeOf(s) /\ NodeOf(d)
    <3>1. e[1] \in Node /\ e[2] \in Node
      BY <1>1 DEF TypeOK, Pair
    <3>2. QED
      BY <3>1, <2>1, <1>1 DEF EdgesKnown, NodesKnown
  <2>3. QED
    BY <2>1, <2>2, <1>2
<1>13. CASE UpdateCallGraph
  <2>1. PICK new \in SUBSET Callees : pend' = UNION {Binding(x[1], x[2]) : x \in new}
    BY <1>13 DEF UpdateCallGraph
  <2>2. ASSUME NEW e \in pend' PROVE NodeOf(e[1]) /\ NodeOf(e[2])
    <3>1. PICK x \in new : e \in Binding(x[1], x[2])
      BY <2>1
    <3>2. x[1] \in prog.calls /\ x[2] \in prog.funs /\ Len(x[1].args) = Len(x[2].params)
      BY DEF Callees, Matches
    <3>3. QED
      BY <3>1, <3>2, <1>1, BindingPtr DEF NodeOf
  <2>3. QED
    BY <2>2, <1>2, <1>13 DEF UpdateCallGraph
<1>14. CASE Finalize
  <2>1. phase' = "done" /\ prog' = prog
        /\ UNCHANGED <<copy, vgep, ngep>>
    BY <1>14 DEF Finalize
  <2>2. QED
    BY <2>1, <1>1 DEF GraphInv, EdgesKnown, NodesKnown, NoLoops, Direct, GepPairs
<1>15. CASE UNCHANGED vars
  BY <1>2, <1>15 DEF vars
<1>16. QED
  BY <1>3, <1>4, <1>5, <1>6, <1>7, <1>8, <1>9, <1>10, <1>11, <1>12, <1>13, <1>14, <1>15
     DEF Next, Step, Terminated

-----------------------------------------------------------------------------
(* The wave.  Cycle detection leaves a graph "dag" between the nodes that  *)
(* will represent the cycles.  The merges turn the edges it followed into  *)
(* edges of that graph, and the order in which the stack is popped keeps   *)
(* every edge of it that leaves a node still to visit from entering one    *)
(* that was visited, until a merge or a new edge asks for an iteration.    *)

\* Once the pending merges are made, n is x; the end points of e are equal or in dag.
Goes(n, x) == <<n, x>> \in toMerge \/ (x = n /\ \A e \in toMerge : e[1] # n)

Linked(e) == \E x, y \in Node : Goes(e[1], x) /\ Goes(e[2], y) /\ (x = y \/ <<x, y>> \in dag)

DagInMerge ==
    phase = "merge" =>
        /\ \A n \in GraphNode : n \in todo \/ \E e \in toMerge : e[1] = n
        /\ \A e \in SCCEdges : Linked(e)

Open(n) == n \in todo \/ n = cur

DagInWave ==
    phase = "wave" /\ ~reanalyze /\ prog.mergePWC =>
        /\ SCCEdges \subseteq dag
        /\ \A e \in dag : e[1] # e[2] /\ Open(e[1]) => e[2] \in todo \/ e[2] \notin GraphNode

\* A visited node has sent all it points to, or waits for another visit.
Waits(n) == ~prog.mergePWC /\ phase \in {"wave", "again"} /\ n \in worklist

VisitsDone ==
    phase \in {"wave", "again", "post", "cg"} /\ ~reanalyze =>
        \A n \in GraphNode : Open(n) \/ pts[n] \subseteq propa[n] \/ Waits(n)

WaveInv == DagInMerge /\ DagInWave /\ VisitsDone

LEMMA SCCEdgesDirect == SCCEdges \subseteq Direct /\ (prog.mergePWC => SCCEdges = Direct)
BY DEF SCCEdges, Direct

\* What cycle detection leaves, in terms of the representatives F(n) it chose.
LEMMA SCCDetectGoes ==
  ASSUME SolverInv, SCCDetect
  PROVE  \E root :
            /\ todo' = {Find(Cycles(SCCEdges, GraphNode), root, n) : n \in GraphNode}
            /\ dag' = {<<Find(Cycles(SCCEdges, GraphNode), root, e[1]),
                         Find(Cycles(SCCEdges, GraphNode), root, e[2])>> : e \in SCCEdges}
            /\ \A e \in toMerge' : \E C \in Cycles(SCCEdges, GraphNode) : e[1] \in C /\ e[2] \in C
            /\ \A n \in Node : Find(Cycles(SCCEdges, GraphNode), root, n) \in Node
            /\ \A n, x : x = Find(Cycles(SCCEdges, GraphNode), root, n) => Goes(n, x)'
            /\ \A C \in Cycles(SCCEdges, GraphNode) :
                  \A n \in C : Find(Cycles(SCCEdges, GraphNode), root, n) = root[C]
            /\ \A n : (\A e \in toMerge' : e[1] # n)
                      => Find(Cycles(SCCEdges, GraphNode), root, n) = n
<1> DEFINE cycles == Cycles(SCCEdges, GraphNode)
<1>1. PICK root \in {f \in [cycles -> UNION cycles] : \A C \in cycles : f[C] \in C} :
        /\ toMerge' = {<<n, Find(cycles, root, n)>> :
                       n \in {m \in UNION cycles : Find(cycles, root, m) # m}}
        /\ todo' = {Find(cycles, root, n) : n \in GraphNode}
        /\ dag' = {<<Find(cycles, root, e[1]), Find(cycles, root, e[2])>> : e \in SCCEdges}
  BY DEF SCCDetect
<1>2. \A C \in cycles : \A n \in C : Find(cycles, root, n) = root[C]
  BY FindRoot
<1>3. \A C \in cycles : root[C] \in C
  OBVIOUS
<1>4. UNION cycles \subseteq Node
  BY GraphNodeType DEF Cycles, SolverInv, MergeInv
<1> HIDE DEF cycles
<1>5. ASSUME NEW n \in Node PROVE Find(cycles, root, n) \in Node
  <2>1. CASE \E C \in cycles : n \in C
    <3>1. PICK C \in cycles : n \in C
      BY <2>1
    <3>2. Find(cycles, root, n) = root[C] /\ root[C] \in C
      BY <1>2, <1>3, <3>1
    <3>3. QED
      BY <3>2, <1>4
  <2>2. CASE ~\E C \in cycles : n \in C
    BY <2>2 DEF Find
  <2>3. QED
    BY <2>1, <2>2
<1>6. ASSUME NEW n PROVE /\ (\A e \in toMerge' : e[1] # n) => Find(cycles, root, n) = n
                         /\ (\E e \in toMerge' : e[1] = n) => <<n, Find(cycles, root, n)>> \in toMerge'
  <2>1. CASE n \in UNION cycles /\ Find(cycles, root, n) # n
    <3>1. <<n, Find(cycles, root, n)>> \in toMerge'
      BY <2>1, <1>1
    <3>2. <<n, Find(cycles, root, n)>>[1] = n
      OBVIOUS
    <3>3. QED
      BY <3>1, <3>2
  <2>2. CASE n \notin UNION cycles
    <3>1. Find(cycles, root, n) = n
      BY <2>2 DEF Find
    <3>2. QED
      BY <3>1, <2>2, <1>1
  <2>3. CASE n \in UNION cycles /\ Find(cycles, root, n) = n
    BY <2>3, <1>1
  <2>4. QED
    BY <2>1, <2>2, <2>3
<1>7. \A n, x : x = Find(cycles, root, n) => Goes(n, x)'
  BY <1>6 DEF Goes
<1>8. ASSUME NEW e \in toMerge' PROVE \E C \in cycles : e[1] \in C /\ e[2] \in C
  <2>1. PICK n \in UNION cycles : e = <<n, Find(cycles, root, n)>>
    BY <1>1
  <2>2. PICK C \in cycles : n \in C
    OBVIOUS
  <2>3. QED
    BY <2>1, <2>2, <1>2, <1>3
<1>9. QED
  BY <1>1, <1>2, <1>5, <1>6, <1>7, <1>8 DEF cycles

LEMMA SCCDetectWave == ASSUME SolverInv, GraphInv, SCCDetect PROVE WaveInv'
<1> DEFINE cycles == Cycles(SCCEdges, GraphNode)
<1>1. PICK root :
        /\ todo' = {Find(cycles, root, n) : n \in GraphNode}
        /\ dag' = {<<Find(cycles, root, e[1]), Find(cycles, root, e[2])>> : e \in SCCEdges}
        /\ \A n \in Node : Find(cycles, root, n) \in Node
        /\ \A n, x : x = Find(cycles, root, n) => Goes(n, x)'
        /\ \A n : (\A e \in toMerge' : e[1] # n) => Find(cycles, root, n) = n
  BY SCCDetectGoes
<1>2. /\ phase' = "merge" /\ TypeOK
      /\ UNCHANGED <<prog, rep, copy, vgep, ngep, flds>>
  BY DEF SCCDetect, repVars, edgeVars, objVars, SolverInv, MergeInv
<1>3. GraphNode' = GraphNode /\ SCCEdges' = SCCEdges
  BY <1>2 DEF GraphNode, SCCEdges, GepPairs
<1>4. GraphNode \subseteq Node /\ SCCEdges \subseteq Pair
  BY <1>2, GraphNodeType
<1> HIDE DEF cycles
<1>5. ASSUME NEW n \in GraphNode PROVE n \in todo' \/ \E e \in toMerge' : e[1] = n
  BY <1>1
<1>6. ASSUME NEW e \in SCCEdges PROVE Linked(e)'
  <2>1. /\ Find(cycles, root, e[1]) \in Node /\ Find(cycles, root, e[2]) \in Node
        /\ <<Find(cycles, root, e[1]), Find(cycles, root, e[2])>> \in dag'
    BY <1>1, <1>4 DEF Pair
  <2>2. PICK x \in Node, y \in Node : /\ x = Find(cycles, root, e[1]) /\ y = Find(cycles, root, e[2])
                                     /\ <<x, y>> \in dag'
    BY <2>1
  <2>3. Goes(e[1], x)' /\ Goes(e[2], y)'
    BY <2>2, <1>1
  <2>4. QED
    BY <2>2, <2>3 DEF Linked
<1>7. QED
  BY <1>2, <1>3, <1>5, <1>6 DEF WaveInv, DagInMerge, DagInWave, VisitsDone

\* A merge follows where it takes a node.
LEMMA GoesMerged ==
  ASSUME MergeInv, NEW n, NEW r, <<n, r>> \in toMerge, toMerge' = toMerge \ {<<n, r>>},
         NEW v, NEW x, Goes(v, x)
  PROVE  Goes(Sub(v, n, r), x)'
<1>1. /\ \A g \in toMerge : g[1] # r /\ (g[1] = n => g = <<n, r>>)
      /\ \A g \in toMerge : g = <<g[1], g[2]>>
  BY DEF MergeInv, TypeOK, Pair, PendingMerges
<1>2. CASE v = n
  <2>1. x = r
    BY <1>1, <1>2 DEF Goes
  <2>2. Sub(v, n, r) = r
    BY <1>2 DEF Sub
  <2>3. QED
    BY <2>1, <2>2, <1>1 DEF Goes
<1>3. CASE v # n
  BY <1>1, <1>3 DEF Goes, Sub
<1>4. QED
  BY <1>2, <1>3

LEMMA MergeSccNodeWave ==
  ASSUME SolverInv, GraphInv, WaveInv, NEW e \in toMerge, MergeSccNode(e[1], e[2]) PROVE WaveInv'
<1> DEFINE n == e[1]
           r == e[2]
<1>1. /\ TypeOK /\ MergeInv /\ NoLoops /\ DagInMerge
  BY DEF SolverInv, MergeInv, GraphInv, WaveInv
<1>2. /\ n \in Node /\ r \in Node /\ n # r /\ rep[n] = n /\ rep[r] = r /\ e = <<n, r>>
      /\ \A g \in toMerge : g[1] # r /\ (g[1] = n => g = e) /\ g[2] # n
      /\ \A g \in toMerge : g = <<g[1], g[2]>>
  BY <1>1 DEF MergeInv, TypeOK, Pair, PendingMerges, DetachedPair
<1>3. /\ MergeNodeToRep(n, r, pts) /\ phase = "merge" /\ phase' = phase
      /\ UNCHANGED <<prog, flds, todo, dag>> /\ toMerge' = toMerge \ {e}
  BY <1>2 DEF MergeSccNode
<1> HIDE DEF n, r
<1>4. \A m \in Node : rep'[m] = IF rep[m] = n THEN r ELSE rep[m]
  BY <1>1, <1>2, <1>3, MergeReps DEF MergeInv
<1>5. ASSUME NEW m \in GraphNode' PROVE m \in todo \/ \E g \in toMerge' : g[1] = m
  <2>1. m \in Node
    <3>1. prog.nodes \subseteq Node /\ flds \subseteq Node
      BY <1>1, ObjNode DEF TypeOK, ProgramType
    <3>2. QED
      BY <3>1, <1>3, <1>5 DEF GraphNode
  <2>2. m \in GraphNode /\ m # n
    BY <2>1, <1>2, <1>3, <1>4, <1>5 DEF GraphNode
  <2>3. QED
    BY <2>2, <1>1, <1>2, <1>3 DEF DagInMerge
<1>6. \A v, x : Goes(v, x) => Goes(Sub(v, n, r), x)'
  BY <1>1, <1>2, <1>3, GoesMerged
<1>7. ASSUME NEW g \in SCCEdges' PROVE Linked(g)'
  <2>1. PICK h \in SCCEdges : g[1] = Sub(h[1], n, r) /\ g[2] = Sub(h[2], n, r)
    <3>1. CASE g \in copy'
      BY <3>1, <1>1, <1>2, <1>3, MergedDirect DEF SCCEdges
    <3>2. CASE prog.mergePWC
      BY <3>2, <1>1, <1>2, <1>3, <1>7, MergedPairs, SCCEdgesDirect DEF Direct, SCCEdges
    <3>3. QED
      BY <3>1, <3>2, <1>3, <1>7 DEF SCCEdges
  <2>2. PICK x \in Node, y \in Node : Goes(h[1], x) /\ Goes(h[2], y) /\ (x = y \/ <<x, y>> \in dag)
    BY <1>1, <1>3, <2>1 DEF DagInMerge, Linked
  <2>3. Goes(g[1], x)' /\ Goes(g[2], y)'
    BY <2>1, <2>2, <1>6
  <2>4. QED
    BY <2>2, <2>3, <1>3 DEF Linked
<1>8. QED
  BY <1>3, <1>5, <1>7 DEF WaveInv, DagInMerge, DagInWave, VisitsDone

LEMMA EndMergeWave == ASSUME SolverInv, GraphInv, WaveInv, EndMerge PROVE WaveInv'
<1>1. /\ phase = "merge" /\ toMerge = {} /\ phase' = "wave"
      /\ UNCHANGED <<prog, pts, propa, rep, copy, ngep, vgep, flds, todo, dag, cur, reanalyze>>
      /\ DagInMerge /\ NoLoops
  BY DEF EndMerge, ptVars, repVars, edgeVars, objVars, wave, WaveInv, GraphInv
<1>2. \A n \in GraphNode : n \in todo
  BY <1>1 DEF DagInMerge
<1>3. ASSUME NEW e \in SCCEdges PROVE e \in dag
  <2>1. e[1] # e[2] /\ e = <<e[1], e[2]>>
    BY <1>1, SCCEdgesDirect, GraphNodeType DEF NoLoops, SolverInv, MergeInv, Pair
  <2>2. PICK x \in Node, y \in Node : Goes(e[1], x) /\ Goes(e[2], y) /\ (x = y \/ <<x, y>> \in dag)
    BY <1>1 DEF DagInMerge, Linked
  <2>3. x = e[1] /\ y = e[2]
    BY <2>2, <1>1 DEF Goes
  <2>4. QED
    BY <2>1, <2>2, <2>3
<1>4. GraphNode' = GraphNode /\ SCCEdges' = SCCEdges
  BY <1>1 DEF GraphNode, SCCEdges, GepPairs
<1>5. QED
  BY <1>1, <1>2, <1>3, <1>4 DEF WaveInv, DagInMerge, DagInWave, VisitsDone, Open

LEMMA ProcessNodeWave ==
  ASSUME SolverInv, FieldInv, GraphInv, GraphInv', WaveInv, ProcessNode PROVE WaveInv'
<1>1. /\ TypeOK /\ cur \in Node /\ phase' = phase /\ phase \in {"wave", "again"} /\ cur' = NoNode
      /\ UNCHANGED <<prog, rep, copy, vgep, ngep, dag, todo, reanalyze>>
      /\ (prog.mergePWC => phase = "wave")
  BY DEF ProcessNode, SolverInv, MergeInv, VisitInWave, TypeOK, repVars, edgeVars, wave, Phases
<1>2. NoLoops /\ EdgesKnown /\ NodesKnown /\ DagInWave /\ VisitsDone
  BY DEF GraphInv, WaveInv
<1>3. prog.nodes \subseteq Node /\ flds \subseteq Obj /\ flds' \subseteq Obj /\ todo \subseteq Node
  <2>1. TypeOK'
    BY <1>1, ProcessNodeType
  <2>2. QED
    BY <1>1, <2>1 DEF TypeOK, ProgramType
<1>4. SCCEdges' = SCCEdges
  BY <1>1 DEF SCCEdges, GepPairs
<1>5. CASE rep[cur] = cur
  <2>1. HandleCopyGep(cur)
    BY <1>5 DEF ProcessNode
  <2>2. /\ flds \subseteq flds' /\ \A d \in Node : pts'[d] = pts[d] \cup Sent(cur, d)
        /\ propa' = [propa EXCEPT ![cur] = pts[cur]]
        /\ worklist' = worklist \cup Grown
    BY <2>1 DEF HandleCopyGep
  <2>3. ASSUME NEW x \in Node, Sent(cur, x) # {} PROVE <<cur, x>> \in Direct
    <3>1. <<cur, x>> \in copy \/ <<cur, x>> \in vgep \/ \E e \in ngep : e[1] = cur /\ e[2] = x
      <4>1. ASSUME \A e \in ngep : ~(e[1] = cur /\ e[2] = x)
            PROVE  Fields(cur, {e \in ngep : e[1] = cur /\ e[2] = x}) = {}
        BY <4>1 DEF Fields
      <4>2. QED
        BY <4>1, <2>3 DEF Sent
    <3>2. QED
      BY <3>1 DEF Direct, GepPairs
  <2>4. Sent(cur, cur) = {}
    <3>1. <<cur, cur>> \notin Direct
      BY <1>2 DEF NoLoops
    <3>2. QED
      BY <3>1, <2>3, <1>1
  <2>5. ASSUME NEW x \in GraphNode', x \notin GraphNode
        PROVE  pts'[x] = {} /\ ~NodeOf(x) /\ x \in Obj
    <3>1. x \in flds' /\ x \notin flds /\ x \notin prog.nodes /\ x \in Obj
      BY <2>5, <1>1, <1>3 DEF GraphNode
    <3>2. ~NodeOf(x) /\ x \in Node
      BY <3>1, ObjNode, NodeAssumption DEF NodeOf
    <3>3. Sent(cur, x) = {}
      <4>1. <<cur, x>> \notin Direct
        BY <3>2, <1>1, <1>2 DEF EdgesKnown
      <4>2. QED
        BY <4>1, <3>2, <2>3
    <3>4. QED
      BY <3>1, <3>2, <3>3, <2>2, <1>1, <1>2 DEF NodesKnown
  <2>6. DagInWave'
    <3>1. SUFFICES ASSUME phase = "wave", ~reanalyze, prog.mergePWC, NEW e \in dag,
                          e[1] # e[2], e[1] \in todo \/ e[1] = NoNode
                   PROVE  e[2] \in todo \/ e[2] \notin GraphNode'
      BY <1>1, <1>2, <1>4 DEF DagInWave, Open
    <3>2. e[1] \in Node /\ NodeOf(e[1]) /\ NodeOf(e[2])
      BY <3>1, <1>1, <1>2 DEF EdgesKnown, TypeOK, Pair
    <3>3. Open(e[1])
      BY <3>1, <3>2, NoNodeAssumption DEF Open
    <3>4. e[2] \in todo \/ e[2] \notin GraphNode
      BY <3>1, <3>3, <1>2 DEF DagInWave
    <3>5. QED
      BY <3>2, <3>4, <2>5
  <2>7. VisitsDone'
    <3>1. SUFFICES ASSUME ~reanalyze, NEW x \in GraphNode', x \notin todo
                   PROVE  pts'[x] \subseteq propa'[x] \/ Waits(x)'
      BY <1>1 DEF VisitsDone, Open
    <3>2. x \in Node
      BY <1>1, <1>3, ObjNode DEF GraphNode
    <3>3. CASE x = cur
      BY <3>3, <2>2, <2>4, <1>1 DEF TypeOK
    <3>4. CASE x # cur /\ Sent(cur, x) \subseteq pts[x] /\ x \in GraphNode
      <4>1. pts'[x] = pts[x] /\ propa'[x] = propa[x]
        BY <3>2, <3>4, <2>2, <1>1 DEF TypeOK
      <4>2. pts[x] \subseteq propa[x] \/ Waits(x)
        BY <3>1, <3>4, <1>1, <1>2 DEF VisitsDone, Open
      <4>3. QED
        BY <4>1, <4>2, <2>2, <1>1 DEF Waits
    <3>5. CASE x \notin GraphNode
      BY <3>5, <2>5
    <3>6. CASE x # cur /\ ~(Sent(cur, x) \subseteq pts[x]) /\ x \in GraphNode
      <4>1. CASE prog.mergePWC
        <5>1. <<cur, x>> \in dag
          BY <3>2, <3>6, <4>1, <2>3, <1>1, <1>2, <3>1, SCCEdgesDirect DEF DagInWave
        <5>2. <<cur, x>>[1] = cur /\ <<cur, x>>[2] = x
          OBVIOUS
        <5>3. QED
          BY <5>1, <5>2, <4>1, <3>1, <3>6, <1>1, <1>2 DEF DagInWave, Open
      <4>2. CASE ~prog.mergePWC
        <5>1. x \in Grown
          BY <3>2, <3>6, <2>2 DEF Grown
        <5>2. QED
          BY <5>1, <4>2, <2>2, <1>1 DEF Waits
      <4>3. QED
        BY <4>1, <4>2
    <3>7. QED
      BY <3>3, <3>4, <3>5, <3>6
  <2>8. QED
    BY <2>6, <2>7, <1>1 DEF WaveInv, DagInMerge
<1>6. CASE rep[cur] # cur
  <2>1. pts' = pts /\ propa' = propa /\ flds' = flds /\ worklist' = worklist
    BY <1>6 DEF ProcessNode, ptVars
  <2>2. GraphNode' = GraphNode /\ cur \notin GraphNode
    BY <2>1, <1>1, <1>6 DEF GraphNode
  <2>3. \A x \in Node : Open(x)' => Open(x)
    BY <1>1, NoNodeAssumption DEF Open
  <2>4. \A x \in GraphNode : Open(x) => Open(x)'
    BY <1>1, <2>2 DEF Open
  <2>5. \A e \in dag : e[1] \in Node
    BY <1>1 DEF TypeOK, Pair
  <2>6. DagInWave'
    BY <2>2, <2>3, <2>5, <1>1, <1>2, <1>4 DEF DagInWave
  <2>7. VisitsDone'
    BY <2>1, <2>2, <2>4, <1>1, <1>2 DEF VisitsDone, Waits
  <2>8. QED
    BY <2>6, <2>7, <1>1 DEF WaveInv, DagInMerge
<1>7. QED
  BY <1>5, <1>6

LEMMA StepWave ==
  SolverInv /\ FieldInv /\ GraphInv /\ GraphInv' /\ WaveInv /\ [Next]_vars => WaveInv'
<1> SUFFICES ASSUME SolverInv, FieldInv, GraphInv, GraphInv', WaveInv, [Next]_vars PROVE WaveInv'
  OBVIOUS
<1>1. /\ TypeOK /\ MergeInv /\ Phases /\ DagInMerge /\ DagInWave /\ VisitsDone
  BY DEF SolverInv, MergeInv, WaveInv
<1> USE DEF ptVars, repVars, edgeVars, objVars, wave, collVars, workVars
\* A step that leaves the graph, the stack and the sets of the nodes alone.
<1>2. ASSUME UNCHANGED <<prog, pts, propa, rep, copy, ngep, vgep, flds, todo, dag, toMerge>>,
             phase' = phase, reanalyze' = reanalyze, cur' = cur,
             worklist' = worklist \/ phase \notin {"wave", "again"}
      PROVE  WaveInv'
  <2>1. GraphNode' = GraphNode /\ SCCEdges' = SCCEdges
    BY <1>2 DEF GraphNode, SCCEdges, GepPairs
  <2>2. QED
    BY <2>1, <1>1, <1>2 DEF WaveInv, DagInMerge, DagInWave, VisitsDone, Linked, Goes, Open, Waits
\* A step that asks for an iteration, or ends one.
<1>3. ASSUME phase' # "merge", reanalyze' \/ phase' \in {"scc", "done"} PROVE WaveInv'
  BY <1>3 DEF WaveInv, DagInMerge, DagInWave, VisitsDone
<1>4. CASE SCCDetect
  BY <1>4, SCCDetectWave
<1>5. CASE \E e \in toMerge : MergeSccNode(e[1], e[2])
  BY <1>5, MergeSccNodeWave
<1>6. CASE EndMerge
  BY <1>6, EndMergeWave
<1>7. ASSUME NEW n \in todo, CollapsePWCNode(n) PROVE WaveInv'
  <2>1. /\ OnTop(n) /\ todo' = todo \ {n} /\ cur' = n /\ phase = "wave" /\ phase' = phase
        /\ UNCHANGED <<prog, pts, propa, rep, copy, ngep, vgep, flds, dag, worklist, reanalyze>>
    BY <1>7 DEF CollapsePWCNode
  <2>2. cur = NoNode
    BY <1>7 DEF CollapsePWCNode, Quiet
  <2>3. GraphNode' = GraphNode /\ SCCEdges' = SCCEdges /\ GraphNode \subseteq Node
    BY <2>1, <1>1, GraphNodeType DEF GraphNode, SCCEdges, GepPairs
  <2>4. \A x \in Node : Open(x) => Open(x)'
    BY <2>1, <2>2, NoNodeAssumption DEF Open
  <2>5. VisitsDone'
    BY <2>1, <2>3, <2>4, <1>1 DEF VisitsDone, Waits
  <2>6. DagInWave'
    <3>1. SUFFICES ASSUME ~reanalyze, prog.mergePWC, NEW e \in dag, e[1] # e[2], e[1] \in todo,
                          e[2] \in GraphNode
                   PROVE  e[2] \in todo \ {n}
      BY <2>1, <2>3, <1>1 DEF DagInWave, Open
    <3>2. e[2] \in todo /\ e = <<e[1], e[2]>>
      BY <3>1, <2>1, <1>1 DEF DagInWave, Open, TypeOK, Pair
    <3>3. e[2] # n
      BY <3>1, <3>2, <2>1 DEF OnTop
    <3>4. QED
      BY <3>2, <3>3
  <2>7. QED
    BY <2>1, <2>5, <2>6 DEF WaveInv, DagInMerge
<1>8. CASE ProcessNode
  BY <1>8, ProcessNodeWave
<1>9. CASE \E b \in coll : CollapseField(b)
  BY <1>9, <1>2 DEF CollapseField
<1>10. ASSUME NEW f \in fold, FoldField(f) PROVE WaveInv'
  <2>1. f \in flds /\ Unfolded(f)
    BY <1>10 DEF FieldInv, Folds, Unfolded
  <2>2. \E n \in Node : f \in pts[n]
    BY <2>1 DEF FieldInv, FieldsPointed
  <2>3. reanalyze' /\ phase' = phase /\ phase # "merge"
    BY <2>2, <1>1, <1>10 DEF FoldField, MergeInv, VisitInWave
  <2>4. QED
    BY <2>3, <1>3
<1>11. CASE EndWave
  <2>1. /\ phase = "wave" /\ todo = {} /\ cur = NoNode /\ phase' = (IF prog.mergePWC THEN "post" ELSE "again")
        /\ UNCHANGED <<prog, pts, propa, rep, flds, todo, cur, worklist, reanalyze>>
    BY <1>11 DEF EndWave, Quiet
  <2>2. GraphNode' = GraphNode
    BY <2>1 DEF GraphNode
  <2>3. VisitsDone'
    BY <2>1, <2>2, <1>1 DEF VisitsDone, Open, Waits
  <2>4. QED
    BY <2>1, <2>3 DEF WaveInv, DagInMerge, DagInWave
<1>12. ASSUME NEW n \in worklist, PopAgain(n) PROVE WaveInv'
  <2>1. /\ phase = "again" /\ phase' = phase /\ todo' = todo /\ cur = NoNode /\ cur' = rep[n]
        /\ worklist' = worklist \ {n}
        /\ UNCHANGED <<prog, pts, propa, rep, flds, reanalyze>>
    BY <1>12 DEF PopAgain, Quiet
  <2>2. GraphNode' = GraphNode /\ GraphNode \subseteq Node
    BY <2>1, <1>1, GraphNodeType DEF GraphNode
  <2>3. ASSUME ~reanalyze, NEW x \in GraphNode, ~Open(x)', ~(pts[x] \subseteq propa[x])
        PROVE  Waits(x)'
    <3>1. ~Open(x)
      BY <2>1, <2>2, <2>3, NoNodeAssumption DEF Open
    <3>2. Waits(x)
      BY <3>1, <2>1, <2>3, <1>1 DEF VisitsDone
    <3>3. x # n
      BY <2>1, <2>3 DEF Open, GraphNode
    <3>4. QED
      BY <3>2, <3>3, <2>1 DEF Waits
  <2>4. VisitsDone'
    BY <2>1, <2>2, <2>3 DEF VisitsDone
  <2>5. QED
    BY <2>1, <2>4 DEF WaveInv, DagInMerge, DagInWave
<1>13. ASSUME NEW n \in worklist, PostProcessNode(n) PROVE WaveInv'
  BY <1>2, <1>13 DEF PostProcessNode
<1>14. CASE EndAgain
  <2>1. /\ phase = "again" /\ worklist = {} /\ cur = NoNode /\ phase' = "post"
        /\ UNCHANGED <<prog, pts, propa, rep, flds, todo, cur, reanalyze>>
    BY <1>14 DEF EndAgain, Quiet
  <2>2. GraphNode' = GraphNode
    BY <2>1 DEF GraphNode
  <2>3. VisitsDone'
    BY <2>1, <2>2, <1>1 DEF VisitsDone, Open, Waits
  <2>4. QED
    BY <2>1, <2>3 DEF WaveInv, DagInMerge, DagInWave
<1>15. ASSUME NEW e \in pend, AddCopyEdge(e) PROVE WaveInv'
  <2>1. phase \in {"post", "cg"} /\ phase' = phase
    BY <1>1, <1>15 DEF AddCopyEdge, Phases
  <2>2. CASE CanAddCopy(copy, rep[e[1]], rep[e[2]])
    BY <2>1, <2>2, <1>3, <1>15 DEF AddCopyEdge
  <2>3. CASE ~CanAddCopy(copy, rep[e[1]], rep[e[2]])
    BY <2>3, <1>2, <1>15 DEF AddCopyEdge
  <2>4. QED
    BY <2>2, <2>3
<1>16. CASE UpdateCallGraph
  <2>1. /\ phase = "post" /\ phase' = "cg" /\ (reanalyze => reanalyze')
        /\ UNCHANGED <<prog, pts, propa, rep, flds, todo, cur>>
    BY <1>16 DEF UpdateCallGraph
  <2>2. GraphNode' = GraphNode
    BY <2>1 DEF GraphNode
  <2>3. reanalyze \in BOOLEAN
    BY <1>1 DEF TypeOK
  <2>4. VisitsDone'
    BY <2>1, <2>2, <2>3, <1>1 DEF VisitsDone, Open, Waits
  <2>5. QED
    BY <2>1, <2>4 DEF WaveInv, DagInMerge, DagInWave
<1>17. CASE Reanalyze
  BY <1>17, <1>3 DEF Reanalyze
<1>18. CASE Finalize
  BY <1>18, <1>3 DEF Finalize
<1>19. CASE UNCHANGED vars
  BY <1>2, <1>19 DEF vars
<1>20. QED
  BY <1>4, <1>5, <1>6, <1>7, <1>8, <1>9, <1>10, <1>11, <1>12, <1>13, <1>14, <1>15, <1>16,
     <1>17, <1>18, <1>19 DEF Next, Step, Terminated

CoreInv == SolverInv /\ FieldInv /\ GraphInv /\ WaveInv

LEMMA InitCore == Init => CoreInv
<1>1. Init => WaveInv
  BY DEF Init, WaveInv, DagInMerge, DagInWave, VisitsDone
<1>2. QED
  BY <1>1, InitSolver, InitFields, InitGraph DEF CoreInv

LEMMA StepCore == CoreInv /\ [Next]_vars => CoreInv'
BY StepSolver, StepFields, StepGraph, StepWave DEF CoreInv

\* After the wave, and behind it, a node has sent everything it points to, unless
\* another iteration was asked for.
THEOREM WaveSettles == Spec => []VisitedSettled
<1>1. CoreInv => VisitedSettled
  BY DEF CoreInv, WaveInv, VisitsDone, VisitedSettled, Open, Waits
<1>2. QED
  BY <1>1, InitCore, StepCore, PTL DEF Spec

-----------------------------------------------------------------------------
(* Geps.  What a node is recorded to have propagated has reached the       *)
(* targets of its gep edges too, as the field or as its collapsed site.    *)

VariantTarget(o) == IF o[1] \in Opaque THEN o ELSE FIObjNode(o)

NormalTarget(o, k) == IF o[1] \in Opaque THEN o ELSE GepObjNode(o, k, {})

GepsReached ==
    /\ \A e \in vgep : \A o \in propa[e[1]] : Holds(VariantTarget(o), pts[e[2]])
    /\ \A e \in ngep : \A o \in propa[e[1]] : Holds(NormalTarget(o, e[3]), pts[e[2]])

LEMMA InsensitiveKept == [Next]_vars => fi \subseteq fi'
<1> SUFFICES ASSUME [Next]_vars PROVE fi \subseteq fi'
  OBVIOUS
<1> USE DEF objVars
<1>1. CASE SCCDetect \/ EndMerge \/ EndWave \/ EndAgain \/ UpdateCallGraph \/ Reanalyze \/ Finalize
  BY <1>1 DEF SCCDetect, EndMerge, EndWave, EndAgain, UpdateCallGraph, Reanalyze, Finalize
<1>2. CASE \E e \in toMerge : MergeSccNode(e[1], e[2])
  BY <1>2 DEF MergeSccNode
<1>3. CASE \E n \in todo : CollapsePWCNode(n)
  BY <1>3 DEF CollapsePWCNode
<1>4. CASE ProcessNode
  BY <1>4 DEF ProcessNode, HandleCopyGep
<1>5. CASE \E b \in coll : CollapseField(b)
  BY <1>5 DEF CollapseField
<1>6. CASE \E f \in fold : FoldField(f)
  BY <1>6 DEF FoldField
<1>7. CASE \E n \in worklist : PopAgain(n) \/ PostProcessNode(n)
  BY <1>7 DEF PopAgain, PostProcessNode
<1>8. CASE \E e \in pend : AddCopyEdge(e)
  BY <1>8 DEF AddCopyEdge
<1>9. CASE UNCHANGED vars
  BY <1>9 DEF vars
<1>10. QED
  BY <1>1, <1>2, <1>3, <1>4, <1>5, <1>6, <1>7, <1>8, <1>9 DEF Next, Step, Terminated

LEMMA HoldsKept ==
  ASSUME PropagationInv, [Next]_vars, NEW n \in Node, NEW o, Holds(o, pts[n])
  PROVE  Holds(o, pts[n])'
<1>1. Kept /\ fi \subseteq fi'
  BY StepKept, InsensitiveKept
<1>2. FIObjNode(FIObjNode(o)) = FIObjNode(o) /\ FIObjNode(o)[1] = o[1]
  BY DEF FIObjNode
<1>3. CASE o \in pts[n]
  BY <1>1, <1>3 DEF Kept, Holds
<1>4. CASE o[1] \in fi /\ FIObjNode(o) \in pts[n]
  BY <1>1, <1>2, <1>4 DEF Kept, Holds
<1>5. QED
  BY <1>3, <1>4 DEF Holds

\* A step that moves no gep edge, and records as propagated nothing new.
LEMMA GepsKept ==
  ASSUME PropagationInv, GepsReached, [Next]_vars, vgep' = vgep, ngep' = ngep,
         \A n \in Node : propa'[n] \subseteq propa[n]
  PROVE  GepsReached'
<1>1. /\ \A e \in vgep : e[1] \in Node /\ e[2] \in Node
      /\ \A e \in ngep : e[1] \in Node /\ e[2] \in Node
  BY DEF PropagationInv, TypeOK, Pair, Gep
<1>2. ASSUME NEW e \in vgep, NEW o \in propa'[e[1]] PROVE Holds(VariantTarget(o), pts[e[2]])'
  <2>1. Holds(VariantTarget(o), pts[e[2]])
    BY <1>1, <1>2 DEF GepsReached
  <2>2. PICK x : x = VariantTarget(o)
    OBVIOUS
  <2>3. Holds(x, pts[e[2]])'
    BY <2>1, <2>2, <1>1, HoldsKept
  <2>4. QED
    BY <2>2, <2>3 DEF VariantTarget, FIObjNode
<1>3. ASSUME NEW e \in ngep, NEW o \in propa'[e[1]] PROVE Holds(NormalTarget(o, e[3]), pts[e[2]])'
  <2>1. Holds(NormalTarget(o, e[3]), pts[e[2]])
    BY <1>1, <1>3 DEF GepsReached
  <2>2. PICK x : x = NormalTarget(o, e[3])
    OBVIOUS
  <2>3. Holds(x, pts[e[2]])'
    BY <2>1, <2>2, <1>1, HoldsKept
  <2>4. QED
    BY <2>2, <2>3 DEF NormalTarget, FIObjNode
<1>4. QED
  BY <1>2, <1>3 DEF GepsReached

LEMMA GepsMerged ==
  ASSUME PropagationInv, GepsReached, [Next]_vars, NEW n \in Node, NEW r \in Node, NEW p \in [Node -> SUBSET Obj],
         MergeNodeToRep(n, r, p),
         \A m \in Node : \A o : Holds(o, pts[m]) => Holds(o, p[m]), fi' = fi
  PROVE  GepsReached'
<1>1. /\ TypeOK /\ propa' = [propa EXCEPT ![r] = Forget(r, n)]
      /\ pts' = [p EXCEPT ![r] = p[r] \cup p[n]]
      /\ vgep' = MoveVariantGep(vgep, n, r) /\ ngep' = MoveNormalGep(ngep, n, r)
  BY DEF PropagationInv, MergeNodeToRep
\* What the edge from a to b has delivered, its moved form has.
<1>2. ASSUME NEW a \in Node, NEW b \in Node
      PROVE  /\ propa'[Sub(a, n, r)] \subseteq propa[a]
             /\ \A o : Holds(o, pts[b]) => Holds(o, pts[Sub(b, n, r)])'
  <2>1. propa'[Sub(a, n, r)] \subseteq propa[a]
    BY <1>1 DEF Sub, Forget, TypeOK
  <2>2. p[b] \subseteq pts'[Sub(b, n, r)]
    BY <1>1 DEF Sub
  <2>3. PICK c : c = Sub(b, n, r)
    OBVIOUS
  <2>4. \A o : Holds(o, pts[b]) => Holds(o, pts[c])'
    BY <2>2, <2>3 DEF Holds
  <2>5. QED
    BY <2>1, <2>3, <2>4 DEF Sub
<1>3. ASSUME NEW e \in vgep', NEW o \in propa'[e[1]] PROVE Holds(VariantTarget(o), pts[e[2]])'
  <2>1. PICK g \in vgep : e[1] = Sub(g[1], n, r) /\ e[2] = Sub(g[2], n, r)
    <3>1. CASE e \in MovePairs(vgep, n, r)
      BY <3>1 DEF MovePairs
    <3>2. CASE e \in vgep \cap {<<r, r>>}
      BY <3>2 DEF Sub
    <3>3. QED
      BY <3>1, <3>2, <1>1, <1>3 DEF MoveVariantGep
  <2>2. g[1] \in Node /\ g[2] \in Node
    BY <1>1 DEF TypeOK, Pair
  <2>3. PICK x : x = VariantTarget(o)
    OBVIOUS
  <2>4. Holds(x, pts[g[2]])
    BY <1>2, <1>3, <2>1, <2>2, <2>3 DEF GepsReached
  <2>5. Holds(x, pts[e[2]])'
    BY <1>2, <2>1, <2>2, <2>4
  <2>6. QED
    BY <2>3, <2>5 DEF VariantTarget, FIObjNode
<1>4. ASSUME NEW e \in ngep', NEW o \in propa'[e[1]] PROVE Holds(NormalTarget(o, e[3]), pts[e[2]])'
  <2>1. PICK g \in ngep : e = <<Sub(g[1], n, r), Sub(g[2], n, r), g[3]>>
    BY <1>1 DEF MoveNormalGep, Touches, Sub, TypeOK, Gep
  <2>2. g[1] \in Node /\ g[2] \in Node
    BY <1>1 DEF TypeOK, Gep
  <2>3. PICK x : x = NormalTarget(o, e[3])
    OBVIOUS
  <2>4. Holds(x, pts[g[2]])
    BY <1>2, <1>4, <2>1, <2>2, <2>3 DEF GepsReached
  <2>5. Holds(x, pts[e[2]])'
    BY <1>2, <2>1, <2>2, <2>4
  <2>6. QED
    BY <2>3, <2>5 DEF NormalTarget, FIObjNode
<1>5. QED
  BY <1>3, <1>4 DEF GepsReached

LEMMA ProcessNodeGeps ==
  ASSUME PropagationInv, GepsReached, ProcessNode PROVE GepsReached'
<1>1. TypeOK /\ vgep' = vgep /\ ngep' = ngep /\ [Next]_vars
  BY DEF PropagationInv, ProcessNode, edgeVars, Next, Step
<1>2. CASE rep[cur] # cur
  <2>1. propa' = propa
    BY <1>2 DEF ProcessNode, ptVars
  <2>2. QED
    BY <2>1, <1>1, GepsKept
<1>3. CASE rep[cur] = cur
  <2>1. cur \in Node /\ HandleCopyGep(cur)
    BY <1>1, <1>3 DEF ProcessNode, TypeOK
  <2>2. /\ propa' = [propa EXCEPT ![cur] = pts[cur]] /\ fi \subseteq fi'
        /\ \A d \in Node : pts'[d] = pts[d] \cup Sent(cur, d)
    BY <2>1 DEF HandleCopyGep
  <2>3. \A m \in Node : propa'[m] = IF m = cur THEN pts[cur] ELSE propa[m]
    BY <2>2, <1>1 DEF TypeOK
  <2>4. ASSUME NEW e \in vgep', NEW o \in propa'[e[1]] PROVE Holds(VariantTarget(o), pts[e[2]])'
    <3>1. e[1] \in Node /\ e[2] \in Node /\ e = <<e[1], e[2]>> /\ e \in vgep
      BY <1>1 DEF TypeOK, Pair
    <3>2. PICK x : x = VariantTarget(o)
      OBVIOUS
    <3>3. CASE o \in propa[e[1]]
      <4>1. Holds(x, pts[e[2]])'
        BY <1>1, <3>1, <3>2, <3>3, HoldsKept DEF GepsReached
      <4>2. QED
        BY <4>1, <3>2 DEF VariantTarget, FIObjNode
    <3>4. CASE o \notin propa[e[1]]
      <4>1. e[1] = cur /\ o \in Diff(cur)
        BY <2>3, <2>4, <3>1, <3>4 DEF Diff
      <4>2. x \in VariantGepTargets(Diff(cur))
        BY <4>1, <3>2 DEF VariantGepTargets, VariantTarget
      <4>3. <<cur, e[2]>> \in vgep
        BY <4>1, <3>1
      <4>4. x \in Sent(cur, e[2])
        BY <4>2, <4>3 DEF Sent
      <4>5. x \in pts'[e[2]]
        BY <4>4, <3>1, <2>2
      <4>6. QED
        BY <4>5, <3>2 DEF Holds, VariantTarget, FIObjNode
    <3>5. QED
      BY <3>3, <3>4
  <2>5. ASSUME NEW e \in ngep', NEW o \in propa'[e[1]] PROVE Holds(NormalTarget(o, e[3]), pts[e[2]])'
    <3>1. e[1] \in Node /\ e[2] \in Node /\ e \in ngep
      BY <1>1 DEF TypeOK, Gep
    <3>2. PICK x : x = NormalTarget(o, e[3])
      OBVIOUS
    <3>3. CASE o \in propa[e[1]]
      <4>1. Holds(x, pts[e[2]])'
        BY <1>1, <3>1, <3>2, <3>3, HoldsKept DEF GepsReached
      <4>2. QED
        BY <4>1, <3>2 DEF NormalTarget, FIObjNode
    <3>4. CASE o \notin propa[e[1]]
      <4>1. e[1] = cur /\ o \in Diff(cur)
        BY <2>3, <2>5, <3>1, <3>4 DEF Diff
      <4>2. PICK y \in NormalGepTargets(Diff(cur), e[3], fi) :
               y = IF o[1] \in Opaque THEN o ELSE GepObjNode(o, e[3], fi)
        BY <4>1 DEF NormalGepTargets
      <4>3. y \in Fields(cur, {g \in ngep : g[1] = cur /\ g[2] = e[2]})
        BY <4>1, <4>2, <3>1 DEF Fields
      <4>4. y \in pts'[e[2]]
        BY <4>3, <3>1, <2>2 DEF Sent
      <4>5. y = x \/ (x[1] \in fi /\ y = FIObjNode(x))
        BY <4>2, <3>2 DEF NormalTarget, GepObjNode, FIObjNode
      <4>6. Holds(x, pts[e[2]])'
        BY <4>4, <4>5, <2>2 DEF Holds
      <4>7. QED
        BY <4>6, <3>2 DEF NormalTarget, FIObjNode
    <3>5. QED
      BY <3>3, <3>4
  <2>6. QED
    BY <2>4, <2>5 DEF GepsReached
<1>4. QED
  BY <1>2, <1>3

LEMMA StepGeps == PropagationInv /\ GepsReached /\ [Next]_vars => GepsReached'
<1> SUFFICES ASSUME PropagationInv, GepsReached, [Next]_vars PROVE GepsReached'
  OBVIOUS
<1>1. TypeOK
  BY DEF PropagationInv
<1> USE DEF ptVars, edgeVars
<1>2. CASE SCCDetect \/ EndMerge \/ EndWave \/ EndAgain \/ UpdateCallGraph \/ Reanalyze \/ Finalize
  BY <1>2, GepsKept DEF SCCDetect, EndMerge, EndWave, EndAgain, UpdateCallGraph, Reanalyze, Finalize
<1>3. ASSUME NEW e \in toMerge, MergeSccNode(e[1], e[2]) PROVE GepsReached'
  <2>1. /\ e[1] \in Node /\ e[2] \in Node /\ pts \in [Node -> SUBSET Obj]
        /\ MergeNodeToRep(e[1], e[2], pts) /\ fi' = fi
    BY <1>1, <1>3 DEF TypeOK, Pair, MergeSccNode
  <2>2. QED
    BY <2>1, GepsMerged
<1>4. CASE \E n \in todo : CollapsePWCNode(n)
  BY <1>4, GepsKept DEF CollapsePWCNode
<1>5. CASE ProcessNode
  BY <1>5, ProcessNodeGeps
<1>6. CASE \E b \in coll : CollapseField(b)
  BY <1>6, GepsKept DEF CollapseField
<1>7. ASSUME NEW f \in fold, FoldField(f) PROVE GepsReached'
  <2> DEFINE n == rep[f]
             r == rep[FIObjNode(f)]
             folded == [x \in Node |-> Retarget(pts[x], f)]
  <2>1. f \in Obj /\ f[1] \in fi /\ n \in Node /\ r \in Node /\ fi' = fi
    BY <1>1, <1>7, FIObjNodeType, ObjNode DEF TypeOK, PropagationInv, FoldInFi, FoldField
  <2>2. folded \in [Node -> SUBSET Obj] /\ \A m \in Node : folded[m] = Retarget(pts[m], f)
    BY <1>1, <2>1, RetargetType
  <2>3. ASSUME NEW m \in Node, NEW o, Holds(o, pts[m]) PROVE Holds(o, folded[m])
    <3>1. pts[m] \in SUBSET Obj
      BY <1>1 DEF TypeOK
    <3>2. CASE f \notin pts[m]
      BY <2>2, <2>3, <3>2 DEF Retarget
    <3>3. CASE f \in pts[m]
      <4>1. folded[m] = (pts[m] \ {f}) \cup {FIObjNode(f)}
        BY <2>2, <3>3 DEF Retarget
      <4> HIDE DEF folded
      <4>2. FIObjNode(FIObjNode(o)) = FIObjNode(o) /\ FIObjNode(o) = <<o[1], 0>>
        BY DEF FIObjNode
      <4>3. FIObjNode(o) = f => FIObjNode(f) = FIObjNode(o)
        BY DEF FIObjNode
      <4>4. QED
        BY <4>1, <4>2, <4>3, <2>1, <2>3 DEF Holds
    <3>4. QED
      BY <3>2, <3>3
  <2>4. CASE n # r
    <3>1. MergeNodeToRep(n, r, folded)
      BY <1>7, <2>4 DEF FoldField
    <3> HIDE DEF folded, n, r
    <3>2. QED
      BY <2>1, <2>2, <2>3, <3>1, GepsMerged
  <2>5. CASE n = r
    BY <1>7, <2>5, GepsKept DEF FoldField
  <2>6. QED
    BY <2>4, <2>5
<1>8. CASE \E n \in worklist : PopAgain(n) \/ PostProcessNode(n)
  BY <1>8, GepsKept DEF PopAgain, PostProcessNode
<1>9. ASSUME NEW e \in pend, AddCopyEdge(e) PROVE GepsReached'
  <2>1. vgep' = vgep /\ ngep' = ngep
    BY <1>9 DEF AddCopyEdge
  <2>2. \A m \in Node : propa'[m] \subseteq propa[m]
    BY <1>1, <1>9 DEF AddCopyEdge, Forget, TypeOK
  <2>3. QED
    BY <2>1, <2>2, GepsKept
<1>10. CASE UNCHANGED vars
  BY <1>10, GepsKept DEF vars
<1>11. QED
  BY <1>2, <1>3, <1>4, <1>5, <1>6, <1>7, <1>8, <1>9, <1>10 DEF Next, Step, Terminated

-----------------------------------------------------------------------------
(* Results of geps.  A pointer defined by a gep has no other definition,   *)
(* so that a cycle through it goes through that gep: two gep edges have    *)
(* the same ends only if these are about to be merged.                     *)

Together(m, n) == \E x \in Node : Goes(m, x) /\ Goes(n, x)

\* Nothing is merged with the gep result x and no copy enters it.
Alone(x) ==
    /\ x \in GepResults(prog)
    /\ \A y \in Node : rep[y] = x => y = x
    /\ \A e \in toMerge : e[1] # x /\ e[2] # x
    /\ \A e \in copy : e[2] # x

\* One normal gep enters it, and nothing else.
Lone(x) ==
    /\ Alone(x)
    /\ \A e \in vgep : e[2] # x
    /\ \A e, g \in ngep : e[2] = x /\ g[2] = x => e = g

OneDefinition == phase # "done" => \A g \in ngep : Together(g[1], g[2]) \/ Lone(g[2])

ResultsUnmerged ==
    phase # "done" /\ ~prog.mergePWC =>
        \A x \in GepResults(prog) : Alone(x) /\ x \in Node /\ rep[x] = x

\* Copies are made for pointers and objects that no gep defines.
OtherTargets ==
    phase # "done" =>
        \A e \in load \cup pend : \E x \in Node : x \notin GepResults(prog) /\ rep[x] = rep[e[2]]

ResultInv == OneDefinition /\ ResultsUnmerged /\ OtherTargets

\* A cycle is entered at each of its nodes by an edge from one of its nodes.
LEMMA CycleEntered ==
  ASSUME NEW E, NEW N, \A e \in E : e[1] \in N /\ e[2] \in N,
         NEW C \in Cycles(E, N), NEW x \in C
  PROVE  \E e \in E : e[2] = x /\ e[1] \in C
<1> DEFINE closed == Closed(E, N)
           comp(n) == {k \in N : \A T \in closed : n \in T <=> k \in T}
<1>1. PICK c \in N : C = comp(c) /\ Cardinality(C) > 1
  BY DEF Cycles
<1>2. \A u, v \in C : \A T \in closed : u \in T <=> v \in T
  BY <1>1
<1>3. PICK m \in C : m # x
  <2>1. CASE C = {x}
    BY <2>1, <1>1, FS_Singleton
  <2>2. QED
    BY <2>1
<1> DEFINE S == {v \in N : \A T \in closed : m \in T => v \in T}
<1>4. m \in N /\ x \in N
  BY <1>1
<1>5. \A T \in closed : T \in SUBSET N /\ \A e \in E : e[1] \in T => e[2] \in T
  BY DEF Closed
<1>6. m \in S /\ x \in S
  BY <1>2, <1>3, <1>4
<1>7. SUFFICES ASSUME \A e \in E : e[2] = x => e[1] \notin C PROVE FALSE
  OBVIOUS
<1>8. ASSUME NEW e \in E, e[1] \in S PROVE e[2] \in S \ {x}
  <2>1. e[2] \in S
    BY <1>5, <1>8
  <2>2. ASSUME e[2] = x PROVE FALSE
    <3>1. ASSUME NEW T \in closed PROVE c \in T <=> e[1] \in T
      <4>1. x \in T <=> m \in T
        BY <1>2, <1>3
      <4>2. m \in T => e[1] \in T
        BY <1>8
      <4>3. e[1] \in T => x \in T
        BY <1>5, <2>2
      <4>4. c \in T <=> x \in T
        BY <1>1
      <4>5. QED
        BY <4>1, <4>2, <4>3, <4>4
    <3>2. e[1] \in C
      BY <3>1, <1>1
    <3>3. QED
      BY <3>2, <2>2, <1>7
  <2>3. QED
    BY <2>1, <2>2
<1>9. S \ {x} \in closed
  BY <1>8 DEF Closed
<1>10. QED
  BY <1>2, <1>3, <1>6, <1>9

LEMMA InitResults == Init => ResultInv
<1> SUFFICES ASSUME Init PROVE ResultInv
  OBVIOUS
<1>1. /\ prog \in Programs /\ prog \in ProgramType
      /\ copy = prog.copy /\ vgep = prog.vgep /\ ngep = prog.ngep /\ load = prog.load
      /\ toMerge = {} /\ pend = {} /\ rep = [n \in Node |-> n]
  BY ProgramAssumption DEF Init
<1>2. /\ \A e \in copy \cup load : e[2] \notin GepResults(prog)
      /\ \A e, g \in ngep : e[2] = g[2] => e = g
      /\ \A e \in ngep, g \in vgep : e[2] # g[2]
  BY <1>1, ProgramAssumption
<1>3. \A e \in load \cup ngep : e[2] \in Node
  BY <1>1 DEF ProgramType, Node
<1>4. GepResults(prog) \subseteq Node
  BY <1>1 DEF GepResults, GepPairs, ProgramType, Node
<1>5. \A x \in GepResults(prog) : Alone(x)
  BY <1>1, <1>2 DEF Alone
<1>6. \A g \in ngep : Lone(g[2])
  <2>1. ASSUME NEW g \in ngep PROVE g[2] \in GepResults(prog)
    <3>1. <<g[1], g[2]>> \in GepPairs(prog.ngep)
      BY <1>1 DEF GepPairs
    <3>2. QED
      BY <3>1 DEF GepResults
  <2>2. QED
    BY <2>1, <1>2, <1>5 DEF Lone
<1>7. OtherTargets
  BY <1>1, <1>2, <1>3 DEF OtherTargets
<1>8. QED
  BY <1>1, <1>4, <1>5, <1>6, <1>7 DEF ResultInv, OneDefinition, ResultsUnmerged

\* Merging other nodes leaves a gep result alone.
LEMMA AloneMerged ==
  ASSUME TypeOK, MergeInv, NoLoops, phase # "done", NEW x, NEW n \in Node, NEW r \in Node,
         n # r, rep[n] = n, rep[r] = r, n # x, r # x, NEW p, MergeNodeToRep(n, r, p),
         prog' = prog, toMerge' \subseteq toMerge
  PROVE  /\ Alone(x) => Alone(x)'
         /\ Lone(x) => Lone(x)'
<1>1. \A m \in Node : rep'[m] = IF rep[m] = n THEN r ELSE rep[m]
  BY MergeReps DEF MergeInv
<1>2. /\ \A e \in copy' : \E g \in copy : e[2] = Sub(g[2], n, r)
      /\ \A e \in vgep' : \E g \in vgep : e[2] = Sub(g[2], n, r)
      /\ \A e \in ngep' : \E g \in ngep : e = <<Sub(g[1], n, r), Sub(g[2], n, r), g[3]>>
  <2>1. \A e \in copy' : \E g \in copy : e = <<Sub(g[1], n, r), Sub(g[2], n, r)>>
    BY MergedDirect
  <2>2. \A e \in vgep' : \E g \in vgep : e = <<Sub(g[1], n, r), Sub(g[2], n, r)>>
    BY MergedDirect
  <2>3. \A e \in ngep' : \E g \in ngep : e = <<Sub(g[1], n, r), Sub(g[2], n, r), g[3]>>
    BY MergedDirect
  <2>4. QED
    BY <2>1, <2>2, <2>3
<1>3. \A y : Sub(y, n, r) = x <=> y = x
  BY DEF Sub
<1>4. ASSUME Alone(x) PROVE Alone(x)'
  BY <1>1, <1>2, <1>3, <1>4 DEF Alone
<1>5. ASSUME Lone(x) PROVE Lone(x)'
  <2>1. ASSUME NEW e \in ngep', NEW g \in ngep', e[2] = x, g[2] = x PROVE e = g
    <3>1. PICK h \in ngep : e = <<Sub(h[1], n, r), Sub(h[2], n, r), h[3]>>
      BY <1>2
    <3>2. PICK k \in ngep : g = <<Sub(k[1], n, r), Sub(k[2], n, r), k[3]>>
      BY <1>2
    <3>3. h[2] = x /\ k[2] = x
      BY <3>1, <3>2, <1>3, <2>1
    <3>4. QED
      BY <3>1, <3>2, <3>3, <1>5 DEF Lone
  <2>2. QED
    BY <2>1, <1>2, <1>3, <1>4, <1>5 DEF Lone
<1>6. QED
  BY <1>4, <1>5

\* What a merge moves to the representative was not defined by a gep before.
LEMMA OthersMerged ==
  ASSUME TypeOK, MergeInv, NoLoops, OtherTargets, phase # "done", NEW n \in Node, NEW r \in Node,
         n # r, rep[n] = n, rep[r] = r, NEW p, MergeNodeToRep(n, r, p), prog' = prog, pend = {},
         pend' = pend
  PROVE  OtherTargets'
<1>1. \A m \in Node : rep'[m] = IF rep[m] = n THEN r ELSE rep[m]
  BY MergeReps DEF MergeInv
<1>2. ASSUME NEW e \in load'
      PROVE  \E x \in Node : x \notin GepResults(prog) /\ rep'[x] = rep'[e[2]]
  <2>1. PICK g \in load : e = <<Sub(g[1], n, r), Sub(g[2], n, r)>>
    BY MergedPairs
  <2>2. rep[g[2]] = g[2] /\ g[2] \in Node
    BY DEF MergeInv, EdgesDetached, DetachedPair, TypeOK, Pair
  <2>3. PICK x \in Node : x \notin GepResults(prog) /\ rep[x] = g[2]
    BY <2>2 DEF OtherTargets
  <2>4. e[2] \in Node /\ e[2] = Sub(g[2], n, r)
    BY <2>1, <2>2 DEF Sub
  <2>5. rep'[x] = Sub(g[2], n, r) /\ rep'[e[2]] = Sub(g[2], n, r)
    BY <1>1, <2>2, <2>3, <2>4 DEF Sub
  <2>6. QED
    BY <2>3, <2>5
<1>3. QED
  BY <1>2 DEF OtherTargets

LEMMA SCCDetectResults ==
  ASSUME SolverInv, GraphInv, ResultInv, SCCDetect PROVE ResultInv'
<1> DEFINE cycles == Cycles(SCCEdges, GraphNode)
<1>1. /\ phase = "scc" /\ toMerge = {} /\ TypeOK
      /\ UNCHANGED <<prog, rep, copy, vgep, ngep, load, pend>>
  BY DEF SCCDetect, repVars, edgeVars, SolverInv, MergeInv, PendingMerges
<1>2. PICK root :
        /\ \A e \in toMerge' : \E C \in cycles : e[1] \in C /\ e[2] \in C
        /\ \A n \in Node : Find(cycles, root, n) \in Node
        /\ \A n, x : x = Find(cycles, root, n) => Goes(n, x)'
        /\ \A C \in cycles : \A n \in C : Find(cycles, root, n) = root[C]
  BY SCCDetectGoes
<1>3. /\ \A e \in SCCEdges : e[1] \in GraphNode /\ e[2] \in GraphNode
      /\ UNION cycles \subseteq Node
  <2>1. \A e \in Direct : rep[e[1]] = e[1] /\ rep[e[2]] = e[2]
    BY DEF SolverInv, MergeInv, EdgesDetached, DetachedPair, Direct
  <2>2. \A e \in Direct : NodeOf(e[1]) /\ NodeOf(e[2])
    BY <1>1 DEF GraphInv, EdgesKnown
  <2>3. \A e \in SCCEdges : e[1] \in GraphNode /\ e[2] \in GraphNode
    BY <2>1, <2>2, SCCEdgesDirect DEF GraphNode, NodeOf
  <2>4. UNION cycles \subseteq Node
    BY <1>1, GraphNodeType DEF Cycles
  <2>5. QED
    BY <2>3, <2>4
<1>4. ASSUME NEW x, NEW C \in cycles, x \in C PROVE \E e \in SCCEdges : e[2] = x /\ e[1] \in C
  BY <1>3, <1>4, CycleEntered
<1> HIDE DEF cycles
<1>5. ASSUME NEW C \in cycles, NEW u \in C, NEW v \in C PROVE Together(u, v)'
  <2>1. Find(cycles, root, u) \in Node /\ Find(cycles, root, u) = Find(cycles, root, v)
    BY <1>2, <1>3
  <2>2. PICK y \in Node : y = Find(cycles, root, u) /\ y = Find(cycles, root, v)
    BY <2>1
  <2>3. QED
    BY <2>2, <1>2 DEF Together
<1>6. ASSUME NEW x, x \notin UNION cycles, Alone(x) PROVE Alone(x)'
  BY <1>1, <1>2, <1>6 DEF Alone
<1>7. OneDefinition'
  <2>1. ASSUME NEW g \in ngep PROVE (Together(g[1], g[2]) \/ Lone(g[2]))'
    <3>1. Lone(g[2])
      <4>1. g[1] # g[2]
        <5>1. <<g[1], g[2]>> \in Direct
          BY DEF Direct, GepPairs
        <5>2. <<g[1], g[2]>>[1] # <<g[1], g[2]>>[2]
          BY <5>1 DEF GraphInv, NoLoops
        <5>3. QED
          BY <5>2
      <4>2. ~Together(g[1], g[2])
        BY <4>1, <1>1 DEF Together, Goes
      <4>3. QED
        BY <4>2, <1>1 DEF ResultInv, OneDefinition
    <3>2. CASE \E C \in cycles : g[2] \in C
      <4>1. PICK C \in cycles : g[2] \in C
        BY <3>2
      <4>2. PICK e \in SCCEdges : e[2] = g[2] /\ e[1] \in C
        BY <4>1, <1>4
      <4>3. e \in GepPairs(ngep)
        BY <4>2, <3>1, SCCEdgesDirect DEF Direct, Lone, Alone
      <4>4. PICK h \in ngep : e = <<h[1], h[2]>>
        BY <4>3 DEF GepPairs
      <4>5. h = g
        BY <4>2, <4>4, <3>1 DEF Lone
      <4>6. g[1] \in C
        BY <4>2, <4>4, <4>5
      <4>7. QED
        BY <4>1, <4>6, <1>5
    <3>3. CASE ~\E C \in cycles : g[2] \in C
      BY <3>1, <3>3, <1>1, <1>6 DEF Lone
    <3>4. QED
      BY <3>2, <3>3
  <2>2. QED
    BY <2>1, <1>1 DEF OneDefinition
<1>8. ResultsUnmerged'
  <2>1. SUFFICES ASSUME ~prog.mergePWC, NEW x \in GepResults(prog)
                 PROVE  Alone(x)' /\ x \in Node /\ rep[x] = x
    BY <1>1 DEF ResultsUnmerged
  <2>2. Alone(x) /\ x \in Node /\ rep[x] = x
    BY <1>1, <2>1 DEF ResultInv, ResultsUnmerged
  <2>3. SCCEdges = copy
    BY <2>1 DEF SCCEdges
  <2>4. x \notin UNION cycles
    BY <2>2, <2>3, <1>4 DEF Alone
  <2>5. QED
    BY <2>2, <2>4, <1>6
<1>9. OtherTargets'
  BY <1>1 DEF ResultInv, OtherTargets
<1>10. QED
  BY <1>7, <1>8, <1>9 DEF ResultInv

LEMMA TogetherMerged ==
  ASSUME MergeInv, NEW n, NEW r, <<n, r>> \in toMerge, toMerge' = toMerge \ {<<n, r>>},
         NEW u, NEW v, Together(u, v)
  PROVE  Together(Sub(u, n, r), Sub(v, n, r))'
<1>1. PICK x \in Node : Goes(u, x) /\ Goes(v, x)
  BY DEF Together
<1>2. PICK a, b : a = Sub(u, n, r) /\ b = Sub(v, n, r)
  OBVIOUS
<1>3. Goes(a, x)' /\ Goes(b, x)'
  BY <1>1, <1>2, GoesMerged
<1>4. Together(a, b)'
  BY <1>3 DEF Together
<1>5. QED
  BY <1>2, <1>4 DEF Sub

LEMMA MergeSccNodeResults ==
  ASSUME SolverInv, GraphInv, ResultInv, NEW e \in toMerge, MergeSccNode(e[1], e[2])
  PROVE  ResultInv'
<1> DEFINE n == e[1]
           r == e[2]
<1>1. /\ TypeOK /\ MergeInv /\ NoLoops /\ OneDefinition /\ ResultsUnmerged /\ OtherTargets
  BY DEF SolverInv, MergeInv, GraphInv, ResultInv
<1>2. /\ n \in Node /\ r \in Node /\ n # r /\ rep[n] = n /\ rep[r] = r /\ e = <<n, r>>
  BY <1>1 DEF MergeInv, TypeOK, Pair, PendingMerges, DetachedPair
<1>3. /\ MergeNodeToRep(n, r, pts) /\ phase = "merge" /\ phase' = phase /\ prog' = prog
      /\ toMerge' = toMerge \ {<<n, r>>} /\ <<n, r>> \in toMerge /\ pend' = pend /\ pend = {}
  BY <1>2 DEF MergeSccNode, SolverInv, Phases
<1> HIDE DEF n, r
<1>4. <<n, r>>[1] = n /\ <<n, r>>[2] = r
  OBVIOUS
<1>5. ASSUME NEW x, Alone(x) PROVE x # n /\ x # r /\ Alone(x)' /\ (Lone(x) => Lone(x)')
  <2>1. x # n /\ x # r
    BY <1>3, <1>4, <1>5 DEF Alone
  <2>2. QED
    BY <2>1, <1>1, <1>2, <1>3, <1>5, AloneMerged
<1>6. OneDefinition'
  <2>1. ASSUME NEW h \in ngep' PROVE (Together(h[1], h[2]) \/ Lone(h[2]))'
    <3>1. PICK g \in ngep : h = <<Sub(g[1], n, r), Sub(g[2], n, r), g[3]>>
      BY <1>1, <1>2, <1>3, MergedDirect
    <3>2. CASE Together(g[1], g[2])
      <4>1. PICK a, b : a = Sub(g[1], n, r) /\ b = Sub(g[2], n, r)
        OBVIOUS
      <4>2. Together(a, b)'
        BY <3>2, <4>1, <1>1, <1>3, TogetherMerged DEF Sub
      <4>3. QED
        BY <4>1, <4>2, <3>1
    <3>3. CASE Lone(g[2])
      <4>1. g[2] # n /\ g[2] # r
        BY <3>3, <1>5 DEF Lone
      <4>2. Sub(g[2], n, r) = g[2]
        BY <4>1 DEF Sub
      <4>3. PICK x : x = g[2]
        OBVIOUS
      <4>4. Lone(x)'
        BY <3>3, <4>3, <1>5 DEF Lone
      <4>5. h[2] = x
        BY <3>1, <4>2, <4>3
      <4>6. QED
        BY <4>4, <4>5
    <3>4. QED
      BY <3>2, <3>3, <1>1, <1>3 DEF OneDefinition
  <2>2. QED
    BY <2>1 DEF OneDefinition
<1>7. ResultsUnmerged'
  <2>1. \A m \in Node : rep'[m] = IF rep[m] = n THEN r ELSE rep[m]
    BY <1>1, <1>2, <1>3, MergeReps DEF MergeInv
  <2>2. SUFFICES ASSUME ~prog.mergePWC, NEW x \in GepResults(prog)
                 PROVE  Alone(x)' /\ x \in Node /\ rep'[x] = x
    BY <1>3 DEF ResultsUnmerged
  <2>3. Alone(x) /\ x \in Node /\ rep[x] = x
    BY <1>1, <1>3, <2>2 DEF ResultsUnmerged
  <2>4. QED
    BY <2>1, <2>3, <1>5
<1>8. OtherTargets'
  BY <1>1, <1>2, <1>3, OthersMerged
<1>9. QED
  BY <1>6, <1>7, <1>8 DEF ResultInv

LEMMA FoldFieldResults ==
  ASSUME SolverInv, GraphInv, ResultInv, NEW f \in fold, FoldField(f) PROVE ResultInv'
<1> DEFINE n == rep[f]
           r == rep[FIObjNode(f)]
<1>1. /\ TypeOK /\ MergeInv /\ NoLoops /\ OneDefinition /\ ResultsUnmerged /\ OtherTargets
      /\ prog \in Programs /\ prog \in ProgramType
  BY ProgramAssumption DEF SolverInv, MergeInv, GraphInv, ResultInv
<1>2. /\ f \in Obj /\ FIObjNode(f) \in Obj /\ f \in Node /\ FIObjNode(f) \in Node
      /\ n \in Node /\ r \in Node /\ rep[n] = n /\ rep[r] = r
  BY <1>1, FIObjNodeType, ObjNode DEF TypeOK, MergeInv, RepIdempotent
<1>3. /\ phase' = phase /\ prog' = prog /\ toMerge' = toMerge /\ pend' = pend /\ pend = {}
      /\ phase # "done" /\ toMerge = {}
  BY DEF FoldField, wave, SolverInv, Phases, MergeInv, VisitInWave, PendingMerges
<1>4. GepResults(prog) \cap Obj = {}
  <2>1. GepResults(prog) \subseteq Ptr
    BY <1>1 DEF GepResults, GepPairs, ProgramType
  <2>2. QED
    BY <2>1, NodeAssumption
<1>5. ASSUME NEW x, Alone(x) PROVE x # n /\ x # r
  BY <1>2, <1>4, <1>5 DEF Alone
<1>6. CASE n # r
  <2>1. PICK p : MergeNodeToRep(n, r, p)
    BY <1>6 DEF FoldField
  <2> HIDE DEF n, r
  <2>2. ASSUME NEW x, Alone(x) PROVE Alone(x)' /\ (Lone(x) => Lone(x)')
    BY <2>1, <2>2, <1>1, <1>2, <1>3, <1>5, <1>6, AloneMerged
  <2>3. OneDefinition'
    <3>1. ASSUME NEW h \in ngep' PROVE Lone(h[2])'
      <4>1. PICK g \in ngep : h = <<Sub(g[1], n, r), Sub(g[2], n, r), g[3]>>
        BY <1>1, <1>2, <1>6, <2>1, MergedDirect
      <4>2. Lone(g[2])
        <5>1. <<g[1], g[2]>> \in Direct
          BY DEF Direct, GepPairs
        <5>2. <<g[1], g[2]>>[1] # <<g[1], g[2]>>[2]
          BY <5>1, <1>1 DEF NoLoops
        <5>3. g[1] # g[2]
          BY <5>2
        <5>4. QED
          BY <5>3, <1>1, <1>3 DEF OneDefinition, Together, Goes
      <4>3. PICK x : x = g[2]
        OBVIOUS
      <4>4. Lone(x)' /\ x # n /\ x # r
        BY <4>2, <4>3, <2>2, <1>5 DEF Lone
      <4>5. h[2] = x
        BY <4>1, <4>3, <4>4 DEF Sub
      <4>6. QED
        BY <4>4, <4>5
    <3>2. QED
      BY <3>1 DEF OneDefinition
  <2>4. ResultsUnmerged'
    <3>1. \A m \in Node : rep'[m] = IF rep[m] = n THEN r ELSE rep[m]
      BY <2>1, <1>1, <1>2, <1>3, <1>6, MergeReps DEF MergeInv
    <3>2. QED
      BY <3>1, <2>2, <1>1, <1>3, <1>5 DEF ResultsUnmerged
  <2>5. OtherTargets'
    BY <2>1, <1>1, <1>2, <1>3, <1>6, OthersMerged
  <2>6. QED
    BY <2>3, <2>4, <2>5 DEF ResultInv
<1>7. CASE n = r
  <2>1. UNCHANGED <<rep, copy, vgep, ngep, load>>
    BY <1>7 DEF FoldField, repVars, edgeVars
  <2>2. QED
    BY <2>1, <1>1, <1>3 DEF ResultInv, OneDefinition, ResultsUnmerged, OtherTargets, Together, Goes,
                            Lone, Alone
<1>8. QED
  BY <1>6, <1>7

LEMMA StepResults == SolverInv /\ GraphInv /\ ResultInv /\ [Next]_vars => ResultInv'
<1> SUFFICES ASSUME SolverInv, GraphInv, ResultInv, [Next]_vars PROVE ResultInv'
  OBVIOUS
<1>1. /\ TypeOK /\ MergeInv /\ OneDefinition /\ ResultsUnmerged /\ OtherTargets
      /\ prog \in Programs /\ prog \in ProgramType
  BY ProgramAssumption DEF SolverInv, MergeInv, GraphInv, ResultInv
<1> USE DEF ptVars, repVars, edgeVars, objVars, wave, collVars, workVars
\* A step that leaves the graph alone, except for copies to other targets.
<1>2. ASSUME UNCHANGED <<prog, rep, vgep, ngep, load, toMerge>>, phase = "done" => phase' = "done",
             phase' # "done" => \A e \in pend' \ pend :
                                   \E x \in Node : x \notin GepResults(prog) /\ rep[x] = rep[e[2]],
             \A x : Alone(x) => \A e \in copy' \ copy : e[2] # x
      PROVE  ResultInv'
  <2>1. ASSUME NEW x, Alone(x) PROVE Alone(x)' /\ (Lone(x) => Lone(x)')
    BY <1>2, <2>1 DEF Alone, Lone
  <2>2. OneDefinition'
    <3>1. ASSUME phase' # "done", NEW g \in ngep PROVE (Together(g[1], g[2]) \/ Lone(g[2]))'
      <4>1. PICK a, b : a = g[1] /\ b = g[2]
        OBVIOUS
      <4>2. Together(a, b) \/ Lone(b)
        BY <3>1, <4>1, <1>1, <1>2 DEF OneDefinition
      <4>3. Together(a, b)' \/ Lone(b)'
        BY <4>2, <2>1, <1>2 DEF Together, Goes, Lone
      <4>4. QED
        BY <4>1, <4>3
    <3>2. QED
      BY <3>1, <1>2 DEF OneDefinition
  <2>3. ResultsUnmerged' /\ OtherTargets'
    BY <2>1, <1>1, <1>2 DEF ResultsUnmerged, OtherTargets
  <2>4. QED
    BY <2>2, <2>3 DEF ResultInv
<1>3. CASE SCCDetect
  BY <1>3, SCCDetectResults
<1>4. CASE \E e \in toMerge : MergeSccNode(e[1], e[2])
  BY <1>4, MergeSccNodeResults
<1>5. CASE EndMerge \/ EndWave \/ EndAgain \/ Reanalyze
  BY <1>2, <1>5 DEF EndMerge, EndWave, EndAgain, Reanalyze
<1>6. CASE \E n \in todo : CollapsePWCNode(n)
  BY <1>2, <1>6 DEF CollapsePWCNode
<1>7. CASE ProcessNode
  BY <1>2, <1>7 DEF ProcessNode
<1>8. CASE \E b \in coll : CollapseField(b)
  BY <1>2, <1>8 DEF CollapseField
<1>9. CASE \E f \in fold : FoldField(f)
  BY <1>9, FoldFieldResults
<1>10. ASSUME NEW n \in worklist, PopAgain(n) PROVE ResultInv'
  BY <1>2, <1>10 DEF PopAgain
<1>11. ASSUME NEW n \in worklist, PostProcessNode(n) PROVE ResultInv'
  <2>1. phase # "done" /\ n \in Node /\ rep[n] \in Node /\ Deref(n) \subseteq Obj
    BY <1>1, <1>11 DEF PostProcessNode, TypeOK, Deref
  <2>2. ASSUME NEW e \in pend'
        PROVE  \E x \in Node : x \notin GepResults(prog) /\ rep[x] = rep[e[2]]
    <3>1. CASE \E o \in Deref(n), l \in load : e = <<o, l[2]>>
      BY <3>1, <2>1, <1>1 DEF OtherTargets
    <3>2. CASE \E o \in Deref(n), l \in store : e = <<l[1], o>>
      <4>1. PICK o \in Deref(n) : e[2] = o
        BY <3>2
      <4>2. o \in Node /\ o \notin Ptr
        BY <2>1, ObjNode, NodeAssumption
      <4>3. GepResults(prog) \subseteq Ptr
        BY <1>1 DEF GepResults, GepPairs, ProgramType
      <4>4. QED
        BY <4>1, <4>2, <4>3
    <3>3. QED
      BY <3>1, <3>2, <1>11 DEF PostProcessNode
  <2>3. QED
    BY <2>2, <1>2, <1>11 DEF PostProcessNode
<1>12. ASSUME NEW e \in pend, AddCopyEdge(e) PROVE ResultInv'
  <2>1. /\ pend' \subseteq pend /\ phase # "done" /\ phase' = phase
        /\ UNCHANGED <<prog, rep, ngep, vgep, load, toMerge>>
        /\ copy' \subseteq copy \cup {<<rep[e[1]], rep[e[2]]>>}
    BY <1>12, <1>1 DEF AddCopyEdge, SolverInv, Phases
  <2>2. PICK y \in Node : y \notin GepResults(prog) /\ rep[y] = rep[e[2]]
    BY <1>1, <2>1 DEF OtherTargets
  <2>3. \A x : Alone(x) => rep[e[2]] # x
    BY <2>2 DEF Alone
  <2>4. \A x : Alone(x) => \A g \in copy' \ copy : g[2] # x
    BY <2>1, <2>3
  <2>5. QED
    BY <2>1, <2>4, <1>2
<1>13. CASE UpdateCallGraph
  <2>1. PICK new \in SUBSET Callees : pend' = UNION {Binding(x[1], x[2]) : x \in new}
    BY <1>13 DEF UpdateCallGraph
  <2>2. ASSUME NEW e \in pend'
        PROVE  \E x \in Node : x \notin GepResults(prog) /\ rep[x] = rep[e[2]]
    <3>1. PICK x \in new : e \in Binding(x[1], x[2])
      BY <2>1
    <3>2. x[1] \in prog.calls /\ x[2] \in prog.funs /\ Len(x[1].args) = Len(x[2].params)
      BY DEF Callees, Matches
    <3>3. e[2] \in Ptr /\ e[2] \notin GepResults(prog)
      BY <3>1, <3>2, <1>1, BindingPtr
    <3>4. QED
      BY <3>3 DEF Node
  <2>3. QED
    BY <2>2, <1>2, <1>13 DEF UpdateCallGraph
<1>14. CASE Finalize
  BY <1>14 DEF Finalize, ResultInv, OneDefinition, ResultsUnmerged, OtherTargets
<1>15. CASE UNCHANGED vars
  BY <1>2, <1>15 DEF vars
<1>16. QED
  BY <1>3, <1>4, <1>5, <1>6, <1>7, <1>8, <1>9, <1>10, <1>11, <1>12, <1>13, <1>14, <1>15
     DEF Next, Step, Terminated

-----------------------------------------------------------------------------
(* The program's constraints.  Through every merge, a copy or gep of the   *)
(* program is an edge of the graph between the representatives of its      *)
(* ends, or its ends are one node, and then one on a positive weight cycle *)
(* if it is a gep.  While a cycle is being merged a normal gep may be      *)
(* stood for by another between the same nodes.  An offset of zero is not  *)
(* counted as weight, hence the hypothesis on the offsets when cycles      *)
(* through geps are merged.                                                *)

NonZero == \A e \in prog.ngep : e[3] # 0

Weighted == ~prog.mergePWC \/ NonZero

CopyCarried == \A e \in prog.copy : rep[e[1]] = rep[e[2]] \/ <<rep[e[1]], rep[e[2]]>> \in copy

OnCycle(a, b) == a = b /\ a \in pwc

VariantGepCarried ==
    \A e \in prog.vgep : <<rep[e[1]], rep[e[2]]>> \in vgep \/ OnCycle(rep[e[1]], rep[e[2]])

Stood(a, b) == a # b /\ Together(a, b) /\ HasGep(ngep, a, b)

NormalGepCarried ==
    Weighted => \A e \in prog.ngep : \/ <<rep[e[1]], rep[e[2]], e[3]>> \in ngep
                                     \/ OnCycle(rep[e[1]], rep[e[2]])
                                     \/ Stood(rep[e[1]], rep[e[2]])

OffsetsKept == NonZero => \A e \in ngep : e[3] # 0

CarriedInv == CopyCarried /\ VariantGepCarried /\ NormalGepCarried /\ OffsetsKept

LEMMA ProgramEnds ==
  ASSUME prog \in Programs
  PROVE  /\ \A e \in prog.copy \cup prog.vgep \cup prog.ngep : e[1] \in Ptr /\ e[2] \in Ptr /\ e[1] # e[2]
         /\ \A e \in prog.copy \cup prog.vgep : e = <<e[1], e[2]>>
         /\ \A e \in prog.ngep : e = <<e[1], e[2], e[3]>>
         /\ \A e \in prog.addr : e[2] \in Ptr /\ e[1] \in Base
         /\ \A e \in prog.vgep \cup prog.ngep : e[2] \in GepResults(prog)
<1>1. prog \in ProgramType
  BY ProgramAssumption
<1>2. \A e \in prog.copy \cup prog.vgep \cup GepPairs(prog.ngep) : e[1] # e[2]
  BY ProgramAssumption
<1>3. ASSUME NEW e \in prog.ngep PROVE e[1] # e[2] /\ e[2] \in GepResults(prog)
  <2>1. <<e[1], e[2]>> \in GepPairs(prog.ngep) /\ <<e[1], e[2]>>[1] = e[1] /\ <<e[1], e[2]>>[2] = e[2]
    BY DEF GepPairs
  <2>2. QED
    BY <2>1, <1>2 DEF GepResults
<1>4. QED
  BY <1>1, <1>2, <1>3 DEF ProgramType, GepResults

LEMMA InitCarried == Init => CarriedInv
<1> SUFFICES ASSUME Init PROVE CarriedInv
  OBVIOUS
<1>1. /\ prog \in Programs /\ rep = [n \in Node |-> n]
      /\ copy = prog.copy /\ vgep = prog.vgep /\ ngep = prog.ngep
  BY DEF Init
<1>2. Ptr \subseteq Node
  BY DEF Node
<1>3. QED
  BY <1>1, <1>2, ProgramEnds
     DEF CarriedInv, CopyCarried, VariantGepCarried, NormalGepCarried, OffsetsKept, NonZero

LEMMA MergeCarried ==
  ASSUME TypeOK, MergeInv, NoLoops, OneDefinition, ResultsUnmerged, CarriedInv,
         prog \in Programs, phase # "done", NEW n \in Node, NEW r \in Node, n # r, rep[n] = n, rep[r] = r,
         NEW p, MergeNodeToRep(n, r, p), prog' = prog,
         \A x : Lone(x) => x # n /\ x # r,
         \A u \in Node, v \in Node : Together(u, v) =>
             \A a, b : a = Sub(u, n, r) /\ b = Sub(v, n, r) => Together(a, b)'
  PROVE  CarriedInv'
<1>1. \A m \in Node : rep'[m] = Sub(rep[m], n, r) /\ rep[m] \in Node
  BY MergeReps DEF MergeInv, Sub, TypeOK
<1>2. /\ copy' = MoveCopy(copy, n, r) /\ vgep' = MoveVariantGep(vgep, n, r)
      /\ ngep' = MoveNormalGep(ngep, n, r)
      /\ pwc' = pwc \cup {m \in {r} : GepInside(ngep, vgep, n, r) \/ n \in pwc}
  BY DEF MergeNodeToRep
<1>3. Ptr \subseteq Node /\ Weighted' = Weighted /\ NonZero' = NonZero
  BY DEF Node, Weighted, NonZero
<1>4. CopyCarried'
  <2>1. ASSUME NEW a \in Node, NEW b \in Node, <<a, b>> \in copy
        PROVE  Sub(a, n, r) = Sub(b, n, r) \/ <<Sub(a, n, r), Sub(b, n, r)>> \in copy'
    <3>1. <<Sub(a, n, r), Sub(b, n, r)>> \in MovePairs(copy, n, r)
      BY <2>1 DEF MovePairs
    <3>2. QED
      BY <3>1, <1>2 DEF MoveCopy
  <2>2. ASSUME NEW e \in prog.copy PROVE rep'[e[1]] = rep'[e[2]] \/ <<rep'[e[1]], rep'[e[2]]>> \in copy'
    <3>1. /\ e[1] \in Node /\ e[2] \in Node
          /\ rep[e[1]] = rep[e[2]] \/ <<rep[e[1]], rep[e[2]]>> \in copy
      BY <1>3, ProgramEnds DEF CarriedInv, CopyCarried
    <3>2. QED
      BY <3>1, <2>1, <1>1
  <2>3. QED
    BY <2>2 DEF CopyCarried
\* What was on a cycle stays on one.
<1>5. ASSUME NEW a \in Node, NEW b \in Node, OnCycle(a, b)
      PROVE  OnCycle(Sub(a, n, r), Sub(b, n, r))'
  BY <1>2, <1>5 DEF OnCycle, Sub
\* A gep edge between the merged nodes puts them on a cycle.
<1>6. ASSUME NEW a \in Node, NEW b \in Node, Sub(a, n, r) = Sub(b, n, r), a # b,
             <<a, b>> \in vgep \/ \E e \in ngep : e[1] = a /\ e[2] = b /\ e[3] # 0
      PROVE  OnCycle(Sub(a, n, r), Sub(b, n, r))'
  <2>1. {a, b} = {n, r} /\ Sub(a, n, r) = r /\ Sub(b, n, r) = r
    BY <1>6 DEF Sub
  <2>2. GepInside(ngep, vgep, n, r)
    <3>1. CASE <<a, b>> \in vgep
      <4>1. <<a, b>>[1] = a /\ <<a, b>>[2] = b
        OBVIOUS
      <4>2. QED
        BY <3>1, <4>1, <2>1 DEF GepInside
    <3>2. CASE \E e \in ngep : e[1] = a /\ e[2] = b /\ e[3] # 0
      BY <3>2, <2>1 DEF GepInside
    <3>3. QED
      BY <3>1, <3>2, <1>6
  <2>3. r \in pwc'
    BY <2>2, <1>2
  <2>4. QED
    BY <2>1, <2>3 DEF OnCycle, Sub
<1>7. VariantGepCarried'
  <2>1. ASSUME NEW a \in Node, NEW b \in Node, <<a, b>> \in vgep, Sub(a, n, r) # Sub(b, n, r)
        PROVE  <<Sub(a, n, r), Sub(b, n, r)>> \in vgep'
    <3>1. <<Sub(a, n, r), Sub(b, n, r)>> \in MovePairs(vgep, n, r)
      BY <2>1 DEF MovePairs
    <3>2. QED
      BY <3>1, <2>1, <1>2 DEF MoveVariantGep
  <2>2. ASSUME NEW e \in prog.vgep
        PROVE  <<rep'[e[1]], rep'[e[2]]>> \in vgep' \/ OnCycle(rep[e[1]], rep[e[2]])'
    <3>1. PICK a \in Node, b \in Node : /\ a = rep[e[1]] /\ b = rep[e[2]]
                                        /\ rep'[e[1]] = Sub(a, n, r) /\ rep'[e[2]] = Sub(b, n, r)
      BY <1>1, <1>3, ProgramEnds
    <3>2. CASE OnCycle(a, b)
      BY <3>1, <3>2, <1>5 DEF OnCycle
    <3>3. CASE <<a, b>> \in vgep
      <4>1. a # b
        <5>1. <<a, b>>[1] # <<a, b>>[2]
          BY <3>3 DEF NoLoops, Direct
        <5>2. QED
          BY <5>1
      <4>2. QED
        BY <3>1, <3>3, <4>1, <2>1, <1>6 DEF OnCycle
    <3>4. QED
      BY <3>1, <3>2, <3>3 DEF CarriedInv, VariantGepCarried
  <2>3. QED
    BY <2>2 DEF VariantGepCarried
<1>8. OffsetsKept'
  <2>1. \A e \in ngep' : \E g \in ngep : e = <<Sub(g[1], n, r), Sub(g[2], n, r), g[3]>>
    BY MergedDirect
  <2>2. QED
    BY <2>1, <1>3 DEF CarriedInv, OffsetsKept
\* An edge moves, or one there already has its new ends.
<1>9. ASSUME NEW g \in ngep, Sub(g[1], n, r) # Sub(g[2], n, r)
      PROVE  \/ <<Sub(g[1], n, r), Sub(g[2], n, r), g[3]>> \in ngep'
             \/ \E h \in ngep \cap ngep' : /\ h # g
                                           /\ h[1] = Sub(g[1], n, r) /\ h[2] = Sub(g[2], n, r)
  <2> DEFINE kept == {e \in ngep : ~Touches(e, n)}
             moved == {<<Sub(e[1], n, r), Sub(e[2], n, r), e[3]>> : e \in ngep \ kept}
             m == <<Sub(g[1], n, r), Sub(g[2], n, r), g[3]>>
  <2>1. ngep' = kept \cup {e \in moved : ~(e[1] = r /\ e[2] = r) /\ ~HasGep(kept, e[1], e[2])}
    BY <1>2 DEF MoveNormalGep
  <2>2. g = <<g[1], g[2], g[3]>>
    BY DEF TypeOK, Gep
  <2>3. CASE ~Touches(g, n)
    <3>1. m = g
      BY <2>2, <2>3 DEF Touches, Sub
    <3>2. QED
      BY <3>1, <2>1, <2>3
  <2>4. CASE Touches(g, n)
    <3>1. m \in moved /\ m[1] = Sub(g[1], n, r) /\ m[2] = Sub(g[2], n, r) /\ g \notin kept
      BY <2>4
    <3> HIDE DEF moved, m
    <3>2. CASE HasGep(kept, m[1], m[2])
      <4>1. PICK h \in kept : h[1] = m[1] /\ h[2] = m[2]
        BY <3>2 DEF HasGep
      <4>2. QED
        BY <4>1, <3>1, <2>1
    <3>3. CASE ~HasGep(kept, m[1], m[2])
      <4>1. m \in ngep'
        BY <3>1, <3>3, <2>1, <1>9
      <4>2. QED
        BY <4>1 DEF m
    <3>4. QED
      BY <3>2, <3>3
  <2>5. QED
    BY <2>3, <2>4
\* Without merging of such cycles the result of a gep is never to be merged.
<1>10. ASSUME ~prog.mergePWC, NEW e \in prog.ngep, NEW a, NEW b, b = rep[e[2]], Together(a, b)
       PROVE  a = b
  <2>1. e[2] \in GepResults(prog)
    BY ProgramEnds
  <2>2. rep[e[2]] = e[2] /\ Alone(e[2])
    BY <2>1, <1>10 DEF ResultsUnmerged
  <2>3. \A t \in toMerge : t[1] # b /\ t[2] # b
    BY <2>2, <1>10 DEF Alone
  <2>4. PICK x \in Node : Goes(a, x) /\ Goes(b, x)
    BY <1>10 DEF Together
  <2>5. QED
    BY <2>3, <2>4 DEF Goes
<1>11. NormalGepCarried'
  <2>1. ASSUME Weighted, NEW e \in prog.ngep
        PROVE  \/ <<rep'[e[1]], rep'[e[2]], e[3]>> \in ngep'
               \/ OnCycle(rep[e[1]], rep[e[2]])'
               \/ Stood(rep[e[1]], rep[e[2]])'
    <3>1. PICK a \in Node, b \in Node : /\ a = rep[e[1]] /\ b = rep[e[2]]
                                        /\ rep'[e[1]] = Sub(a, n, r) /\ rep'[e[2]] = Sub(b, n, r)
      BY <1>1, <1>3, ProgramEnds
    <3>2. PICK c, d : c = Sub(a, n, r) /\ d = Sub(b, n, r)
      OBVIOUS
    <3>3. SUFFICES <<c, d, e[3]>> \in ngep' \/ OnCycle(c, d)' \/ Stood(c, d)'
      <4>1. c = rep'[e[1]] /\ d = rep'[e[2]]
        BY <3>1, <3>2
      <4>2. OnCycle(c, d)' => OnCycle(rep[e[1]], rep[e[2]])'
        BY ONLY <4>1 DEF OnCycle
      <4>3. Stood(c, d)' => Stood(rep[e[1]], rep[e[2]])'
        BY ONLY <4>1 DEF Stood, HasGep, Together, Goes
      <4>4. QED
        BY <4>1, <4>2, <4>3
    <3>4. CASE OnCycle(a, b)
      BY <3>2, <3>4, <1>5 DEF OnCycle
    <3>5. CASE <<a, b, e[3]>> \in ngep
      <4>1. PICK g \in ngep : g = <<a, b, e[3]>>
        BY <3>5
      <4>2. g[1] = a /\ g[2] = b /\ g[3] = e[3]
        BY <4>1
      <4>3. a # b
        <5>1. <<a, b>> \in Direct
          BY <4>2 DEF Direct, GepPairs
        <5>2. <<a, b>>[1] # <<a, b>>[2]
          BY <5>1 DEF NoLoops
        <5>3. QED
          BY <5>2
      <4>4. CASE c = d
        <5>1. ASSUME ~prog.mergePWC PROVE FALSE
          <6>1. Lone(b)
            BY <5>1, <4>2, <4>3, <3>1, <1>10 DEF OneDefinition
          <6>2. QED
            BY <6>1, <4>3, <4>4, <3>2 DEF Sub
        <5>2. e[3] # 0
          BY <5>1, <2>1 DEF Weighted, NonZero
        <5>3. OnCycle(Sub(a, n, r), Sub(b, n, r))'
          BY <5>2, <4>2, <4>3, <4>4, <3>2, <1>6
        <5>4. QED
          BY <5>3, <3>2 DEF OnCycle
      <4>5. CASE c # d /\ <<c, d, e[3]>> \notin ngep'
        <5>1. PICK h \in ngep \cap ngep' : h # g /\ h[1] = c /\ h[2] = d
          BY <4>2, <4>5, <3>2, <1>9
        <5>2. ~Lone(b)
          <6>1. ASSUME Lone(b) PROVE FALSE
            <7>1. b # n /\ b # r
              BY <6>1
            <7>2. d = b
              BY <7>1, <3>2 DEF Sub
            <7>3. QED
              BY <6>1, <7>2, <5>1, <4>2 DEF Lone
          <6>2. QED
            BY <6>1
        <5>3. Together(a, b)
          BY <5>2, <4>2 DEF OneDefinition
        <5>4. Together(c, d)'
          BY <5>3, <3>2
        <5>5. HasGep(ngep, c, d)'
          BY <5>1 DEF HasGep
        <5>6. QED
          BY <5>4, <5>5, <4>5 DEF Stood
      <4>6. QED
        BY <4>4, <4>5
    <3>6. CASE Stood(a, b)
      <4>1. PICK g \in ngep : g[1] = a /\ g[2] = b
        BY <3>6 DEF Stood, HasGep
      <4>2. a # b /\ Together(a, b)
        BY <3>6 DEF Stood
      <4>3. prog.mergePWC
        BY <4>2, <3>1, <1>10
      <4>4. g[3] # 0
        BY <4>3, <2>1 DEF Weighted, CarriedInv, OffsetsKept
      <4>5. CASE c = d
        <5>1. OnCycle(Sub(a, n, r), Sub(b, n, r))'
          BY <4>1, <4>2, <4>5, <4>4, <3>2, <1>6
        <5>2. QED
          BY <5>1, <3>2 DEF OnCycle
      <4>6. CASE c # d
        <5>1. \E h \in ngep' : h[1] = c /\ h[2] = d
          <6>1. CASE <<c, d, g[3]>> \in ngep'
            <7>1. <<c, d, g[3]>>[1] = c /\ <<c, d, g[3]>>[2] = d
              OBVIOUS
            <7>2. QED
              BY <6>1, <7>1
          <6>2. CASE <<c, d, g[3]>> \notin ngep'
            BY <6>2, <4>1, <4>6, <3>2, <1>9
          <6>3. QED
            BY <6>1, <6>2
        <5>2. HasGep(ngep, c, d)'
          BY <5>1 DEF HasGep
        <5>3. Together(c, d)'
          BY <4>2, <3>2
        <5>4. QED
          BY <5>2, <5>3, <4>6 DEF Stood
      <4>7. QED
        BY <4>5, <4>6
    <3>7. QED
      BY <3>1, <3>4, <3>5, <3>6, <2>1 DEF CarriedInv, NormalGepCarried
  <2>2. QED
    BY <2>1, <1>3 DEF NormalGepCarried
<1>12. QED
  BY <1>4, <1>7, <1>8, <1>11 DEF CarriedInv

LEMMA StoodInMerge ==
  ASSUME toMerge = {}, NEW a, NEW b PROVE ~Stood(a, b)
BY DEF Stood, Together, Goes

LEMMA ResultsPtr ==
  ASSUME prog \in Programs PROVE GepResults(prog) \subseteq Ptr /\ GepResults(prog) \cap Obj = {}
<1>1. prog \in ProgramType
  BY ProgramAssumption
<1>2. QED
  BY <1>1, NodeAssumption DEF GepResults, GepPairs, ProgramType

LEMMA MergeSccNodeCarried ==
  ASSUME SolverInv, GraphInv, ResultInv, CarriedInv, NEW e \in toMerge, MergeSccNode(e[1], e[2])
  PROVE  CarriedInv'
<1> DEFINE n == e[1]
           r == e[2]
<1>1. TypeOK /\ MergeInv /\ NoLoops /\ OneDefinition /\ ResultsUnmerged /\ prog \in Programs
  BY DEF SolverInv, MergeInv, GraphInv, ResultInv
<1>2. n \in Node /\ r \in Node /\ n # r /\ rep[n] = n /\ rep[r] = r /\ <<n, r>> \in toMerge
  BY <1>1 DEF TypeOK, Pair, MergeInv, PendingMerges, DetachedPair
<1>3. /\ MergeNodeToRep(n, r, pts) /\ prog' = prog /\ phase # "done"
      /\ toMerge' = toMerge \ {<<n, r>>}
  BY DEF MergeSccNode
<1>4. \A x : Lone(x) => x # n /\ x # r
  BY <1>2 DEF Lone, Alone
<1> HIDE DEF n, r
<1>5. \A u \in Node, v \in Node : Together(u, v) =>
          \A a, b : a = Sub(u, n, r) /\ b = Sub(v, n, r) => Together(a, b)'
  <2>1. ASSUME NEW u \in Node, NEW v \in Node, Together(u, v),
               NEW a, NEW b, a = Sub(u, n, r), b = Sub(v, n, r)
        PROVE  Together(a, b)'
    <3>1. Together(Sub(u, n, r), Sub(v, n, r))'
      BY <2>1, <1>1, <1>2, <1>3, TogetherMerged
    <3>2. QED
      BY <3>1, <2>1 DEF Sub
  <2>2. QED
    BY <2>1
<1>6. QED
  BY <1>1, <1>2, <1>3, <1>4, <1>5, MergeCarried

LEMMA FoldFieldCarried ==
  ASSUME SolverInv, GraphInv, ResultInv, CarriedInv, NEW f \in fold, FoldField(f)
  PROVE  CarriedInv'
<1> DEFINE n == rep[f]
           r == rep[FIObjNode(f)]
<1>1. TypeOK /\ MergeInv /\ NoLoops /\ OneDefinition /\ ResultsUnmerged /\ prog \in Programs
  BY DEF SolverInv, MergeInv, GraphInv, ResultInv
<1>2. /\ f \in Obj /\ FIObjNode(f) \in Obj /\ f \in Node /\ FIObjNode(f) \in Node
      /\ n \in Node /\ r \in Node /\ rep[n] = n /\ rep[r] = r
  BY <1>1, FIObjNodeType, ObjNode DEF TypeOK, MergeInv, RepIdempotent
<1>3. /\ prog' = prog /\ toMerge' = toMerge /\ phase # "done" /\ toMerge = {}
  BY DEF FoldField, wave, SolverInv, MergeInv, VisitInWave, PendingMerges
<1>4. \A x : Lone(x) => x # n /\ x # r
  BY <1>1, <1>2, ResultsPtr DEF Lone, Alone
<1>5. CASE n # r
  <2>1. PICK p : MergeNodeToRep(n, r, p)
    BY <1>5 DEF FoldField
  <2> HIDE DEF n, r
  <2>2. \A u \in Node, v \in Node : Together(u, v) =>
            \A a, b : a = Sub(u, n, r) /\ b = Sub(v, n, r) => Together(a, b)'
    <3>1. \A u, v : Together(u, v) => u = v
      BY <1>3 DEF Together, Goes
    <3>2. ASSUME NEW a \in Node PROVE Together(a, a)'
      BY <1>3 DEF Together, Goes
    <3>3. QED
      BY <3>1, <3>2, <1>2 DEF Sub
  <2>3. QED
    BY <2>1, <2>2, <1>1, <1>2, <1>3, <1>4, <1>5, MergeCarried
<1>6. CASE n = r
  <2>1. UNCHANGED <<rep, copy, vgep, ngep, pwc>>
    BY <1>6 DEF FoldField, repVars, edgeVars
  <2>2. QED
    BY <2>1, <1>3 DEF CarriedInv, CopyCarried, VariantGepCarried, NormalGepCarried, OffsetsKept,
                      Weighted, NonZero, OnCycle, Stood, Together, Goes
<1>7. QED
  BY <1>5, <1>6

\* The last step restores the fields that were folded, and no pointer.
LEMMA FinalizeReps ==
  ASSUME SolverInv, FieldInv, Finalize, NEW x \in Ptr PROVE rep'[x] = rep[x]
<1>1. /\ x \in Node /\ redundant \subseteq Obj /\ TypeOK /\ RepIdempotent /\ RepSubsAgree
      /\ RedundantMerged
  BY DEF SolverInv, FieldInv, MergeInv, TypeOK, Node
<1>2. ASSUME NEW f \in redundant PROVE x # f /\ x \notin subs[f]
  <2>1. f \in Node /\ rep[f] # f
    BY <1>1, ObjNode DEF Finalize, RedundantMerged
  <2>2. x # f
    BY <1>1, NodeAssumption
  <2>3. ASSUME x \in subs[f] PROVE FALSE
    <3>1. rep[x] = f
      BY <2>1, <2>3, <1>1 DEF Finalize, RepSubsAgree
    <3>2. QED
      BY <3>1, <2>1, <1>1 DEF RepIdempotent
  <2>4. QED
    BY <2>2, <2>3
<1>3. QED
  BY <1>1, <1>2 DEF Finalize

LEMMA StepCarried ==
  SolverInv /\ FieldInv /\ GraphInv /\ ResultInv /\ CarriedInv /\ [Next]_vars => CarriedInv'
<1> SUFFICES ASSUME SolverInv, FieldInv, GraphInv, ResultInv, CarriedInv, [Next]_vars
             PROVE  CarriedInv'
  OBVIOUS
<1>1. TypeOK /\ MergeInv /\ prog \in Programs
  BY DEF SolverInv, MergeInv, GraphInv
<1> USE DEF ptVars, repVars, edgeVars, objVars, wave, collVars, workVars
\* A step that adds no edge but copies, and merges nothing.
<1>2. ASSUME UNCHANGED <<prog, vgep, ngep, pwc>>, \A x \in Ptr : rep'[x] = rep[x],
             copy \subseteq copy', toMerge = {} \/ toMerge' = toMerge
      PROVE  CarriedInv'
  <2>1. ASSUME NEW a, NEW b, Stood(a, b) PROVE Stood(a, b)'
    <3>1. toMerge' = toMerge
      BY <1>2, <2>1, StoodInMerge
    <3>2. QED
      BY <2>1, <3>1, <1>2 DEF Stood, Together, Goes
  <2>2. CopyCarried' /\ OffsetsKept' /\ VariantGepCarried'
    BY <1>1, <1>2, ProgramEnds
       DEF CarriedInv, CopyCarried, OffsetsKept, VariantGepCarried, Weighted, NonZero, OnCycle
  <2>3. ASSUME Weighted, NEW e \in prog.ngep
        PROVE  \/ <<rep'[e[1]], rep'[e[2]], e[3]>> \in ngep
               \/ OnCycle(rep[e[1]], rep[e[2]])'
               \/ Stood(rep[e[1]], rep[e[2]])'
    <3>1. PICK a, b : a = rep[e[1]] /\ b = rep[e[2]]
      OBVIOUS
    <3>2. a = rep'[e[1]] /\ b = rep'[e[2]]
      BY <3>1, <1>1, <1>2, ProgramEnds
    <3>3. <<a, b, e[3]>> \in ngep \/ OnCycle(a, b) \/ Stood(a, b)
      BY <3>1, <2>3 DEF CarriedInv, NormalGepCarried
    <3>4. <<a, b, e[3]>> \in ngep \/ OnCycle(a, b)' \/ Stood(a, b)'
      BY <3>3, <2>1, <1>2 DEF OnCycle
    <3>5. QED
      BY <3>2, <3>4 DEF OnCycle, Stood, HasGep, Together, Goes
  <2>4. NormalGepCarried'
    BY <2>3, <1>2 DEF NormalGepCarried, Weighted, NonZero
  <2>5. QED
    BY <2>2, <2>4 DEF CarriedInv
<1>3. CASE SCCDetect
  <2>1. toMerge = {}
    BY <1>1, <1>3 DEF SCCDetect, MergeInv, PendingMerges
  <2>2. QED
    BY <2>1, <1>2, <1>3 DEF SCCDetect
<1>4. CASE \E e \in toMerge : MergeSccNode(e[1], e[2])
  BY <1>4, MergeSccNodeCarried
<1>5. CASE EndMerge \/ EndWave \/ EndAgain \/ Reanalyze
  BY <1>2, <1>5 DEF EndMerge, EndWave, EndAgain, Reanalyze
<1>6. CASE \E n \in todo : CollapsePWCNode(n)
  BY <1>2, <1>6 DEF CollapsePWCNode
<1>7. CASE ProcessNode
  BY <1>2, <1>7 DEF ProcessNode
<1>8. CASE \E b \in coll : CollapseField(b)
  BY <1>2, <1>8 DEF CollapseField
<1>9. CASE \E f \in fold : FoldField(f)
  BY <1>9, FoldFieldCarried
<1>10. ASSUME NEW n \in worklist, PopAgain(n) \/ PostProcessNode(n) PROVE CarriedInv'
  BY <1>2, <1>10 DEF PopAgain, PostProcessNode
<1>11. ASSUME NEW e \in pend, AddCopyEdge(e) PROVE CarriedInv'
  BY <1>2, <1>11 DEF AddCopyEdge
<1>12. CASE UpdateCallGraph
  BY <1>2, <1>12 DEF UpdateCallGraph
<1>13. CASE Finalize
  BY <1>2, <1>13, FinalizeReps DEF Finalize
<1>14. CASE UNCHANGED vars
  BY <1>2, <1>14 DEF vars
<1>15. QED
  BY <1>3, <1>4, <1>5, <1>6, <1>7, <1>8, <1>9, <1>10, <1>11, <1>12, <1>13, <1>14
     DEF Next, Step, Terminated

-----------------------------------------------------------------------------
(* The end of the analysis.  The representatives on positive weight cycles *)
(* that the wave has visited point only to objects without fields, until   *)
(* another iteration is asked for; a step adds nothing to a node that was  *)
(* visited.                                                                *)

AddrHeld == \A e \in prog.addr : <<e[1], 0>> \in pts[rep[e[2]]]

FieldLess(o) == o[1] \in fi \/ o[1] \in Opaque \/ o[1] \in coll

Collapsed ==
    phase \in {"wave", "post", "cg"} /\ ~reanalyze /\ prog.mergePWC =>
        \A n \in GraphNode : n \in pwc /\ n \notin todo => \A o \in pts[n] : FieldLess(o)

EndInv == AddrHeld /\ Collapsed

LEMMA InitEnd == Init => EndInv
<1> SUFFICES ASSUME Init PROVE EndInv
  OBVIOUS
<1>1. /\ prog \in Programs /\ rep = [n \in Node |-> n] /\ phase = "scc"
      /\ pts = [n \in Node |-> {<<e[1], 0>> : e \in {a \in prog.addr : a[2] = n}}]
  BY DEF Init
<1>2. \A e \in prog.addr : e[2] \in Node
  BY <1>1, ProgramEnds DEF Node
<1>3. AddrHeld
  BY <1>1, <1>2 DEF AddrHeld
<1>4. QED
  BY <1>1, <1>3 DEF EndInv, Collapsed

LEMMA ProgramKept == [Next]_vars => prog' = prog
<1> SUFFICES ASSUME [Next]_vars PROVE prog' = prog
  OBVIOUS
<1>1. CASE SCCDetect \/ EndMerge \/ EndWave \/ EndAgain \/ UpdateCallGraph \/ Reanalyze
  BY <1>1 DEF SCCDetect, EndMerge, EndWave, EndAgain, UpdateCallGraph, Reanalyze
<1>2. CASE ProcessNode \/ Finalize \/ UNCHANGED vars
  BY <1>2 DEF ProcessNode, Finalize, vars
<1>3. ASSUME NEW n, CollapsePWCNode(n) \/ PopAgain(n) \/ PostProcessNode(n) \/ AddCopyEdge(n)
                    \/ CollapseField(n) \/ FoldField(n)
      PROVE  prog' = prog
  BY <1>3 DEF CollapsePWCNode, PopAgain, PostProcessNode, AddCopyEdge, CollapseField, FoldField
<1>4. ASSUME NEW n, NEW r, MergeSccNode(n, r) PROVE prog' = prog
  BY <1>4 DEF MergeSccNode
<1>5. QED
  BY <1>1, <1>2, <1>3, <1>4 DEF Next, Step, Terminated

LEMMA StepAddr ==
  ASSUME SolverInv, FieldInv, GraphInv, AddrHeld, [Next]_vars PROVE AddrHeld'
<1>1. TypeOK /\ MergeInv /\ PropagationInv /\ prog \in Programs /\ Kept
  BY StepKept DEF SolverInv, GraphInv, MergeInv
<1>2. prog' = prog
  BY ProgramKept
<1>3. \A e \in prog.addr : e[2] \in Ptr /\ e[2] \in Node /\ rep[e[2]] \in Node /\ e[1] \in Base
  BY <1>1, ProgramEnds DEF Node, TypeOK
<1>4. ASSUME NEW e \in prog.addr PROVE <<e[1], 0>> \in pts'[rep[e[2]]]
  <2>1. <<e[1], 0>> \in pts[rep[e[2]]] /\ FIObjNode(<<e[1], 0>>) = <<e[1], 0>>
    BY DEF AddrHeld, FIObjNode
  <2>2. QED
    BY <2>1, <1>1, <1>3 DEF Kept
<1> USE DEF ptVars, repVars, edgeVars, objVars, wave, collVars, workVars
<1>5. CASE \A x \in Ptr : rep'[x] = rep[x]
  BY <1>2, <1>3, <1>4, <1>5 DEF AddrHeld
\* A merge takes the targets of the merged node along.
<1>6. ASSUME NEW n \in Node, NEW r \in Node, n # r, rep[n] = n, rep[r] = r, phase # "done",
             NEW p \in [Node -> SUBSET Obj], MergeNodeToRep(n, r, p),
             \A m \in Node : \A b \in Base : <<b, 0>> \in pts[m] => <<b, 0>> \in p[m]
      PROVE  AddrHeld'
  <2>1. \A m \in Node : rep'[m] = IF rep[m] = n THEN r ELSE rep[m]
    BY <1>1, <1>6, MergeReps DEF MergeInv
  <2>2. pts'[r] = p[r] \cup p[n]
    BY <1>6 DEF MergeNodeToRep
  <2>3. ASSUME NEW e \in prog.addr PROVE <<e[1], 0>> \in pts'[rep'[e[2]]]
    <3>1. CASE rep[e[2]] = n
      <4>1. <<e[1], 0>> \in p[n] /\ rep'[e[2]] = r
        BY <3>1, <2>1, <1>3, <1>6 DEF AddrHeld
      <4>2. QED
        BY <4>1, <2>2
    <3>2. CASE rep[e[2]] # n
      BY <3>2, <2>1, <1>3, <1>4
    <3>3. QED
      BY <3>1, <3>2
  <2>4. QED
    BY <2>3, <1>2 DEF AddrHeld
<1>7. ASSUME NEW e \in toMerge, MergeSccNode(e[1], e[2]) PROVE AddrHeld'
  <2>1. /\ e[1] \in Node /\ e[2] \in Node /\ e[1] # e[2] /\ rep[e[1]] = e[1] /\ rep[e[2]] = e[2]
        /\ MergeNodeToRep(e[1], e[2], pts) /\ phase # "done" /\ pts \in [Node -> SUBSET Obj]
    BY <1>1, <1>7 DEF MergeSccNode, TypeOK, Pair, MergeInv, PendingMerges, DetachedPair
  <2>2. QED
    BY <2>1, <1>6
<1>8. ASSUME NEW f \in fold, FoldField(f) PROVE AddrHeld'
  <2> DEFINE n == rep[f]
             r == rep[FIObjNode(f)]
             p == [m \in Node |-> Retarget(pts[m], f)]
  <2>1. /\ f \in Obj /\ f[2] # 0 /\ n \in Node /\ r \in Node /\ rep[n] = n /\ rep[r] = r
        /\ phase # "done"
    <3>1. f \in Obj /\ FIObjNode(f) \in Obj /\ f[2] # 0
      BY <1>1, FIObjNodeType DEF TypeOK, FieldInv, Folds
    <3>2. QED
      BY <3>1, <1>1, <1>8, ObjNode DEF TypeOK, MergeInv, RepIdempotent, VisitInWave
  <2>2. p \in [Node -> SUBSET Obj]
    BY <1>1, <2>1, RetargetType
  <2>3. \A m \in Node : \A b \in Base : <<b, 0>> \in pts[m] => <<b, 0>> \in p[m]
    <3>1. \A b \in Base : <<b, 0>> # f
      BY <2>1 DEF Obj
    <3>2. QED
      BY <3>1 DEF Retarget
  <2>4. CASE n # r
    <3>1. MergeNodeToRep(n, r, p)
      BY <1>8, <2>4 DEF FoldField
    <3> HIDE DEF n, r, p
    <3>2. QED
      BY <3>1, <2>1, <2>2, <2>3, <2>4, <1>6
  <2>5. CASE n = r
    BY <1>5, <1>8, <2>5 DEF FoldField
  <2>6. QED
    BY <2>4, <2>5
<1>9. CASE Finalize
  BY <1>5, <1>9, FinalizeReps
<1>10. CASE SCCDetect \/ EndMerge \/ EndWave \/ EndAgain \/ UpdateCallGraph \/ Reanalyze
             \/ ProcessNode
  BY <1>5, <1>10 DEF SCCDetect, EndMerge, EndWave, EndAgain, UpdateCallGraph, Reanalyze, ProcessNode
<1>11. ASSUME NEW n, CollapsePWCNode(n) \/ PopAgain(n) \/ PostProcessNode(n) \/ AddCopyEdge(n)
                     \/ CollapseField(n)
       PROVE  AddrHeld'
  BY <1>5, <1>11 DEF CollapsePWCNode, PopAgain, PostProcessNode, AddCopyEdge, CollapseField
<1>12. CASE UNCHANGED vars
  BY <1>5, <1>12 DEF vars
<1>13. QED
  BY <1>7, <1>8, <1>9, <1>10, <1>11, <1>12 DEF Next, Step, Terminated

\* A visit in the wave sends nothing to the nodes visited before.
LEMMA SentAhead ==
  ASSUME SolverInv, FieldInv, GraphInv, WaveInv, ProcessNode, ~reanalyze, prog.mergePWC,
         NEW x \in GraphNode', x \notin todo
  PROVE  pts'[x] = {} \/ (pts'[x] = pts[x] /\ x \in GraphNode)
<1>1. /\ TypeOK /\ MergeInv /\ DagInWave /\ EdgesKnown /\ NodesKnown /\ NoLoops /\ cur \in Node
      /\ phase = "wave" /\ flds \subseteq Obj /\ flds' \subseteq flds \cup Obj
  <2>1. TypeOK' /\ cur \in Node /\ phase \in {"wave", "again"} /\ phase # "again"
    BY ProcessNodeType DEF SolverInv, MergeInv, TypeOK, VisitInWave, Phases, ProcessNode
  <2>2. QED
    BY <2>1 DEF SolverInv, MergeInv, WaveInv, GraphInv, TypeOK
<1>2. prog' = prog /\ rep' = rep
  BY DEF ProcessNode, repVars
<1>3. CASE rep[cur] # cur
  <2>1. pts' = pts /\ flds' = flds
    BY <1>3 DEF ProcessNode, ptVars
  <2>2. QED
    BY <2>1, <1>2 DEF GraphNode
<1>4. CASE rep[cur] = cur
  <2>1. HandleCopyGep(cur)
    BY <1>4 DEF ProcessNode
  <2>2. \A d \in Node : pts'[d] = pts[d] \cup Sent(cur, d)
    BY <2>1, <1>1, SentPts
  <2>3. \A d \in Node : Sent(cur, d) # {} => <<cur, d>> \in Direct
    <3>1. ASSUME NEW d \in Node, Sent(cur, d) # {}
          PROVE  <<cur, d>> \in copy \/ <<cur, d>> \in vgep \/ \E e \in ngep : e[1] = cur /\ e[2] = d
      <4>1. Fields(cur, {e \in ngep : e[1] = cur /\ e[2] = d}) # {}
                => \E e \in ngep : e[1] = cur /\ e[2] = d
        BY DEF Fields
      <4>2. QED
        BY <3>1, <4>1 DEF Sent
    <3>2. QED
      BY <3>1 DEF Direct, GepPairs
  <2>4. x \in Node
    <3>1. x \in prog.nodes \cup flds'
      BY <1>2 DEF GraphNode
    <3>2. prog.nodes \subseteq Node
      BY <1>1 DEF TypeOK, ProgramType
    <3>3. QED
      BY <3>1, <3>2, <1>1, ObjNode
  <2>5. CASE x \in GraphNode
    <3>1. ASSUME Sent(cur, x) # {} PROVE FALSE
      <4>1. <<cur, x>> \in Direct /\ <<cur, x>>[1] = cur /\ <<cur, x>>[2] = x
        BY <2>3, <2>4, <3>1
      <4>2. <<cur, x>> \in dag /\ cur # x
        BY <4>1, <1>1, SCCEdgesDirect DEF DagInWave, NoLoops
      <4>3. QED
        BY <4>1, <4>2, <2>5, <1>1 DEF DagInWave, Open
    <3>2. QED
      BY <3>1, <2>2, <2>4, <2>5
  <2>6. CASE x \notin GraphNode
    <3>1. x \in flds' /\ x \notin flds /\ x \notin prog.nodes
      BY <2>6, <1>2 DEF GraphNode
    <3>2. ~NodeOf(x)
      BY <3>1 DEF NodeOf
    <3>3. Sent(cur, x) = {}
      <4>1. ASSUME <<cur, x>> \in Direct PROVE FALSE
        <5>1. NodeOf(<<cur, x>>[2])
          BY <4>1, <1>1 DEF EdgesKnown
        <5>2. QED
          BY <5>1, <3>2
      <4>2. QED
        BY <4>1, <2>3, <2>4
    <3>4. QED
      BY <2>2, <2>4, <3>2, <3>3, <1>1 DEF NodesKnown
  <2>7. QED
    BY <2>5, <2>6
<1>5. QED
  BY <1>3, <1>4

LEMMA StepCollapsed ==
  ASSUME SolverInv, FieldInv, GraphInv, WaveInv, Collapsed, [Next]_vars PROVE Collapsed'
<1>1. TypeOK /\ MergeInv /\ Phases
  BY DEF SolverInv, MergeInv
<1> USE DEF ptVars, repVars, edgeVars, objVars, wave, collVars, workVars
\* A step that changes no set of a node of the graph and takes nothing off the stack.
<1>2. ASSUME UNCHANGED <<prog, pts, rep, flds, pwc, todo>>, fi \subseteq fi',
             coll \subseteq coll' \cup fi', phase' \in {"wave", "post", "cg"} => phase \in {"wave", "post", "cg"},
             reanalyze => reanalyze'
      PROVE  Collapsed'
  <2>1. GraphNode' = GraphNode
    BY <1>2 DEF GraphNode
  <2>2. QED
    BY <2>1, <1>1, <1>2 DEF Collapsed, FieldLess, TypeOK
<1>3. ASSUME phase' \notin {"wave", "post", "cg"} \/ reanalyze' \/ ~prog'.mergePWC PROVE Collapsed'
  BY <1>3 DEF Collapsed
<1>4. CASE SCCDetect \/ Reanalyze \/ Finalize
  BY <1>3, <1>4 DEF SCCDetect, Reanalyze, Finalize
<1>5. CASE \E e \in toMerge : MergeSccNode(e[1], e[2])
  BY <1>3, <1>5 DEF MergeSccNode
<1>6. CASE EndMerge
  <2>1. /\ \A n \in GraphNode : n \in todo
        /\ UNCHANGED <<prog, rep, flds, todo>>
    BY <1>6 DEF EndMerge, WaveInv, DagInMerge
  <2>2. GraphNode' = GraphNode
    BY <2>1 DEF GraphNode
  <2>3. QED
    BY <2>1, <2>2 DEF Collapsed
<1>7. ASSUME NEW n \in todo, CollapsePWCNode(n) PROVE Collapsed'
  <2>1. /\ UNCHANGED <<prog, pts, rep, flds, pwc, fi, phase, reanalyze>> /\ todo' = todo \ {n}
        /\ coll' = IF prog.mergePWC /\ rep[n] \in pwc THEN Collapsible(pts[rep[n]], fi) ELSE {}
        /\ coll = {}
    BY <1>7 DEF CollapsePWCNode, Quiet
  <2>2. GraphNode' = GraphNode /\ GraphNode \subseteq Node
    BY <2>1, <1>1, GraphNodeType DEF GraphNode
  <2>3. SUFFICES ASSUME Collapsed, phase \in {"wave", "post", "cg"}, ~reanalyze, prog.mergePWC,
                        NEW m \in GraphNode, m \in pwc, m \notin todo \ {n}, NEW o \in pts[m]
                 PROVE  FieldLess(o)'
    BY <2>1, <2>2 DEF Collapsed
  <2>4. CASE m = n
    <3>1. rep[n] = n /\ coll' = Collapsible(pts[n], fi) /\ o[1] \in Base
      BY <2>1, <2>2, <2>3, <2>4, <1>1 DEF GraphNode, TypeOK, Obj
    <3>2. QED
      BY <3>1, <2>1, <2>3, <2>4 DEF Collapsible, FieldLess
  <2>5. CASE m # n
    BY <2>1, <2>3, <2>5 DEF Collapsed, FieldLess
  <2>6. QED
    BY <2>4, <2>5
<1>8. CASE ProcessNode
  <2>1. /\ UNCHANGED <<prog, rep, pwc, todo, phase, reanalyze>> /\ coll = {}
        /\ phase \in {"wave", "again"}
    BY <1>1, <1>8 DEF ProcessNode, MergeInv, VisitInWave
  <2>2. fi \subseteq fi'
    BY <1>8, InsensitiveKept
  <2>3. SUFFICES ASSUME phase \in {"wave", "post", "cg"}, ~reanalyze, prog.mergePWC,
                        NEW m \in GraphNode', m \in pwc, m \notin todo, NEW o \in pts'[m]
                 PROVE  FieldLess(o)'
    BY <2>1 DEF Collapsed
  <2>4. pts'[m] = pts[m] /\ m \in GraphNode
    BY <2>3, <1>8, SentAhead
  <2>5. FieldLess(o)
    BY <2>3, <2>4 DEF Collapsed
  <2>6. QED
    BY <2>1, <2>2, <2>5 DEF FieldLess
<1>9. ASSUME NEW b \in coll, CollapseField(b) PROVE Collapsed'
  <2>1. /\ UNCHANGED <<prog, pts, rep, flds, pwc, todo, phase, reanalyze>>
        /\ fi' = fi \cup {b} /\ coll \ {b} \subseteq coll'
    BY <1>9 DEF CollapseField
  <2>2. QED
    BY <2>1, <1>2
<1>10. ASSUME NEW f \in fold, FoldField(f) PROVE Collapsed'
  <2>1. f \in flds /\ Unfolded(f)
    BY <1>10 DEF FieldInv, Folds, Unfolded
  <2>2. \E n \in Node : f \in pts[n]
    BY <2>1 DEF FieldInv, FieldsPointed
  <2>3. reanalyze'
    BY <2>2, <1>10 DEF FoldField
  <2>4. QED
    BY <2>3, <1>3
<1>11. CASE EndWave \/ EndAgain
  BY <1>1, <1>2, <1>3, <1>11 DEF EndWave, EndAgain, Phases
<1>12. ASSUME NEW n, PopAgain(n) \/ PostProcessNode(n) PROVE Collapsed'
  BY <1>2, <1>12 DEF PopAgain, PostProcessNode
<1>13. ASSUME NEW e \in pend, AddCopyEdge(e) PROVE Collapsed'
  BY <1>2, <1>13 DEF AddCopyEdge
<1>14. CASE UpdateCallGraph
  BY <1>1, <1>2, <1>14 DEF UpdateCallGraph, TypeOK
<1>15. CASE UNCHANGED vars
  BY <1>2, <1>15 DEF vars
<1>16. QED
  BY <1>4, <1>5, <1>6, <1>7, <1>8, <1>9, <1>10, <1>11, <1>12, <1>13, <1>14, <1>15
     DEF Next, Step, Terminated

SolverCore == CoreInv /\ GepsReached /\ ResultInv /\ CarriedInv /\ EndInv

LEMMA InitSolverCore == Init => SolverCore
<1>1. Init => GepsReached
  <2> SUFFICES ASSUME Init PROVE GepsReached
    OBVIOUS
  <2>1. propa = [n \in Node |-> {}] /\ vgep \subseteq Pair /\ ngep \subseteq Gep
    BY InitType DEF Init, TypeOK
  <2>2. \A e \in vgep \cup ngep : e[1] \in Node
    BY <2>1 DEF Pair, Gep
  <2>3. QED
    BY <2>1, <2>2 DEF GepsReached
<1>2. QED
  BY <1>1, InitCore, InitResults, InitCarried, InitEnd DEF SolverCore

LEMMA StepSolverCore == SolverCore /\ [Next]_vars => SolverCore'
BY StepCore, StepGeps, StepResults, StepCarried, StepAddr, StepCollapsed
   DEF SolverCore, CoreInv, SolverInv, EndInv

AddrSolved == \A e \in prog.addr : <<e[1], 0>> \in Pts(e[2])
CopySolved == \A e \in prog.copy : Pts(e[1]) \subseteq Pts(e[2])
NormalGepSolved ==
    \A e \in prog.ngep : NormalGepTargets(Pts(e[1]), e[3], fi) \subseteq Pts(e[2])
VariantGepSolved == \A e \in prog.vgep : VariantGepTargets(Pts(e[1])) \subseteq Pts(e[2])

\* When no iteration follows, every set has been sent along every edge.
LEMMA AllSent ==
  ASSUME SolverCore, phase = "cg", ~reanalyze
  PROVE  /\ \A n \in GraphNode : pts[n] \subseteq propa[n]
         /\ \A n \in Node : \A o \in pts[n] : o \in Obj /\ (o[1] \in fi => o[2] = 0)
         /\ toMerge = {} /\ coll = {} /\ todo = {}
         /\ \A x \in Ptr : NodeOf(x) => rep[x] \in GraphNode /\ rep[x] \in Node
<1>1. /\ TypeOK /\ MergeInv /\ Phases /\ VisitsDone /\ NodesKnown /\ TargetsNamed
      /\ RepIdempotent
  BY DEF SolverCore, CoreInv, SolverInv, WaveInv, GraphInv, FieldInv, MergeInv
<1>2. cur = NoNode /\ coll = {} /\ fold = {} /\ toMerge = {} /\ todo = {}
  BY <1>1 DEF MergeInv, VisitInWave, PendingMerges, Phases
<1>3. \A n \in GraphNode : pts[n] \subseteq propa[n]
  <2>1. GraphNode \subseteq Node
    BY <1>1, GraphNodeType
  <2>2. \A n \in GraphNode : ~Open(n) /\ ~Waits(n)
    BY <1>2, <2>1, NoNodeAssumption DEF Open, Waits
  <2>3. QED
    BY <1>1, <2>2 DEF VisitsDone
<1>4. \A n \in Node : \A o \in pts[n] : o \in Obj /\ (o[1] \in fi => o[2] = 0)
  BY <1>1, <1>2 DEF TargetsNamed, Unfolded, TypeOK
<1>5. ASSUME NEW x \in Ptr, NodeOf(x) PROVE rep[x] \in GraphNode /\ rep[x] \in Node
  <2>1. x \in Node /\ rep[x] \in Node /\ NodeOf(rep[x]) /\ rep[rep[x]] = rep[x]
    BY <1>1, <1>5 DEF Node, TypeOK, NodesKnown, RepIdempotent
  <2>2. QED
    BY <2>1 DEF NodeOf, GraphNode
<1>6. QED
  BY <1>2, <1>3, <1>4, <1>5

\* A gep whose ends are one node: its targets have no fields, or another iteration follows.
LEMMA CycleCollapsed ==
  ASSUME SolverCore, phase = "cg", ~reanalyze, NEW x \in Ptr, NEW y \in Ptr, NodeOf(x), x # y,
         y \in GepResults(prog), OnCycle(rep[x], rep[y])
  PROVE  rep[x] = rep[y] /\ \A o \in pts[rep[x]] : o[1] \in fi \/ o[1] \in Opaque
<1>1. rep[x] \in GraphNode /\ todo = {} /\ coll = {} /\ rep[x] \in pwc /\ rep[x] = rep[y]
  BY AllSent DEF OnCycle
<1>2. prog.mergePWC
  <2>1. ASSUME ~prog.mergePWC PROVE FALSE
    <3>1. Alone(y) /\ rep[y] = y
      BY <2>1 DEF SolverCore, ResultInv, ResultsUnmerged
    <3>2. x \in Node
      BY DEF Node
    <3>3. QED
      BY <1>1, <3>1, <3>2 DEF Alone
  <2>2. prog.mergePWC \in BOOLEAN
    BY DEF SolverCore, CoreInv, SolverInv, MergeInv, TypeOK, ProgramType
  <2>3. QED
    BY <2>1, <2>2
<1>3. QED
  BY <1>1, <1>2 DEF SolverCore, EndInv, Collapsed, FieldLess

LEMMA CopyAnswered ==
  ASSUME SolverCore, phase = "cg", ~reanalyze, NEW x \in Ptr, NEW y \in Ptr, NodeOf(x),
         rep[x] = rep[y] \/ <<rep[x], rep[y]>> \in copy
  PROVE  Pts(x) \subseteq Pts(y)
<1>1. PropagatedReached
  BY DEF SolverCore, CoreInv, SolverInv, PropagationInv
<1>2. SUFFICES ASSUME rep[x] # rep[y], NEW o \in pts[rep[x]] PROVE o \in pts[rep[y]]
  BY DEF Pts
<1>3. o \in propa[rep[x]] /\ o \in Obj /\ (o[1] \in fi => o[2] = 0)
  BY AllSent
<1>4. o[1] \in fi => FIObjNode(o) = o
  BY <1>3 DEF Obj, FIObjNode
<1>5. <<rep[x], rep[y]>> \in copy /\ <<rep[x], rep[y]>>[1] = rep[x] /\ <<rep[x], rep[y]>>[2] = rep[y]
  BY <1>2
<1>6. Holds(o, pts[rep[y]])
  BY <1>1, <1>3, <1>5 DEF PropagatedReached
<1>7. QED
  BY <1>4, <1>6 DEF Holds

LEMMA SolvedAtEnd ==
  ASSUME SolverCore, phase = "cg", ~reanalyze
  PROVE  AddrSolved /\ CopySolved /\ VariantGepSolved /\ (Weighted => NormalGepSolved)
<1>1. TypeOK /\ prog \in Programs /\ PropagatedReached
  BY DEF SolverCore, CoreInv, SolverInv, PropagationInv, GraphInv
<1>2. \A e \in prog.copy \cup prog.vgep \cup prog.ngep :
          /\ e[1] \in Ptr /\ e[2] \in Ptr /\ e[1] # e[2] /\ NodeOf(e[1]) /\ NodeOf(e[2])
  <2>1. \A e \in prog.copy \cup prog.vgep \cup GepPairs(prog.ngep) :
            e[1] \in prog.nodes /\ e[2] \in prog.nodes
    BY <1>1, ProgramAssumption
  <2>2. ASSUME NEW e \in prog.ngep PROVE e[1] \in prog.nodes /\ e[2] \in prog.nodes
    <3>1. <<e[1], e[2]>> \in GepPairs(prog.ngep)
      BY DEF GepPairs
    <3>2. <<e[1], e[2]>>[1] \in prog.nodes /\ <<e[1], e[2]>>[2] \in prog.nodes
      BY <3>1, <2>1
    <3>3. QED
      BY <3>2
  <2>3. QED
    BY <1>1, <2>1, <2>2, ProgramEnds DEF NodeOf
<1>3. ASSUME NEW x \in Ptr, NodeOf(x)
      PROVE  /\ rep[x] \in Node /\ pts[rep[x]] \subseteq propa[rep[x]]
             /\ \A o \in pts[rep[x]] : o \in Obj /\ (o[1] \in fi => o[2] = 0 /\ FIObjNode(o) = o)
  <2>1. rep[x] \in Node /\ rep[x] \in GraphNode
    BY <1>3, AllSent
  <2>2. \A o \in Obj : o[2] = 0 => FIObjNode(o) = o
    BY DEF Obj, FIObjNode
  <2>3. QED
    BY <2>1, <2>2, AllSent
<1>4. AddrSolved
  BY DEF AddrSolved, Pts, SolverCore, EndInv, AddrHeld
<1>5. CopySolved
  BY <1>2, CopyAnswered DEF CopySolved, SolverCore, CarriedInv, CopyCarried
<1>6. VariantGepSolved
  <2>1. SUFFICES ASSUME NEW e \in prog.vgep, NEW o \in pts[rep[e[1]]]
                 PROVE  VariantTarget(o) \in pts[rep[e[2]]]
    BY DEF VariantGepSolved, Pts, VariantGepTargets, VariantTarget
  <2>2. /\ e[1] \in Ptr /\ e[2] \in Ptr /\ e[1] # e[2] /\ NodeOf(e[1]) /\ e[2] \in GepResults(prog)
    BY <1>1, <1>2, ProgramEnds
  <2>3. o \in propa[rep[e[1]]] /\ (o[1] \in fi => o[2] = 0 /\ FIObjNode(o) = o)
    BY <2>2, <1>3
  <2>4. CASE OnCycle(rep[e[1]], rep[e[2]])
    <3>1. rep[e[1]] = rep[e[2]] /\ (o[1] \in fi \/ o[1] \in Opaque)
      BY <2>2, <2>4, CycleCollapsed
    <3>2. QED
      BY <3>1, <2>3 DEF VariantTarget
  <2>5. CASE <<rep[e[1]], rep[e[2]]>> \in vgep
    <3>1. PICK g \in vgep : g = <<rep[e[1]], rep[e[2]]>>
      BY <2>5
    <3>2. g[1] = rep[e[1]] /\ g[2] = rep[e[2]]
      BY <3>1
    <3>3. Holds(VariantTarget(o), pts[rep[e[2]]])
      BY <3>2, <2>3 DEF SolverCore, GepsReached
    <3>4. FIObjNode(FIObjNode(o)) = FIObjNode(o)
      BY DEF FIObjNode
    <3>5. QED
      BY <3>3, <3>4, <2>3 DEF Holds, VariantTarget
  <2>6. QED
    BY <2>4, <2>5 DEF SolverCore, CarriedInv, VariantGepCarried
<1>7. Weighted => NormalGepSolved
  <2>1. SUFFICES ASSUME Weighted, NEW e \in prog.ngep, NEW o \in pts[rep[e[1]]]
                 PROVE  /\ o[1] \in Opaque => o \in pts[rep[e[2]]]
                        /\ o[1] \notin Opaque => GepObjNode(o, e[3], fi) \in pts[rep[e[2]]]
    BY DEF NormalGepSolved, Pts, NormalGepTargets
  <2>2. /\ e[1] \in Ptr /\ e[2] \in Ptr /\ e[1] # e[2] /\ NodeOf(e[1]) /\ NodeOf(e[2])
        /\ e[2] \in GepResults(prog)
    BY <1>1, <1>2, ProgramEnds
  <2>3. o \in propa[rep[e[1]]] /\ (o[1] \in fi => o[2] = 0 /\ FIObjNode(o) = o)
    BY <2>2, <1>3
  <2>4. CASE OnCycle(rep[e[1]], rep[e[2]])
    <3>1. rep[e[1]] = rep[e[2]] /\ (o[1] \in fi \/ o[1] \in Opaque)
      BY <2>2, <2>4, CycleCollapsed
    <3>2. QED
      BY <3>1, <2>3 DEF GepObjNode
  <2>5. CASE <<rep[e[1]], rep[e[2]], e[3]>> \in ngep
    <3>1. PICK g \in ngep : g = <<rep[e[1]], rep[e[2]], e[3]>>
      BY <2>5
    <3>2. g[1] = rep[e[1]] /\ g[2] = rep[e[2]] /\ g[3] = e[3]
      BY <3>1
    <3>3. Holds(NormalTarget(o, e[3]), pts[rep[e[2]]])
      BY <3>2, <2>3 DEF SolverCore, GepsReached
    <3>4. CASE o[1] \in Opaque
      BY <3>3, <3>4, <2>3 DEF Holds, NormalTarget
    <3>5. CASE o[1] \notin Opaque
      <4> DEFINE t == <<o[1], (o[2] + e[3]) % MaxField>>
      <4>1. NormalTarget(o, e[3]) = t /\ t[1] = o[1] /\ FIObjNode(t) = FIObjNode(o)
        BY <3>5 DEF NormalTarget, GepObjNode, FIObjNode
      <4>2. CASE o[1] \in fi
        <5>1. t \in pts[rep[e[2]]] => FIObjNode(t) = t
          BY <2>2, <1>3, <4>1, <4>2
        <5>2. FIObjNode(o) \in pts[rep[e[2]]]
          BY <5>1, <4>1, <3>3 DEF Holds
        <5>3. QED
          BY <5>2, <4>2, <3>5 DEF GepObjNode
      <4>3. CASE o[1] \notin fi
        BY <4>1, <4>3, <3>3, <3>5 DEF GepObjNode, Holds
      <4>4. QED
        BY <4>2, <4>3
    <3>6. QED
      BY <3>4, <3>5
  <2>6. ~Stood(rep[e[1]], rep[e[2]])
    BY AllSent, StoodInMerge
  <2>7. QED
    BY <2>1, <2>4, <2>5, <2>6 DEF SolverCore, CarriedInv, NormalGepCarried
<1>8. QED
  BY <1>4, <1>5, <1>6, <1>7

\* What holds when the analysis is done.
Solved == phase = "done" => AddrSolved /\ CopySolved /\ VariantGepSolved /\ (Weighted => NormalGepSolved)

LEMMA DoneBefore ==
  ASSUME SolverInv, [Next]_vars, phase' = "done" PROVE Finalize \/ (phase = "done" /\ UNCHANGED vars)
<1>1. CASE UNCHANGED vars
  BY <1>1 DEF vars
<1>2. MergeInv /\ Phases
  BY DEF SolverInv
<1>3. CASE SCCDetect \/ EndMerge \/ EndWave \/ EndAgain \/ UpdateCallGraph \/ Reanalyze
  BY <1>3 DEF SCCDetect, EndMerge, EndWave, EndAgain, UpdateCallGraph, Reanalyze
<1>4. CASE \E e \in toMerge : MergeSccNode(e[1], e[2])
  BY <1>4 DEF MergeSccNode
<1>5. ASSUME NEW n, CollapsePWCNode(n) \/ PopAgain(n) \/ PostProcessNode(n) PROVE FALSE
  BY <1>5 DEF CollapsePWCNode, PopAgain, PostProcessNode
<1>6. CASE ProcessNode
  BY <1>2, <1>6 DEF ProcessNode, MergeInv, VisitInWave, wave
<1>7. ASSUME NEW b, CollapseField(b) \/ FoldField(b) PROVE FALSE
  BY <1>2, <1>7 DEF CollapseField, FoldField, MergeInv, VisitInWave
<1>8. ASSUME NEW e, AddCopyEdge(e) PROVE FALSE
  BY <1>2, <1>8 DEF AddCopyEdge, Phases
<1>9. QED
  BY <1>1, <1>3, <1>4, <1>5, <1>6, <1>7, <1>8 DEF Next, Step, Terminated

LEMMA StepSolved == SolverCore /\ Solved /\ [Next]_vars => Solved'
<1> SUFFICES ASSUME SolverCore, Solved, [Next]_vars, phase' = "done"
             PROVE  AddrSolved' /\ CopySolved' /\ VariantGepSolved' /\ (Weighted => NormalGepSolved)'
  BY DEF Solved
<1>1. CASE Finalize
  <2>1. /\ prog' = prog /\ pts' = pts /\ fi' = fi /\ prog \in Programs
        /\ phase = "cg" /\ ~reanalyze
    BY <1>1 DEF Finalize, ptVars, SolverCore, CoreInv, GraphInv
  <2>2. \A x \in Ptr : Pts(x)' = Pts(x)
    BY <2>1, <1>1, FinalizeReps DEF Pts, SolverCore, CoreInv
  <2>3. AddrSolved /\ CopySolved /\ VariantGepSolved /\ (Weighted => NormalGepSolved)
    BY <2>1, SolvedAtEnd
  <2>4. QED
    BY <2>1, <2>2, <2>3, ProgramEnds
       DEF AddrSolved, CopySolved, VariantGepSolved, NormalGepSolved, Weighted, NonZero
<1>2. CASE UNCHANGED vars
  BY <1>2 DEF vars, ptVars, repVars, objVars, Solved, AddrSolved, CopySolved, VariantGepSolved,
              NormalGepSolved, Weighted, NonZero, Pts
<1>3. QED
  BY <1>1, <1>2, DoneBefore DEF SolverCore, CoreInv

LEMMA SolvedInductive ==
  /\ Init => SolverCore /\ Solved
  /\ SolverCore /\ Solved /\ [Next]_vars => (SolverCore /\ Solved)'
<1>1. Init => Solved
  BY DEF Init, Solved
<1>2. QED
  BY <1>1, InitSolverCore, StepSolverCore, StepSolved

\* The final solution answers every address, copy and gep of the program, through all
\* the merging and collapsing, if no gep has offset zero or cycles through geps are
\* not merged.  (With a zero offset it may not: see the README.)
THEOREM ConstraintsSolved ==
  Spec => [](Weighted => DirectConstraintsSolved)
<1>1. Solved => (Weighted => DirectConstraintsSolved)
  BY DEF Solved, DirectConstraintsSolved, AddrSolved, CopySolved, VariantGepSolved,
         NormalGepSolved
<1>2. QED
  BY <1>1, SolvedInductive, PTL DEF Spec

\* Addresses, copies and geps whose offset is unknown are answered in every program.
THEOREM CopiesSolved ==
  Spec => [](phase = "done" => AddrSolved /\ CopySolved /\ VariantGepSolved)
<1>1. Solved => (phase = "done" => AddrSolved /\ CopySolved /\ VariantGepSolved)
  BY DEF Solved
<1>2. QED
  BY <1>1, SolvedInductive, PTL DEF Spec

-----------------------------------------------------------------------------
(* Loads and stores of a program whose analysis merges nothing: each has a *)
(* copy edge for every target, or one is pending, or its node waits to be  *)
(* processed again.                                                        *)

NoMerge == (\A n \in Node : rep[n] = n) /\ redundant = {}

Busy(n) == n \in worklist \/ n \in tmp

Linking(s, d) == s = d \/ <<s, d>> \in copy \/ <<s, d>> \in pend

LoadLinks == \A e \in load : Busy(e[1]) \/ \A o \in Deref(e[1]) : Linking(o, e[2])

StoreLinks == \A e \in store : Busy(e[2]) \/ \A o \in Deref(e[2]) : Linking(e[1], o)

LoadsKept == NoMerge => load = prog.load /\ store = prog.store /\ LoadLinks /\ StoreLinks

LEMMA InitLoads == Init => LoadsKept
<1> SUFFICES ASSUME Init PROVE LoadsKept
  OBVIOUS
<1>1. TypeOK
  BY InitType
<1>2. /\ rep = [n \in Node |-> n] /\ load = prog.load /\ store = prog.store
      /\ worklist = {a[2] : a \in prog.addr}
      /\ pts = [n \in Node |-> {<<e[1], 0>> : e \in {a \in prog.addr : a[2] = n}}]
  BY DEF Init
<1>3. \A n \in Node : Busy(n) \/ Deref(n) = {}
  BY <1>2 DEF Busy, Deref
<1>4. \A e \in load \cup store : e[1] \in Node /\ e[2] \in Node
  BY <1>1 DEF TypeOK, Pair
<1>5. QED
  BY <1>2, <1>3, <1>4 DEF LoadsKept, LoadLinks, StoreLinks

\* A step after which nothing is merged merges nothing.
LEMMA UnmergedBefore ==
  ASSUME SolverInv, FieldInv, [Next]_vars, NoMerge'
  PROVE  /\ NoMerge
         /\ \A e \in toMerge : ~MergeSccNode(e[1], e[2])
         /\ \A f \in fold : ~FoldField(f)
<1>1. TypeOK /\ MergeInv
  BY DEF SolverInv, MergeInv
<1>2. ASSUME NEW n \in Node, NEW r \in Node, NEW p, n # r, rep[n] = n, MergeNodeToRep(n, r, p)
      PROVE  FALSE
  BY <1>2 DEF MergeNodeToRep, NodeReps, NoMerge
<1>3. ASSUME NEW e \in toMerge, MergeSccNode(e[1], e[2]) PROVE FALSE
  <2>1. e[1] \in Node /\ e[2] \in Node /\ e[1] # e[2] /\ rep[e[1]] = e[1]
    BY <1>1 DEF TypeOK, Pair, MergeInv, PendingMerges, DetachedPair
  <2>2. QED
    BY <2>1, <1>2, <1>3 DEF MergeSccNode
<1>4. ASSUME NEW f \in fold, FoldField(f) PROVE FALSE
  <2> DEFINE r == rep[FIObjNode(f)]
  <2>1. /\ f \in Node /\ FIObjNode(f) \in Node /\ FIObjNode(f) # f
        /\ rep[f] \in Node /\ r \in Node /\ rep[rep[f]] = rep[f]
    <3>1. f \in Obj /\ FIObjNode(f) \in Obj /\ f[2] # 0
      BY <1>1, FIObjNodeType DEF TypeOK, FieldInv, Folds
    <3>2. QED
      BY <3>1, <1>1, ObjNode DEF TypeOK, MergeInv, RepIdempotent, FIObjNode
  <2>2. rep[f] = r
    <3>1. ASSUME rep[f] # r
          PROVE  MergeNodeToRep(rep[f], r, [n \in Node |-> Retarget(pts[n], f)])
      BY <1>4, <3>1 DEF FoldField
    <3> HIDE DEF r
    <3>2. QED
      BY <3>1, <2>1, <1>2
  <2>3. rep' = rep /\ redundant' = redundant \cup ({f} \ {r})
    BY <1>4, <2>2 DEF FoldField, repVars
  <2>4. QED
    BY <2>1, <2>2, <2>3 DEF NoMerge
<1>5. NoMerge
  <2> USE DEF ptVars, repVars, edgeVars, objVars, wave, collVars, workVars
  <2>1. CASE UNCHANGED <<rep, redundant>>
    BY <2>1 DEF NoMerge
  <2>2. CASE Finalize
    BY <2>2 DEF Finalize, NoMerge
  <2>3. CASE SCCDetect \/ EndMerge \/ EndWave \/ EndAgain \/ UpdateCallGraph \/ Reanalyze
             \/ ProcessNode
    BY <2>1, <2>3 DEF SCCDetect, EndMerge, EndWave, EndAgain, UpdateCallGraph, Reanalyze, ProcessNode
  <2>4. ASSUME NEW n, CollapsePWCNode(n) \/ PopAgain(n) \/ PostProcessNode(n) \/ AddCopyEdge(n)
                      \/ CollapseField(n)
        PROVE  NoMerge
    BY <2>1, <2>4 DEF CollapsePWCNode, PopAgain, PostProcessNode, AddCopyEdge, CollapseField
  <2>5. CASE UNCHANGED vars
    BY <2>1, <2>5 DEF vars
  <2>6. QED
    BY <1>3, <1>4, <2>2, <2>3, <2>4, <2>5 DEF Next, Step, Terminated
<1>6. QED
  BY <1>3, <1>4, <1>5

LEMMA StepLoads ==
  ASSUME SolverInv, FieldInv, LoadsKept, [Next]_vars PROVE LoadsKept'
<1> SUFFICES ASSUME NoMerge, NoMerge'
             PROVE  (load = prog.load /\ store = prog.store /\ LoadLinks /\ StoreLinks)'
  BY UnmergedBefore DEF LoadsKept
<1> USE DEF ptVars, repVars, edgeVars, objVars, wave, collVars, workVars
<1>1. /\ TypeOK /\ MergeInv /\ Phases /\ load = prog.load /\ store = prog.store
      /\ LoadLinks /\ StoreLinks
  BY DEF SolverInv, MergeInv, LoadsKept
<1>2. \A e \in load \cup store : e[1] \in Node /\ e[2] \in Node
  BY <1>1 DEF TypeOK, Pair
<1>3. \A n \in Node : rep[n] = n
  BY DEF NoMerge
\* A step is harmless when a node stays busy or keeps its targets, and no link is lost.
<1>4. ASSUME UNCHANGED <<prog, load, store>>,
             \A n \in Node : Busy(n) => Busy(n)',
             \A n \in Node : Deref(n)' = Deref(n) \/ Busy(n)',
             \A s, d : Linking(s, d) => Linking(s, d)'
      PROVE  (load = prog.load /\ store = prog.store /\ LoadLinks /\ StoreLinks)'
  <2>1. LoadLinks'
    BY <1>1, <1>2, <1>4 DEF LoadLinks
  <2>2. StoreLinks'
    BY <1>1, <1>2, <1>4 DEF StoreLinks
  <2>3. QED
    BY <2>1, <2>2, <1>1, <1>4
<1>5. CASE UNCHANGED <<prog, pts, rep, load, store, copy, pend, worklist, tmp>>
  BY <1>4, <1>5 DEF Busy, Deref, Linking
<1>6. CASE SCCDetect \/ EndMerge \/ EndWave \/ Reanalyze
  BY <1>5, <1>6 DEF SCCDetect, EndMerge, EndWave, Reanalyze
<1>7. ASSUME NEW n, CollapsePWCNode(n) \/ CollapseField(n)
      PROVE  (load = prog.load /\ store = prog.store /\ LoadLinks /\ StoreLinks)'
  BY <1>5, <1>7 DEF CollapsePWCNode, CollapseField
<1>8. CASE ProcessNode
  <2>1. /\ UNCHANGED <<prog, rep, load, store, copy, pend, tmp>>
        /\ worklist \subseteq worklist'
        /\ \A d \in Node : pts'[d] # pts[d] => d \in worklist'
    BY <1>8 DEF ProcessNode, HandleCopyGep, Grown
  <2>2. QED
    BY <2>1, <1>3, <1>4 DEF Busy, Deref, Linking
<1>9. ASSUME NEW n \in worklist, PopAgain(n)
      PROVE  (load = prog.load /\ store = prog.store /\ LoadLinks /\ StoreLinks)'
  <2>1. n \in Node /\ rep[n] = n
    BY <1>1, <1>3 DEF TypeOK
  <2>2. QED
    BY <2>1, <1>4, <1>9 DEF PopAgain, Busy, Deref, Linking
<1>10. CASE EndAgain
  <2>1. Reps(tmp) = tmp
    BY <1>1, <1>3 DEF Reps, TypeOK
  <2>2. QED
    BY <2>1, <1>4, <1>10 DEF EndAgain, Busy, Deref, Linking
<1>11. ASSUME NEW n \in worklist, PostProcessNode(n)
       PROVE  (load = prog.load /\ store = prog.store /\ LoadLinks /\ StoreLinks)'
  <2>1. /\ UNCHANGED <<prog, pts, rep, load, store, copy, tmp>>
        /\ worklist' = worklist \ {n} /\ pend = {} /\ n \in Node /\ rep[n] = n
        /\ pend' = {<<o, e[2]>> : o \in Deref(n), e \in {l \in load : l[1] = n}} \cup
                   {<<e[1], o>> : o \in Deref(n), e \in {s \in store : s[2] = n}}
    BY <1>1, <1>3, <1>11 DEF PostProcessNode, TypeOK
  <2>2. \A m \in Node : Deref(m)' = Deref(m)
    BY <2>1 DEF Deref
  <2>3. \A m \in Node : m # n => (Busy(m) => Busy(m)')
    BY <2>1 DEF Busy
  <2>4. \A s, d : Linking(s, d) => Linking(s, d)'
    BY <2>1 DEF Linking
  <2>5. ASSUME NEW e \in load, e[1] = n, NEW o \in Deref(n) PROVE Linking(o, e[2])'
    <3>1. <<o, e[2]>> \in pend'
      BY <2>1, <2>5
    <3>2. QED
      BY <3>1 DEF Linking
  <2>6. ASSUME NEW e \in store, e[2] = n, NEW o \in Deref(n) PROVE Linking(e[1], o)'
    <3>1. <<e[1], o>> \in pend'
      BY <2>1, <2>6
    <3>2. QED
      BY <3>1 DEF Linking
  <2>7. LoadLinks'
    BY <2>1, <2>2, <2>3, <2>4, <2>5, <1>1, <1>2 DEF LoadLinks
  <2>8. StoreLinks'
    BY <2>1, <2>2, <2>3, <2>4, <2>6, <1>1, <1>2 DEF StoreLinks
  <2>9. QED
    BY <2>1, <2>7, <2>8, <1>1
<1>12. ASSUME NEW e \in pend, AddCopyEdge(e)
       PROVE  (load = prog.load /\ store = prog.store /\ LoadLinks /\ StoreLinks)'
  <2>1. /\ UNCHANGED <<prog, pts, rep, load, store, tmp>> /\ pend' = pend \ {e}
        /\ worklist \subseteq worklist' /\ copy \subseteq copy'
        /\ rep[e[1]] = rep[e[2]] \/ <<rep[e[1]], rep[e[2]]>> \in copy'
    BY <1>12 DEF AddCopyEdge, CanAddCopy
  <2>2. e[1] \in Node /\ e[2] \in Node /\ e = <<e[1], e[2]>>
    BY <1>1 DEF TypeOK, Pair
  <2>3. \A s, d : Linking(s, d) => Linking(s, d)'
    BY <2>1, <2>2, <1>3 DEF Linking
  <2>4. QED
    BY <2>1, <2>3, <1>4 DEF Busy, Deref
<1>13. CASE UpdateCallGraph
  <2>1. pend = {} /\ UNCHANGED <<prog, pts, rep, load, store, copy, worklist, tmp>>
    BY <1>13 DEF UpdateCallGraph
  <2>2. QED
    BY <2>1, <1>4 DEF Busy, Deref, Linking
<1>14. CASE Finalize
  <2>1. /\ UNCHANGED <<prog, pts, load, store, copy, pend, worklist, tmp>>
        /\ \A n \in Node : rep'[n] = rep[n]
    BY <1>14, <1>3 DEF Finalize, NoMerge
  <2>2. QED
    BY <2>1, <1>4 DEF Busy, Deref, Linking
<1>15. CASE UNCHANGED vars
  BY <1>5, <1>15 DEF vars
<1>16. QED
  BY <1>6, <1>7, <1>8, <1>9, <1>10, <1>11, <1>12, <1>13, <1>14, <1>15, UnmergedBefore
     DEF Next, Step, Terminated

LEMMA LoadsSolvedAtEnd ==
  ASSUME SolverCore, LoadsKept, NoMerge, phase = "cg", ~reanalyze, pend = {}
  PROVE  /\ \A e \in prog.load : \A o \in Deref(e[1]) : Pts(o) \subseteq Pts(e[2])
         /\ \A e \in prog.store : \A o \in Deref(e[2]) : Pts(e[1]) \subseteq Pts(o)
<1>1. /\ TypeOK /\ Phases /\ PropagatedReached /\ FieldInv /\ prog \in Programs /\ prog \in ProgramType
      /\ load = prog.load /\ store = prog.store /\ LoadLinks /\ StoreLinks
      /\ EdgesKnown
  BY ProgramAssumption
     DEF SolverCore, CoreInv, SolverInv, MergeInv, PropagationInv, GraphInv, LoadsKept
<1>2. \A n \in Node : rep[n] = n
  BY DEF NoMerge
<1>3. \A n \in Node : ~Busy(n)
  BY <1>1 DEF Busy, Phases
<1>4. ASSUME NEW s \in Node, NEW d \in Node, NodeOf(s), Linking(s, d)
      PROVE  Pts(s) \subseteq Pts(d)
  <2>1. SUFFICES ASSUME s # d, NEW o \in pts[s] PROVE o \in pts[d]
    BY <1>2 DEF Pts
  <2>2. <<s, d>> \in copy /\ <<s, d>>[1] = s /\ <<s, d>>[2] = d
    BY <2>1, <1>4 DEF Linking
  <2>3. s \in GraphNode
    BY <1>2, <1>4 DEF GraphNode, NodeOf
  <2>4. o \in propa[s] /\ o \in Obj /\ (o[1] \in fi => o[2] = 0)
    BY <2>3, AllSent
  <2>5. o[1] \in fi => FIObjNode(o) = o
    BY <2>4 DEF Obj, FIObjNode
  <2>6. Holds(o, pts[d])
    BY <2>2, <2>4, <1>1 DEF PropagatedReached
  <2>7. QED
    BY <2>5, <2>6 DEF Holds
<1>5. ASSUME NEW n \in Node, NEW o \in Deref(n) PROVE NodeOf(o) /\ o \in Node
  <2>1. o \in pts[n] /\ o \in Obj
    BY <1>1, <1>2, <1>5 DEF Deref, TypeOK
  <2>2. QED
    BY <2>1, <1>1, TargetsKnown, ObjNode
<1>6. \A e \in prog.load \cup prog.store : /\ e[1] \in Node /\ e[2] \in Node
                                           /\ NodeOf(e[1]) /\ NodeOf(e[2])
  <2>1. \A e \in load \cup store : e[1] \in Node /\ e[2] \in Node
    BY <1>1 DEF TypeOK, Pair
  <2>2. QED
    BY <2>1, <1>1 DEF EdgesKnown
<1>7. ASSUME NEW e \in prog.load, NEW o \in Deref(e[1]) PROVE Pts(o) \subseteq Pts(e[2])
  <2>1. Linking(o, e[2])
    BY <1>1, <1>3, <1>6 DEF LoadLinks
  <2>2. QED
    BY <2>1, <1>4, <1>5, <1>6
<1>8. ASSUME NEW e \in prog.store, NEW o \in Deref(e[2]) PROVE Pts(e[1]) \subseteq Pts(o)
  <2>1. Linking(e[1], o)
    BY <1>1, <1>3, <1>6 DEF StoreLinks
  <2>2. QED
    BY <2>1, <1>4, <1>5, <1>6
<1>9. QED
  BY <1>7, <1>8

LEMMA StepUnmergedSolved ==
  SolverCore /\ LoadsKept /\ SolvedWithoutMerges /\ [Next]_vars => SolvedWithoutMerges'
<1> SUFFICES ASSUME SolverCore, LoadsKept, SolvedWithoutMerges, [Next]_vars, NoMerge', phase' = "done"
             PROVE  /\ \A e \in prog'.load : \A o \in Deref(e[1])' : Pts(o)' \subseteq Pts(e[2])'
                    /\ \A e \in prog'.store : \A o \in Deref(e[2])' : Pts(e[1])' \subseteq Pts(o)'
  BY DEF SolvedWithoutMerges, LoadsAndStoresSolved, NoMerge
<1>1. NoMerge
  BY UnmergedBefore DEF SolverCore, CoreInv
<1>2. (phase = "done" /\ UNCHANGED vars) \/ Finalize
  BY DoneBefore DEF SolverCore, CoreInv
<1>3. CASE phase = "done" /\ UNCHANGED vars
  BY <1>1, <1>3 DEF vars, ptVars, repVars, edgeVars, objVars, SolvedWithoutMerges,
                           LoadsAndStoresSolved, NoMerge, Deref, Pts
<1>4. CASE Finalize
  <2>1. /\ prog' = prog /\ pts' = pts /\ rep' = rep /\ phase = "cg" /\ ~reanalyze /\ pend = {}
    <3>1. TypeOK
      BY DEF SolverCore, CoreInv, SolverInv, MergeInv
    <3>2. rep' = [n \in Node |-> rep[n]]
      BY <1>1, <1>4 DEF Finalize, NoMerge
    <3>3. QED
      BY <3>1, <3>2, <1>4 DEF Finalize, ptVars, TypeOK
  <2>2. \A x : Pts(x)' = Pts(x) /\ Deref(x)' = Deref(x)
    BY <2>1 DEF Pts, Deref
  <2>3. QED
    BY <2>1, <2>2, <1>1, LoadsSolvedAtEnd
<1>5. QED
  BY <1>2, <1>3, <1>4

\* In a program whose analysis merges no two nodes, every load and every store is answered
\* for every target of its pointer.
THEOREM LoadsSolvedUnmerged == Spec => []SolvedWithoutMerges
<1>1. Init => LoadsKept /\ SolvedWithoutMerges
  <2>1. Init => phase # "done"
    BY DEF Init
  <2>2. QED
    BY <2>1, InitLoads DEF SolvedWithoutMerges, LoadsAndStoresSolved
<1>2. SolverCore /\ LoadsKept /\ [Next]_vars => LoadsKept'
  BY StepLoads DEF SolverCore, CoreInv
<1>3. QED
  BY <1>1, <1>2, InitSolverCore, StepSolverCore, StepUnmergedSolved, PTL DEF Spec

-----------------------------------------------------------------------------
(* Indirect calls.  The copies of a resolved call are pending, or in the   *)
(* graph between the representatives; and unless the budget is spent no    *)
(* call is missing once the call graph has been updated.                   *)

Carried(e) == rep[e[1]] = rep[e[2]] \/ <<rep[e[1]], rep[e[2]]>> \in copy

BindingsCarried ==
    \A x \in resolved :
        /\ Len(x[1].args) = Len(x[2].params)
        /\ \A e \in Binding(x[1], x[2]) : Carried(e) \/ e \in pend

CallsMade ==
    /\ Cardinality(resolved) <= IndCallLimit
    /\ phase \in {"cg", "done"} /\ Cardinality(resolved) < IndCallLimit => Callees = {}

CallsInv == BindingsCarried /\ CallsMade

LEMMA InitCalls == Init => CallsInv
<1> SUFFICES ASSUME Init PROVE CallsInv
  OBVIOUS
<1>1. resolved = {} /\ phase = "scc" /\ Cardinality({}) = 0
  BY FS_EmptySet DEF Init
<1>2. QED
  BY <1>1, LimitAssumption DEF CallsInv, BindingsCarried, CallsMade

LEMMA ResolvedPtr ==
  ASSUME TypeOK, prog \in Programs, BindingsCarried
  PROVE  \A x \in resolved : \A e \in Binding(x[1], x[2]) :
            e[1] \in Ptr /\ e[2] \in Ptr /\ NodeOf(e[1]) /\ NodeOf(e[2])
<1>1. \A x \in resolved : x[1] \in prog.calls /\ x[2] \in prog.funs
  BY DEF TypeOK
<1>2. QED
  BY <1>1, BindingPtr DEF BindingsCarried, NodeOf

\* A merge carries a copy along, or makes its ends one node.
LEMMA CopyMerged ==
  ASSUME TypeOK, MergeInv, phase # "done", NEW n \in Node, NEW r \in Node, n # r, rep[n] = n,
         rep[r] = r, NEW p, MergeNodeToRep(n, r, p), NEW a \in Node, NEW b \in Node,
         rep[a] = rep[b] \/ <<rep[a], rep[b]>> \in copy
  PROVE  rep'[a] = rep'[b] \/ <<rep'[a], rep'[b]>> \in copy'
<1>1. \A m \in Node : rep'[m] = Sub(rep[m], n, r) /\ rep[m] \in Node
  BY MergeReps DEF MergeInv, Sub, TypeOK
<1>2. copy' = MoveCopy(copy, n, r)
  BY DEF MergeNodeToRep
<1>3. <<rep[a], rep[b]>> \in copy => <<Sub(rep[a], n, r), Sub(rep[b], n, r)>> \in MovePairs(copy, n, r)
  BY DEF MovePairs
<1>4. QED
  BY <1>1, <1>2, <1>3 DEF MoveCopy

LEMMA StepBindings ==
  ASSUME SolverInv, FieldInv, GraphInv, BindingsCarried, [Next]_vars PROVE BindingsCarried'
<1>1. TypeOK /\ MergeInv /\ Phases /\ prog \in Programs
  BY DEF SolverInv, MergeInv, GraphInv
<1> USE DEF ptVars, repVars, edgeVars, objVars, wave, collVars, workVars
<1>2. ASSUME resolved' = resolved,
             \A a \in Ptr, b \in Ptr : Carried(<<a, b>>) => Carried(<<a, b>>)',
             \A a \in Ptr, b \in Ptr : <<a, b>> \in pend => <<a, b>> \in pend' \/ Carried(<<a, b>>)'
      PROVE  BindingsCarried'
  <2>1. ASSUME NEW x \in resolved, NEW e \in Binding(x[1], x[2]) PROVE Carried(e)' \/ e \in pend'
    <3>1. e[1] \in Ptr /\ e[2] \in Ptr /\ e = <<e[1], e[2]>>
      <4>1. x[1] \in prog.calls /\ x[2] \in prog.funs /\ Len(x[1].args) = Len(x[2].params)
        BY <1>1 DEF TypeOK, BindingsCarried
      <4>2. QED
        BY <4>1, <1>1, BindingPtr
    <3>2. PICK a \in Ptr, b \in Ptr : e = <<a, b>>
      BY <3>1
    <3>3. Carried(<<a, b>>) \/ <<a, b>> \in pend
      BY <3>2 DEF BindingsCarried
    <3>4. Carried(<<a, b>>)' \/ <<a, b>> \in pend'
      BY <3>3, <1>2
    <3>5. QED
      BY <3>2, <3>4
  <2>2. QED
    BY <2>1, <1>2 DEF BindingsCarried
<1>3. CASE resolved' = resolved /\ (\A x \in Ptr : rep'[x] = rep[x]) /\ copy \subseteq copy'
           /\ pend \subseteq pend'
  BY <1>2, <1>3 DEF Carried
<1>4. ASSUME NEW n \in Node, NEW r \in Node, n # r, rep[n] = n, rep[r] = r, phase # "done",
             NEW p, MergeNodeToRep(n, r, p), resolved' = resolved, pend' = pend
      PROVE  BindingsCarried'
  <2>1. ASSUME NEW a \in Ptr, NEW b \in Ptr, Carried(<<a, b>>) PROVE Carried(<<a, b>>)'
    <3>1. a \in Node /\ b \in Node
      BY DEF Node
    <3>2. rep[a] = rep[b] \/ <<rep[a], rep[b]>> \in copy
      BY <2>1 DEF Carried
    <3>3. rep'[a] = rep'[b] \/ <<rep'[a], rep'[b]>> \in copy'
      BY <3>1, <3>2, <1>1, <1>4, CopyMerged
    <3>4. QED
      BY <3>3 DEF Carried
  <2>2. QED
    BY <2>1, <1>2, <1>4
<1>5. ASSUME NEW e \in toMerge, MergeSccNode(e[1], e[2]) PROVE BindingsCarried'
  <2>1. /\ e[1] \in Node /\ e[2] \in Node /\ e[1] # e[2] /\ rep[e[1]] = e[1] /\ rep[e[2]] = e[2]
        /\ MergeNodeToRep(e[1], e[2], pts) /\ phase # "done"
        /\ resolved' = resolved /\ pend' = pend
    BY <1>1, <1>5 DEF MergeSccNode, TypeOK, Pair, MergeInv, PendingMerges, DetachedPair
  <2>2. QED
    BY <2>1, <1>4
<1>6. ASSUME NEW f \in fold, FoldField(f) PROVE BindingsCarried'
  <2> DEFINE n == rep[f]
             r == rep[FIObjNode(f)]
  <2>1. /\ n \in Node /\ r \in Node /\ rep[n] = n /\ rep[r] = r /\ phase # "done"
        /\ resolved' = resolved /\ pend' = pend
    <3>1. f \in Obj /\ FIObjNode(f) \in Obj
      BY <1>1, FIObjNodeType DEF TypeOK
    <3>2. QED
      BY <3>1, <1>1, <1>6, ObjNode DEF FoldField, TypeOK, MergeInv, RepIdempotent, VisitInWave
  <2>2. CASE n # r
    <3>1. PICK p : MergeNodeToRep(n, r, p)
      BY <1>6, <2>2 DEF FoldField
    <3> HIDE DEF n, r
    <3>2. QED
      BY <3>1, <2>1, <2>2, <1>4
  <2>3. CASE n = r
    BY <1>3, <1>6, <2>3 DEF FoldField
  <2>4. QED
    BY <2>2, <2>3
<1>7. CASE SCCDetect \/ EndMerge \/ EndWave \/ EndAgain \/ Reanalyze \/ ProcessNode
  BY <1>3, <1>7 DEF SCCDetect, EndMerge, EndWave, EndAgain, Reanalyze, ProcessNode
<1>8. ASSUME NEW n, CollapsePWCNode(n) \/ PopAgain(n) \/ PostProcessNode(n) \/ CollapseField(n)
      PROVE  BindingsCarried'
  BY <1>3, <1>8 DEF CollapsePWCNode, PopAgain, PostProcessNode, CollapseField
<1>9. ASSUME NEW e \in pend, AddCopyEdge(e) PROVE BindingsCarried'
  <2>1. /\ UNCHANGED <<rep, resolved>> /\ pend' = pend \ {e} /\ copy \subseteq copy'
        /\ rep[e[1]] = rep[e[2]] \/ <<rep[e[1]], rep[e[2]]>> \in copy'
    BY <1>9 DEF AddCopyEdge, CanAddCopy
  <2>2. \A a \in Ptr, b \in Ptr : e = <<a, b>> => Carried(<<a, b>>)'
    BY <2>1 DEF Carried
  <2>3. QED
    BY <2>1, <2>2, <1>2 DEF Carried
<1>10. CASE UpdateCallGraph
  <2>1. PICK new \in SUBSET Callees : /\ resolved' = resolved \cup new
                                      /\ pend' = UNION {Binding(x[1], x[2]) : x \in new}
    BY <1>10 DEF UpdateCallGraph
  <2>2. pend = {} /\ UNCHANGED <<rep, copy>>
    BY <1>10 DEF UpdateCallGraph
  <2>3. \A x \in new : Len(x[1].args) = Len(x[2].params)
    BY DEF Callees, Matches
  <2>4. \A x \in new : \A e \in Binding(x[1], x[2]) : e \in pend'
    BY <2>1
  <2>5. QED
    BY <2>1, <2>2, <2>3, <2>4 DEF BindingsCarried, Carried
<1>11. CASE Finalize
  BY <1>3, <1>11, FinalizeReps DEF Finalize
<1>12. CASE UNCHANGED vars
  BY <1>3, <1>12 DEF vars
<1>13. QED
  BY <1>5, <1>6, <1>7, <1>8, <1>9, <1>10, <1>11, <1>12 DEF Next, Step, Terminated

LEMMA CalleesFinite ==
  ASSUME TypeOK, prog \in Programs
  PROVE  IsFiniteSet(resolved) /\ IsFiniteSet(Callees)
<1>1. IsFiniteSet(prog.calls \X prog.funs)
  BY ProgramAssumption, FS_Product
<1>2. resolved \in SUBSET (prog.calls \X prog.funs) /\ Callees \in SUBSET (prog.calls \X prog.funs)
  BY DEF TypeOK, Callees
<1>3. QED
  BY <1>1, <1>2, FS_Subset

LEMMA UpdateCallGraphCalls ==
  ASSUME TypeOK, prog \in Programs, CallsMade, UpdateCallGraph PROVE CallsMade'
<1> DEFINE room == IndCallLimit - Cardinality(resolved)
<1>1. PICK new \in SUBSET Callees :
          /\ Cardinality(new) = IF Cardinality(Callees) <= room THEN Cardinality(Callees) ELSE room
          /\ resolved' = resolved \cup new
  BY DEF UpdateCallGraph
<1>2. UNCHANGED <<prog, pts, rep>>
  BY DEF UpdateCallGraph, ptVars, repVars
<1>3. /\ IsFiniteSet(resolved) /\ IsFiniteSet(Callees) /\ IsFiniteSet(new)
      /\ Cardinality(resolved) \in Nat /\ Cardinality(Callees) \in Nat /\ Cardinality(new) \in Nat
      /\ Cardinality(resolved) <= IndCallLimit
  BY CalleesFinite, FS_Subset, FS_CardinalityType DEF CallsMade
<1>4. Cardinality(resolved') = Cardinality(resolved) + Cardinality(new)
  <2>1. resolved \cap new = {} /\ Cardinality(resolved \cap new) = 0
    BY FS_EmptySet DEF Callees
  <2>2. /\ Cardinality(resolved \cup new)
               = Cardinality(resolved) + Cardinality(new) - Cardinality(resolved \cap new)
        /\ resolved' = resolved \cup new
    BY <1>1, <1>3, FS_Union
  <2>3. \A i, j \in Nat : i + j - 0 = i + j
    OBVIOUS
  <2>4. QED
    BY <1>3, <2>1, <2>2, <2>3
<1>5. Cardinality(resolved') <= IndCallLimit
  BY <1>1, <1>3, <1>4, LimitAssumption
<1>6. ASSUME Cardinality(resolved') < IndCallLimit PROVE Callees' = {}
  <2>1. Cardinality(new) = Cardinality(Callees)
    BY <1>1, <1>3, <1>4, <1>6, LimitAssumption
  <2>2. new = Callees
    BY <2>1, <1>3, FS_Subset
  <2>3. QED
    BY <2>2, <1>1, <1>2 DEF Callees, Matches
<1>7. QED
  BY <1>5, <1>6 DEF CallsMade

LEMMA StepCallsMade ==
  ASSUME SolverInv, FieldInv, GraphInv, CallsMade, [Next]_vars PROVE CallsMade'
<1>1. TypeOK /\ MergeInv /\ Phases /\ prog \in Programs /\ prog \in ProgramType
  BY ProgramAssumption DEF SolverInv, MergeInv, GraphInv
<1> USE DEF ptVars, repVars, edgeVars, objVars, wave, collVars, workVars
<1>2. CASE UNCHANGED <<prog, pts, resolved>> /\ (\A x \in Ptr : rep'[x] = rep[x])
           /\ (phase' \in {"cg", "done"} => phase \in {"cg", "done"})
  <2>1. \A c \in prog.calls : c.fp \in Ptr
    BY <1>1 DEF ProgramType
  <2>2. \A c \in prog.calls, f \in prog.funs : Matches(c, f)' = Matches(c, f)
    BY <2>1, <1>2 DEF Matches
  <2>3. Callees' = Callees
    BY <2>2, <1>2 DEF Callees
  <2>4. QED
    BY <2>3, <1>2 DEF CallsMade
<1>3. ASSUME resolved' = resolved, phase' \notin {"cg", "done"} PROVE CallsMade'
  BY <1>3 DEF CallsMade
<1>4. ASSUME NEW e \in toMerge, MergeSccNode(e[1], e[2]) PROVE CallsMade'
  BY <1>3, <1>4 DEF MergeSccNode
<1>5. ASSUME NEW f \in fold, FoldField(f) PROVE CallsMade'
  BY <1>1, <1>3, <1>5 DEF FoldField, MergeInv, VisitInWave
<1>6. CASE SCCDetect \/ EndMerge \/ EndWave \/ EndAgain \/ Reanalyze
  BY <1>3, <1>6 DEF SCCDetect, EndMerge, EndWave, EndAgain, Reanalyze
<1>7. CASE ProcessNode
  BY <1>1, <1>3, <1>7 DEF ProcessNode, MergeInv, VisitInWave
<1>8. ASSUME NEW n, CollapsePWCNode(n) \/ PopAgain(n) \/ PostProcessNode(n) \/ CollapseField(n)
      PROVE  CallsMade'
  BY <1>2, <1>8 DEF CollapsePWCNode, PopAgain, PostProcessNode, CollapseField
<1>9. ASSUME NEW e \in pend, AddCopyEdge(e) PROVE CallsMade'
  BY <1>2, <1>9 DEF AddCopyEdge
<1>10. CASE UpdateCallGraph
  BY <1>1, <1>10, UpdateCallGraphCalls
<1>11. CASE Finalize
  BY <1>2, <1>11, FinalizeReps DEF Finalize
<1>12. CASE UNCHANGED vars
  BY <1>2, <1>12 DEF vars
<1>13. QED
  BY <1>4, <1>5, <1>6, <1>7, <1>8, <1>9, <1>10, <1>11, <1>12 DEF Next, Step, Terminated

CallsAnswered == \A x \in resolved : \A e \in Binding(x[1], x[2]) : Pts(e[1]) \subseteq Pts(e[2])

LEMMA CallsAnsweredAtEnd ==
  ASSUME SolverCore, BindingsCarried, phase = "cg", ~reanalyze, pend = {} PROVE CallsAnswered
<1>1. TypeOK /\ prog \in Programs
  BY DEF SolverCore, CoreInv, SolverInv, MergeInv, GraphInv
<1>2. ASSUME NEW x \in resolved, NEW e \in Binding(x[1], x[2]) PROVE Pts(e[1]) \subseteq Pts(e[2])
  <2>1. e[1] \in Ptr /\ e[2] \in Ptr /\ NodeOf(e[1]) /\ Carried(e)
    BY <1>1, ResolvedPtr DEF BindingsCarried
  <2>2. QED
    BY <2>1, CopyAnswered DEF Carried
<1>3. QED
  BY <1>2 DEF CallsAnswered

CallsSolved == phase = "done" => CallsAnswered

LEMMA StepCallsSolved == SolverCore /\ BindingsCarried /\ CallsSolved /\ [Next]_vars => CallsSolved'
<1> SUFFICES ASSUME SolverCore, BindingsCarried, CallsSolved, [Next]_vars, phase' = "done"
             PROVE  CallsAnswered'
  BY DEF CallsSolved
<1>1. (phase = "done" /\ UNCHANGED vars) \/ Finalize
  BY DoneBefore DEF SolverCore, CoreInv
<1>2. CASE phase = "done" /\ UNCHANGED vars
  BY <1>2 DEF vars, ptVars, repVars, CallsSolved, CallsAnswered, Pts
<1>3. CASE Finalize
  <2>1. /\ prog' = prog /\ pts' = pts /\ resolved' = resolved /\ TypeOK /\ prog \in Programs
        /\ phase = "cg" /\ ~reanalyze /\ pend = {}
    BY <1>3 DEF Finalize, ptVars, SolverCore, CoreInv, SolverInv, MergeInv, GraphInv
  <2>2. \A x \in Ptr : Pts(x)' = Pts(x)
    BY <2>1, <1>3, FinalizeReps DEF Pts, SolverCore, CoreInv
  <2>3. CallsAnswered
    BY <2>1, CallsAnsweredAtEnd
  <2>4. QED
    BY <2>1, <2>2, <2>3, ResolvedPtr DEF CallsAnswered
<1>4. QED
  BY <1>1, <1>2, <1>3

\* Within the budget no function that the pointer of an indirect call may hold is missing
\* from the call graph, and the values passed to and returned by every callee reach it.
THEOREM CallsResolved == Spec => []IndirectCallsSolved
<1>1. Init => CallsInv /\ CallsSolved
  BY InitCalls DEF Init, CallsSolved
<1>2. SolverCore /\ CallsInv /\ [Next]_vars => CallsInv'
  BY StepBindings, StepCallsMade DEF SolverCore, CoreInv, CallsInv
<1>3. CallsInv /\ CallsSolved => IndirectCallsSolved
  BY DEF CallsInv, CallsMade, CallsSolved, CallsAnswered, IndirectCallsSolved, Callees, Matches, Pts
<1>4. QED
  BY <1>1, <1>2, <1>3, InitSolverCore, StepSolverCore, StepCallsSolved, PTL DEF Spec, CallsInv

-----------------------------------------------------------------------------
(* Precision.  F is any field-insensitive solution of the program: a set   *)
(* of pairs of a pointer or a site and a site, closed under the rules.     *)
(* Whatever was merged and collapsed, a node points into the sites F gives *)
(* it, and the edges say no more than F does.                              *)

Name(x) == IF x \in Ptr THEN x ELSE x[1]

SitesOf(F, u) == {m \in Base : <<u, m>> \in F}

Sites(F, x) == SitesOf(F, Name(x))

Solution(F) == Derive(prog, F) \subseteq F

TargetsWithin(F) == \A n \in Node : \A o \in pts[n] : o[1] \in Sites(F, n)

MergesWithin(F) ==
    /\ \A n \in Node : Sites(F, rep[n]) = Sites(F, n)
    /\ \A e \in toMerge : Sites(F, e[1]) = Sites(F, e[2])

Flows(F, s, d) == Sites(F, s) \subseteq Sites(F, d)

CopiesWithin(F) == \A e \in Direct \cup pend : Flows(F, e[1], e[2])

LoadWithin(F, s, d) == \A m \in Sites(F, s) \ NoDeref : SitesOf(F, m) \subseteq Sites(F, d)

StoreWithin(F, s, d) == \A m \in Sites(F, d) \ NoDeref : Sites(F, s) \subseteq SitesOf(F, m)

MemoryWithin(F) ==
    /\ \A e \in load : LoadWithin(F, e[1], e[2])
    /\ \A e \in store : StoreWithin(F, e[1], e[2])

Within(F) == TargetsWithin(F) /\ MergesWithin(F) /\ CopiesWithin(F) /\ MemoryWithin(F)

LEMMA NameOf ==
  ASSUME NEW F
  PROVE  /\ \A x \in Ptr : Sites(F, x) = SitesOf(F, x)
         /\ \A o \in Obj : Sites(F, o) = SitesOf(F, o[1])
BY NodeAssumption DEF Sites, Name

\* A solution follows the copies its program makes.
LEMMA CopyFollowed ==
  ASSUME NEW F, Solution(F), NEW e \in CopiesOf(prog, F)
  PROVE  SitesOf(F, e[1]) \subseteq SitesOf(F, e[2])
<1>1. SUFFICES ASSUME NEW m \in Base, <<e[1], m>> \in F PROVE <<e[2], m>> \in F
  BY DEF SitesOf
<1>2. <<e[2], m>> \in {<<e[2], x>> : x \in {y \in Base : <<e[1], y>> \in F}}
  BY <1>1
<1>3. <<e[2], m>> \in UNION {{<<g[2], x>> : x \in {y \in Base : <<g[1], y>> \in F}} : g \in CopiesOf(prog, F)}
  BY <1>2
<1>4. QED
  BY <1>3 DEF Solution, Derive

LEMMA LoadCopied ==
  ASSUME NEW F, NEW e \in prog.load, NEW m \in Base \ NoDeref, <<e[1], m>> \in F
  PROVE  <<m, e[2]>> \in CopiesOf(prog, F)
<1> DEFINE made == UNION {{<<x, g[2]>> : x \in {y \in Base \ NoDeref : <<g[1], y>> \in F}} : g \in prog.load}
<1>1. <<m, e[2]>> \in {<<x, e[2]>> : x \in {y \in Base \ NoDeref : <<e[1], y>> \in F}}
  OBVIOUS
<1>2. <<m, e[2]>> \in made
  BY <1>1
<1>3. made \subseteq CopiesOf(prog, F)
  BY DEF CopiesOf
<1> HIDE DEF made
<1>4. QED
  BY <1>2, <1>3

LEMMA StoreCopied ==
  ASSUME NEW F, NEW e \in prog.store, NEW m \in Base \ NoDeref, <<e[2], m>> \in F
  PROVE  <<e[1], m>> \in CopiesOf(prog, F)
<1> DEFINE made == UNION {{<<g[1], x>> : x \in {y \in Base \ NoDeref : <<g[2], y>> \in F}} : g \in prog.store}
<1>1. <<e[1], m>> \in {<<e[1], x>> : x \in {y \in Base \ NoDeref : <<e[2], y>> \in F}}
  OBVIOUS
<1>2. <<e[1], m>> \in made
  BY <1>1
<1>3. made \subseteq CopiesOf(prog, F)
  BY DEF CopiesOf
<1> HIDE DEF made
<1>4. QED
  BY <1>2, <1>3

LEMMA CallCopied ==
  ASSUME NEW F, NEW c \in prog.calls, NEW f \in prog.funs, Len(c.args) = Len(f.params),
         <<c.fp, f.obj>> \in F
  PROVE  Binding(c, f) \subseteq CopiesOf(prog, F)
<1>1. <<c, f>> \in {y \in prog.calls \X prog.funs : /\ <<y[1].fp, y[2].obj>> \in F
                                                    /\ Len(y[1].args) = Len(y[2].params)}
  OBVIOUS
<1>2. Binding(<<c, f>>[1], <<c, f>>[2]) = Binding(c, f)
  OBVIOUS
<1>3. QED
  BY <1>1, <1>2 DEF CopiesOf

LEMMA InitWithin == ASSUME NEW F, Init, Solution(F) PROVE Within(F)
<1>1. /\ prog \in Programs /\ prog \in ProgramType /\ rep = [n \in Node |-> n]
      /\ pts = [n \in Node |-> {<<e[1], 0>> : e \in {a \in prog.addr : a[2] = n}}]
      /\ copy = prog.copy /\ ngep = prog.ngep /\ vgep = prog.vgep
      /\ load = prog.load /\ store = prog.store /\ toMerge = {} /\ pend = {}
  BY ProgramAssumption DEF Init
<1>2. TargetsWithin(F)
  <2>1. ASSUME NEW n \in Node, NEW o \in pts[n] PROVE o[1] \in Sites(F, n)
    <3>1. PICK e \in prog.addr : e[2] = n /\ o = <<e[1], 0>>
      BY <1>1, <2>1
    <3>2. e[1] \in Base /\ e[2] \in Ptr /\ o[1] = e[1]
      BY <1>1, <3>1 DEF ProgramType
    <3>3. <<e[2], e[1]>> \in F
      BY DEF Solution, Derive
    <3>4. QED
      BY <3>1, <3>2, <3>3, NameOf DEF SitesOf
  <2>2. QED
    BY <2>1 DEF TargetsWithin
<1>3. MergesWithin(F)
  BY <1>1 DEF MergesWithin
<1>4. CopiesWithin(F)
  <2>1. ASSUME NEW e \in Direct \cup pend PROVE Flows(F, e[1], e[2])
    <3>1. e \in CopiesOf(prog, F)
      BY <1>1 DEF Direct, CopiesOf
    <3>2. e[1] \in Ptr /\ e[2] \in Ptr
      BY <1>1 DEF Direct, ProgramType, GepPairs
    <3>3. QED
      BY <3>1, <3>2, CopyFollowed, NameOf DEF Flows
  <2>2. QED
    BY <2>1 DEF CopiesWithin
<1>5. MemoryWithin(F)
  <2>1. ASSUME NEW e \in prog.load PROVE LoadWithin(F, e[1], e[2])
    <3>1. e[1] \in Ptr /\ e[2] \in Ptr
      BY <1>1 DEF ProgramType
    <3>2. ASSUME NEW m \in Sites(F, e[1]) \ NoDeref PROVE SitesOf(F, m) \subseteq Sites(F, e[2])
      <4>1. <<m, e[2]>> \in CopiesOf(prog, F)
        <5>1. m \in Base \ NoDeref /\ <<e[1], m>> \in F
          BY <3>1, <3>2, NameOf DEF SitesOf
        <5>2. QED
          BY <5>1, LoadCopied
      <4>2. SitesOf(F, <<m, e[2]>>[1]) \subseteq SitesOf(F, <<m, e[2]>>[2])
        BY <4>1, CopyFollowed
      <4>3. QED
        BY <4>2, <3>1, NameOf
    <3>3. QED
      BY <3>2 DEF LoadWithin
  <2>2. ASSUME NEW e \in prog.store PROVE StoreWithin(F, e[1], e[2])
    <3>1. e[1] \in Ptr /\ e[2] \in Ptr
      BY <1>1 DEF ProgramType
    <3>2. ASSUME NEW m \in Sites(F, e[2]) \ NoDeref PROVE Sites(F, e[1]) \subseteq SitesOf(F, m)
      <4>1. <<e[1], m>> \in CopiesOf(prog, F)
        <5>1. m \in Base \ NoDeref /\ <<e[2], m>> \in F
          BY <3>1, <3>2, NameOf DEF SitesOf
        <5>2. QED
          BY <5>1, StoreCopied
      <4>2. SitesOf(F, <<e[1], m>>[1]) \subseteq SitesOf(F, <<e[1], m>>[2])
        BY <4>1, CopyFollowed
      <4>3. QED
        BY <4>2, <3>1, NameOf
    <3>3. QED
      BY <3>2 DEF StoreWithin
  <2>3. QED
    BY <2>1, <2>2, <1>1 DEF MemoryWithin
<1>6. QED
  BY <1>2, <1>3, <1>4, <1>5 DEF Within

\* The nodes of a cycle have the same sites.
LEMMA CycleWithin ==
  ASSUME NEW F, NEW E, NEW N, \A e \in E : e[2] \in N /\ Flows(F, e[1], e[2]),
         NEW C \in Cycles(E, N), NEW u \in C, NEW v \in C
  PROVE  Flows(F, u, v)
<1> DEFINE S == {m \in N : Flows(F, u, m)}
<1>1. S \in Closed(E, N)
  BY DEF Closed, Flows
<1>2. PICK c \in N : C = {m \in N : \A T \in Closed(E, N) : c \in T <=> m \in T}
  BY DEF Cycles
<1>3. u \in N /\ v \in N /\ (u \in S <=> v \in S)
  BY <1>1, <1>2
<1>4. Flows(F, u, u)
  BY DEF Flows
<1>5. QED
  BY <1>3, <1>4

\* Merging nodes with the same sites.
LEMMA MergeWithin ==
  ASSUME TypeOK, MergeInv, NoLoops, phase # "done", NEW F, Within(F),
         NEW n \in Node, NEW r \in Node, n # r, rep[n] = n, rep[r] = r, Sites(F, n) = Sites(F, r),
         NEW p \in [Node -> SUBSET Obj], MergeNodeToRep(n, r, p),
         \A m \in Node : \A o \in p[m] : o[1] \in Sites(F, m),
         toMerge' \subseteq toMerge, pend' = pend
  PROVE  Within(F)'
<1>1. /\ TargetsWithin(F) /\ MergesWithin(F) /\ CopiesWithin(F) /\ MemoryWithin(F)
  BY DEF Within
<1>2. \A x : Sites(F, Sub(x, n, r)) = Sites(F, x)
  BY DEF Sub
<1>3. TargetsWithin(F)'
  <2>1. pts' = [p EXCEPT ![r] = p[r] \cup p[n]]
    BY DEF MergeNodeToRep
  <2>2. QED
    BY <2>1 DEF TargetsWithin
<1>4. MergesWithin(F)'
  <2>1. \A m \in Node : rep'[m] = Sub(rep[m], n, r)
    BY MergeReps DEF MergeInv, Sub
  <2>2. QED
    BY <2>1, <1>1, <1>2 DEF MergesWithin
<1>5. CopiesWithin(F)'
  <2>1. ASSUME NEW e \in Direct' PROVE Flows(F, e[1], e[2])
    <3>1. PICK g \in Direct : e = <<Sub(g[1], n, r), Sub(g[2], n, r)>>
      BY MergedPairs
    <3>2. Flows(F, g[1], g[2])
      BY <1>1 DEF CopiesWithin
    <3>3. QED
      BY <3>1, <3>2, <1>2 DEF Flows
  <2>2. QED
    BY <2>1, <1>1 DEF CopiesWithin
<1>6. MemoryWithin(F)'
  <2>1. ASSUME NEW e \in load' PROVE LoadWithin(F, e[1], e[2])
    <3>1. PICK g \in load : e = <<Sub(g[1], n, r), Sub(g[2], n, r)>>
      BY MergedPairs
    <3>2. QED
      BY <3>1, <1>1, <1>2 DEF MemoryWithin, LoadWithin
  <2>2. ASSUME NEW e \in store' PROVE StoreWithin(F, e[1], e[2])
    <3>1. PICK g \in store : e = <<Sub(g[1], n, r), Sub(g[2], n, r)>>
      BY MergedPairs
    <3>2. QED
      BY <3>1, <1>1, <1>2 DEF MemoryWithin, StoreWithin
  <2>3. QED
    BY <2>1, <2>2 DEF MemoryWithin
<1>7. QED
  BY <1>3, <1>4, <1>5, <1>6 DEF Within

\* What a node sends goes along an edge, and names sites it points to.
LEMMA SentAlong ==
  ASSUME TypeOK, HandleCopyGep(cur), cur \in Node, NEW d \in Node, NEW o \in Sent(cur, d)
  PROVE  <<cur, d>> \in Direct /\ \E q \in pts[cur] : o[1] = q[1]
<1>1. <<cur, d>> \in copy \/ <<cur, d>> \in vgep \/ \E e \in ngep : e[1] = cur /\ e[2] = d
  <2>1. Fields(cur, {e \in ngep : e[1] = cur /\ e[2] = d}) # {}
            => \E e \in ngep : e[1] = cur /\ e[2] = d
    BY DEF Fields
  <2>2. QED
    BY <2>1 DEF Sent
<1>2. <<cur, d>> \in Direct
  BY <1>1 DEF Direct, GepPairs
<1>3. QED
  BY <1>2, SentPts

LEMMA SCCDetectWithin ==
  ASSUME SolverInv, GraphInv, NEW F, Within(F), SCCDetect PROVE Within(F)'
<1>1. /\ TypeOK /\ MergeInv /\ TargetsWithin(F) /\ MergesWithin(F) /\ CopiesWithin(F)
      /\ MemoryWithin(F)
  BY DEF SolverInv, MergeInv, Within
<1>2. UNCHANGED <<prog, pts, rep, copy, vgep, ngep, load, store, pend>>
  BY DEF SCCDetect, ptVars, repVars, edgeVars
<1>3. ASSUME NEW e \in toMerge' PROVE Sites(F, e[1]) = Sites(F, e[2])
  <2>1. PICK C \in Cycles(SCCEdges, GraphNode) : e[1] \in C /\ e[2] \in C
    BY SCCDetectGoes
  <2>2. ASSUME NEW g \in SCCEdges PROVE g[2] \in GraphNode /\ Flows(F, g[1], g[2])
    <3>1. g \in Direct
      BY SCCEdgesDirect
    <3>2. rep[g[2]] = g[2] /\ NodeOf(g[2])
      BY <3>1, <1>1 DEF MergeInv, EdgesDetached, DetachedPair, Direct, GraphInv, EdgesKnown, SCCDetect
    <3>3. QED
      BY <3>1, <3>2, <1>1 DEF GraphNode, NodeOf, CopiesWithin
  <2>3. Flows(F, e[1], e[2]) /\ Flows(F, e[2], e[1])
    BY <2>1, <2>2, CycleWithin
  <2>4. QED
    BY <2>3 DEF Flows
<1>4. QED
  BY <1>1, <1>2, <1>3 DEF Within, TargetsWithin, MergesWithin, CopiesWithin, MemoryWithin, Direct

LEMMA FoldFieldWithin ==
  ASSUME SolverInv, FieldInv, GraphInv, NEW F, Within(F), NEW f \in fold, FoldField(f)
  PROVE  Within(F)'
<1> DEFINE n == rep[f]
           r == rep[FIObjNode(f)]
           p == [m \in Node |-> Retarget(pts[m], f)]
<1>1. /\ TypeOK /\ MergeInv /\ NoLoops /\ TargetsWithin(F) /\ MergesWithin(F)
      /\ CopiesWithin(F) /\ MemoryWithin(F)
  BY DEF SolverInv, MergeInv, GraphInv, Within
<1>2. /\ f \in Obj /\ FIObjNode(f) \in Obj /\ FIObjNode(f)[1] = f[1]
      /\ n \in Node /\ r \in Node /\ rep[n] = n /\ rep[r] = r /\ phase # "done"
      /\ UNCHANGED <<prog, toMerge, pend>>
  <2>1. f \in Obj /\ FIObjNode(f) \in Obj
    BY <1>1, FIObjNodeType DEF TypeOK
  <2>2. QED
    BY <2>1, <1>1, ObjNode DEF FIObjNode, TypeOK, MergeInv, RepIdempotent, VisitInWave, FoldField, wave
<1>3. Sites(F, n) = Sites(F, r)
  BY <1>1, <1>2, NameOf, ObjNode DEF MergesWithin
<1>4. p \in [Node -> SUBSET Obj]
  BY <1>1, <1>2, RetargetType
<1>5. \A m \in Node : \A o \in p[m] : o[1] \in Sites(F, m)
  BY <1>1, <1>2 DEF TargetsWithin, Retarget
<1>6. CASE n # r
  <2>1. MergeNodeToRep(n, r, p)
    BY <1>6 DEF FoldField
  <2> HIDE DEF n, r, p
  <2>2. QED
    BY <2>1, <1>1, <1>2, <1>3, <1>4, <1>5, <1>6, MergeWithin
<1>7. CASE n = r
  <2>1. pts' = p /\ UNCHANGED <<rep, copy, vgep, ngep, load, store>>
    BY <1>7 DEF FoldField, repVars, edgeVars
  <2> HIDE DEF n, r, p
  <2>2. QED
    BY <2>1, <1>1, <1>2, <1>5 DEF Within, TargetsWithin, MergesWithin, CopiesWithin, MemoryWithin, Direct
<1>8. QED
  BY <1>6, <1>7

LEMMA StepWithin ==
  ASSUME SolverInv, FieldInv, GraphInv, NEW F, Within(F), Solution(F), [Next]_vars
  PROVE  Within(F)'
<1>1. /\ TypeOK /\ MergeInv /\ NoLoops /\ TargetsWithin(F) /\ MergesWithin(F)
      /\ CopiesWithin(F) /\ MemoryWithin(F) /\ prog \in Programs /\ prog \in ProgramType
  BY ProgramAssumption DEF SolverInv, MergeInv, GraphInv, Within
<1> USE DEF ptVars, repVars, edgeVars, objVars, wave, collVars, workVars
\* A step that merges nothing and adds only copies that F makes.
<1>2. ASSUME UNCHANGED <<pts, rep, ngep, vgep, load, store>>, toMerge' \subseteq toMerge,
             \A e \in copy' \cup pend' : e \in copy \cup pend \/ Flows(F, e[1], e[2])
      PROVE  Within(F)'
  <2>1. CopiesWithin(F)'
    BY <1>1, <1>2 DEF CopiesWithin, Direct
  <2>2. QED
    BY <2>1, <1>1, <1>2 DEF Within, TargetsWithin, MergesWithin, MemoryWithin
<1>3. CASE SCCDetect
  BY <1>3, SCCDetectWithin
<1>4. ASSUME NEW e \in toMerge, MergeSccNode(e[1], e[2]) PROVE Within(F)'
  <2>1. /\ e[1] \in Node /\ e[2] \in Node /\ e[1] # e[2] /\ rep[e[1]] = e[1] /\ rep[e[2]] = e[2]
        /\ MergeNodeToRep(e[1], e[2], pts) /\ phase # "done" /\ pts \in [Node -> SUBSET Obj]
        /\ pend' = pend /\ toMerge' \subseteq toMerge
    BY <1>1, <1>4 DEF MergeSccNode, TypeOK, Pair, MergeInv, PendingMerges, DetachedPair
  <2>2. Sites(F, e[1]) = Sites(F, e[2]) /\ \A m \in Node : \A o \in pts[m] : o[1] \in Sites(F, m)
    BY <1>1 DEF MergesWithin, TargetsWithin
  <2>3. QED
    BY <2>1, <2>2, <1>1, MergeWithin
<1>5. CASE EndMerge \/ EndWave \/ EndAgain \/ Reanalyze
  BY <1>2, <1>5 DEF EndMerge, EndWave, EndAgain, Reanalyze
<1>6. ASSUME NEW n, CollapsePWCNode(n) \/ CollapseField(n) \/ PopAgain(n) PROVE Within(F)'
  BY <1>2, <1>6 DEF CollapsePWCNode, CollapseField, PopAgain
<1>7. CASE ProcessNode
  <2>1. CASE rep[cur] # cur
    BY <1>2, <1>7, <2>1 DEF ProcessNode
  <2>2. CASE rep[cur] = cur
    <3>1. HandleCopyGep(cur) /\ cur \in Node
      BY <1>1, <1>7, <2>2 DEF ProcessNode, TypeOK
    <3>2. ASSUME NEW d \in Node, NEW o \in pts'[d] PROVE o[1] \in Sites(F, d)
      <4>1. o \in pts[d] \/ o \in Sent(cur, d)
        BY <3>1, <3>2, <1>1, SentPts
      <4>2. CASE o \in Sent(cur, d)
        <5>1. PICK q \in pts[cur] : o[1] = q[1]
          BY <3>1, <4>2, <1>1, SentAlong
        <5>2. <<cur, d>> \in Direct /\ <<cur, d>>[1] = cur /\ <<cur, d>>[2] = d
          BY <3>1, <4>2, <1>1, SentAlong
        <5>3. Flows(F, cur, d)
          BY <5>2, <1>1 DEF CopiesWithin
        <5>4. QED
          BY <5>1, <5>3, <3>1, <1>1 DEF TargetsWithin, Flows
      <4>3. QED
        BY <4>1, <4>2, <1>1 DEF TargetsWithin
    <3>3. UNCHANGED <<rep, copy, ngep, vgep, load, store, toMerge, pend>>
      BY <1>7 DEF ProcessNode
    <3>4. QED
      BY <3>2, <3>3, <1>1 DEF Within, TargetsWithin, MergesWithin, CopiesWithin, MemoryWithin, Direct
  <2>3. QED
    BY <2>1, <2>2
<1>8. CASE \E f \in fold : FoldField(f)
  BY <1>8, FoldFieldWithin
<1>9. ASSUME NEW n \in worklist, PostProcessNode(n) PROVE Within(F)'
  <2>1. n \in Node /\ rep[n] \in Node
    BY <1>1 DEF TypeOK
  <2>2. ASSUME NEW o \in Deref(n)
        PROVE  /\ o[1] \in Sites(F, rep[n]) \ NoDeref
               /\ Sites(F, o) = SitesOf(F, o[1])
    <3>1. o \in pts[rep[n]] /\ o[1] \notin NoDeref /\ o \in Obj
      BY <2>1, <2>2, <1>1 DEF Deref, TypeOK
    <3>2. QED
      BY <2>1, <3>1, <1>1, NameOf DEF TargetsWithin
  <2>3. ASSUME NEW e \in pend' PROVE Flows(F, e[1], e[2])
    <3>1. CASE \E o \in Deref(n), l \in load : l[1] = rep[n] /\ e = <<o, l[2]>>
      <4>1. PICK o \in Deref(n), l \in load : l[1] = rep[n] /\ e = <<o, l[2]>>
        BY <3>1
      <4>2. LoadWithin(F, rep[n], l[2])
        BY <4>1, <1>1 DEF MemoryWithin
      <4>3. Flows(F, o, l[2])
        BY <4>2, <2>2 DEF LoadWithin, Flows
      <4>4. QED
        BY <4>1, <4>3
    <3>2. CASE \E o \in Deref(n), s \in store : s[2] = rep[n] /\ e = <<s[1], o>>
      <4>1. PICK o \in Deref(n), s \in store : s[2] = rep[n] /\ e = <<s[1], o>>
        BY <3>2
      <4>2. StoreWithin(F, s[1], rep[n])
        BY <4>1, <1>1 DEF MemoryWithin
      <4>3. Flows(F, s[1], o)
        BY <4>2, <2>2 DEF StoreWithin, Flows
      <4>4. QED
        BY <4>1, <4>3
    <3>3. QED
      BY <3>1, <3>2, <1>9 DEF PostProcessNode
  <2>4. QED
    BY <2>3, <1>2, <1>9 DEF PostProcessNode
<1>10. ASSUME NEW e \in pend, AddCopyEdge(e) PROVE Within(F)'
  <2>1. Flows(F, e[1], e[2]) /\ e[1] \in Node /\ e[2] \in Node
    BY <1>1 DEF CopiesWithin, TypeOK, Pair
  <2>2. Flows(F, rep[e[1]], rep[e[2]])
    BY <2>1, <1>1 DEF Flows, MergesWithin
  <2>3. copy' \subseteq copy \cup {<<rep[e[1]], rep[e[2]]>>} /\ pend' \subseteq pend
    BY <1>10 DEF AddCopyEdge
  <2>4. \A g \in copy' \cup pend' : g \in copy \cup pend \/ Flows(F, g[1], g[2])
    BY <2>2, <2>3
  <2>5. QED
    BY <2>4, <1>2, <1>10 DEF AddCopyEdge
<1>11. CASE UpdateCallGraph
  <2>1. PICK new \in SUBSET Callees : pend' = UNION {Binding(x[1], x[2]) : x \in new}
    BY <1>11 DEF UpdateCallGraph
  <2>2. ASSUME NEW e \in pend' PROVE Flows(F, e[1], e[2])
    <3>1. PICK x \in new : e \in Binding(x[1], x[2])
      BY <2>1
    <3>2. /\ x[1] \in prog.calls /\ x[2] \in prog.funs /\ Len(x[1].args) = Len(x[2].params)
          /\ \E o \in pts[rep[x[1].fp]] : o[1] = x[2].obj
      BY DEF Callees, Matches
    <3>3. x[1].fp \in Ptr /\ x[1].fp \in Node /\ rep[x[1].fp] \in Node
      BY <3>2, <1>1 DEF ProgramType, Node, TypeOK
    <3>4. <<x[1].fp, x[2].obj>> \in F
      BY <3>2, <3>3, <1>1, NameOf DEF TargetsWithin, MergesWithin, SitesOf
    <3>5. e \in CopiesOf(prog, F)
      BY <3>1, <3>2, <3>4, CallCopied
    <3>6. e[1] \in Ptr /\ e[2] \in Ptr
      BY <3>1, <3>2, <1>1, BindingPtr
    <3>7. QED
      BY <3>5, <3>6, CopyFollowed, NameOf DEF Flows
  <2>3. QED
    BY <2>2, <1>2, <1>11 DEF UpdateCallGraph
<1>12. CASE Finalize
  <2>1. /\ \A n \in Node : rep'[n] = n \/ rep'[n] = rep[n]
        /\ UNCHANGED <<pts, copy, ngep, vgep, load, store, toMerge, pend>>
    BY <1>12 DEF Finalize
  <2>2. QED
    BY <2>1, <1>1 DEF Within, TargetsWithin, MergesWithin, CopiesWithin, MemoryWithin, Direct
<1>13. CASE UNCHANGED vars
  BY <1>2, <1>13 DEF vars
<1>14. QED
  BY <1>3, <1>4, <1>5, <1>6, <1>7, <1>8, <1>9, <1>10, <1>11, <1>12, <1>13
     DEF Next, Step, Terminated

\* What the solver knows is part of F, up to the fields.
WithinSolution(F) ==
    Solution(F) => /\ \A x \in Ptr : \A o \in Pts(x) : <<x, o[1]>> \in F
                   /\ \A f \in Obj : \A o \in Pts(f) : <<f[1], o[1]>> \in F

LEMMA WithinGives == ASSUME TypeOK, NEW F, Within(F) PROVE WithinSolution(F)
<1>1. TargetsWithin(F) /\ MergesWithin(F) /\ Ptr \cup Obj \subseteq Node
  BY DEF Within, Node
<1>2. ASSUME NEW x \in Node, NEW o \in Pts(x) PROVE <<Name(x), o[1]>> \in F
  <2>1. rep[x] \in Node /\ o \in pts[rep[x]]
    BY <1>2 DEF TypeOK, Pts
  <2>2. o[1] \in Sites(F, x)
    BY <2>1, <1>1, <1>2 DEF TargetsWithin, MergesWithin
  <2>3. QED
    BY <2>2 DEF Sites, SitesOf
<1>3. QED
  BY <1>1, <1>2, NodeAssumption DEF WithinSolution, Name

\* No matter what is merged and collapsed, and at every point of the solving, a pointer
\* has no target, and a field of a site none, whose site F does not give it, if F is a
\* field-insensitive solution of the program.
THEOREM NoCoarserThanAnySolution == ASSUME NEW F PROVE Spec => []WithinSolution(F)
<1> DEFINE Inv == CoreInv /\ (Solution(F) => Within(F))
<1>1. Init => Inv
  BY InitCore, InitWithin
<1>2. Inv /\ [Next]_vars => Inv'
  <2>1. SUFFICES ASSUME Inv, [Next]_vars, Solution(F)' PROVE Within(F)'
    BY StepCore
  <2>2. Solution(F)
    BY <2>1, ProgramKept DEF Solution
  <2>3. QED
    BY <2>1, <2>2, StepWithin DEF CoreInv
<1>3. Inv => WithinSolution(F)
  <2>1. CoreInv => TypeOK
    BY DEF CoreInv, SolverInv, MergeInv
  <2>2. QED
    BY <2>1, WithinGives DEF WithinSolution
<1>4. QED
  BY <1>1, <1>2, <1>3, PTL DEF Spec

\* The pointers and sites of program p, and the sites whose address it takes.
Heads(p) == {Name(n) : n \in p.nodes}

Taken(p) == {e[1] : e \in p.addr}

LEMMA HeadsFinite ==
  ASSUME NEW p \in Programs
  PROVE  /\ Taken(p) \subseteq Heads(p) /\ Taken(p) \subseteq Base
         /\ IsFiniteSet(Heads(p) \X Taken(p))
         /\ Cardinality(p.nodes) * Cardinality(Taken(p)) \in Nat
         /\ Cardinality(Heads(p) \X Taken(p)) <= Cardinality(p.nodes) * Cardinality(Taken(p))
<1>1. p \in ProgramType /\ IsFiniteSet(p.nodes) /\ \A e \in p.addr : <<e[1], 0>> \in p.nodes
  BY ProgramAssumption
<1>2. ASSUME NEW x \in Taken(p) PROVE x \in Base /\ x \in Heads(p)
  <2>1. PICK e \in p.addr : x = e[1]
    BY DEF Taken
  <2>2. x \in Base /\ <<x, 0>> \in p.nodes
    BY <1>1, <2>1 DEF ProgramType
  <2>3. <<x, 0>> \in Obj
    BY <2>2, MaxFieldAssumption DEF Obj
  <2>4. Name(<<x, 0>>) = x
    BY <2>3, NodeAssumption DEF Name
  <2>5. QED
    BY <2>2, <2>4 DEF Heads
<1> DEFINE f == [n \in p.nodes |-> Name(n)]
<1>3. f \in Surjection(p.nodes, Heads(p))
  BY DEF Surjection, Heads
<1>4. IsFiniteSet(Heads(p)) /\ Cardinality(Heads(p)) <= Cardinality(p.nodes)
  BY <1>1, <1>3, FS_Surjection
<1>5. IsFiniteSet(Taken(p))
  BY <1>2, <1>4, FS_Subset
<1>6. /\ Cardinality(Heads(p)) \in Nat /\ Cardinality(Taken(p)) \in Nat
      /\ Cardinality(p.nodes) \in Nat
  BY <1>1, <1>4, <1>5, FS_CardinalityType
<1>7. /\ IsFiniteSet(Heads(p) \X Taken(p))
      /\ Cardinality(Heads(p) \X Taken(p)) = Cardinality(Heads(p)) * Cardinality(Taken(p))
  BY <1>4, <1>5, FS_Product
<1>8. \A a, b, c \in Nat : a <= b => a * c \in Nat /\ b * c \in Nat /\ a * c <= b * c
  OBVIOUS
<1>9. QED
  BY <1>2, <1>4, <1>6, <1>7, <1>8

\* The copies of a program end in its pointers and sites.
LEMMA CopiesEnd ==
  ASSUME NEW p \in Programs, NEW X \in SUBSET (Heads(p) \X Taken(p)), NEW e \in CopiesOf(p, X)
  PROVE  e[2] \in Heads(p)
<1>1. p \in ProgramType
  BY ProgramAssumption
<1>2. ASSUME NEW x \in Ptr, x \in p.nodes PROVE x \in Heads(p)
  <2>1. Name(x) = x
    BY DEF Name
  <2>2. QED
    BY <1>2, <2>1 DEF Heads
<1>3. CASE e \in p.copy \cup p.vgep \cup GepPairs(p.ngep)
  <2>1. e[2] \in p.nodes
    BY <1>3, ProgramAssumption
  <2>2. e[2] \in Ptr
    BY <1>1, <1>3 DEF ProgramType, GepPairs
  <2>3. QED
    BY <1>2, <2>1, <2>2
<1>4. ASSUME NEW l \in p.load, NEW x, e = <<x, l[2]>> PROVE e[2] \in Heads(p)
  <2>1. l[2] \in p.nodes
    BY ProgramAssumption
  <2>2. l[2] \in Ptr
    BY <1>1 DEF ProgramType
  <2>3. QED
    BY <1>2, <1>4, <2>1, <2>2
<1>5. ASSUME NEW s \in p.store, NEW x \in Base, <<s[2], x>> \in X, e = <<s[1], x>>
      PROVE  e[2] \in Heads(p)
  BY <1>5, HeadsFinite
<1>6. ASSUME NEW c \in p.calls, NEW f \in p.funs, Len(c.args) = Len(f.params), e \in Binding(c, f)
      PROVE  e[2] \in Heads(p)
  <2>1. /\ c.args \in Seq(Ptr) /\ f.params \in Seq(Ptr) /\ c.ret \subseteq Ptr
        /\ DOMAIN c.args = DOMAIN f.params
    BY <1>1, <1>6 DEF ProgramType
  <2>2. e[2] \in c.ret \/ e[2] \in Elements(f.params)
    BY <1>6, <2>1 DEF Binding, Elements
  <2>3. Elements(f.params) \subseteq Ptr
    BY <2>1 DEF Elements
  <2>4. Elements(f.params) \subseteq p.nodes /\ c.ret \subseteq p.nodes
    BY ProgramAssumption
  <2>5. QED
    BY <1>2, <2>1, <2>2, <2>3, <2>4
<1>7. \/ e \in p.copy \cup p.vgep \cup GepPairs(p.ngep)
      \/ \E l \in p.load : \E x : e = <<x, l[2]>>
      \/ \E s \in p.store : \E x \in Base : <<s[2], x>> \in X /\ e = <<s[1], x>>
      \/ \E y \in p.calls \X p.funs : Len(y[1].args) = Len(y[2].params) /\ e \in Binding(y[1], y[2])
  <2> DEFINE Loaded(l) == {<<x, l[2]>> : x \in {m \in Base \ NoDeref : <<l[1], m>> \in X}}
             Stored(s) == {<<s[1], x>> : x \in {m \in Base \ NoDeref : <<s[2], m>> \in X}}
             Calls == {y \in p.calls \X p.funs : /\ <<y[1].fp, y[2].obj>> \in X
                                                 /\ Len(y[1].args) = Len(y[2].params)}
  <2>1. \/ e \in p.copy \cup p.vgep \cup GepPairs(p.ngep)
        \/ e \in UNION {Loaded(l) : l \in p.load}
        \/ e \in UNION {Stored(s) : s \in p.store}
        \/ e \in UNION {Binding(x[1], x[2]) : x \in Calls}
    BY DEF CopiesOf
  <2>2. \A l \in p.load : \A g \in Loaded(l) : \E x : g = <<x, l[2]>>
    OBVIOUS
  <2>3. \A s \in p.store : \A g \in Stored(s) :
           \E x \in Base : <<s[2], x>> \in X /\ g = <<s[1], x>>
    OBVIOUS
  <2>4. \A y \in Calls : y \in p.calls \X p.funs /\ Len(y[1].args) = Len(y[2].params)
    OBVIOUS
  <2> HIDE DEF Loaded, Stored, Calls
  <2>5. (\E l \in p.load : e \in Loaded(l)) => \E l \in p.load : \E x : e = <<x, l[2]>>
    BY <2>2
  <2>6. (\E s \in p.store : e \in Stored(s))
           => \E s \in p.store : \E x \in Base : <<s[2], x>> \in X /\ e = <<s[1], x>>
    BY <2>3
  <2>7. (\E y \in Calls : e \in Binding(y[1], y[2]))
           => \E y \in p.calls \X p.funs :
                 Len(y[1].args) = Len(y[2].params) /\ e \in Binding(y[1], y[2])
    BY <2>4
  <2>8. \/ e \in p.copy \cup p.vgep \cup GepPairs(p.ngep)
        \/ \E l \in p.load : e \in Loaded(l)
        \/ \E s \in p.store : e \in Stored(s)
        \/ \E y \in Calls : e \in Binding(y[1], y[2])
    BY <2>1
  <2>9. QED
    BY <2>5, <2>6, <2>7, <2>8
<1>8. QED
  BY <1>3, <1>4, <1>5, <1>6, <1>7

\* The rules stay among them.
LEMMA DeriveStays ==
  ASSUME NEW p \in Programs, NEW X \in SUBSET (Heads(p) \X Taken(p))
  PROVE  Derive(p, X) \in SUBSET (Heads(p) \X Taken(p)) /\ X \subseteq Derive(p, X)
<1>1. ASSUME NEW e \in p.addr PROVE <<e[2], e[1]>> \in Heads(p) \X Taken(p)
  <2>1. e[2] \in Ptr /\ e[2] \in p.nodes
    BY ProgramAssumption DEF ProgramType
  <2>2. Name(e[2]) = e[2]
    BY <2>1 DEF Name
  <2>3. QED
    BY <2>1, <2>2 DEF Heads, Taken
<1>2. ASSUME NEW e \in CopiesOf(p, X), NEW x \in Base, <<e[1], x>> \in X
      PROVE  <<e[2], x>> \in Heads(p) \X Taken(p)
  BY <1>2, CopiesEnd
<1>3. ASSUME NEW g \in Derive(p, X) PROVE g \in Heads(p) \X Taken(p)
  <2> DEFINE Copied(e) == {<<e[2], x>> : x \in {m \in Base : <<e[1], m>> \in X}}
  <2>1. \/ g \in X
        \/ g \in {<<e[2], e[1]>> : e \in p.addr}
        \/ g \in UNION {Copied(e) : e \in CopiesOf(p, X)}
    BY <1>3 DEF Derive
  <2>2. \A e \in CopiesOf(p, X) : \A h \in Copied(e) :
           \E x \in Base : <<e[1], x>> \in X /\ h = <<e[2], x>>
    OBVIOUS
  <2> HIDE DEF Copied
  <2>3. CASE g \in UNION {Copied(e) : e \in CopiesOf(p, X)}
    <3>1. PICK e \in CopiesOf(p, X) : g \in Copied(e)
      BY <2>3
    <3>2. PICK x \in Base : <<e[1], x>> \in X /\ g = <<e[2], x>>
      BY <2>2, <3>1
    <3>3. QED
      BY <1>2, <3>2
  <2>4. QED
    BY <1>1, <2>1, <2>3
<1>4. X \subseteq Derive(p, X)
  BY DEF Derive
<1>5. QED
  BY <1>3, <1>4

\* The least solution is one: as many steps as there are pairs are enough.
LEMMA LeastIsSolution ==
  ASSUME NEW p \in Programs PROVE Derive(p, LeastSolution(p)) = LeastSolution(p)
<1> DEFINE bound == Cardinality(p.nodes) * Cardinality({e[1] : e \in p.addr})
           U == Heads(p) \X Taken(p)
           F == [X \in SUBSET U |-> Derive(p, X)]
           step[i \in 0 .. bound] == IF i = 0 THEN {} ELSE Derive(p, step[i-1])
<1>1. bound \in Nat /\ IsFiniteSet(U) /\ Cardinality(U) <= bound
  BY HeadsFinite DEF Taken
<1>2. \A X \in SUBSET U : Derive(p, X) \in SUBSET U /\ X \subseteq Derive(p, X)
  BY DeriveStays
<1>3. LeastSolution(p) = step[bound]
  BY DEF LeastSolution
<1> HIDE DEF bound, U
<1>4. /\ F \in [SUBSET U -> SUBSET U] /\ \A X \in SUBSET U : F[X] = Derive(p, X)
      /\ {} \in SUBSET U
  BY <1>2
<1> HIDE DEF F
<1>5. PICK r \in [0 .. bound -> SUBSET U] : Iterates(r, {}, F, bound)
  BY <1>1, <1>4, Iteration
<1>6. r = [i \in 0 .. bound |-> IF i = 0 THEN {} ELSE Derive(p, r[i - 1])]
  <2>1. ASSUME NEW i \in 0 .. bound, i # 0 PROVE r[i] = Derive(p, r[i - 1])
    <3>1. i - 1 \in 0 .. bound /\ i \in 1 .. bound
      BY <1>1, <2>1
    <3>2. QED
      BY <1>4, <1>5, <3>1 DEF Iterates
  <2>2. QED
    BY <1>5, <2>1 DEF Iterates
<1>7. step = [i \in 0 .. bound |-> IF i = 0 THEN {} ELSE Derive(p, step[i - 1])]
  BY <1>6 DEF step
<1> HIDE DEF step
<1>8. step[0] = {} /\ \A i \in 1 .. bound : step[i] = Derive(p, step[i - 1])
  <2>1. \A i \in 0 .. bound : step[i] = IF i = 0 THEN {} ELSE Derive(p, step[i - 1])
    BY <1>7
  <2>2. QED
    BY <1>1, <2>1
<1>9. \A i \in 0 .. bound : step[i] \in SUBSET U
  <2> DEFINE P == SUBSET U
  <2>1. step[0] \in P /\ \A i \in 1 .. bound : step[i - 1] \in P => step[i] \in P
    BY <1>2, <1>4, <1>8
  <2> HIDE DEF P
  <2>2. \A i \in 0 .. bound : step[i] \in P
    BY <1>1, <2>1, StaysIn
  <2>3. QED
    BY <2>2 DEF P
<1>10. Climbs(step, {}, F, bound, U)
  <2>1. ASSUME NEW i \in 1 .. bound PROVE step[i] = F[step[i - 1]]
    <3>1. i - 1 \in 0 .. bound
      BY <1>1
    <3>2. QED
      BY <1>4, <1>8, <1>9, <3>1
  <2>2. \A X \in SUBSET U : X \subseteq F[X]
    BY <1>2, <1>4
  <2>3. QED
    BY <2>1, <2>2, <1>4, <1>8 DEF Climbs, Iterates
<1>11. step[bound] \in SUBSET U /\ F[step[bound]] = step[bound]
  BY <1>1, <1>10, Stable
<1>12. QED
  BY <1>3, <1>4, <1>11

\* Merging cycles and collapsing fields never makes the result worse than
\* field-insensitive analysis does: the sites it gives a pointer, and the fields of a
\* site, are those of the least solution.
THEOREM SitesOfLeastSolution == Spec => []NoCoarserThanFieldInsensitive
<1> DEFINE Least == Solution(LeastSolution(prog)) /\ Within(LeastSolution(prog))
           Inv == CoreInv /\ Least
<1>1. ASSUME Init PROVE Inv
  <2>1. Solution(LeastSolution(prog))
    BY <1>1, LeastIsSolution DEF Init, Solution
  <2>2. QED
    BY <1>1, <2>1, InitCore, InitWithin
<1>2. ASSUME Inv, [Next]_vars PROVE Inv'
  <2>1. PICK F : F = LeastSolution(prog)
    OBVIOUS
  <2>2. prog' = prog /\ F = LeastSolution(prog')
    BY <1>2, <2>1, ProgramKept
  <2>3. Solution(F) /\ Within(F) /\ SolverInv /\ FieldInv /\ GraphInv
    BY <1>2, <2>1 DEF CoreInv
  <2>4. Within(F)' /\ Solution(F)'
    <3>1. Within(F)'
      BY <1>2, <2>3, StepWithin
    <3>2. Solution(F)'
      BY <2>2, <2>3 DEF Solution
    <3>3. QED
      BY <3>1, <3>2
  <2>5. CoreInv'
    BY <1>2, StepCore
  <2>6. QED
    BY <2>2, <2>4, <2>5
<1>3. ASSUME Inv PROVE NoCoarserThanFieldInsensitive
  <2>1. TypeOK
    BY <1>3 DEF CoreInv, SolverInv, MergeInv
  <2>2. WithinSolution(LeastSolution(prog))
    BY <1>3, <2>1, WithinGives
  <2>3. QED
    BY <1>3, <2>2 DEF WithinSolution, NoCoarserThanFieldInsensitive
<1>4. QED
  BY <1>1, <1>2, <1>3, PTL DEF Spec
=============================================================================
