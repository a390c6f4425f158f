--------------------------- MODULE SrcSnk_proofs ----------------------------
(***************************************************************************)
(* Each source is judged as the paths of its own value say, for every      *)
(* value-flow graph, every limit on call strings and every order of the    *)
(* worklist and of the sources.  What is visited or solved is always part  *)
(* of what the reference finds for the source at hand, and what no longer  *)
(* waits is closed; so when a worklist is empty the two are the same.      *)
(***************************************************************************)
EXTENDS SrcSnkReference, Iteration_proofs, SequenceTheorems
-----------------------------------------------------------------------------
(* Call strings stay within their limit.                                   *)

\* The call strings the traversal works with.
Cxt == {c \in Seq(CallSite) : Len(c) <= CxtLimit}

\* Pushing and popping keep call strings within the limit.
LEMMA ContextsType ==
    ASSUME NEW c \in Cxt, NEW e \in Edge
    PROVE  Contexts(e, c) \subseteq Cxt
<1>1. CxtLimit \in Nat
  BY CxtLimitAssumption
<1>2. c \in Seq(CallSite) /\ Len(c) \in Nat /\ Len(c) <= CxtLimit
  BY DEF Cxt
<1>3. ASSUME e.kind = "call" PROVE PushContext(c, e.cs) \in Cxt
  <2>1. e.cs \in CallSite
    BY <1>3 DEF Edge
  <2>2. CASE Len(c) < CxtLimit
    BY <1>1, <1>2, <2>1, <2>2 DEF PushContext, Cxt
  <2>3. CASE ~(Len(c) < CxtLimit) /\ c # <<>>
    <3>1. Tail(c) \in Seq(CallSite) /\ Len(Tail(c)) = Len(c) - 1
      BY <1>2, <2>3
    <3>2. Append(Tail(c), e.cs) \in Seq(CallSite) /\ Len(Append(Tail(c), e.cs)) = Len(c)
      BY <1>2, <2>1, <3>1
    <3> QED
      BY <1>2, <2>3, <3>2 DEF PushContext, Cxt
  <2>4. CASE ~(Len(c) < CxtLimit) /\ c = <<>>
    BY <2>4 DEF PushContext
  <2> QED
    BY <2>2, <2>3, <2>4
<1>4. PopContext(c) \in Cxt
  <2>1. Len(c) - 1 \in Int /\ \A i \in 1 .. Len(c) - 1 : c[i] \in CallSite
    BY <1>2
  <2>2. /\ SubSeq(c, 1, Len(c) - 1) \in Seq(CallSite)
        /\ Len(SubSeq(c, 1, Len(c) - 1)) = IF 1 <= Len(c) - 1 THEN Len(c) - 1 - 1 + 1 ELSE 0
    BY <2>1, SubSeqProperties
  <2> QED
    BY <1>1, <1>2, <2>2 DEF PopContext, Cxt
<1> QED
  BY <1>3, <1>4 DEF Contexts

LEMMA NextItemsType ==
    ASSUME NEW E \in SUBSET Edge, NEW x \in SVFGNode \X Cxt
    PROVE  NextItems(E, x) \subseteq SVFGNode \X Cxt
<1>1. x[1] \in SVFGNode /\ x[2] \in Cxt
  OBVIOUS
<1>2. ASSUME NEW e \in OutEdges(E, x[1])
      PROVE  {e.dst} \X Contexts(e, x[2]) \subseteq SVFGNode \X Cxt
  <2>1. e \in Edge
    BY DEF OutEdges
  <2>2. e.dst \in SVFGNode
    BY <2>1 DEF Edge
  <2>3. Contexts(e, x[2]) \subseteq Cxt
    BY <1>1, <2>1, ContextsType
  <2> QED
    BY <2>2, <2>3
<1> QED
  BY <1>2 DEF NextItems

LEMMA LimitInItems ==
    /\ SVFGNode \X Cxt \subseteq Item
    /\ \A x \in SVFGNode \X Cxt : Len(x[2]) <= CxtLimit
    /\ \A n \in SVFGNode : <<n, <<>>>> \in SVFGNode \X Cxt
<1>1. <<>> \in Cxt
  BY CxtLimitAssumption DEF Cxt
<1> QED
  BY <1>1 DEF Item, Cxt
-----------------------------------------------------------------------------
(* What the recursions of the reference compute.                           *)

\* Closed under steps along edges.
Leads(E, S) == \A e \in E : e.src \in S => e.dst \in S

\* Along(E, n) is the least set of nodes that holds n and is not left.
LEMMA AlongLeast ==
    ASSUME NEW E \in SUBSET Edge, NEW n \in SVFGNode
    PROVE  /\ n \in Along(E, n) /\ Along(E, n) \subseteq SVFGNode /\ Leads(E, Along(E, n))
           /\ \A S \in SUBSET SVFGNode : n \in S /\ Leads(E, S) => Along(E, n) \subseteq S
<1> DEFINE U == SUBSET SVFGNode
           F == [X \in U |-> Onward(E, X)]
           reached[i \in 0 .. PathBound] == IF i = 0 THEN {n} ELSE Onward(E, reached[i - 1])
<1>1. F \in [U -> U]
  <2>1. ASSUME NEW X \in U PROVE Onward(E, X) \in U
    BY DEF Onward, Edge
  <2> QED
    BY <2>1
<1>2. {n} \in U
  OBVIOUS
<1>3. PathBound \in Nat
  BY PathBoundAssumption
<1>4. \A X \in U : F[X] = Onward(E, X)
  OBVIOUS
<1> HIDE DEF F, U
<1>5. PICK r \in [0 .. PathBound -> U] : Iterates(r, {n}, F, PathBound)
  BY <1>1, <1>2, <1>3, Iteration
<1>6. r = [i \in 0 .. PathBound |-> IF i = 0 THEN {n} ELSE Onward(E, r[i - 1])]
  <2>1. ASSUME NEW i \in 0 .. PathBound, i # 0 PROVE r[i] = Onward(E, r[i - 1])
    <3>1. i - 1 \in 0 .. PathBound /\ i \in 1 .. PathBound
      BY <1>3, <2>1
    <3> QED
      BY <1>4, <1>5, <3>1 DEF Iterates
  <2> QED
    BY <1>5, <2>1 DEF Iterates
<1>7. reached = [i \in 0 .. PathBound |-> IF i = 0 THEN {n} ELSE Onward(E, reached[i - 1])]
  BY <1>6 DEF reached
<1>8. Along(E, n) = reached[PathBound]
  BY DEF Along
<1> HIDE DEF reached
<1>9. reached[0] = {n} /\ \A i \in 1 .. PathBound : reached[i] = Onward(E, reached[i - 1])
  <2>1. \A i \in 0 .. PathBound : reached[i] = IF i = 0 THEN {n} ELSE Onward(E, reached[i - 1])
    BY <1>7
  <2> QED
    BY <1>3, <2>1
<1>10. \A X \in SUBSET SVFGNode : X \subseteq Onward(E, X)
  BY DEF Onward
<1>11. ASSUME NEW T \in SUBSET SVFGNode, n \in T, Leads(E, T)
       PROVE  \A i \in 0 .. PathBound : n \in reached[i] /\ reached[i] \subseteq T
  <2> DEFINE P == {X \in SUBSET SVFGNode : n \in X /\ X \subseteq T}
  <2>1. reached[0] \in P
    BY <1>9, <1>11
  <2>2. ASSUME NEW i \in 1 .. PathBound, reached[i - 1] \in P PROVE reached[i] \in P
    BY <1>9, <1>11, <2>2 DEF Onward, Leads
  <2> HIDE DEF P
  <2>3. \A i \in 0 .. PathBound : reached[i] \in P
    BY <1>3, <2>1, <2>2, StaysIn
  <2> QED
    BY <2>3 DEF P
<1>12. Leads(E, SVFGNode)
  BY DEF Leads, Edge
<1>13. PathBound \in 0 .. PathBound
  BY <1>3
<1>14. \A i \in 0 .. PathBound : reached[i] \in U
  BY <1>11, <1>12 DEF U
<1>15. F[reached[PathBound]] = reached[PathBound]
  <2>1. IsFiniteSet(SVFGNode) /\ Cardinality(SVFGNode) <= PathBound
    BY PathBoundAssumption
  <2>2. F \in [SUBSET SVFGNode -> SUBSET SVFGNode] /\ \A X \in SUBSET SVFGNode : X \subseteq F[X]
    BY <1>1, <1>4, <1>10 DEF U
  <2>3. {n} \in SUBSET SVFGNode
    OBVIOUS
  <2>4. ASSUME NEW i \in 1 .. PathBound PROVE reached[i] = F[reached[i - 1]]
    <3>1. i - 1 \in 0 .. PathBound
      BY <1>3
    <3> QED
      BY <1>4, <1>9, <1>14, <3>1
  <2>5. Climbs(reached, {n}, F, PathBound, SVFGNode)
    BY <1>9, <2>2, <2>3, <2>4 DEF Climbs, Iterates
  <2> QED
    BY <1>3, <2>1, <2>5, Stable
<1>16. Onward(E, Along(E, n)) = Along(E, n)
  BY <1>4, <1>8, <1>13, <1>14, <1>15
<1>17. Leads(E, Along(E, n))
  BY <1>16 DEF Leads, Onward
<1>18. \A S \in SUBSET SVFGNode : n \in S /\ Leads(E, S) => Along(E, n) \subseteq S
  BY <1>8, <1>11, <1>13
<1>19. n \in Along(E, n) /\ Along(E, n) \subseteq SVFGNode
  BY <1>8, <1>11, <1>12, <1>13
<1> QED
  BY <1>17, <1>18, <1>19

\* The limited items.
Limited == SVFGNode \X Cxt

\* Closed under the steps of items.
Moves(E, T) == \A x \in T : NextItems(E, x) \subseteq T

\* What the value of a source flows to is the least set of items that holds
\* the source and is not left.
LEMMA FlowsLeast ==
    ASSUME NEW in \in Inputs, NEW n \in SVFGNode
    PROVE  /\ <<n, <<>>>> \in FlowsTo(in, n) /\ FlowsTo(in, n) \subseteq Limited
           /\ Moves(in.edges, FlowsTo(in, n))
           /\ \A T \in SUBSET Limited :
                 <<n, <<>>>> \in T /\ Moves(in.edges, T) => FlowsTo(in, n) \subseteq T
<1> DEFINE E == in.edges
           A == {<<n, <<>>>>}
           U == SUBSET Limited
           F == [X \in U |-> ItemsOnward(E, X)]
           reached[i \in 0 .. PathBound] == IF i = 0 THEN A ELSE ItemsOnward(E, reached[i - 1])
<1>0. E \in SUBSET Edge
  BY InputsAssumption DEF InputOK
<1>1. FlowsTo(in, n) = reached[PathBound]
  BY DEF FlowsTo
<1>2. Moves(E, FlowsTo(in, n))
  BY PathBoundAssumption DEF Moves
<1>3. A \in U
  BY LimitInItems DEF Limited
<1> HIDE DEF E
<1>4. \A x \in Limited : NextItems(E, x) \subseteq Limited
  BY <1>0, NextItemsType DEF Limited
<1>5. F \in [U -> U]
  <2>1. ASSUME NEW X \in U PROVE ItemsOnward(E, X) \in U
    BY <1>4 DEF ItemsOnward
  <2> QED
    BY <2>1
<1>6. PathBound \in Nat
  BY PathBoundAssumption
<1>7. \A X \in U : F[X] = ItemsOnward(E, X)
  OBVIOUS
<1>8. <<n, <<>>>> \in A /\ \A T : <<n, <<>>>> \in T => A \subseteq T
  OBVIOUS
<1> HIDE DEF F, U, A
<1>9. PICK r \in [0 .. PathBound -> U] : Iterates(r, A, F, PathBound)
  BY <1>3, <1>5, <1>6, Iteration
<1>10. r = [i \in 0 .. PathBound |-> IF i = 0 THEN A ELSE ItemsOnward(E, r[i - 1])]
  <2>1. ASSUME NEW i \in 0 .. PathBound, i # 0 PROVE r[i] = ItemsOnward(E, r[i - 1])
    <3>1. i - 1 \in 0 .. PathBound /\ i \in 1 .. PathBound
      BY <1>6, <2>1
    <3> QED
      BY <1>7, <1>9, <3>1 DEF Iterates
  <2> QED
    BY <1>9, <2>1 DEF Iterates
<1>11. reached = [i \in 0 .. PathBound |-> IF i = 0 THEN A ELSE ItemsOnward(E, reached[i - 1])]
  BY <1>10 DEF reached
<1> HIDE DEF reached
<1>12. reached[0] = A /\ \A i \in 1 .. PathBound : reached[i] = ItemsOnward(E, reached[i - 1])
  <2>1. \A i \in 0 .. PathBound : reached[i] = IF i = 0 THEN A ELSE ItemsOnward(E, reached[i - 1])
    BY <1>11
  <2> QED
    BY <1>6, <2>1
<1>13. ASSUME NEW T \in SUBSET Limited, <<n, <<>>>> \in T, Moves(E, T)
       PROVE  <<n, <<>>>> \in reached[PathBound] /\ reached[PathBound] \subseteq T
  <2> DEFINE P == {X \in SUBSET Limited : A \subseteq X /\ X \subseteq T}
  <2>1. reached[0] \in P
    BY <1>3, <1>8, <1>12, <1>13 DEF U
  <2>2. ASSUME NEW i \in 1 .. PathBound, reached[i - 1] \in P PROVE reached[i] \in P
    <3>1. reached[i] = ItemsOnward(E, reached[i - 1])
      BY <1>12
    <3> QED
      BY <1>13, <2>2, <3>1 DEF ItemsOnward, Moves
  <2> HIDE DEF P
  <2>3. \A i \in 0 .. PathBound : reached[i] \in P
    BY <1>6, <2>1, <2>2, StaysIn
  <2>4. PathBound \in 0 .. PathBound
    BY <1>6
  <2> QED
    BY <1>8, <2>3, <2>4 DEF P
<1>14. <<n, <<>>>> \in Limited /\ Moves(E, Limited)
  BY <1>4, LimitInItems DEF Limited, Moves
<1>15. FlowsTo(in, n) = reached[PathBound]
  BY <1>1 DEF E
<1>16. <<n, <<>>>> \in FlowsTo(in, n) /\ FlowsTo(in, n) \subseteq Limited
  BY <1>13, <1>14, <1>15
<1>17. \A T \in SUBSET Limited : <<n, <<>>>> \in T /\ Moves(E, T) => FlowsTo(in, n) \subseteq T
  BY <1>13, <1>15
<1> QED
  BY <1>2, <1>16, <1>17 DEF E
-----------------------------------------------------------------------------
(* Types.                                                                  *)

Slicing == phase \in {"forward", "backward", "guards", "report"}

\* The type of a slice with sinks among S.
SliceOK(sl, S) ==
    /\ sl \in [root : SVFGNode \cup {NoNode}, forwardslice : SUBSET SVFGNode,
               backwardslice : SUBSET sl.forwardslice, sinks : SUBSET S,
               partialReachable : BOOLEAN, fullReachable : BOOLEAN, reachGlob : BOOLEAN,
               vfCond : {sl.vfCond}]
    /\ DOMAIN sl.vfCond \subseteq SVFGNode /\ sl.vfCond \in [DOMAIN sl.vfCond -> Cond]

Typed ==
    /\ svfg \in Inputs /\ sources \subseteq SVFGNode
    /\ phase \in {"init", "next", "forward", "backward", "guards", "report", "done"}
    /\ SliceOK(slice, svfg.sinks)
    /\ worklist \subseteq Limited /\ forwardVisited \subseteq Limited
    /\ backwardVisited \subseteq SVFGNode /\ sinksLeft \subseteq svfg.sinks
    /\ Slicing => slice.root \in SVFGNode

LEMMA LimitedItems ==
    /\ Limited \subseteq Item /\ \A x \in Limited : Len(x[2]) <= CxtLimit /\ x[1] \in SVFGNode
    /\ \A n \in SVFGNode : <<n, <<>>>> \in Limited
BY LimitInItems DEF Limited

LEMMA TypedTypes == Typed => TypeOK
<1>1. SliceOK(slice, svfg.sinks) =>
        /\ slice \in [root : SVFGNode \cup {NoNode}, forwardslice : SUBSET SVFGNode,
                      backwardslice : SUBSET slice.forwardslice, sinks : SUBSET svfg.sinks,
                      partialReachable : BOOLEAN, fullReachable : BOOLEAN, reachGlob : BOOLEAN,
                      vfCond : {slice.vfCond}]
        /\ DOMAIN slice.vfCond \subseteq SVFGNode /\ slice.vfCond \in [DOMAIN slice.vfCond -> Cond]
  BY DEF SliceOK
<1> QED
  BY <1>1, LimitedItems DEF Typed, TypeOK

LEMMA GraphOK ==
    ASSUME svfg \in Inputs
    PROVE  /\ svfg.edges \subseteq Edge /\ svfg.vfCond \in [svfg.edges -> Cond]
           /\ svfg.sinks \subseteq SVFGNode /\ svfg.retNode \in [CallSite -> SVFGNode]
BY InputsAssumption DEF InputOK

LEMMA NewSliceOK ==
    ASSUME NEW src \in SVFGNode \cup {NoNode}, NEW S
    PROVE  SliceOK(NewSlice(src), S)
<1>1. [n \in {} |-> FalseCond] \in [{} -> Cond]
  OBVIOUS
<1> QED
  BY <1>1 DEF NewSlice, SliceOK

LEMMA TypedInit == Init => Typed
BY NewSliceOK DEF Init, Typed, Slicing

LEMMA TypedNext == Typed /\ [Next]_vars => Typed'
<1> SUFFICES ASSUME Typed, [Next]_vars PROVE Typed'
  OBVIOUS
<1> USE DEF Typed, Slicing
<1>a. /\ svfg.edges \subseteq Edge /\ svfg.vfCond \in [svfg.edges -> Cond]
      /\ svfg.sinks \subseteq SVFGNode /\ svfg.retNode \in [CallSite -> SVFGNode]
  BY GraphOK
<1>b. \A n \in SVFGNode : <<n, <<>>>> \in Limited
  BY LimitedItems
<1>c. \A x \in Limited : x[1] \in SVFGNode
  BY LimitedItems
<1>1. CASE InitSrcs
  <2>1. sources' \subseteq SVFGNode
    BY <1>1, <1>a DEF InitSrcs, SourceSites
  <2> QED
    BY <1>1, <2>1 DEF InitSrcs
<1>2. ASSUME NEW src \in sources, SetCurSlice(src) PROVE Typed'
  BY <1>2, <1>b, NewSliceOK DEF SetCurSlice, Cleared, NewSlice
<1>3. ASSUME NEW x \in worklist, ForwardTraverse(x) PROVE Typed'
  <2>1. NextItems(svfg.edges, x) \subseteq Limited
    BY <1>a, NextItemsType DEF Limited
  <2>2. PICK reached \in SUBSET Limited :
            forwardVisited' = forwardVisited \cup reached /\ worklist' = (worklist \ {x}) \cup reached
    BY <1>3, <2>1 DEF ForwardTraverse
  <2>3. SliceOK(slice', svfg.sinks)
    <3>1. x[1] \in SVFGNode
      BY <1>c
    <3>2. slice' = [slice EXCEPT !.forwardslice = @ \cup {x[1]},
                                 !.sinks = @ \cup ({x[1]} \cap svfg.sinks),
                                 !.partialReachable = @ \/ x[1] \in svfg.sinks,
                                 !.reachGlob = @ \/ (TouchesGlobal(x) /\ OutEdges(svfg.edges, x[1]) # {})]
      BY <1>3 DEF ForwardTraverse
    <3> QED
      BY <3>1, <3>2 DEF SliceOK
  <2> QED
    BY <1>3, <2>2, <2>3 DEF ForwardTraverse
<1>4. CASE ForwardEnd
  BY <1>4 DEF ForwardEnd, SliceOK
<1>5. ASSUME NEW s \in sinksLeft, PushSink(s) PROVE Typed'
  BY <1>5, <1>a, <1>b DEF PushSink
<1>6. ASSUME NEW x \in worklist, BackwardTraverse(x) PROVE Typed'
  <2>1. {e.src : e \in InEdges(svfg.edges, x[1])} \subseteq SVFGNode
    BY <1>a DEF InEdges, Edge
  <2>2. SliceOK(slice', svfg.sinks)
    <3>1. slice' = [slice EXCEPT !.backwardslice = @ \cup BackwardSliceOf(x[1])]
      BY <1>6 DEF BackwardTraverse
    <3> QED
      BY <3>1 DEF SliceOK, BackwardSliceOf
  <2> QED
    BY <1>6, <1>b, <2>1, <2>2 DEF BackwardTraverse
<1>7. CASE StartGuards
  <2>1. SliceOK(slice', svfg.sinks) /\ slice'.root = slice.root
    BY <1>7 DEF StartGuards, SliceOK, Cond, TrueCond
  <2> QED
    BY <1>7, <1>b, <2>1 DEF StartGuards
<1>8. ASSUME NEW x \in worklist, SolveGuards(x[1]) PROVE Typed'
  <2> DEFINE n == x[1]
             succs == {e.dst : e \in OutEdges(svfg.edges, n)} \cap slice.backwardslice
             cond == [m \in succs |-> getVFCond(slice, m) \cup StepCond(n, m)]
             changed == {m \in succs : Changed(m, cond[m])}
             vfCond == [m \in DOMAIN slice.vfCond \cup succs |->
                           IF m \in changed THEN cond[m] ELSE slice.vfCond[m]]
  <2>1. /\ slice' = [slice EXCEPT !.vfCond = vfCond] /\ svfg' = svfg /\ phase' = phase
        /\ worklist' = (worklist \ {<<n, <<>>>>}) \cup {<<m, <<>>>> : m \in changed}
        /\ UNCHANGED <<sources, forwardVisited, backwardVisited, sinksLeft>>
    BY <1>8 DEF SolveGuards
  <2>2. succs \subseteq SVFGNode /\ changed \subseteq succs
    BY DEF SliceOK
  <2>3. \A m \in succs : m \notin changed => m \in DOMAIN slice.vfCond
    BY DEF Changed
  <2>4. \A m : getVFCond(slice, m) \in Cond
    BY DEF getVFCond, SliceOK, Cond, FalseCond
  <2>5. \A m \in succs : cond[m] \in Cond
    BY <2>4 DEF StepCond, Cond
  <2> HIDE DEF cond, changed, succs
  <2>6. DOMAIN vfCond \subseteq SVFGNode /\ vfCond \in [DOMAIN vfCond -> Cond]
    BY <2>2, <2>3, <2>5 DEF SliceOK
  <2> HIDE DEF vfCond
  <2>7. SliceOK(slice', svfg.sinks) /\ slice'.root = slice.root
    BY <2>1, <2>6 DEF SliceOK
  <2>8. worklist' \subseteq Limited
    BY <1>b, <2>1, <2>2
  <2> QED
    BY <2>1, <2>7, <2>8
<1>9. CASE EndGuards
  <2>1. SliceOK(slice', svfg.sinks) /\ slice'.root = slice.root
    BY <1>9 DEF EndGuards, SliceOK, SatisfiableForAll
  <2> QED
    BY <1>9, <2>1 DEF EndGuards
<1>10. CASE ReportBug
  BY <1>10 DEF ReportBug
<1>11. CASE Finalize
  BY <1>11 DEF Finalize
<1>12. CASE UNCHANGED vars
  BY <1>12 DEF vars
<1> QED
  BY <1>1, <1>2, <1>3, <1>4, <1>5, <1>6, <1>7, <1>8, <1>9, <1>10, <1>11, <1>12 DEF Next, Step

\* The types hold, and no call string grows past its limit.
THEOREM TypeCorrect == Spec => []TypeOK
BY TypedInit, TypedNext, TypedTypes, PTL DEF Spec
-----------------------------------------------------------------------------
(* Forward slicing.                                                        *)

Root == <<slice.root, <<>>>>

\* Between two sources nothing waits, and without a slice nothing was visited.
Idle ==
    /\ phase \in {"init", "next", "report", "done"} => worklist = {}
    /\ slice.root = NoNode => forwardVisited = {} /\ backwardVisited = {}
    /\ phase \in {"backward", "guards"} => ~slice.reachGlob

\* What was entered is part of the value flow.
ForwardWithin ==
    Slicing =>
        /\ forwardVisited \subseteq FlowsTo(svfg, slice.root)
        /\ slice.forwardslice \subseteq NodesOf(FlowsTo(svfg, slice.root))
        /\ phase = "forward" => worklist \subseteq FlowsTo(svfg, slice.root)
        /\ slice.sinks = slice.forwardslice \cap svfg.sinks
        /\ slice.partialReachable <=> slice.sinks # {}
        /\ slice.reachGlob => ReachesGlobal(svfg, slice.root)

\* What was entered and does not wait has had its steps taken.
ForwardTaken ==
    Slicing /\ ~slice.reachGlob =>
        \A x \in {Root} \cup forwardVisited :
            \/ phase = "forward" /\ x \in worklist
            \/ /\ x[1] \in slice.forwardslice
               /\ NextItems(svfg.edges, x) \subseteq forwardVisited
               /\ \A e \in OutEdges(svfg.edges, x[1]) : e.dst \notin svfg.globals

Forward == Idle /\ ForwardWithin /\ ForwardTaken

\* Typed gives the fields of a slice after an action.
LEMMA ForwardFields ==
    ASSUME Typed, NEW x \in worklist, ForwardTraverse(x)
    PROVE  /\ slice'.root = slice.root /\ slice'.forwardslice = slice.forwardslice \cup {x[1]}
           /\ slice'.sinks = slice.sinks \cup ({x[1]} \cap svfg.sinks)
           /\ slice'.partialReachable <=> slice.partialReachable \/ x[1] \in svfg.sinks
           /\ slice'.reachGlob <=> slice.reachGlob \/ \E e \in OutEdges(svfg.edges, x[1]) : e.dst \in svfg.globals
           /\ slice'.vfCond = slice.vfCond /\ slice'.backwardslice = slice.backwardslice
<1> DEFINE touches == TouchesGlobal(x) /\ OutEdges(svfg.edges, x[1]) # {}
<1>1. slice' = [slice EXCEPT !.forwardslice = @ \cup {x[1]},
                             !.sinks = @ \cup ({x[1]} \cap svfg.sinks),
                             !.partialReachable = @ \/ x[1] \in svfg.sinks,
                             !.reachGlob = @ \/ touches]
  BY DEF ForwardTraverse
<1>2. slice.reachGlob \/ touches
        <=> slice.reachGlob \/ \E e \in OutEdges(svfg.edges, x[1]) : e.dst \in svfg.globals
  BY DEF TouchesGlobal
<1> HIDE DEF touches
<1>3. SliceOK(slice, svfg.sinks)
  BY DEF Typed
<1>4. /\ slice'.root = slice.root /\ slice'.forwardslice = slice.forwardslice \cup {x[1]}
      /\ slice'.sinks = slice.sinks \cup ({x[1]} \cap svfg.sinks)
      /\ slice'.vfCond = slice.vfCond /\ slice'.backwardslice = slice.backwardslice
  BY <1>1, <1>3 DEF SliceOK
<1>5. slice'.partialReachable = (slice.partialReachable \/ x[1] \in svfg.sinks)
  BY <1>1, <1>3 DEF SliceOK
<1>6. slice'.reachGlob = (slice.reachGlob \/ touches)
  BY <1>1, <1>3 DEF SliceOK
<1> QED
  BY <1>2, <1>4, <1>5, <1>6

LEMMA BackwardFields ==
    ASSUME Typed, NEW x \in worklist, BackwardTraverse(x)
    PROVE  /\ slice'.root = slice.root /\ slice'.forwardslice = slice.forwardslice
           /\ slice'.sinks = slice.sinks /\ slice'.partialReachable = slice.partialReachable
           /\ slice'.reachGlob = slice.reachGlob /\ slice'.vfCond = slice.vfCond
           /\ slice'.backwardslice = slice.backwardslice \cup ({x[1]} \cap slice.forwardslice)
<1>1. slice' = [slice EXCEPT !.backwardslice = @ \cup BackwardSliceOf(x[1])]
  BY DEF BackwardTraverse
<1>2. SliceOK(slice, svfg.sinks)
  BY DEF Typed
<1> QED
  BY <1>1, <1>2 DEF SliceOK, BackwardSliceOf

\* The actions of the last part of an analysis leave the slicing alone.
LEMMA GuardsFields ==
    ASSUME Typed, StartGuards \/ (\E n \in SVFGNode : SolveGuards(n)) \/ EndGuards
    PROVE  /\ slice'.root = slice.root /\ slice'.forwardslice = slice.forwardslice
           /\ slice'.backwardslice = slice.backwardslice /\ slice'.sinks = slice.sinks
           /\ slice'.partialReachable = slice.partialReachable /\ slice'.reachGlob = slice.reachGlob
           /\ UNCHANGED <<svfg, forwardVisited, backwardVisited>>
           /\ phase \in {"backward", "guards"} /\ phase' \in {"guards", "report"}
<1>1. SliceOK(slice, svfg.sinks)
  BY DEF Typed
<1>2. CASE StartGuards
  <2>1. slice' = [slice EXCEPT !.vfCond = slice'.vfCond]
    BY <1>1, <1>2 DEF StartGuards, SliceOK
  <2> QED
    BY <1>1, <1>2, <2>1 DEF StartGuards, SliceOK
<1>3. ASSUME NEW n \in SVFGNode, SolveGuards(n)
      PROVE  /\ slice' = [slice EXCEPT !.vfCond = slice'.vfCond] /\ phase = "guards" /\ phase' = "guards"
             /\ UNCHANGED <<svfg, forwardVisited, backwardVisited>>
  BY <1>1, <1>3 DEF SolveGuards, SliceOK
<1>4. CASE \E n \in SVFGNode : SolveGuards(n)
  BY <1>1, <1>3, <1>4 DEF SliceOK
<1>5. CASE EndGuards
  <2>1. slice' = [slice EXCEPT !.fullReachable = slice'.fullReachable]
    BY <1>1, <1>5 DEF EndGuards, SliceOK
  <2> QED
    BY <1>1, <1>5, <2>1 DEF EndGuards, SliceOK
<1> QED
  BY <1>2, <1>4, <1>5

LEMMA ForwardInit == Init => Forward
BY DEF Init, Forward, Idle, ForwardWithin, ForwardTaken, Slicing

LEMMA ForwardNext == Typed /\ Forward /\ [Next]_vars => Forward'
<1> SUFFICES ASSUME Typed, Forward, [Next]_vars PROVE Forward'
  OBVIOUS
<1> USE DEF Forward
<1>a. svfg \in Inputs /\ (Slicing => slice.root \in SVFGNode) /\ sources \subseteq SVFGNode
  BY DEF Typed
<1>1. CASE InitSrcs
  BY <1>1 DEF InitSrcs, Idle, ForwardWithin, ForwardTaken, Slicing
<1>2. ASSUME NEW src \in sources, SetCurSlice(src) PROVE Forward'
  <2>1. /\ slice' = NewSlice(src) /\ forwardVisited' = {} /\ backwardVisited' = {} /\ svfg' = svfg
        /\ phase' = "forward" /\ worklist' = {<<src, <<>>>>}
    BY <1>2 DEF SetCurSlice, Cleared, Idle
  <2>2. <<src, <<>>>> \in FlowsTo(svfg, src) /\ src # NoNode
    BY <1>a, FlowsLeast, NoNodeAssumption
  <2>3. /\ slice'.root = src /\ slice'.forwardslice = {} /\ slice'.sinks = {}
        /\ slice'.partialReachable = FALSE /\ slice'.reachGlob = FALSE
    BY <2>1 DEF NewSlice
  <2>4. Idle'
    BY <2>1, <2>2, <2>3 DEF Idle
  <2>5. ForwardWithin'
    BY <2>1, <2>2, <2>3 DEF ForwardWithin
  <2>6. ForwardTaken'
    BY <2>1, <2>3 DEF ForwardTaken, Root
  <2> QED
    BY <2>4, <2>5, <2>6
<1>3. ASSUME NEW x \in worklist, ForwardTraverse(x) PROVE Forward'
  <2>1. phase = "forward" /\ phase' = "forward" /\ svfg' = svfg /\ backwardVisited' = backwardVisited
    BY <1>3 DEF ForwardTraverse
  <2>2. PICK reached \in SUBSET NextItems(svfg.edges, x) :
           /\ forwardVisited' = forwardVisited \cup reached /\ worklist' = (worklist \ {x}) \cup reached
           /\ ~slice'.reachGlob => NextItems(svfg.edges, x) \subseteq forwardVisited'
    BY <1>3, ForwardFields DEF ForwardTraverse, TouchesGlobal
  <2>3. /\ slice'.root = slice.root /\ slice'.forwardslice = slice.forwardslice \cup {x[1]}
        /\ slice'.sinks = slice.sinks \cup ({x[1]} \cap svfg.sinks)
        /\ slice'.partialReachable <=> slice.partialReachable \/ x[1] \in svfg.sinks
        /\ slice'.reachGlob <=> slice.reachGlob \/ \E e \in OutEdges(svfg.edges, x[1]) : e.dst \in svfg.globals
    BY <1>3, ForwardFields
  <2>4. x \in FlowsTo(svfg, slice.root) /\ NextItems(svfg.edges, x) \subseteq FlowsTo(svfg, slice.root)
    <3>1. slice.root \in SVFGNode /\ x \in FlowsTo(svfg, slice.root)
      BY <1>a, <2>1 DEF ForwardWithin, Slicing
    <3> QED
      BY <1>a, <3>1, FlowsLeast DEF Moves
  <2>5. x[1] \in NodesOf(FlowsTo(svfg, slice.root))
    BY <2>4 DEF NodesOf
  <2>6. Idle'
    BY <1>a, <2>1, <2>3, NoNodeAssumption DEF Idle, Slicing
  <2>7. ForwardWithin'
    <3>1. /\ forwardVisited' \subseteq FlowsTo(svfg, slice.root)
          /\ worklist' \subseteq FlowsTo(svfg, slice.root)
          /\ slice'.forwardslice \subseteq NodesOf(FlowsTo(svfg, slice.root))
      BY <2>1, <2>2, <2>3, <2>4, <2>5 DEF ForwardWithin, Slicing
    <3>2. slice'.sinks = slice'.forwardslice \cap svfg.sinks
      BY <2>1, <2>3 DEF ForwardWithin, Slicing
    <3>3. slice'.partialReachable <=> slice'.sinks # {}
      BY <2>1, <2>3 DEF ForwardWithin, Slicing
    <3>4. slice'.reachGlob => ReachesGlobal(svfg, slice.root)
      BY <2>1, <2>3, <2>5 DEF ForwardWithin, Slicing, ReachesGlobal
    <3> QED
      BY <2>1, <2>3, <3>1, <3>2, <3>3, <3>4 DEF ForwardWithin
  <2>8. ForwardTaken'
    <3> SUFFICES ASSUME ~slice'.reachGlob, NEW y \in {Root} \cup forwardVisited', y \notin worklist'
                 PROVE  /\ y[1] \in slice'.forwardslice
                        /\ NextItems(svfg.edges, y) \subseteq forwardVisited'
                        /\ \A e \in OutEdges(svfg.edges, y[1]) : e.dst \notin svfg.globals
      BY <2>1, <2>3 DEF ForwardTaken, Root
    <3>1. CASE y = x
      BY <2>2, <2>3, <3>1
    <3>2. CASE y # x
      <4>1. y \notin worklist /\ y \in {Root} \cup forwardVisited
        BY <2>2, <3>2
      <4>2. ~slice.reachGlob
        BY <2>3
      <4> QED
        BY <2>1, <2>2, <2>3, <4>1, <4>2 DEF ForwardTaken, Slicing
    <3> QED
      BY <3>1, <3>2
  <2> QED
    BY <2>6, <2>7, <2>8
<1>4. CASE ForwardEnd
  BY <1>4 DEF ForwardEnd, Idle, ForwardWithin, ForwardTaken, Slicing, Root
<1>5. ASSUME NEW s \in sinksLeft, PushSink(s) PROVE Forward'
  BY <1>5 DEF PushSink, Idle, ForwardWithin, ForwardTaken, Slicing, Root
<1>6. ASSUME NEW x \in worklist, BackwardTraverse(x) PROVE Forward'
  <2>1. /\ slice'.root = slice.root /\ slice'.forwardslice = slice.forwardslice
        /\ slice'.sinks = slice.sinks /\ slice'.partialReachable = slice.partialReachable
        /\ slice'.reachGlob = slice.reachGlob
    BY <1>6, BackwardFields
  <2>2. phase = "backward" /\ phase' = "backward" /\ UNCHANGED <<svfg, forwardVisited>>
    BY <1>6 DEF BackwardTraverse
  <2>3. slice.root # NoNode
    BY <1>a, <2>2, NoNodeAssumption DEF Slicing
  <2> QED
    BY <2>1, <2>2, <2>3 DEF Idle, ForwardWithin, ForwardTaken, Slicing, Root
<1>7. CASE StartGuards \/ (\E n \in SVFGNode : SolveGuards(n)) \/ EndGuards
  <2>1. /\ slice'.root = slice.root /\ slice'.forwardslice = slice.forwardslice
        /\ slice'.sinks = slice.sinks
        /\ slice'.partialReachable = slice.partialReachable /\ slice'.reachGlob = slice.reachGlob
        /\ UNCHANGED <<svfg, forwardVisited, backwardVisited>>
        /\ phase \in {"backward", "guards"} /\ phase' \in {"guards", "report"}
    BY <1>7, GuardsFields
  <2>2. phase' = "report" => worklist' = {}
    BY <1>7 DEF StartGuards, SolveGuards, EndGuards
  <2> QED
    BY <2>1, <2>2 DEF Idle, ForwardWithin, ForwardTaken, Slicing, Root
<1>8. CASE ReportBug \/ Finalize \/ UNCHANGED vars
  BY <1>8 DEF ReportBug, Finalize, vars, Idle, ForwardWithin, ForwardTaken, Slicing, Root
<1>9. \A x \in worklist : x[1] \in SVFGNode
  BY LimitedItems DEF Typed
<1> QED
  BY <1>1, <1>2, <1>3, <1>4, <1>5, <1>6, <1>7, <1>8, <1>9 DEF Next, Step

\* After it, the forward slice is what the value flows to.
LEMMA ForwardDone ==
    ASSUME Typed, Forward, Slicing, phase # "forward", ~slice.reachGlob
    PROVE  /\ slice.forwardslice = NodesOf(FlowsTo(svfg, slice.root))
           /\ slice.sinks = SinksOf(svfg, slice.root) /\ ~ReachesGlobal(svfg, slice.root)
<1> DEFINE T == {Root} \cup forwardVisited
<1>1. svfg \in Inputs /\ slice.root \in SVFGNode /\ T \subseteq Limited
  BY LimitedItems DEF Typed, Root
<1>2. \A x \in T : /\ x[1] \in slice.forwardslice /\ NextItems(svfg.edges, x) \subseteq forwardVisited
                   /\ \A e \in OutEdges(svfg.edges, x[1]) : e.dst \notin svfg.globals
  BY DEF Forward, ForwardTaken
<1>3. FlowsTo(svfg, slice.root) \subseteq T
  <2>1. Moves(svfg.edges, T) /\ <<slice.root, <<>>>> \in T
    BY <1>2 DEF Moves, Root
  <2> HIDE DEF T
  <2> QED
    BY <1>1, <2>1, FlowsLeast
<1>4. slice.forwardslice = NodesOf(FlowsTo(svfg, slice.root))
  BY <1>2, <1>3 DEF Forward, ForwardWithin, NodesOf
<1>5. ~ReachesGlobal(svfg, slice.root)
  BY <1>2, <1>3 DEF ReachesGlobal, NodesOf
<1> QED
  BY <1>4, <1>5 DEF Forward, ForwardWithin, SinksOf
-----------------------------------------------------------------------------
(* Backward slicing.                                                       *)

LeadsToSink(n) == Along(svfg.edges, n) \cap slice.sinks # {}

\* Every node at hand leads to a sink of the slice.
BackwardWithin ==
    /\ phase = "forward" => slice.backwardslice = {} /\ backwardVisited = {}
    /\ phase = "backward" =>
        /\ slice.backwardslice \subseteq slice.forwardslice
        /\ sinksLeft \subseteq slice.sinks /\ \A x \in worklist : x[2] = <<>>
        /\ \A n \in backwardVisited \cup slice.backwardslice \cup NodesOf(worklist) : LeadsToSink(n)

\* What was entered, a sink or a node before one, and does not wait has had
\* its steps back taken.
BackwardTaken ==
    phase = "backward" =>
        \A n \in slice.sinks \cup backwardVisited :
            \/ n \in sinksLeft \/ <<n, <<>>>> \in worklist
            \/ /\ n \in slice.forwardslice => n \in slice.backwardslice
               /\ \A e \in svfg.edges : e.dst = n => e.src \in backwardVisited

Backward == BackwardWithin /\ BackwardTaken

LEMMA AlongOnward ==
    ASSUME NEW E \in SUBSET Edge, NEW e \in E
    PROVE  Along(E, e.dst) \subseteq Along(E, e.src)
<1>1. e.src \in SVFGNode /\ e.dst \in SVFGNode
  BY DEF Edge
<1>2. e.src \in Along(E, e.src) /\ Along(E, e.src) \in SUBSET SVFGNode /\ Leads(E, Along(E, e.src))
  BY <1>1, AlongLeast
<1>3. e.dst \in Along(E, e.src)
  BY <1>2 DEF Leads
<1> QED
  BY <1>1, <1>2, <1>3, AlongLeast

LEMMA BackwardNext == Typed /\ Forward /\ Backward /\ [Next]_vars => Backward'
<1> SUFFICES ASSUME Typed, Forward, Backward, [Next]_vars PROVE Backward'
  OBVIOUS
<1> USE DEF Backward
<1>a. svfg.edges \subseteq Edge /\ svfg.sinks \subseteq SVFGNode /\ slice.sinks \subseteq SVFGNode
  BY GraphOK DEF Typed, SliceOK
<1>1. CASE phase' \notin {"forward", "backward"}
  BY <1>1 DEF BackwardWithin, BackwardTaken
<1>2. ASSUME NEW src \in sources, SetCurSlice(src) PROVE Backward'
  BY <1>2 DEF SetCurSlice, NewSlice, Cleared, Forward, Idle, BackwardWithin, BackwardTaken
<1>3. ASSUME NEW x \in worklist, ForwardTraverse(x) PROVE Backward'
  <2>1. slice'.backwardslice = slice.backwardslice
    BY <1>3, ForwardFields
  <2> QED
    BY <1>3, <2>1 DEF ForwardTraverse, BackwardWithin, BackwardTaken
<1>4. ASSUME ForwardEnd, phase' = "backward" PROVE Backward'
  <2>1. /\ phase = "forward" /\ worklist' = {} /\ sinksLeft' = slice.sinks
        /\ UNCHANGED <<svfg, slice, backwardVisited>>
    BY <1>4 DEF ForwardEnd
  <2> QED
    BY <1>4, <2>1 DEF BackwardWithin, BackwardTaken, NodesOf
<1>5. ASSUME NEW s \in sinksLeft, PushSink(s) PROVE Backward'
  <2>1. /\ phase = "backward" /\ phase' = "backward" /\ worklist = {} /\ worklist' = {<<s, <<>>>>}
        /\ sinksLeft' = sinksLeft \ {s} /\ UNCHANGED <<svfg, slice, backwardVisited>>
    BY <1>5 DEF PushSink
  <2>2. s \in slice.sinks
    BY <2>1 DEF BackwardWithin
  <2>3. LeadsToSink(s)
    BY <1>a, <2>2, AlongLeast DEF LeadsToSink
  <2>4. NodesOf(worklist') = {s}
    BY <2>1 DEF NodesOf
  <2>5. BackwardWithin'
    <3>1. \A n : LeadsToSink(n) => Along(svfg'.edges, n) \cap slice'.sinks # {}
      BY <2>1 DEF LeadsToSink
    <3>2. \A n \in backwardVisited' \cup slice'.backwardslice \cup NodesOf(worklist') : LeadsToSink(n)
      BY <2>1, <2>3, <2>4 DEF BackwardWithin
    <3>3. /\ slice'.backwardslice \subseteq slice'.forwardslice /\ sinksLeft' \subseteq slice'.sinks
          /\ \A x \in worklist' : x[2] = <<>>
      BY <2>1 DEF BackwardWithin
    <3>4. phase' = "backward"
      BY <2>1
    <3> QED
      BY <3>1, <3>2, <3>3, <3>4 DEF BackwardWithin, LeadsToSink
  <2>6. BackwardTaken'
    BY <2>1 DEF BackwardTaken
  <2> QED
    BY <2>5, <2>6
<1>6. ASSUME NEW x \in worklist, BackwardTraverse(x) PROVE Backward'
  <2> DEFINE new == {e.src : e \in InEdges(svfg.edges, x[1])} \ backwardVisited
  <2>1. /\ slice'.sinks = slice.sinks /\ slice'.forwardslice = slice.forwardslice
        /\ slice'.backwardslice = slice.backwardslice \cup ({x[1]} \cap slice.forwardslice)
    BY <1>6, BackwardFields
  <2>2. /\ phase = "backward" /\ phase' = "backward" /\ UNCHANGED <<svfg, sinksLeft>>
        /\ backwardVisited' = backwardVisited \cup new
        /\ worklist' = (worklist \ {x}) \cup {<<n, <<>>>> : n \in new}
    BY <1>6 DEF BackwardTraverse
  <2>3. x = <<x[1], <<>>>> /\ LeadsToSink(x[1])
    <3>1. x[2] = <<>> /\ x[1] \in NodesOf(worklist)
      BY <2>2 DEF BackwardWithin, NodesOf
    <3>2. x \in SVFGNode \X Cxt
      BY DEF Typed, Limited
    <3> QED
      BY <2>2, <3>1, <3>2 DEF BackwardWithin
  <2>4. \A n \in new : LeadsToSink(n)
    <3> SUFFICES ASSUME NEW e \in svfg.edges, e.dst = x[1] PROVE LeadsToSink(e.src)
      BY DEF InEdges
    <3>1. Along(svfg.edges, e.dst) \subseteq Along(svfg.edges, e.src)
      BY <1>a, AlongOnward
    <3> QED
      BY <2>3, <3>1 DEF LeadsToSink
  <2>5. BackwardWithin'
    <3>1. \A n : LeadsToSink(n) => Along(svfg'.edges, n) \cap slice'.sinks # {}
      BY <2>1, <2>2 DEF LeadsToSink
    <3>2. \A n \in NodesOf(worklist') : n \in NodesOf(worklist) \cup new
      BY <2>2 DEF NodesOf
    <3> HIDE DEF new
    <3>3. \A n \in backwardVisited' \cup slice'.backwardslice \cup NodesOf(worklist') : LeadsToSink(n)
      BY <2>1, <2>2, <2>3, <2>4, <3>2 DEF BackwardWithin
    <3> QED
      BY <2>1, <2>2, <3>1, <3>3 DEF BackwardWithin, LeadsToSink
  <2>6. BackwardTaken'
    <3> SUFFICES ASSUME NEW n \in slice.sinks \cup backwardVisited',
                        n \notin sinksLeft, <<n, <<>>>> \notin worklist'
                 PROVE  /\ n \in slice.forwardslice => n \in slice'.backwardslice
                        /\ \A e \in svfg.edges : e.dst = n => e.src \in backwardVisited'
      BY <2>1, <2>2 DEF BackwardTaken
    <3>1. n \notin new
      BY <2>2
    <3>2. CASE n = x[1]
      BY <2>1, <2>2, <3>2 DEF InEdges
    <3>3. CASE n # x[1]
      <4>1. <<n, <<>>>> \notin worklist /\ n \in slice.sinks \cup backwardVisited
        BY <2>2, <2>3, <3>1, <3>3
      <4> QED
        BY <2>1, <2>2, <4>1 DEF BackwardTaken
    <3> QED
      BY <3>2, <3>3
  <2> QED
    BY <2>5, <2>6
<1>7. CASE UNCHANGED vars
  BY <1>7 DEF vars, BackwardWithin, BackwardTaken, LeadsToSink
<1> QED
  BY <1>1, <1>2, <1>3, <1>4, <1>5, <1>6, <1>7
  DEF Next, Step, InitSrcs, ForwardEnd, StartGuards, SolveGuards, EndGuards, ReportBug, Finalize, vars

\* After it, the slice is the reference's.
LEMMA BackwardDone ==
    ASSUME Typed, Forward, Backward, phase = "backward", worklist = {}, sinksLeft = {}
    PROVE  slice.backwardslice = SliceOf(svfg, slice.root)
<1> DEFINE M == slice.sinks \cup backwardVisited
<1>1. /\ slice.forwardslice = NodesOf(FlowsTo(svfg, slice.root))
      /\ slice.sinks = SinksOf(svfg, slice.root)
  BY ForwardDone DEF Slicing, Forward, Idle
<1>2. /\ svfg.edges \subseteq Edge /\ M \subseteq SVFGNode /\ slice.forwardslice \subseteq SVFGNode
  BY GraphOK DEF Typed, SliceOK
<1>3. \A n \in M : /\ n \in slice.forwardslice => n \in slice.backwardslice
                   /\ \A e \in svfg.edges : e.dst = n => e.src \in M
  BY DEF Backward, BackwardTaken
<1>4. slice.sinks \subseteq M
  OBVIOUS
<1> HIDE DEF M
<1>5. ASSUME NEW n \in slice.forwardslice, LeadsToSink(n) PROVE n \in slice.backwardslice
  <2>1. CASE n \notin M
    <3> DEFINE S == SVFGNode \ M
    <3>1. n \in S /\ Leads(svfg.edges, S)
      BY <1>2, <1>3, <2>1 DEF Leads, Edge
    <3> HIDE DEF S
    <3>2. Along(svfg.edges, n) \subseteq S
      <4>1. S \in SUBSET SVFGNode
        BY DEF S
      <4> QED
        BY <1>2, <3>1, <4>1, AlongLeast
    <3> QED
      BY <1>4, <1>5, <3>2 DEF S, LeadsToSink
  <2> QED
    BY <1>3, <2>1
<1>6. \A n \in slice.backwardslice : n \in slice.forwardslice /\ LeadsToSink(n)
  BY DEF Backward, BackwardWithin
<1> QED
  BY <1>1, <1>5, <1>6 DEF SliceOf, LeadsToSink
-----------------------------------------------------------------------------
(* Conditions.                                                             *)

Guarding == phase \in {"guards", "report"} /\ ~slice.reachGlob

\* A condition holds under no more assignments than paths are taken.
GuardsWithin ==
    Guarding =>
        /\ slice.backwardslice = SliceOf(svfg, slice.root)
        /\ \A n \in DOMAIN slice.vfCond : \A as \in slice.vfCond[n] :
              n \in Taken(svfg, slice.root, slice.backwardslice, as)

\* The condition of a node that does not wait was handed on.
HandedOn(n) ==
    \A e \in svfg.edges : e.src = n /\ e.dst \in slice.backwardslice =>
        /\ e.dst \in DOMAIN slice.vfCond
        /\ slice.vfCond[n] \cap svfg.vfCond[e] \subseteq slice.vfCond[e.dst]

GuardsTaken ==
    Guarding =>
        /\ slice.root \in DOMAIN slice.vfCond /\ slice.vfCond[slice.root] = TrueCond
        /\ phase = "guards" => \A x \in worklist : x[2] = <<>> /\ x[1] \in DOMAIN slice.vfCond
        /\ \A n \in DOMAIN slice.vfCond : (phase = "guards" /\ <<n, <<>>>> \in worklist) \/ HandedOn(n)

\* There are conditions of a slice that stays within the program only.
Unsolved == phase \in {"forward", "backward"} \/ (Slicing /\ slice.reachGlob) => DOMAIN slice.vfCond = {}

\* allReachable is what isSatisfiableForAll says at the end.
Judgement == phase = "report" /\ ~slice.reachGlob => (slice.fullReachable <=> SatisfiableForAll(slice))

Guards == GuardsWithin /\ GuardsTaken /\ Unsolved /\ Judgement

\* The edges taken under an assignment.
Open(in, body, as) == {e \in in.edges : e.dst \in body /\ as \in in.vfCond[e]}

LEMMA TakenLeast ==
    ASSUME svfg \in Inputs, NEW src \in SVFGNode, NEW body, NEW as
    PROVE  /\ src \in Taken(svfg, src, body, as)
           /\ \A e \in svfg.edges :
                 e.src \in Taken(svfg, src, body, as) /\ e.dst \in body /\ as \in svfg.vfCond[e]
                    => e.dst \in Taken(svfg, src, body, as)
           /\ \A S \in SUBSET SVFGNode :
                 src \in S /\ Leads(Open(svfg, body, as), S) => Taken(svfg, src, body, as) \subseteq S
<1> DEFINE E == Open(svfg, body, as)
<1>1. E \in SUBSET Edge
  BY GraphOK DEF Open
<1>2. Taken(svfg, src, body, as) = Along(E, src)
  BY DEF Taken, Open
<1>3. \A e \in svfg.edges : e.dst \in body /\ as \in svfg.vfCond[e] => e \in E
  BY DEF Open
<1> HIDE DEF E
<1>4. /\ src \in Along(E, src) /\ Leads(E, Along(E, src))
      /\ \A S \in SUBSET SVFGNode : src \in S /\ Leads(E, S) => Along(E, src) \subseteq S
  BY <1>1, AlongLeast
<1> QED
  BY <1>2, <1>3, <1>4 DEF Leads, E

LEMMA SolveGuardsNext ==
    ASSUME Typed, Forward, Guards, NEW x \in worklist, SolveGuards(x[1])
    PROVE  Guards'
<1> DEFINE n == x[1]
           succs == {e.dst : e \in OutEdges(svfg.edges, n)} \cap slice.backwardslice
           cond == [m \in succs |-> getVFCond(slice, m) \cup StepCond(n, m)]
           changed == {m \in succs : Changed(m, cond[m])}
           vfCond == [m \in DOMAIN slice.vfCond \cup succs |->
                         IF m \in changed THEN cond[m] ELSE slice.vfCond[m]]
<1>1. /\ slice' = [slice EXCEPT !.vfCond = vfCond] /\ svfg' = svfg
      /\ phase = "guards" /\ phase' = "guards"
      /\ worklist' = (worklist \ {<<n, <<>>>>}) \cup {<<m, <<>>>> : m \in changed}
  BY DEF SolveGuards
<1>2. /\ Guarding /\ slice.root \in SVFGNode /\ svfg \in Inputs /\ SliceOK(slice, svfg.sinks)
      /\ svfg.edges \subseteq Edge /\ svfg.vfCond \in [svfg.edges -> Cond]
  BY <1>1, GraphOK DEF Guarding, Forward, Idle, Typed, Slicing
<1>3. \A m \in succs : m \notin changed => m \in DOMAIN slice.vfCond /\ slice.vfCond[m] = cond[m]
  BY DEF Changed
<1>4. x[2] = <<>> /\ n \in DOMAIN slice.vfCond
  BY <1>1, <1>2 DEF Guards, GuardsTaken
<1>5. /\ \A m \in succs : cond[m] = getVFCond(slice, m) \cup StepCond(n, m)
      /\ changed \subseteq succs
  OBVIOUS
<1>6. \A m \in DOMAIN slice.vfCond : getVFCond(slice, m) = slice.vfCond[m]
  BY DEF getVFCond
<1>7. \A m, as : as \in StepCond(n, m) <=>
        as \in slice.vfCond[n] /\ \E e \in svfg.edges : e.src = n /\ e.dst = m /\ as \in svfg.vfCond[e]
  BY <1>4, <1>6 DEF StepCond, OutEdges
<1>8. n \notin changed
  <2>1. StepCond(n, n) \subseteq slice.vfCond[n]
    BY <1>7
  <2>2. n \in succs => cond[n] = slice.vfCond[n]
    BY <1>4, <1>5, <1>6, <2>1
  <2> QED
    BY <1>4, <2>2 DEF Changed
<1>9. \A e \in svfg.edges : e.src = n /\ e.dst \in slice.backwardslice => e.dst \in succs
  BY DEF OutEdges
<1> HIDE DEF changed, cond, succs
\* What the new conditions are.
<1>10. /\ slice'.vfCond = vfCond /\ slice'.backwardslice = slice.backwardslice
       /\ slice'.root = slice.root /\ slice'.reachGlob = slice.reachGlob
  BY <1>1, <1>2 DEF SliceOK
<1>11. /\ DOMAIN vfCond = DOMAIN slice.vfCond \cup succs
       /\ \A m \in succs : vfCond[m] = cond[m]
       /\ \A m \in DOMAIN slice.vfCond : m \notin changed => vfCond[m] = slice.vfCond[m]
       /\ \A m \in DOMAIN slice.vfCond : slice.vfCond[m] \subseteq vfCond[m]
  BY <1>3, <1>5, <1>6
<1> HIDE DEF vfCond
<1>12. GuardsWithin'
  <2> DEFINE Reached(as) == Taken(svfg, slice.root, slice.backwardslice, as)
  <2>1. \A m \in DOMAIN slice.vfCond : \A as \in slice.vfCond[m] : m \in Reached(as)
    BY <1>2 DEF Guards, GuardsWithin
  <2>2. ASSUME NEW m \in DOMAIN vfCond, NEW as \in vfCond[m] PROVE m \in Reached(as)
    <3>1. CASE m \in DOMAIN slice.vfCond /\ as \in slice.vfCond[m]
      BY <2>1, <3>1
    <3>2. CASE m \in succs /\ as \in StepCond(n, m)
      <4>1. PICK e \in svfg.edges : e.src = n /\ e.dst = m /\ as \in svfg.vfCond[e]
        BY <1>7, <3>2
      <4>2. n \in Reached(as)
        BY <1>4, <1>7, <2>1, <3>2
      <4>3. m \in slice.backwardslice
        BY <3>2 DEF succs
      <4> QED
        BY <1>2, <4>1, <4>2, <4>3, TakenLeast
    <3>3. m \in succs /\ as \in getVFCond(slice, m) => m \in DOMAIN slice.vfCond /\ as \in slice.vfCond[m]
      BY DEF getVFCond, FalseCond
    <3> QED
      BY <1>5, <1>11, <2>2, <3>1, <3>2, <3>3
  <2> QED
    BY <1>1, <1>2, <1>10, <2>2 DEF Guards, GuardsWithin, Guarding
<1>13. GuardsTaken'
  <2>1. slice.root \in DOMAIN vfCond /\ vfCond[slice.root] = TrueCond
    <3>1. slice.root \in DOMAIN slice.vfCond /\ slice.vfCond[slice.root] = TrueCond
      BY <1>2 DEF Guards, GuardsTaken
    <3>2. \A m \in DOMAIN vfCond : vfCond[m] \subseteq TrueCond
      <4>1. \A m \in DOMAIN slice.vfCond : slice.vfCond[m] \subseteq TrueCond
        BY <1>2 DEF SliceOK, Cond, TrueCond
      <4>2. \A m \in succs : cond[m] \subseteq TrueCond
        <5>1. \A m : StepCond(n, m) \subseteq TrueCond
          BY <1>4, <1>7, <4>1
        <5>2. \A m : getVFCond(slice, m) \subseteq TrueCond
          BY <4>1 DEF getVFCond, FalseCond
        <5> QED
          BY <1>5, <5>1, <5>2
      <4> QED
        BY <1>5, <1>11, <4>1, <4>2
    <3> QED
      BY <1>11, <3>1, <3>2
  <2>2. \A y \in worklist' : y[2] = <<>> /\ y[1] \in DOMAIN vfCond
    BY <1>1, <1>2, <1>5, <1>11 DEF Guards, GuardsTaken
  <2>3. ASSUME NEW m \in DOMAIN vfCond, <<m, <<>>>> \notin worklist',
               NEW e \in svfg.edges, e.src = m, e.dst \in slice.backwardslice
        PROVE  e.dst \in DOMAIN vfCond /\ vfCond[m] \cap svfg.vfCond[e] \subseteq vfCond[e.dst]
    <3>1. m \notin changed
      BY <1>1, <2>3
    <3>2. m \in DOMAIN slice.vfCond /\ vfCond[m] = slice.vfCond[m]
      BY <1>3, <1>11, <2>3, <3>1
    <3>3. CASE m = n
      <4>1. e.dst \in succs /\ vfCond[e.dst] = cond[e.dst]
        BY <1>9, <1>11, <2>3, <3>3
      <4>2. slice.vfCond[m] \cap svfg.vfCond[e] \subseteq StepCond(n, e.dst)
        BY <1>7, <2>3, <3>3
      <4> QED
        BY <1>5, <1>11, <3>2, <4>1, <4>2
    <3>4. CASE m # n
      <4>1. <<m, <<>>>> \notin worklist
        BY <1>1, <2>3, <3>4
      <4>2. HandedOn(m)
        BY <1>2, <3>2, <4>1 DEF Guards, GuardsTaken
      <4> QED
        BY <1>11, <2>3, <3>2, <4>2 DEF HandedOn
    <3> QED
      BY <3>3, <3>4
  <2> QED
    BY <1>1, <1>10, <2>1, <2>2, <2>3 DEF GuardsTaken, HandedOn
<1>14. Unsolved' /\ Judgement'
  BY <1>1, <1>2, <1>10 DEF Unsolved, Judgement, Guarding
<1> QED
  BY <1>12, <1>13, <1>14 DEF Guards

LEMMA GuardsNext == Typed /\ Forward /\ Backward /\ Guards /\ [Next]_vars => Guards'
<1> SUFFICES ASSUME Typed, Forward, Backward, Guards, [Next]_vars PROVE Guards'
  OBVIOUS
<1>a. SliceOK(slice, svfg.sinks) /\ (Slicing => slice.root \in SVFGNode) /\ svfg \in Inputs
  BY DEF Typed
<1>1. CASE phase' \in {"next", "done"} \/ phase = "init"
  BY <1>1 DEF Next, Step, InitSrcs, SetCurSlice, ForwardTraverse, BackwardTraverse, SolveGuards,
              ForwardEnd, PushSink, StartGuards, EndGuards, ReportBug, Finalize, vars,
              Guards, GuardsWithin, GuardsTaken, Unsolved, Judgement, Guarding, Slicing
<1>2. ASSUME NEW src \in sources, SetCurSlice(src) PROVE Guards'
  BY <1>2 DEF SetCurSlice, NewSlice, Guards, GuardsWithin, GuardsTaken, Unsolved, Judgement, Guarding, Slicing
<1>3. ASSUME NEW x \in worklist, ForwardTraverse(x) PROVE Guards'
  <2>1. slice'.vfCond = slice.vfCond
    BY <1>3, ForwardFields
  <2>2. phase = "forward" /\ phase' = "forward"
    BY <1>3 DEF ForwardTraverse
  <2>3. GuardsWithin' /\ GuardsTaken'
    BY <2>2 DEF GuardsWithin, GuardsTaken, Guarding
  <2>4. Unsolved' /\ Judgement'
    BY <2>1, <2>2 DEF Guards, Unsolved, Judgement
  <2> QED
    BY <2>3, <2>4 DEF Guards
<1>4. CASE ForwardEnd
  BY <1>4 DEF ForwardEnd, Guards, GuardsWithin, GuardsTaken, Unsolved, Judgement, Guarding, Slicing
<1>5. ASSUME NEW s \in sinksLeft, PushSink(s) PROVE Guards'
  BY <1>5 DEF PushSink, Guards, GuardsWithin, GuardsTaken, Unsolved, Judgement, Guarding, Slicing
<1>6. ASSUME NEW x \in worklist, BackwardTraverse(x) PROVE Guards'
  <2>1. slice'.vfCond = slice.vfCond /\ slice'.reachGlob = slice.reachGlob
    BY <1>6, BackwardFields
  <2> QED
    BY <1>6, <2>1 DEF BackwardTraverse, Guards, GuardsWithin, GuardsTaken, Unsolved, Judgement, Guarding, Slicing
<1>7. CASE StartGuards
  <2>1. /\ slice' = [slice EXCEPT !.vfCond = slice'.vfCond]
        /\ slice'.vfCond = [n \in {slice.root} |-> TrueCond]
    BY <1>7, <1>a DEF StartGuards, SliceOK
  <2>2. /\ phase = "backward" /\ worklist = {} /\ sinksLeft = {}
        /\ phase' = "guards" /\ worklist' = {<<slice.root, <<>>>>} /\ svfg' = svfg
    BY <1>7 DEF StartGuards
  <2>3. slice'.backwardslice = slice.backwardslice /\ slice'.root = slice.root
        /\ slice'.reachGlob = slice.reachGlob
    BY <1>7, GuardsFields
  <2>4. slice.backwardslice = SliceOf(svfg, slice.root)
    BY <2>2, BackwardDone
  <2>5. \A as : slice.root \in Taken(svfg, slice.root, slice.backwardslice, as)
    BY <1>a, <2>2, TakenLeast DEF Slicing
  <2>6. ~slice.reachGlob
    BY <2>2 DEF Forward, Idle
  <2> QED
    BY <2>1, <2>2, <2>3, <2>4, <2>5, <2>6 DEF Guards, GuardsWithin, GuardsTaken, Unsolved, Judgement, Guarding
<1>8. ASSUME NEW x \in worklist, SolveGuards(x[1]) PROVE Guards'
  BY <1>8, SolveGuardsNext
<1>9. CASE EndGuards
  <2>1. /\ slice' = [slice EXCEPT !.fullReachable = SatisfiableForAll(slice)]
        /\ phase = "guards" /\ worklist = {} /\ phase' = "report" /\ svfg' = svfg
    BY <1>9 DEF EndGuards
  <2>2. /\ slice'.root = slice.root /\ slice'.backwardslice = slice.backwardslice
        /\ slice'.reachGlob = slice.reachGlob /\ slice'.vfCond = slice.vfCond
        /\ slice'.sinks = slice.sinks /\ slice'.fullReachable = SatisfiableForAll(slice)
    BY <1>a, <2>1 DEF SliceOK
  <2>3. SatisfiableForAll(slice') = SatisfiableForAll(slice)
    BY <2>2 DEF SatisfiableForAll, getVFCond
  <2>4. Guarding
    BY <2>1 DEF Forward, Idle, Guarding
  <2>5. GuardsWithin' /\ GuardsTaken'
    BY <2>1, <2>2, <2>4 DEF Guards, GuardsWithin, GuardsTaken, Guarding, HandedOn
  <2>6. Unsolved' /\ Judgement'
    BY <2>1, <2>2, <2>3, <2>4 DEF Unsolved, Judgement, Guarding
  <2> QED
    BY <2>5, <2>6 DEF Guards
<1>10. CASE UNCHANGED vars
  BY <1>10 DEF vars, Guards, GuardsWithin, GuardsTaken, Unsolved, Judgement, Guarding, Slicing, HandedOn,
               SatisfiableForAll, getVFCond
<1>11. CASE InitSrcs \/ ReportBug \/ Finalize
  BY <1>11, <1>1 DEF InitSrcs, ReportBug, Finalize
<1> QED
  BY <1>2, <1>3, <1>4, <1>5, <1>6, <1>7, <1>8, <1>9, <1>10, <1>11 DEF Next, Step

\* After it, a condition holds where paths are taken.
LEMMA GuardsDone ==
    ASSUME Typed, Guards, phase = "report", ~slice.reachGlob
    PROVE  \A n, as : as \in TrueCond =>
              (as \in getVFCond(slice, n) <=> n \in Taken(svfg, slice.root, slice.backwardslice, as))
<1> SUFFICES ASSUME NEW n, NEW as \in TrueCond
             PROVE  as \in getVFCond(slice, n) <=> n \in Taken(svfg, slice.root, slice.backwardslice, as)
  OBVIOUS
<1> DEFINE S == {m \in DOMAIN slice.vfCond : as \in slice.vfCond[m]}
<1>1. Guarding /\ slice.root \in SVFGNode /\ svfg \in Inputs /\ SliceOK(slice, svfg.sinks)
  BY DEF Guarding, Typed, Slicing
<1>2. slice.root \in S
  BY <1>1 DEF Guards, GuardsTaken
<1>3. Leads(Open(svfg, slice.backwardslice, as), S)
  <2>1. \A m \in DOMAIN slice.vfCond : HandedOn(m)
    BY <1>1 DEF Guards, GuardsTaken
  <2> QED
    BY <2>1 DEF Leads, Open, HandedOn
<1>4. S \in SUBSET SVFGNode
  BY <1>1 DEF SliceOK
<1>5. n \in S => n \in Taken(svfg, slice.root, slice.backwardslice, as)
  BY <1>1 DEF Guards, GuardsWithin
<1>6. as \in getVFCond(slice, n) <=> n \in S
  BY DEF getVFCond, FalseCond
<1> HIDE DEF S
<1>7. Taken(svfg, slice.root, slice.backwardslice, as) \subseteq S
  BY <1>1, <1>2, <1>3, <1>4, TakenLeast
<1> QED
  BY <1>5, <1>6, <1>7
-----------------------------------------------------------------------------
(* Verdicts.                                                               *)

LEMMA MoreThanOne ==
    ASSUME NEW S, IsFiniteSet(S)
    PROVE  Cardinality(S) > 1 <=> \E s, t \in S : s # t
<1>1. Cardinality(S) \in Nat /\ (Cardinality(S) = 0 <=> S = {}) /\ (Cardinality(S) = 1 <=> \E x : S = {x})
  BY FS_CardinalityType, FS_EmptySet, FS_Singleton
<1>2. (\E s, t \in S : s # t) => S # {} /\ ~ \E x : S = {x}
  OBVIOUS
<1>3. S # {} /\ ~(\E x : S = {x}) => \E s, t \in S : s # t
  OBVIOUS
<1> QED
  BY <1>1, <1>2, <1>3

LEMMA ReportedRight ==
    ASSUME Typed, Forward, Guards, phase = "report"
    PROVE  [leak |-> Leak(slice), doubleFree |-> ~SatisfiableForPairs(slice)] = Verdict(svfg, slice.root)
<1> DEFINE met == Met(svfg, slice.root)
<1>1. SliceOK(slice, svfg.sinks) /\ Slicing
  BY DEF Typed, Slicing
<1>2. CASE slice.reachGlob
  <2>1. ReachesGlobal(svfg, slice.root) /\ DOMAIN slice.vfCond = {}
    BY <1>1, <1>2 DEF Forward, ForwardWithin, Guards, Unsolved, Judgement
  <2>2. \A n : getVFCond(slice, n) = {}
    BY <2>1 DEF getVFCond, FalseCond
  <2>3. SatisfiableForPairs(slice)
    BY <2>2 DEF SatisfiableForPairs, FalseCond
  <2>4. Leak(slice) = "none"
    BY <1>2 DEF Leak
  <2> QED
    BY <2>1, <2>3, <2>4 DEF Verdict
<1>3. CASE ~slice.reachGlob
  <2>1. /\ ~ReachesGlobal(svfg, slice.root) /\ slice.sinks = SinksOf(svfg, slice.root)
        /\ slice.backwardslice = SliceOf(svfg, slice.root)
        /\ slice.partialReachable <=> slice.sinks # {}
        /\ slice.fullReachable <=> SatisfiableForAll(slice)
    BY <1>1, <1>3, ForwardDone DEF Guards, GuardsWithin, Guarding, Forward, ForwardWithin, Judgement
  <2>2. \A as \in SUBSET Atom : met[as] = {s \in slice.sinks : as \in getVFCond(slice, s)}
    <3>1. ASSUME NEW as \in SUBSET Atom
          PROVE  met[as] = Taken(svfg, slice.root, slice.backwardslice, as) \cap slice.sinks
      BY <2>1 DEF Met
    <3> QED
      BY <1>3, <3>1, GuardsDone DEF TrueCond
  <2>3. \A n : getVFCond(slice, n) \subseteq SUBSET Atom
    BY <1>1 DEF SliceOK, getVFCond, Cond, FalseCond
  <2> HIDE DEF met
  <2>4. SatisfiableForAll(slice) <=> \A as \in SUBSET Atom : met[as] # {}
    BY <2>2, <2>3 DEF SatisfiableForAll, TrueCond
  <2>5. SatisfiableForPairs(slice) <=> ~ \E as \in SUBSET Atom : Cardinality(met[as]) > 1
    <3>1. ASSUME NEW as \in SUBSET Atom
          PROVE  Cardinality(met[as]) > 1 <=> \E s, t \in met[as] : s # t
      <4>1. met[as] \in SUBSET SVFGNode
        BY <1>1, <2>2, GraphOK DEF SliceOK, Typed
      <4>2. IsFiniteSet(met[as])
        BY <4>1, PathBoundAssumption, FS_Subset
      <4> DEFINE S == met[as]
      <4>3. IsFiniteSet(S)
        BY <4>2
      <4> HIDE DEF S
      <4>4. Cardinality(S) > 1 <=> \E s, t \in S : s # t
        BY <4>3, MoreThanOne
      <4> QED
        BY <4>4 DEF S
    <3>2. SatisfiableForPairs(slice) <=> \A as \in SUBSET Atom : ~ \E s, t \in met[as] : s # t
      BY <2>2, <2>3 DEF SatisfiableForPairs, FalseCond
    <3> QED
      BY <3>1, <3>2
  <2>6. Leak(slice) = IF \A as \in SUBSET Atom : met[as] # {} THEN "none"
                      ELSE IF SinksOf(svfg, slice.root) = {} THEN "never" ELSE "partial"
    BY <1>3, <2>1, <2>4 DEF Leak
  <2>7. Verdict(svfg, slice.root) =
            [leak |-> IF \A as \in SUBSET Atom : met[as] # {} THEN "none"
                      ELSE IF SinksOf(svfg, slice.root) = {} THEN "never" ELSE "partial",
             doubleFree |-> \E as \in SUBSET Atom : Cardinality(met[as]) > 1]
    BY <2>1 DEF Verdict, met
  <2> QED
    BY <2>5, <2>6, <2>7
<1> QED
  BY <1>2, <1>3

Inv == Typed /\ Forward /\ Backward /\ Guards /\ JudgedAlone

LEMMA InvInit == Init => Inv
BY TypedInit, ForwardInit DEF Init, Inv, Backward, BackwardWithin, BackwardTaken, Guards, GuardsWithin,
   GuardsTaken, Unsolved, Judgement, Guarding, Slicing, JudgedAlone

LEMMA InvNext == Inv /\ [Next]_vars => Inv'
<1> SUFFICES ASSUME Inv, [Next]_vars PROVE JudgedAlone'
  BY TypedNext, ForwardNext, BackwardNext, GuardsNext DEF Inv
<1>1. CASE ReportBug
  <2>1. /\ DOMAIN verdicts' = DOMAIN verdicts \cup {slice.root} /\ svfg' = svfg
        /\ \A n \in DOMAIN verdicts' :
              verdicts'[n] = IF n = slice.root
                             THEN [leak |-> Leak(slice), doubleFree |-> ~SatisfiableForPairs(slice)]
                             ELSE verdicts[n]
    BY <1>1 DEF ReportBug
  <2>2. [leak |-> Leak(slice), doubleFree |-> ~SatisfiableForPairs(slice)] = Verdict(svfg, slice.root)
    BY <1>1, ReportedRight DEF ReportBug, Inv
  <2> QED
    BY <2>1, <2>2 DEF Inv, JudgedAlone
<1>2. CASE UNCHANGED <<svfg, verdicts>>
  BY <1>2 DEF Inv, JudgedAlone
<1> QED
  BY <1>1, <1>2 DEF Next, Step, InitSrcs, SetCurSlice, ForwardTraverse, BackwardTraverse, SolveGuards,
     ForwardEnd, PushSink, StartGuards, EndGuards, Finalize, vars

\* The inductive invariant: types, the slices and the conditions of the
\* source at hand, and the verdicts given so far.
THEOREM Invariance == Spec => []Inv
BY InvInit, InvNext, PTL DEF Spec

\* A source is judged as if it were the only one, whatever was visited,
\* sliced and solved before, and in whatever order the worklist is served:
\* clearVisitedMap leaves nothing of the last slice.
THEOREM VerdictsRight == Spec => []JudgedAlone
<1>1. Inv => JudgedAlone
  BY DEF Inv
<1> QED
  BY <1>1, Invariance, PTL

\* AllPathReachableSolve: the condition of a node is the disjunction over
\* the paths that reach it of the conjunctions of their guards, when it is
\* done; on the way it is never weaker.
THEOREM ConditionsRight == Spec => []GuardsExact
<1>1. ASSUME Inv, Guarding, NEW as \in SUBSET Atom, NEW n \in slice.backwardslice
      PROVE  /\ as \in getVFCond(slice, n) => n \in Taken(svfg, slice.root, slice.backwardslice, as)
             /\ phase = "report" /\ n \in Taken(svfg, slice.root, slice.backwardslice, as)
                   => as \in getVFCond(slice, n)
  <2>1. as \in getVFCond(slice, n) => n \in DOMAIN slice.vfCond /\ as \in slice.vfCond[n]
    BY DEF getVFCond, FalseCond
  <2> QED
    BY <1>1, <2>1, GuardsDone DEF Inv, Guards, GuardsWithin, Guarding, TrueCond
<1>2. Inv => GuardsExact
  BY <1>1 DEF GuardsExact, Guarding
<1> QED
  BY <1>2, Invariance, PTL
-----------------------------------------------------------------------------
(* Allocations and the sources initSrcs comes to.                          *)

\* The edges Returned follows, and its closure.
LEMMA ReturnedLeast ==
    ASSUME svfg \in Inputs, NEW n \in SVFGNode
    PROVE  /\ n \in Returned(n) /\ Returned(n) \subseteq SVFGNode
           /\ \A e \in svfg.edges : e.kind # "call" /\ e.src \in Returned(n) => e.dst \in Returned(n)
           /\ \A m \in Returned(n) : Returned(m) \subseteq Returned(n)
<1> DEFINE E == {e \in svfg.edges : e.kind # "call"}
<1>1. E \in SUBSET Edge
  BY GraphOK
<1>2. Returned(n) = Along(E, n) /\ \A m : Returned(m) = Along(E, m)
  BY DEF Returned
<1>3. \A e \in svfg.edges : e.kind # "call" => e \in E
  OBVIOUS
<1> HIDE DEF E
<1>4. n \in Along(E, n) /\ Along(E, n) \subseteq SVFGNode /\ Leads(E, Along(E, n))
  BY <1>1, AlongLeast
<1>5. ASSUME NEW m \in Along(E, n) PROVE Along(E, m) \subseteq Along(E, n)
  <2>1. m \in SVFGNode
    BY <1>4
  <2> QED
    BY <1>1, <1>4, <2>1, AlongLeast
<1> QED
  BY <1>2, <1>3, <1>4, <1>5 DEF Leads

\* The search of isInAWrapper stays where the value of n is handed on.
LEMMA BodyReturned ==
    ASSUME svfg \in Inputs, NEW n \in SVFGNode
    PROVE  WrapperBody(n) \subseteq Returned(n)
<1> DEFINE U == SUBSET SVFGNode
           B == Cardinality(SVFGNode)
           Grown(X) == UNION {seen \cup {e.dst : e \in {d \in svfg.edges : d.src \in seen /\ Tracked(d)}} :
                                 seen \in {X}}
           F == [X \in U |-> Grown(X)]
           visited[i \in 0 .. B] == IF i = 0 THEN {n} ELSE Grown(visited[i - 1])
<1>1. B \in Nat
  BY PathBoundAssumption, FS_CardinalityType
<1>2. WrapperBody(n) = visited[B]
  BY DEF WrapperBody
<1>3. ASSUME NEW X
      PROVE  Grown(X) = X \cup {e.dst : e \in {d \in svfg.edges : d.src \in X /\ Tracked(d)}}
  OBVIOUS
<1> HIDE DEF Grown, B
<1>4. F \in [U -> U]
  <2>1. ASSUME NEW X \in U PROVE Grown(X) \in U
    BY <1>3, GraphOK DEF Edge
  <2> QED
    BY <2>1
<1>5. \A X \in U : F[X] = Grown(X)
  OBVIOUS
<1>6. {n} \in U
  OBVIOUS
<1> HIDE DEF F, U
<1>7. PICK r \in [0 .. B -> U] : Iterates(r, {n}, F, B)
  BY <1>1, <1>4, <1>6, Iteration
<1>8. r = [i \in 0 .. B |-> IF i = 0 THEN {n} ELSE Grown(r[i - 1])]
  <2>1. ASSUME NEW i \in 0 .. B, i # 0 PROVE r[i] = Grown(r[i - 1])
    <3>1. i - 1 \in 0 .. B /\ i \in 1 .. B
      BY <1>1, <2>1
    <3> QED
      BY <1>5, <1>7, <3>1 DEF Iterates
  <2> QED
    BY <1>7, <2>1 DEF Iterates
<1>9. visited = [i \in 0 .. B |-> IF i = 0 THEN {n} ELSE Grown(visited[i - 1])]
  BY <1>8 DEF visited
<1> HIDE DEF visited
<1>10. visited[0] = {n} /\ \A i \in 1 .. B : visited[i] = Grown(visited[i - 1])
  <2>1. \A i \in 0 .. B : visited[i] = IF i = 0 THEN {n} ELSE Grown(visited[i - 1])
    BY <1>9
  <2> QED
    BY <1>1, <2>1
<1> DEFINE P == SUBSET Returned(n)
<1>11. visited[0] \in P
  BY <1>10, ReturnedLeast
<1>12. ASSUME NEW i \in 1 .. B, visited[i - 1] \in P PROVE visited[i] \in P
  <2>1. \A e \in svfg.edges : Tracked(e) => e.kind # "call"
    BY DEF Tracked
  <2> QED
    BY <1>3, <1>10, <1>12, <2>1, ReturnedLeast
<1> HIDE DEF P
<1>13. \A i \in 0 .. B : visited[i] \in P
  BY <1>1, <1>11, <1>12, StaysIn
<1>14. B \in 0 .. B
  BY <1>1
<1> QED
  BY <1>2, <1>13, <1>14 DEF P

LEMMA CallersOK ==
    ASSUME svfg \in Inputs, NEW cs \in CallSite
    PROVE  /\ CallersOf(cs) \subseteq ReturnSites(cs) /\ ReturnSites(cs) \subseteq CallSite
           /\ isInAWrapper(svfg.retNode[cs]) =>
                 CallersOf(cs) = ReturnSites(cs) /\ ReturnSites(cs) # {}
<1> DEFINE n == svfg.retNode[cs]
<1>1. \A e \in WrapperEdges(n) : e \in svfg.edges
  BY DEF WrapperEdges
<1>2. \A e \in svfg.edges : e.kind = "ret" => e.cs \in CallSite
  BY GraphOK DEF Edge
<1>3. ReturnSites(cs) = {e.cs : e \in {d \in WrapperEdges(n) : d.kind = "ret"}}
  BY DEF ReturnSites
<1>4. CallersOf(cs) = IF isInAWrapper(n)
                      THEN {e.cs : e \in {d \in WrapperEdges(n) : d.kind = "ret"}} ELSE {}
  BY DEF CallersOf
<1>5. isInAWrapper(n) => \E e \in WrapperEdges(n) : e.kind = "ret"
  BY DEF isInAWrapper
<1> QED
  BY <1>1, <1>2, <1>3, <1>4, <1>5

\* What initSrcs pushes: allocations, and the callers of what it pushed.
LEMMA SourceSitesClosed ==
    ASSUME svfg \in Inputs
    PROVE  /\ svfg.allocs \subseteq SourceSites /\ SourceSites \subseteq CallSite
           /\ \A cs \in SourceSites : CallersOf(cs) \subseteq SourceSites
<1> DEFINE U == SUBSET CallSite
           B == Cardinality(CallSite)
           A == svfg.allocs
           Grown(X) == UNION {before \cup UNION {CallersOf(cs) : cs \in before} : before \in {X}}
           F == [X \in U |-> Grown(X)]
           pushed[i \in 0 .. B] == IF i = 0 THEN A ELSE Grown(pushed[i - 1])
<1>1. IsFiniteSet(CallSite) /\ B \in Nat
  BY InputsAssumption, FS_CardinalityType
<1>2. SourceSites = CallSite \cap pushed[B]
  BY DEF SourceSites
<1>3. ASSUME NEW X PROVE Grown(X) = X \cup UNION {CallersOf(cs) : cs \in X}
  OBVIOUS
<1>4. A \in U
  BY InputsAssumption DEF InputOK
<1>5. A = svfg.allocs /\ B = Cardinality(CallSite)
  OBVIOUS
<1> HIDE DEF Grown, B, A
<1>6. F \in [U -> U]
  <2>1. ASSUME NEW X \in U PROVE Grown(X) \in U
    BY <1>3, CallersOK
  <2> QED
    BY <2>1
<1>7. \A X \in U : F[X] = Grown(X)
  OBVIOUS
<1> HIDE DEF F
<1>8. PICK r \in [0 .. B -> U] : Iterates(r, A, F, B)
  <2> HIDE DEF U
  <2> QED
    BY <1>1, <1>4, <1>6, Iteration
<1>9. r = [i \in 0 .. B |-> IF i = 0 THEN A ELSE Grown(r[i - 1])]
  <2>1. ASSUME NEW i \in 0 .. B, i # 0 PROVE r[i] = Grown(r[i - 1])
    <3>1. i - 1 \in 0 .. B /\ i \in 1 .. B
      BY <1>1, <2>1
    <3> QED
      BY <1>7, <1>8, <3>1 DEF Iterates
  <2> QED
    BY <1>8, <2>1 DEF Iterates
<1>10. pushed = [i \in 0 .. B |-> IF i = 0 THEN A ELSE Grown(pushed[i - 1])]
  BY <1>9 DEF pushed
<1> HIDE DEF pushed
<1>11. pushed[0] = A /\ \A i \in 1 .. B : pushed[i] = Grown(pushed[i - 1])
  <2>1. \A i \in 0 .. B : pushed[i] = IF i = 0 THEN A ELSE Grown(pushed[i - 1])
    BY <1>10
  <2> QED
    BY <1>1, <2>1
<1> DEFINE P == {X \in SUBSET CallSite : A \subseteq X}
<1>12. pushed[0] \in P
  BY <1>4, <1>11
<1>13. ASSUME NEW i \in 1 .. B, pushed[i - 1] \in P PROVE pushed[i] \in P
  <2>1. \A cs \in pushed[i - 1] : CallersOf(cs) \subseteq CallSite
    BY <1>13, CallersOK
  <2> QED
    BY <1>3, <1>11, <1>13, <2>1
<1> HIDE DEF P
<1>14. \A i \in 0 .. B : pushed[i] \in P
  BY <1>1, <1>12, <1>13, StaysIn
<1>15. F[pushed[B]] = pushed[B]
  <2>1. \A X \in SUBSET CallSite : X \subseteq F[X]
    BY <1>3, <1>7
  <2>2. ASSUME NEW i \in 1 .. B PROVE pushed[i] = F[pushed[i - 1]]
    <3>1. i - 1 \in 0 .. B
      BY <1>1
    <3>2. pushed[i - 1] \in U
      BY <1>14, <3>1 DEF P
    <3> QED
      BY <1>7, <1>11, <3>2
  <2>3. Climbs(pushed, A, F, B, CallSite)
    BY <1>4, <1>6, <1>11, <2>1, <2>2 DEF Climbs, Iterates
  <2>4. Cardinality(CallSite) <= B
    BY <1>1, <1>5
  <2> QED
    BY <1>1, <2>3, <2>4, Stable
<1>16. B \in 0 .. B
  BY <1>1
<1>17. pushed[B] \in SUBSET CallSite /\ A \subseteq pushed[B] /\ SourceSites = pushed[B]
  BY <1>2, <1>14, <1>16 DEF P
<1>18. \A cs \in pushed[B] : CallersOf(cs) \subseteq pushed[B]
  BY <1>3, <1>7, <1>15, <1>17
<1> QED
  BY <1>5, <1>17, <1>18

\* What initSrcs leaves in sources.
SourcesFound == {n \in {svfg.retNode[cs] : cs \in SourceSites \ svfg.dead} : ~isInAWrapper(n)}

\* The call sites the value of an allocation comes to are not all those of
\* wrappers, unless it is never called.
LEMMA AllocationsHaveSources ==
    ASSUME svfg \in Inputs, NEW cs \in svfg.allocs, ~NeverCalled(cs)
    PROVE  Returned(svfg.retNode[cs]) \cap SourcesFound # {}
<1> DEFINE n == svfg.retNode[cs]
           S == {c \in SourceSites : svfg.retNode[c] \in Returned(n)}
<1>1. cs \in CallSite /\ svfg.retNode \in [CallSite -> SVFGNode] /\ cs \in SourceSites
  BY SourceSitesClosed, GraphOK
<1>2. n \in SVFGNode
  BY <1>1
<1>3. cs \in S /\ S \in SUBSET CallSite
  BY <1>1, <1>2, ReturnedLeast, SourceSitesClosed
<1>4. PICK c \in S \ svfg.dead : ~(ReturnSites(c) # {} /\ ReturnSites(c) \subseteq S)
  BY <1>3 DEF NeverCalled
<1> DEFINE m == svfg.retNode[c]
<1>5. c \in CallSite /\ c \in SourceSites /\ m \in SVFGNode /\ m \in Returned(n)
  BY <1>1, <1>3, <1>4
<1>6. CASE isInAWrapper(m)
  <2>1. ReturnSites(c) # {} /\ ReturnSites(c) \subseteq SourceSites
    BY <1>5, <1>6, CallersOK, SourceSitesClosed
  <2>2. ASSUME NEW e \in WrapperEdges(m), e.kind = "ret" PROVE svfg.retNode[e.cs] \in Returned(n)
    <3>1. e \in svfg.edges /\ e.src \in WrapperBody(m) /\ ~e.indirect
      BY <1>6, <2>2 DEF WrapperEdges, isInAWrapper
    <3>2. e.dst = svfg.retNode[e.cs]
      BY <2>2, <3>1, InputsAssumption DEF InputOK
    <3>3. e.src \in Returned(n)
      BY <1>2, <1>5, <3>1, BodyReturned, ReturnedLeast
    <3>4. e.dst \in Returned(n)
      BY <1>2, <2>2, <3>1, <3>3, ReturnedLeast
    <3> QED
      BY <3>2, <3>4
  <2>3. \A d \in ReturnSites(c) : svfg.retNode[d] \in Returned(n)
    BY <2>2 DEF ReturnSites
  <2> QED
    BY <1>4, <2>1, <2>3
<1>7. CASE ~isInAWrapper(m)
  BY <1>4, <1>5, <1>7 DEF SourcesFound
<1> QED
  BY <1>6, <1>7

\* No source is lost: it waits, or it is judged.
Kept ==
    /\ phase # "init" => SourcesFound \subseteq sources \cup DOMAIN verdicts
    /\ phase = "done" => sources = {}

LEMMA KeptInit == Init => Kept
BY DEF Init, Kept

LEMMA KeptNext == Kept /\ [Next]_vars => Kept'
<1> SUFFICES ASSUME Kept, [Next]_vars PROVE Kept'
  OBVIOUS
<1>1. ASSUME svfg' = svfg PROVE SourcesFound' = SourcesFound
  BY <1>1 DEF SourcesFound, SourceSites, CallersOf, isInAWrapper, WrapperEdges, WrapperBody, Tracked
<1>2. CASE InitSrcs
  <2>1. sources' = SourcesFound /\ svfg' = svfg /\ phase' = "next"
    BY <1>2 DEF InitSrcs, SourcesFound
  <2> QED
    BY <1>1, <2>1 DEF Kept
<1>3. CASE ReportBug
  <2>1. /\ sources' = sources \ {slice.root} /\ DOMAIN verdicts' = DOMAIN verdicts \cup {slice.root}
        /\ svfg' = svfg /\ phase = "report" /\ phase' = "next"
    BY <1>3 DEF ReportBug
  <2> QED
    BY <1>1, <2>1 DEF Kept
<1>4. CASE Finalize
  BY <1>1, <1>4 DEF Finalize, Kept
<1>5. CASE phase # "init" /\ UNCHANGED <<svfg, sources, verdicts>> /\ phase' \notin {"init", "done"}
  BY <1>1, <1>5 DEF Kept
<1>6. CASE UNCHANGED vars
  BY <1>1, <1>6 DEF Kept, vars
<1> QED
  BY <1>2, <1>3, <1>4, <1>5, <1>6 DEF Next, Step, SetCurSlice, ForwardTraverse, BackwardTraverse,
     SolveGuards, ForwardEnd, PushSink, StartGuards, EndGuards

\* initSrcs: behind wrappers, chains and cycles of them, every allocation
\* comes to a source, and every source is judged.
THEOREM SourcesComplete == Spec => []AllocationsJudged
<1>1. Inv /\ Kept => AllocationsJudged
  <2> SUFFICES ASSUME Inv, Kept, phase = "done", NEW cs \in svfg.allocs, ~NeverCalled(cs)
               PROVE  Returned(svfg.retNode[cs]) \cap DOMAIN verdicts # {}
    BY DEF AllocationsJudged
  <2>1. SourcesFound \subseteq DOMAIN verdicts
    BY DEF Kept
  <2>2. Returned(svfg.retNode[cs]) \cap SourcesFound # {}
    BY AllocationsHaveSources DEF Inv, Typed
  <2> QED
    BY <2>1, <2>2
<1> QED
  BY <1>1, Invariance, KeptInit, KeptNext, PTL DEF Spec
=============================================================================
