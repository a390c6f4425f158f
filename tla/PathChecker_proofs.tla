------------------------- MODULE PathChecker_proofs -------------------------
(***************************************************************************)
(* What the path checker reports is right for every value-flow graph and   *)
(* every limit on call strings: no path from a source to a sink is lost,   *)
(* and nothing else is sliced.  The invariant is the usual one of a        *)
(* worklist algorithm: what was entered and no longer waits has had all    *)
(* its steps taken, and what was entered lies in every closed set.         *)
(***************************************************************************)
EXTENDS PathCheckerReference, Iteration_proofs, SequenceTheorems
-----------------------------------------------------------------------------
(* Call strings stay within their limit.                                   *)

\* The call strings the traversal works with.
Cxt == {c \in Seq(CallSite) : Len(c) <= CxtLimit}

\* Pushing and popping keep call strings within the limit.
LEMMA ContextsType ==
    ASSUME NEW c \in Cxt, NEW e \in Edge
    PROVE  Contexts(e, c) \subseteq Cxt
<1>1. CxtLimit \in Nat
  BY CxtLimitAssumption
<1>2. c \in Seq(CallSite) /\ Len(c) \in Nat /\ Len(c) <= CxtLimit
  BY DEF Cxt
<1>3. ASSUME e.kind = "call" PROVE PushContext(c, e.cs) \in Cxt
  <2>1. e.cs \in CallSite
    BY <1>3 DEF Edge
  <2>2. CASE Len(c) < CxtLimit
    BY <1>1, <1>2, <2>1, <2>2 DEF PushContext, Cxt
  <2>3. CASE ~(Len(c) < CxtLimit) /\ c # <<>>
    <3>1. Tail(c) \in Seq(CallSite) /\ Len(Tail(c)) = Len(c) - 1
      BY <1>2, <2>3
    <3>2. Append(Tail(c), e.cs) \in Seq(CallSite) /\ Len(Append(Tail(c), e.cs)) = Len(c)
      BY <1>2, <2>1, <3>1
    <3> QED
      BY <1>2, <2>3, <3>2 DEF PushContext, Cxt
  <2>4. CASE ~(Len(c) < CxtLimit) /\ c = <<>>
    BY <2>4 DEF PushContext
  <2> QED
    BY <2>2, <2>3, <2>4
<1>4. PopContext(c) \in Cxt
  <2>1. Len(c) - 1 \in Int /\ \A i \in 1 .. Len(c) - 1 : c[i] \in CallSite
    BY <1>2
  <2>2. /\ SubSeq(c, 1, Len(c) - 1) \in Seq(CallSite)
        /\ Len(SubSeq(c, 1, Len(c) - 1)) = IF 1 <= Len(c) - 1 THEN Len(c) - 1 - 1 + 1 ELSE 0
    BY <2>1, SubSeqProperties
  <2> QED
    BY <1>1, <1>2, <2>2 DEF PopContext, Cxt
<1> QED
  BY <1>3, <1>4 DEF Contexts

LEMMA NextItemsType ==
    ASSUME NEW E \in SUBSET Edge, NEW x \in SVFGNode \X Cxt
    PROVE  NextItems(E, x) \subseteq SVFGNode \X Cxt
<1>1. x[1] \in SVFGNode /\ x[2] \in Cxt
  OBVIOUS
<1>2. ASSUME NEW e \in OutEdges(E, x[1])
      PROVE  {e.dst} \X Contexts(e, x[2]) \subseteq SVFGNode \X Cxt
  <2>1. e \in Edge
    BY DEF OutEdges
  <2>2. e.dst \in SVFGNode
    BY <2>1 DEF Edge
  <2>3. Contexts(e, x[2]) \subseteq Cxt
    BY <1>1, <2>1, ContextsType
  <2> QED
    BY <2>2, <2>3
<1> QED
  BY <1>2 DEF NextItems

LEMMA LimitInItems ==
    /\ SVFGNode \X Cxt \subseteq Item
    /\ \A x \in SVFGNode \X Cxt : Len(x[2]) <= CxtLimit
    /\ \A n \in SVFGNode : <<n, <<>>>> \in SVFGNode \X Cxt
<1>1. <<>> \in Cxt
  BY CxtLimitAssumption DEF Cxt
<1> QED
  BY <1>1 DEF Item, Cxt
-----------------------------------------------------------------------------

Inv == TypeOK /\ ForwardClosed /\ (phase = "init" => forwardVisited = {})

\* What TypeOK says of items.
LEMMA ItemsInLimit ==
    ASSUME TypeOK
    PROVE  worklist \subseteq SVFGNode \X Cxt /\ forwardVisited \subseteq SVFGNode \X Cxt
<1>1. ASSUME NEW x \in worklist \cup forwardVisited PROVE x \in SVFGNode \X Cxt
  <2>1. x \in SVFGNode \X Seq(CallSite) /\ Len(x[2]) <= CxtLimit
    BY DEF TypeOK, Item
  <2>2. x[2] \in Cxt
    BY <2>1 DEF Cxt
  <2> QED
    BY <2>1, <2>2
<1> QED
  BY <1>1

LEMMA InitInv == Init => Inv
<1> SUFFICES ASSUME NEW in \in Inputs,
                    edges = Edited(in) /\ sources = in.sources /\ sinks = in.sinks,
                    phase = "init" /\ root = NoNode,
                    forwardslice = {} /\ backwardslice = {} /\ sinksMet = {},
                    worklist = {} /\ forwardVisited = {} /\ backwardVisited = {}
             PROVE  Inv
  BY DEF Init
<1>1. in \in InputType
  BY InputsAssumption
<1>2. in.edges \subseteq Edge /\ in.addEdge \subseteq SVFGNode \X SVFGNode
      /\ in.sources \subseteq SVFGNode /\ in.sinks \subseteq SVFGNode
  BY <1>1 DEF InputType
<1>3. \A p \in in.addEdge : IntraEdge(p[1], p[2]) \in Edge
  BY <1>2 DEF IntraEdge, Edge
<1>4. Edited(in) \subseteq Edge
  BY <1>2, <1>3 DEF Edited
<1> QED
  BY <1>2, <1>4 DEF Inv, TypeOK, ForwardClosed

LEMMA NextInv == Inv /\ [Next]_vars => Inv'
<1> SUFFICES ASSUME Inv, [Next]_vars PROVE Inv'
  OBVIOUS
<1> USE DEF Inv
<1>0. /\ worklist \subseteq SVFGNode \X Cxt /\ forwardVisited \subseteq SVFGNode \X Cxt
      /\ SVFGNode \X Cxt \subseteq Item
      /\ \A x \in SVFGNode \X Cxt : Len(x[2]) <= CxtLimit
      /\ \A n \in SVFGNode : <<n, <<>>>> \in SVFGNode \X Cxt
  BY ItemsInLimit, LimitInItems
<1>1. CASE PushSources
  <2>1. worklist' \subseteq SVFGNode \X Cxt
    BY <1>0, <1>1 DEF PushSources, TypeOK
  <2>2. TypeOK'
    BY <1>0, <1>1, <2>1 DEF PushSources, TypeOK, graph
  <2>3. ForwardClosed'
    <3>1. phase' = "forward" /\ forwardVisited' = {} /\ worklist' = Sources'
      BY <1>1 DEF PushSources, graph, Sources
    <3> QED
      BY <3>1 DEF ForwardClosed
  <2> QED
    BY <1>1, <2>2, <2>3 DEF PushSources
<1>2. ASSUME NEW x \in worklist, ForwardTraverse(x) PROVE Inv'
  <2> DEFINE new == Unvisited(NextItems(edges, x))
  <2>1. NextItems(edges, x) \subseteq SVFGNode \X Cxt
    BY <1>0, NextItemsType DEF TypeOK
  <2>2. /\ phase = "forward" /\ phase' = "forward"
        /\ forwardslice' = forwardslice \cup {x[1]}
        /\ sinksMet' = sinksMet \cup ({x[1]} \cap sinks)
        /\ forwardVisited' = forwardVisited \cup new
        /\ worklist' = (worklist \ {x}) \cup new
        /\ UNCHANGED <<edges, sources, sinks, root, backwardslice, backwardVisited>>
    BY <1>2 DEF ForwardTraverse, graph
  <2>3. new \subseteq SVFGNode \X Cxt /\ NextItems(edges, x) \subseteq forwardVisited'
    BY <2>1, <2>2 DEF Unvisited
  <2>4. TypeOK'
    <3>1. x[1] \in SVFGNode
      BY <1>0
    <3>2. worklist' \subseteq SVFGNode \X Cxt /\ forwardVisited' \subseteq SVFGNode \X Cxt
      BY <1>0, <2>2, <2>3
    <3> QED
      BY <1>0, <2>2, <3>1, <3>2 DEF TypeOK
  <2>5. ForwardClosed'
    <3> SUFFICES ASSUME NEW y \in (Sources' \cup forwardVisited') \ worklist'
                 PROVE  y[1] \in forwardslice' /\ NextItems(edges, y) \subseteq forwardVisited'
      BY <2>2 DEF ForwardClosed
    <3>1. CASE y = x
      BY <2>2, <2>3, <3>1
    <3>2. CASE y # x
      <4>1. y \in (Sources \cup forwardVisited) \ worklist
        BY <2>2, <3>2 DEF Sources
      <4> QED
        BY <2>2, <4>1 DEF ForwardClosed
    <3> QED
      BY <3>1, <3>2
  <2> QED
    BY <2>2, <2>4, <2>5
<1>3. CASE PushSinks
  <2>1. /\ phase = "forward" /\ worklist = {} /\ phase' \in {"backward", "crashed"}
        /\ worklist' \subseteq {<<s, <<>>>> : s \in sinksMet}
        /\ UNCHANGED <<edges, sources, sinks, root, forwardslice, backwardslice, sinksMet,
                       forwardVisited, backwardVisited>>
    BY <1>3 DEF PushSinks, graph
  <2>2. worklist' \subseteq SVFGNode \X Cxt
    BY <1>0, <2>1 DEF TypeOK
  <2>3. TypeOK'
    BY <1>0, <2>1, <2>2 DEF TypeOK
  <2>4. ForwardClosed'
    BY <2>1 DEF ForwardClosed, Sources
  <2> QED
    BY <2>1, <2>3, <2>4
<1>4. ASSUME NEW x \in worklist, BackwardTraverse(x) PROVE Inv'
  <2> DEFINE new == {e.src : e \in InEdges(edges, x[1])} \ backwardVisited
  <2>1. /\ phase = "backward" /\ phase' = "backward"
        /\ backwardslice' = backwardslice \cup Sliced(x[1])
        /\ backwardVisited' = backwardVisited \cup new
        /\ worklist' = (worklist \ {x}) \cup {<<n, <<>>>> : n \in new}
        /\ UNCHANGED <<edges, sources, sinks, root, forwardslice, sinksMet, forwardVisited>>
    BY <1>4 DEF BackwardTraverse, graph
  <2>2. new \subseteq SVFGNode
    BY DEF TypeOK, InEdges, Edge
  <2>3. worklist' \subseteq SVFGNode \X Cxt
    BY <1>0, <2>1, <2>2
  <2>4. TypeOK'
    BY <1>0, <2>1, <2>2, <2>3 DEF TypeOK, Sliced
  <2>5. ForwardClosed'
    BY <2>1 DEF ForwardClosed, Sources
  <2> QED
    BY <2>1, <2>4, <2>5
<1>5. CASE Finalize
  <2>1. phase = "backward" /\ phase' = "done"
        /\ UNCHANGED <<edges, sources, sinks, root, forwardslice, backwardslice, sinksMet,
                       worklist, forwardVisited, backwardVisited>>
    BY <1>5 DEF Finalize, graph
  <2> QED
    BY <2>1 DEF TypeOK, ForwardClosed, Sources
<1>6. CASE UNCHANGED vars
  BY <1>6 DEF vars, graph, TypeOK, ForwardClosed, Sources
<1> QED
  BY <1>1, <1>2, <1>3, <1>4, <1>5, <1>6 DEF Next, Step, Terminated

-----------------------------------------------------------------------------
\* A set that exact steps do not leave, nor make a call string too long in.
Exactly(T) ==
    /\ Sources \subseteq T
    /\ \A x \in T : Len(x[2]) <= CxtLimit /\ ExactNext(x) \subseteq T

\* A set that holds the sinks met and is not entered from outside.
LeadingToSinks(S) == sinksMet \subseteq S /\ \A e \in edges : e.dst \in S => e.src \in S

ForwardExact ==
    \A T \in SUBSET Item : Exactly(T) =>
        /\ forwardVisited \subseteq T /\ forwardslice \subseteq NodesOf(T)
        /\ phase = "forward" => worklist \subseteq T

BackwardClosed ==
    phase \in {"backward", "done"} =>
        \A n \in sinksMet \cup backwardVisited : <<n, <<>>>> \notin worklist =>
            /\ n \in forwardslice => n \in backwardslice
            /\ \A e \in edges : e.dst = n => e.src \in backwardVisited

BackwardExact ==
    phase \in {"backward", "done"} =>
        /\ backwardslice \subseteq forwardslice
        /\ \A x \in worklist : x[2] = <<>>
        /\ \A S \in SUBSET SVFGNode : LeadingToSinks(S) =>
              backwardVisited \cup backwardslice \cup NodesOf(worklist) \subseteq S

Slices ==
    /\ sinksMet = forwardslice \cap sinks
    /\ phase = "init" => forwardslice = {}
    /\ phase \in {"init", "forward"} => backwardslice = {} /\ backwardVisited = {}
    /\ phase = "done" => worklist = {}
    /\ ForwardExact /\ BackwardClosed /\ BackwardExact

\* Where nothing is forgotten, the steps of the traversal are exact.
LEMMA StepExact ==
    ASSUME NEW T \in SUBSET Item, Exactly(T), NEW x \in T
    PROVE  NextItems(edges, x) \subseteq T
<1>1. ASSUME NEW e \in OutEdges(edges, x[1]), NEW d \in Contexts(e, x[2]) PROVE <<e.dst, d>> \in T
  <2>1. Len(x[2]) <= CxtLimit /\ ExactNext(x) \subseteq T /\ x[2] \in Seq(CallSite)
    BY DEF Exactly, Item
  <2>2. ASSUME NEW c \in Exact(e, x[2]) PROVE <<e.dst, c>> \in T
    BY <2>1, <2>2 DEF ExactNext
  <2>3. CASE e.kind = "call"
    <3>1. <<e.dst, Append(x[2], e.cs)>> \in T
      BY <2>2, <2>3 DEF Exact
    <3>2. Len(Append(x[2], e.cs)) <= CxtLimit
      BY <3>1 DEF Exactly
    <3>3. Len(x[2]) < CxtLimit
      <4>1. Len(Append(x[2], e.cs)) = Len(x[2]) + 1 /\ Len(x[2]) \in Nat
        BY <2>1
      <4> QED
        BY <3>2, <4>1, CxtLimitAssumption
    <3> QED
      BY <2>3, <3>1, <3>3 DEF Contexts, PushContext
  <2>4. CASE e.kind # "call"
    <3>1. d \in Exact(e, x[2])
      BY <2>4 DEF Contexts, Exact, MatchContext
    <3> QED
      BY <2>2, <3>1
  <2> QED
    BY <2>3, <2>4
<1> QED
  BY <1>1 DEF NextItems

LEMMA SlicesNext == Inv /\ Slices /\ [Next]_vars => Slices'
<1> SUFFICES ASSUME Inv, Slices, [Next]_vars PROVE Slices'
  OBVIOUS
<1> USE DEF Slices
<1>1. CASE PushSources
  <2>1. /\ phase' = "forward" /\ worklist' = Sources
        /\ forwardslice = {} /\ forwardVisited = {} /\ backwardslice = {} /\ backwardVisited = {}
        /\ UNCHANGED <<edges, sources, sinks, forwardslice, backwardslice, sinksMet, forwardVisited,
                       backwardVisited>>
    BY <1>1 DEF PushSources, Inv, graph, Sources
  <2>2. ForwardExact'
    BY <2>1 DEF ForwardExact, Exactly, Sources, ExactNext
  <2> QED
    BY <2>1, <2>2 DEF BackwardClosed, BackwardExact
<1>2. ASSUME NEW x \in worklist, ForwardTraverse(x) PROVE Slices'
  <2>1. /\ phase = "forward" /\ phase' = "forward"
        /\ forwardslice' = forwardslice \cup {x[1]}
        /\ sinksMet' = sinksMet \cup ({x[1]} \cap sinks)
        /\ forwardVisited' \subseteq forwardVisited \cup NextItems(edges, x)
        /\ worklist' \subseteq worklist \cup NextItems(edges, x)
        /\ UNCHANGED <<edges, sources, sinks, backwardslice, backwardVisited>>
    BY <1>2 DEF ForwardTraverse, graph, Unvisited
  <2>2. ForwardExact'
    <3> SUFFICES ASSUME NEW T \in SUBSET Item, Exactly(T)
                 PROVE  forwardVisited' \subseteq T /\ forwardslice' \subseteq NodesOf(T)
                        /\ worklist' \subseteq T
      BY <2>1 DEF ForwardExact, Exactly, Sources, ExactNext
    <3>1. x \in T /\ worklist \subseteq T /\ forwardVisited \subseteq T /\ forwardslice \subseteq NodesOf(T)
      BY <2>1 DEF ForwardExact
    <3>2. NextItems(edges, x) \subseteq T
      BY <3>1, StepExact
    <3>3. x[1] \in NodesOf(T)
      BY <3>1 DEF NodesOf
    <3> QED
      BY <2>1, <3>1, <3>2, <3>3
  <2> QED
    BY <2>1, <2>2 DEF BackwardClosed, BackwardExact
<1>3. CASE PushSinks
  <2>1. /\ phase = "forward" /\ phase' \in {"backward", "crashed"}
        /\ phase' = "backward" => worklist' = {<<s, <<>>>> : s \in sinksMet}
        /\ UNCHANGED <<edges, sources, sinks, forwardslice, backwardslice, sinksMet, forwardVisited,
                       backwardVisited>>
        /\ backwardslice = {} /\ backwardVisited = {}
    BY <1>3 DEF PushSinks, graph
  <2>2. ForwardExact'
    BY <2>1 DEF ForwardExact, Exactly, Sources, ExactNext
  <2>3. BackwardClosed' /\ BackwardExact'
    BY <2>1 DEF BackwardClosed, BackwardExact, LeadingToSinks, NodesOf
  <2> QED
    BY <2>1, <2>2, <2>3
<1>4. ASSUME NEW x \in worklist, BackwardTraverse(x) PROVE Slices'
  <2> DEFINE new == {e.src : e \in InEdges(edges, x[1])} \ backwardVisited
  <2>1. /\ phase = "backward" /\ phase' = "backward"
        /\ backwardslice' = backwardslice \cup ({x[1]} \cap forwardslice)
        /\ backwardVisited' = backwardVisited \cup new
        /\ worklist' = (worklist \ {x}) \cup {<<n, <<>>>> : n \in new}
        /\ UNCHANGED <<edges, sources, sinks, forwardslice, sinksMet, forwardVisited>>
    BY <1>4 DEF BackwardTraverse, graph, Sliced
  <2>2. ForwardExact'
    BY <2>1 DEF ForwardExact, Exactly, Sources, ExactNext
  <2>3. x = <<x[1], <<>>>>
    BY <2>1 DEF BackwardExact, Inv, TypeOK, Item
  <2>4. BackwardClosed'
    <3> SUFFICES ASSUME NEW n \in sinksMet \cup backwardVisited', <<n, <<>>>> \notin worklist'
                 PROVE  /\ n \in forwardslice => n \in backwardslice'
                        /\ \A e \in edges : e.dst = n => e.src \in backwardVisited'
      BY <2>1 DEF BackwardClosed
    <3>1. n \notin new
      BY <2>1
    <3>2. CASE n = x[1]
      BY <2>1, <3>2 DEF InEdges
    <3>3. CASE n # x[1]
      <4>1. <<n, <<>>>> \notin worklist /\ n \in sinksMet \cup backwardVisited
        BY <2>1, <2>3, <3>1, <3>3
      <4> QED
        BY <2>1, <4>1 DEF BackwardClosed
    <3> QED
      BY <3>2, <3>3
  <2>5. BackwardExact'
    <3>1. ASSUME NEW S \in SUBSET SVFGNode, LeadingToSinks(S)
          PROVE  backwardVisited' \cup backwardslice' \cup NodesOf(worklist)' \subseteq S
      <4>1. backwardVisited \cup backwardslice \cup NodesOf(worklist) \subseteq S
        BY <2>1, <3>1 DEF BackwardExact
      <4>2. x[1] \in S
        BY <4>1 DEF NodesOf
      <4>3. new \subseteq S
        BY <3>1, <4>2 DEF LeadingToSinks, InEdges
      <4> HIDE DEF new
      <4>4. NodesOf(worklist)' \subseteq NodesOf(worklist) \cup new
        BY <2>1 DEF NodesOf
      <4> QED
        BY <2>1, <4>1, <4>2, <4>3, <4>4
    <3>2. \A y \in worklist' : y[2] = <<>>
      BY <2>1 DEF BackwardExact
    <3> QED
      BY <2>1, <3>1, <3>2 DEF BackwardExact, LeadingToSinks
  <2> QED
    BY <2>1, <2>2, <2>4, <2>5
<1>5. CASE Finalize
  <2>1. /\ phase = "backward" /\ phase' = "done" /\ worklist = {}
        /\ UNCHANGED <<edges, sources, sinks, forwardslice, backwardslice, sinksMet, worklist,
                       forwardVisited, backwardVisited>>
    BY <1>5 DEF Finalize, graph
  <2>2. ForwardExact' /\ BackwardClosed' /\ BackwardExact'
    BY <2>1 DEF ForwardExact, BackwardClosed, BackwardExact, Exactly, Sources, ExactNext,
                LeadingToSinks, NodesOf
  <2> QED
    BY <2>1, <2>2
<1>6. CASE UNCHANGED vars
  <2>1. ForwardExact' /\ BackwardClosed' /\ BackwardExact'
    BY <1>6 DEF vars, graph, ForwardExact, BackwardClosed, BackwardExact, Exactly, Sources, ExactNext,
                LeadingToSinks, NodesOf
  <2> QED
    BY <1>6, <2>1 DEF vars, graph
<1> QED
  BY <1>1, <1>2, <1>3, <1>4, <1>5, <1>6 DEF Next, Step, Terminated

LEMMA SlicesInit == Init => Slices
BY DEF Init, Slices, ForwardExact, BackwardClosed, BackwardExact

THEOREM Invariance == Spec => [](Inv /\ Slices)
BY InitInv, NextInv, SlicesInit, SlicesNext, PTL DEF Spec
-----------------------------------------------------------------------------
\* The types hold, and no call string grows past its limit (pushContext).
THEOREM TypeCorrect == Spec => []TypeOK
<1>1. Inv => TypeOK
  BY DEF Inv
<1> QED
  BY <1>1, InitInv, NextInv, PTL DEF Spec

\* Whatever order the worklist is served in, a step is only left out when
\* the node was entered before with the same call string; so that when the
\* worklist is empty the forward slice is closed.
THEOREM SliceClosed == Spec => []ForwardClosed
<1>1. Inv => ForwardClosed
  BY DEF Inv
<1> QED
  BY <1>1, InitInv, NextInv, PTL DEF Spec


(***************************************************************************)
(* No realizable path is lost by forgetting call sites: the traversal      *)
(* keeps a suffix of the exact call string, possibly the empty one, and    *)
(* what an exact step does to the string it does to the suffix as well.    *)
(***************************************************************************)
Suffix(s, c) ==
    /\ Len(s) <= Len(c)
    /\ \A i \in 1 .. Len(s) : s[i] = c[Len(c) - Len(s) + i]

LEMMA SuffixIntro ==
    ASSUME NEW s, NEW c, NEW k \in Nat, NEW n \in Nat, Len(s) = k, Len(c) = n, k <= n,
           \A i \in 1 .. k : s[i] = c[n - k + i]
    PROVE  Suffix(s, c)
BY DEF Suffix

LEMMA PushSuffix ==
    ASSUME NEW s \in Cxt, NEW c \in Seq(CallSite), NEW cs \in CallSite, Suffix(s, c)
    PROVE  Suffix(PushContext(s, cs), Append(c, cs))
<1> DEFINE d == Append(c, cs)
<1>1. /\ s \in Seq(CallSite) /\ Len(s) \in Nat /\ Len(c) \in Nat /\ CxtLimit \in Nat
      /\ Len(s) <= CxtLimit /\ Len(s) <= Len(c)
      /\ \A i \in 1 .. Len(s) : s[i] = c[Len(c) - Len(s) + i]
  BY CxtLimitAssumption DEF Cxt, Suffix
<1>2. /\ Len(d) = Len(c) + 1 /\ d[Len(c) + 1] = cs
      /\ \A i \in 1 .. Len(c) : d[i] = c[i]
  OBVIOUS
<1> HIDE DEF d
<1>3. CASE Len(s) < CxtLimit
  <2> DEFINE t == Append(s, cs)
  <2>1. PushContext(s, cs) = t
    BY <1>3 DEF PushContext
  <2>2. /\ Len(t) = Len(s) + 1 /\ t[Len(s) + 1] = cs
        /\ \A i \in 1 .. Len(s) : t[i] = s[i]
    BY <1>1
  <2> HIDE DEF t
  <2>3. ASSUME NEW i \in 1 .. Len(s) + 1
        PROVE  t[i] = d[Len(c) + 1 - (Len(s) + 1) + i]
    <3>1. CASE i = Len(s) + 1
      BY <1>1, <1>2, <2>2, <3>1
    <3>2. CASE i # Len(s) + 1
      <4>1. i \in 1 .. Len(s) /\ Len(c) - Len(s) + i \in 1 .. Len(c)
            /\ Len(c) + 1 - (Len(s) + 1) + i = Len(c) - Len(s) + i
        BY <1>1, <3>2
      <4> QED
        BY <1>1, <1>2, <2>2, <4>1
    <3> QED
      BY <3>1, <3>2
  <2>4. Len(s) + 1 \in Nat /\ Len(c) + 1 \in Nat /\ Len(s) + 1 <= Len(c) + 1
    BY <1>1
  <2>5. Suffix(t, d)
    BY <1>2, <2>2, <2>3, <2>4, SuffixIntro
  <2> QED
    BY <2>1, <2>5 DEF d
<1>4. CASE ~(Len(s) < CxtLimit) /\ s # <<>>
  <2> DEFINE t == Append(Tail(s), cs)
  <2>1. PushContext(s, cs) = t
    BY <1>4 DEF PushContext
  <2>2. Len(s) >= 1 /\ Tail(s) \in Seq(CallSite) /\ Len(Tail(s)) = Len(s) - 1
        /\ \A i \in 1 .. Len(s) - 1 : Tail(s)[i] = s[i + 1]
    BY <1>1, <1>4
  <2>3. Len(t) = Len(s) /\ t[Len(s)] = cs /\ \A i \in 1 .. Len(s) - 1 : t[i] = s[i + 1]
    BY <1>1, <2>2
  <2> HIDE DEF t
  <2>4. ASSUME NEW i \in 1 .. Len(s)
        PROVE  t[i] = d[Len(c) + 1 - Len(s) + i]
    <3>1. CASE i = Len(s)
      BY <1>1, <1>2, <2>3, <3>1
    <3>2. CASE i # Len(s)
      <4>1. i \in 1 .. Len(s) - 1 /\ i + 1 \in 1 .. Len(s)
            /\ Len(c) - Len(s) + (i + 1) \in 1 .. Len(c)
            /\ Len(c) + 1 - Len(s) + i = Len(c) - Len(s) + (i + 1)
        BY <1>1, <3>2
      <4>2. t[i] = s[i + 1]
        BY <2>3, <4>1
      <4>3. s[i + 1] = c[Len(c) - Len(s) + (i + 1)]
        BY <1>1, <4>1
      <4> QED
        BY <1>2, <4>1, <4>2, <4>3
    <3> QED
      BY <3>1, <3>2
  <2>5. Len(s) \in Nat /\ Len(c) + 1 \in Nat /\ Len(s) <= Len(c) + 1
    BY <1>1
  <2>6. Suffix(t, d)
    <3>1. Len(t) <= Len(d) /\ Len(t) = Len(s) /\ Len(d) - Len(t) = Len(c) + 1 - Len(s)
      BY <1>2, <2>3, <2>5
    <3>2. ASSUME NEW i \in 1 .. Len(t) PROVE t[i] = d[Len(d) - Len(t) + i]
      BY <2>4, <3>1
    <3> QED
      BY <3>1, <3>2 DEF Suffix
  <2> QED
    BY <2>1, <2>6 DEF d
<1>5. CASE ~(Len(s) < CxtLimit) /\ s = <<>>
  BY <1>1, <1>2, <1>5 DEF PushContext, Suffix, d
<1> QED
  BY <1>3, <1>4, <1>5

LEMMA PopSuffix ==
    ASSUME NEW s \in Cxt, NEW c \in Seq(CallSite), NEW cs \in CallSite, Suffix(s, c),
           c = <<>> \/ c[Len(c)] = cs
    PROVE  MatchContext(s, cs) /\ Suffix(PopContext(s), PopContext(c))
<1>1. /\ s \in Seq(CallSite) /\ Len(s) \in Nat /\ Len(c) \in Nat /\ Len(s) <= Len(c)
      /\ \A i \in 1 .. Len(s) : s[i] = c[Len(c) - Len(s) + i]
  BY DEF Cxt, Suffix
<1>2. ASSUME NEW d \in Seq(CallSite)
      PROVE  /\ Len(PopContext(d)) = IF d = <<>> THEN 0 ELSE Len(d) - 1
             /\ \A i \in 1 .. Len(d) - 1 : PopContext(d)[i] = d[i]
  <2>1. 1 \in Int /\ Len(d) - 1 \in Int /\ \A i \in 1 .. Len(d) - 1 : d[i] \in CallSite
    OBVIOUS
  <2>2. /\ Len(PopContext(d)) = IF 1 <= Len(d) - 1 THEN Len(d) - 1 - 1 + 1 ELSE 0
        /\ \A i \in 1 .. Len(d) - 1 - 1 + 1 : PopContext(d)[i] = d[1 + i - 1]
    BY <2>1, SubSeqProperties DEF PopContext
  <2>3. Len(d) \in Nat /\ (d = <<>> <=> Len(d) = 0)
    OBVIOUS
  <2> QED
    BY <2>2, <2>3
<1>3. CASE s = <<>>
  <2>1. Len(PopContext(s)) = 0
    BY <1>1, <1>2, <1>3
  <2>2. Len(PopContext(c)) >= 0
    BY <1>1, <1>2
  <2> QED
    BY <1>3, <2>1, <2>2 DEF MatchContext, Suffix
<1>4. CASE s # <<>>
  <2>1. Len(s) >= 1 /\ Len(c) >= 1 /\ c # <<>> /\ s[Len(s)] = c[Len(c)]
    <3>1. Len(s) >= 1
      BY <1>1, <1>4
    <3>2. Len(s) \in 1 .. Len(s) /\ Len(c) - Len(s) + Len(s) = Len(c)
      BY <1>1, <3>1
    <3> QED
      BY <1>1, <3>1, <3>2
  <2>2. Len(PopContext(s)) = Len(s) - 1 /\ Len(PopContext(c)) = Len(c) - 1
    BY <1>1, <1>2, <1>4, <2>1
  <2>3. ASSUME NEW i \in 1 .. Len(s) - 1
        PROVE  PopContext(s)[i] = PopContext(c)[Len(c) - 1 - (Len(s) - 1) + i]
    <3>1. i \in 1 .. Len(s) /\ Len(c) - Len(s) + i \in 1 .. Len(c) - 1
          /\ Len(c) - 1 - (Len(s) - 1) + i = Len(c) - Len(s) + i
      BY <1>1, <2>1
    <3>2. PopContext(s)[i] = s[i] /\ s[i] = c[Len(c) - Len(s) + i]
      BY <1>1, <1>2, <3>1
    <3>3. PopContext(c)[Len(c) - Len(s) + i] = c[Len(c) - Len(s) + i]
      BY <1>2, <3>1
    <3> QED
      BY <3>1, <3>2, <3>3
  <2> QED
    BY <1>1, <2>1, <2>2, <2>3 DEF MatchContext, Suffix
<1> QED
  BY <1>3, <1>4

\* The forward slice holds the nodes of a set of items that contains the
\* sources and is closed under exact steps: hence the nodes of every
\* realizable path from a source, of any length and any depth of calls.
NoneLost ==
    phase \in {"backward", "done"} =>
        \E T \in SUBSET Item :
            /\ Sources \subseteq T
            /\ \A x \in T : ExactNext(x) \subseteq T
            /\ NodesOf(T) \subseteq forwardslice

\* The items some suffix of whose call string was visited.
Covered == {x \in Item : \E s \in Cxt : /\ Suffix(s, x[2])
                                        /\ <<x[1], s>> \in Sources \cup forwardVisited}

LEMMA ExactStepCovered ==
    ASSUME Inv, phase \in {"backward", "done"}, NEW x \in Covered, NEW y \in ExactNext(x)
    PROVE  y \in Covered
<1>1. x \in Item /\ x[1] \in SVFGNode /\ x[2] \in Seq(CallSite)
  BY DEF Covered, Item
<1>2. PICK s \in Cxt : Suffix(s, x[2]) /\ <<x[1], s>> \in Sources \cup forwardVisited
  BY DEF Covered
<1>3. PICK e \in OutEdges(edges, x[1]) : y \in {e.dst} \X Exact(e, x[2])
  BY DEF ExactNext
<1>4. e \in Edge /\ e.dst \in SVFGNode
  BY <1>3 DEF OutEdges, Inv, TypeOK, Edge
<1>5. y = <<y[1], y[2]>> /\ y[1] = e.dst /\ y[2] \in Exact(e, x[2])
  BY <1>3
<1>6. ASSUME NEW t \in Contexts(e, s), Suffix(t, y[2]), y[2] \in Seq(CallSite)
      PROVE  y \in Covered
  <2>1. t \in Cxt
    BY <1>2, <1>4, ContextsType
  <2>2. <<e.dst, t>> \in NextItems(edges, <<x[1], s>>)
    BY <1>3 DEF NextItems
  <2>3. NextItems(edges, <<x[1], s>>) \subseteq forwardVisited
    BY <1>2 DEF Inv, ForwardClosed
  <2> QED
    BY <1>4, <1>5, <1>6, <2>1, <2>2, <2>3 DEF Covered, Item
<1>7. CASE e.kind = "intra"
  <2>1. y[2] = x[2] /\ s \in Contexts(e, s)
    BY <1>5, <1>7 DEF Exact, Contexts
  <2> QED
    BY <1>1, <1>2, <1>6, <2>1
<1>8. CASE e.kind = "call"
  <2>1. y[2] = Append(x[2], e.cs) /\ PushContext(s, e.cs) \in Contexts(e, s) /\ e.cs \in CallSite
    BY <1>4, <1>5, <1>8 DEF Exact, Contexts, Edge
  <2>2. Suffix(PushContext(s, e.cs), y[2])
    BY <1>1, <1>2, <2>1, PushSuffix
  <2> QED
    BY <1>1, <1>6, <2>1, <2>2
<1>9. CASE e.kind = "ret"
  <2>1. y[2] = PopContext(x[2]) /\ (x[2] = <<>> \/ x[2][Len(x[2])] = e.cs) /\ e.cs \in CallSite
    BY <1>4, <1>5, <1>9 DEF Exact, Edge
  <2>2. MatchContext(s, e.cs) /\ Suffix(PopContext(s), y[2])
    BY <1>1, <1>2, <2>1, PopSuffix
  <2>3. PopContext(s) \in Contexts(e, s)
    BY <1>9, <2>2 DEF Contexts
  <2>4. y[2] \in Seq(CallSite)
    <3>1. Len(x[2]) - 1 \in Int /\ \A i \in 1 .. Len(x[2]) - 1 : x[2][i] \in CallSite
      BY <1>1
    <3> QED
      BY <2>1, <3>1, SubSeqProperties DEF PopContext
  <2> QED
    BY <1>6, <2>2, <2>3, <2>4
<1> QED
  BY <1>4, <1>7, <1>8, <1>9 DEF Edge

LEMMA CoveredClosed ==
    ASSUME Inv, phase \in {"backward", "done"}
    PROVE  /\ Covered \in SUBSET Item /\ Sources \subseteq Covered
           /\ \A x \in Covered : ExactNext(x) \subseteq Covered
           /\ NodesOf(Covered) \subseteq forwardslice
<1>1. Covered \in SUBSET Item
  BY DEF Covered
<1>2. Sources \subseteq Covered
  <2>1. ASSUME NEW n \in sources PROVE <<n, <<>>>> \in Covered
    <3>1. <<n, <<>>>> \in Item
      <4>1. n \in SVFGNode
        BY DEF Inv, TypeOK
      <4>2. <<>> \in Seq(CallSite)
        OBVIOUS
      <4> QED
        BY <4>1, <4>2 DEF Item
    <3>2. <<>> \in Cxt
      BY CxtLimitAssumption DEF Cxt
    <3>3. Suffix(<<>>, <<>>)
      BY DEF Suffix
    <3> QED
      BY <3>1, <3>2, <3>3 DEF Covered, Sources
  <2> QED
    BY <2>1 DEF Sources
<1>3. \A x \in Covered : ExactNext(x) \subseteq Covered
  BY ExactStepCovered
<1>4. NodesOf(Covered) \subseteq forwardslice
  <2>1. ASSUME NEW x \in Covered PROVE x[1] \in forwardslice
    <3>1. PICK s \in Cxt : <<x[1], s>> \in Sources \cup forwardVisited
      BY DEF Covered
    <3> QED
      BY <3>1 DEF Inv, ForwardClosed
  <2> QED
    BY <2>1 DEF NodesOf
<1> QED
  BY <1>1, <1>2, <1>3, <1>4

\* README: the tool "finds all paths from Source to Sink".  No realizable
\* path from a source leaves the forward slice, for every limit on call
\* strings, zero included.
THEOREM NoPathLost == Spec => []NoneLost
<1>1. Inv => NoneLost
  BY CoveredClosed DEF NoneLost
<1> QED
  BY <1>1, InitInv, NextInv, PTL DEF Spec
-----------------------------------------------------------------------------
(* The properties the runs check. *)

LEMMA ReportedAtEnd == ASSUME Inv, Slices, phase = "done" PROVE ReportedReachSink
<1> DEFINE S == sinksMet \cup backwardVisited
<1>1. /\ edges \subseteq Edge /\ S \subseteq SVFGNode /\ forwardslice \subseteq SVFGNode /\ worklist = {}
      /\ sinksMet = forwardslice \cap sinks /\ backwardslice \subseteq forwardslice
  BY DEF Inv, TypeOK, Slices, BackwardExact
<1>2. \A n \in S : (n \in forwardslice => n \in backwardslice) /\ \A e \in edges : e.dst = n => e.src \in S
  BY <1>1 DEF Slices, BackwardClosed
<1>3. ASSUME NEW n \in Reaching(sinksMet) PROVE n \in S
  <2>1. sinksMet \subseteq S /\ \A e \in edges : e.dst \in S => e.src \in S
    BY <1>2
  <2> HIDE DEF S
  <2> QED
    BY <1>1, <2>1 DEF Reaching
<1>4. ASSUME NEW n \in backwardslice PROVE n \in Reaching(sinksMet)
  <2>1. ASSUME NEW R \in SUBSET SVFGNode, sinksMet \subseteq R, \A e \in edges : e.dst \in R => e.src \in R
        PROVE  n \in R
    BY <2>1 DEF Slices, BackwardExact, LeadingToSinks
  <2> QED
    BY <1>1, <2>1 DEF Reaching
<1> QED
  BY <1>1, <1>2, <1>3, <1>4 DEF ReportedReachSink

\* When the analysis is done, the slice is made of the nodes of the forward
\* slice that reach a sink that was met, and of no others.
THEOREM ReportRight == Spec => []ReportedReachSink
<1>1. Inv /\ Slices => ReportedReachSink
  BY ReportedAtEnd DEF ReportedReachSink
<1> QED
  BY <1>1, Invariance, PTL

LEMMA ExactNextType ==
    ASSUME edges \subseteq Edge, NEW x \in Item
    PROVE  ExactNext(x) \subseteq Item
<1>1. x[1] \in SVFGNode /\ x[2] \in Seq(CallSite)
  BY DEF Item
<1>2. ASSUME NEW e \in OutEdges(edges, x[1]), NEW d \in Exact(e, x[2]) PROVE <<e.dst, d>> \in Item
  <2>1. e \in Edge /\ e.dst \in SVFGNode
    BY DEF OutEdges, Edge
  <2>2. e.kind = "call" => Append(x[2], e.cs) \in Seq(CallSite)
    BY <1>1, <2>1 DEF Edge
  <2>3. PopContext(x[2]) \in Seq(CallSite)
    <3>1. Len(x[2]) - 1 \in Int /\ \A i \in 1 .. Len(x[2]) - 1 : x[2][i] \in CallSite
      BY <1>1
    <3> QED
      BY <3>1, SubSeqProperties DEF PopContext
  <2> QED
    BY <1>1, <2>1, <2>2, <2>3 DEF Exact, Item
<1> QED
  BY <1>2 DEF ExactNext

\* What the recursion of Realizable computes lies between the sources and
\* every set of items that exact steps do not leave.
LEMMA RealizableBetween ==
    ASSUME TypeOK
    PROVE  /\ Sources \subseteq Realizable /\ Realizable \subseteq Item
           /\ \A T \in SUBSET Item :
                 Sources \subseteq T /\ (\A x \in T : ExactNext(x) \subseteq T) => Realizable \subseteq T
<1> DEFINE U == SUBSET Item
           F == [X \in U |-> Onward(X)]
           reached[i \in 0 .. PathBound] == IF i = 0 THEN Sources ELSE Onward(reached[i - 1])
<1>1. F \in [U -> U]
  BY ExactNextType DEF TypeOK, Onward
<1>2. Sources \in U
  <2>1. ASSUME NEW s \in sources PROVE <<s, <<>>>> \in Item
    <3>1. s \in SVFGNode /\ <<>> \in Seq(CallSite)
      BY DEF TypeOK
    <3> QED
      BY <3>1 DEF Item
  <2> QED
    BY <2>1 DEF Sources
<1>3. PathBound \in Nat
  BY PathBoundAssumption
<1>4. \A X \in U : F[X] = Onward(X)
  OBVIOUS
<1> HIDE DEF F, U
<1>5. PICK r \in [0 .. PathBound -> U] : Iterates(r, Sources, F, PathBound)
  BY <1>1, <1>2, <1>3, Iteration
<1>6. r = [i \in 0 .. PathBound |-> IF i = 0 THEN Sources ELSE Onward(r[i - 1])]
  <2>1. ASSUME NEW i \in 0 .. PathBound, i # 0 PROVE r[i] = Onward(r[i - 1])
    <3>1. i - 1 \in 0 .. PathBound /\ i \in 1 .. PathBound
      BY <1>3, <2>1
    <3> QED
      BY <1>4, <1>5, <3>1 DEF Iterates
  <2> QED
    BY <1>5, <2>1 DEF Iterates
<1>7. reached = [i \in 0 .. PathBound |-> IF i = 0 THEN Sources ELSE Onward(reached[i - 1])]
  BY <1>6 DEF reached
<1>8. Realizable = reached[PathBound]
  BY DEF Realizable
<1> HIDE DEF reached
<1>9. reached[0] = Sources /\ \A i \in 1 .. PathBound : reached[i] = Onward(reached[i - 1])
  <2>1. \A i \in 0 .. PathBound : reached[i] = IF i = 0 THEN Sources ELSE Onward(reached[i - 1])
    BY <1>7
  <2> HIDE DEF reached
  <2> QED
    BY <1>3, <2>1
<1>10. ASSUME NEW T \in SUBSET Item, Sources \subseteq T, \A x \in T : ExactNext(x) \subseteq T
       PROVE  Sources \subseteq Realizable /\ Realizable \subseteq T
  <2> DEFINE P == {X \in SUBSET Item : Sources \subseteq X /\ X \subseteq T}
  <2>1. reached[0] \in P
    BY <1>2, <1>9, <1>10 DEF U
  <2>2. ASSUME NEW i \in 1 .. PathBound, reached[i - 1] \in P PROVE reached[i] \in P
    BY <1>9, <1>10, <2>2 DEF Onward
  <2> HIDE DEF P
  <2>3. \A i \in 0 .. PathBound : reached[i] \in P
    BY <1>3, <2>1, <2>2, StaysIn
  <2>4. PathBound \in 0 .. PathBound
    BY <1>3
  <2> QED
    BY <1>8, <2>3, <2>4 DEF P
<1>11. Sources \subseteq Item /\ \A x \in Item : ExactNext(x) \subseteq Item
  BY <1>2, ExactNextType DEF U, TypeOK
<1> QED
  BY <1>10, <1>11

\* Calls and returns are matched: while no call string had to be cut, the
\* forward slice holds the nodes of realizable paths only.
THEOREM SliceRealizable == Spec => []ForwardSliceRealizable
<1>1. ASSUME Inv, Slices, phase = "done",
             \A x \in Realizable : Len(x[2]) <= CxtLimit /\ ExactNext(x) \subseteq Realizable
      PROVE  forwardslice \subseteq NodesOf(Realizable)
  <2>1. Realizable \in SUBSET Item /\ Sources \subseteq Realizable
    BY <1>1, RealizableBetween DEF Inv
  <2>2. Exactly(Realizable)
    BY <1>1, <2>1 DEF Exactly
  <2> QED
    BY <1>1, <2>1, <2>2 DEF Slices, ForwardExact
<1>2. Inv /\ Slices => ForwardSliceRealizable
  BY <1>1 DEF ForwardSliceRealizable
<1> QED
  BY <1>2, Invariance, PTL

\* So for the recursion of OnPath, backward.
LEMMA OnPathWithin ==
    ASSUME NEW items, NEW T, {x \in items : x[1] \in sinks} \subseteq T,
           \A x \in items : ExactNext(x) \cap T # {} => x \in T
    PROVE  OnPath(items) \subseteq items \cap T
<1> DEFINE A == {x \in items : x[1] \in sinks}
           U == SUBSET items
           F == [X \in U |-> Back(items, X)]
           leading[i \in 0 .. PathBound] == IF i = 0 THEN A ELSE Back(items, leading[i - 1])
<1>1. F \in [U -> U] /\ A \in U
  BY DEF Back
<1>2. PathBound \in Nat
  BY PathBoundAssumption
<1>3. \A X \in U : F[X] = Back(items, X)
  OBVIOUS
<1>4. OnPath(items) = leading[PathBound]
  BY DEF OnPath
<1>5. A \subseteq T
  OBVIOUS
<1> HIDE DEF A, F, U
<1>6. PICK r \in [0 .. PathBound -> U] : Iterates(r, A, F, PathBound)
  BY <1>1, <1>2, Iteration
<1>7. r = [i \in 0 .. PathBound |-> IF i = 0 THEN A ELSE Back(items, r[i - 1])]
  <2>1. ASSUME NEW i \in 0 .. PathBound, i # 0 PROVE r[i] = Back(items, r[i - 1])
    <3>1. i - 1 \in 0 .. PathBound /\ i \in 1 .. PathBound
      BY <1>2, <2>1
    <3> QED
      BY <1>3, <1>6, <3>1 DEF Iterates
  <2> QED
    BY <1>6, <2>1 DEF Iterates
<1>8. leading = [i \in 0 .. PathBound |-> IF i = 0 THEN A ELSE Back(items, leading[i - 1])]
  BY <1>7 DEF leading
<1> HIDE DEF leading
<1>9. leading[0] = A /\ \A i \in 1 .. PathBound : leading[i] = Back(items, leading[i - 1])
  <2>1. \A i \in 0 .. PathBound : leading[i] = IF i = 0 THEN A ELSE Back(items, leading[i - 1])
    BY <1>8
  <2> QED
    BY <1>2, <2>1
<1> DEFINE P == SUBSET (items \cap T)
<1>10. leading[0] \in P
  BY <1>1, <1>5, <1>9 DEF U
<1>11. ASSUME NEW i \in 1 .. PathBound, leading[i - 1] \in P PROVE leading[i] \in P
  BY <1>9, <1>11 DEF Back
<1> HIDE DEF P
<1>12. \A i \in 0 .. PathBound : leading[i] \in P
  BY <1>2, <1>10, <1>11, StaysIn
<1>13. PathBound \in 0 .. PathBound
  BY <1>2
<1> QED
  BY <1>4, <1>12, <1>13 DEF P

\* README: the tool "finds all paths from Source to Sink".  Every node on a
\* realizable path from a source to a sink is reported, whatever limit call
\* strings have, and however long the paths are.
THEOREM AllPathsFound == Spec => []PathsFound
<1>1. ASSUME Inv, Slices, phase = "done" PROVE NodesOf(OnPath(Realizable)) \subseteq backwardslice
  <2> DEFINE M == Reaching(sinksMet)
             T == {x \in Item : x[1] \in M}
  <2>1. sinksMet = forwardslice \cap sinks /\ backwardslice = forwardslice \cap M
    <3>1. ReportedReachSink
      BY <1>1, ReportedAtEnd
    <3> QED
      BY <1>1, <3>1 DEF ReportedReachSink
  <2>2. Realizable \subseteq Covered /\ NodesOf(Covered) \subseteq forwardslice
    BY <1>1, CoveredClosed, RealizableBetween DEF Inv
  <2>3. edges \subseteq Edge /\ sinksMet \subseteq SVFGNode /\ Covered \subseteq Item
    BY <1>1 DEF Inv, TypeOK, Covered
  <2>4. sinksMet \subseteq M /\ \A e \in edges : e.dst \in M => e.src \in M
    BY <2>3 DEF Reaching, Edge
  <2> HIDE DEF M
  <2>5. {x \in Realizable : x[1] \in sinks} \subseteq T
    BY <2>1, <2>2, <2>3, <2>4 DEF NodesOf
  <2>6. ASSUME NEW x \in Realizable, ExactNext(x) \cap T # {} PROVE x \in T
    <3>1. PICK y \in ExactNext(x) : y[1] \in M
      BY <2>6
    <3>2. PICK e \in edges : e.src = x[1] /\ e.dst = y[1]
      BY <3>1 DEF ExactNext, OutEdges
    <3> QED
      BY <2>2, <2>3, <2>4, <3>1, <3>2
  <2> HIDE DEF T
  <2>7. OnPath(Realizable) \subseteq Realizable \cap T
    BY <2>5, <2>6, OnPathWithin
  <2>8. ASSUME NEW x \in OnPath(Realizable) PROVE x[1] \in backwardslice
    BY <2>1, <2>2, <2>7 DEF NodesOf, T
  <2> QED
    BY <2>8 DEF NodesOf
<1>2. Inv /\ Slices => PathsFound
  BY <1>1 DEF PathsFound
<1> QED
  BY <1>2, Invariance, PTL
=============================================================================
