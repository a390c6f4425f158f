--------------------------- MODULE SCCDetection ----------------------------
(***************************************************************************)
(* Nuutila's algorithm as include/Util/SCC.h has it: find visits the       *)
(* candidates, visit is a depth-first search that guesses a representative *)
(* for each node while its successors are still open.  The call stack of   *)
(* visit is a sequence of frames; the order of nodes and of successors is  *)
(* that of the graph's containers and left open.                           *)
(***************************************************************************)
EXTENDS StrongComponents, Sequences

CONSTANTS N,          \* the nodes
          Graphs,     \* the graphs: sets of direct edges
          Candidates, \* the sets find is called with: the whole graph or some nodes
          NoRep       \* UINT_MAX

ASSUME NAssumption == IsFiniteSet(N)
ASSUME NoRepAssumption == NoRep \notin N
ASSUME GraphsAssumption == Graphs \subseteq SUBSET (N \X N) /\ Candidates \subseteq SUBSET N

VARIABLES
    edges,                  \* the graph
    cand,                   \* the candidates find has still to look at
    frames,                 \* the calls of visit, innermost first
    visited, inSCC,
    rep, subNodes, repNodes,
    dfs, count,             \* _D and _I
    ss, topo                \* _SS and _T, top first

info == <<visited, inSCC, rep, subNodes, repNodes>>
vars == <<edges, cand, frames, info, dfs, count, ss, topo>>

Succ(v) == {e[2] : e \in {g \in edges : g[1] = v}}

Init ==
    /\ edges \in Graphs
    /\ cand \in Candidates
    /\ frames = <<>>
    /\ visited = {} /\ inSCC = {}
    /\ rep = [n \in N |-> NoRep] /\ subNodes = [n \in N |-> {}] /\ repNodes = {}
    /\ dfs = [n \in N |-> 0] /\ count = 0
    /\ ss = <<>> /\ topo = <<>>

\* Fault: n keeps the nodes it stood for.
SetRepKeeping(S, r) ==
    /\ rep' = [n \in N |-> IF n \in S THEN r ELSE rep[n]]
    /\ subNodes' = [subNodes EXCEPT ![r] = @ \cup S]
    /\ repNodes' = (repNodes \ S) \cup {m \in {r} : S \ {r} # {} \/ r \in repNodes}

\* rep(n, r) for each n in S.
SetRep(S, r) ==
    /\ rep' = [n \in N |-> IF n \in S THEN r ELSE rep[n]]
    /\ subNodes' = [n \in N |-> IF n = r THEN subNodes[r] \cup S
                                ELSE IF n \in S THEN {} ELSE subNodes[n]]
    /\ repNodes' = (repNodes \ S) \cup {m \in {r} : S \ {r} # {} \/ r \in repNodes}

\* The first lines of visit(v), called from the frames in fs.
Enter(v, fs) ==
    /\ count' = count + 1
    /\ dfs' = [dfs EXCEPT ![v] = count + 1]
    /\ visited' = visited \cup {v}
    /\ SetRep({v}, v)
    /\ frames' = <<[node |-> v, rest |-> Succ(v), child |-> NoRep]>> \o fs

\* The loop of find.
Candidate(n) ==
    /\ frames = <<>> /\ n \in cand
    /\ cand' = cand \ {n}
    /\ IF n \in visited THEN UNCHANGED <<frames, info, dfs, count>>
       ELSE Enter(n, <<>>) /\ UNCHANGED inSCC
    /\ UNCHANGED <<edges, ss, topo>>

\* visit calls itself on a successor never visited.
Descend(w) ==
    LET f == Head(frames)
    IN  /\ frames # <<>> /\ f.child = NoRep
        /\ w \in f.rest \ visited
        /\ Enter(w, <<[f EXCEPT !.child = w]>> \o Tail(frames))
        /\ UNCHANGED <<edges, cand, inSCC, ss, topo>>

\* The representative that was met first.
FirstRep(v, w) == IF dfs[rep[v]] < dfs[rep[w]] THEN rep[v] ELSE rep[w]

\* Fault: finished components count too.
OpenOrNot(w) == w \in visited

\* A node whose component is not finished.
Open(w) == w \notin inSCC

\* The rest of the loop body of visit, for a successor already visited.
Look(w) ==
    LET f == Head(frames)
    IN  /\ frames # <<>> /\ f.child \in {NoRep, w}
        /\ w \in f.rest \cap visited
        /\ frames' = <<[f EXCEPT !.rest = @ \ {w}, !.child = NoRep]>> \o Tail(frames)
        /\ IF Open(w) THEN SetRep({f.node}, FirstRep(f.node, w))
           ELSE UNCHANGED <<rep, subNodes, repNodes>>
        /\ UNCHANGED <<edges, cand, visited, inSCC, dfs, count, ss, topo>>

\* How many nodes the loop over _SS pops: those above the first one that
\* was not met after v.
Pops(v) ==
    CHOOSE k \in 0 .. Len(ss) :
        /\ \A i \in 1 .. k : dfs[ss[i]] > dfs[v]
        /\ k < Len(ss) => dfs[ss[k + 1]] <= dfs[v]

\* Fault: the members are not taken off.
KeepAll(v) == ss

\* _SS without them.
Popped(v) == SubSeq(ss, Pops(v) + 1, Len(ss))

\* Fault: a finished component goes below the others.
TopoQueue(v) == Append(topo, v)

\* _T.push(v)
TopoPush(v) == <<v>> \o topo

\* The end of visit: the root of a component takes its nodes from _SS.
Return ==
    LET v   == Head(frames).node
        members == {ss[i] : i \in 1 .. Pops(v)}
    IN  /\ frames # <<>> /\ Head(frames).rest = {} /\ Head(frames).child = NoRep
        /\ frames' = Tail(frames)
        /\ IF rep[v] = v
           THEN /\ inSCC' = inSCC \cup members \cup {v}
                /\ IF members = {} THEN UNCHANGED <<rep, subNodes, repNodes>>
                   ELSE SetRep(members, v)
                /\ ss' = Popped(v)
                /\ topo' = TopoPush(v)
           ELSE /\ ss' = <<v>> \o ss
                /\ UNCHANGED <<inSCC, rep, subNodes, repNodes, topo>>
        /\ UNCHANGED <<edges, cand, visited, dfs, count>>

Done == cand = {} /\ frames = <<>>

Terminated == Done /\ UNCHANGED vars

Next ==
    \/ \E n \in cand : Candidate(n)
    \/ \E w \in N : Descend(w) \/ Look(w)
    \/ Return
    \/ Terminated

Spec == Init /\ [][Next]_vars

-----------------------------------------------------------------------------
\* The types, with the bookkeeping of the search: a node has a number and a
\* representative exactly when it was visited, and waits in one of the
\* stacks exactly while its component is open.
TypeOK ==
    /\ edges \subseteq N \X N /\ cand \subseteq N
    /\ frames \in Seq([node : N, rest : SUBSET N, child : N \cup {NoRep}])
    /\ visited \subseteq N /\ inSCC \subseteq visited
    /\ rep \in [N -> N \cup {NoRep}] /\ subNodes \in [N -> SUBSET N] /\ repNodes \subseteq N
    /\ dfs \in [N -> 0 .. Cardinality(N)] /\ count = Cardinality(visited)
    /\ ss \in Seq(N) /\ topo \in Seq(N)
    /\ visited \ inSCC = {frames[i].node : i \in DOMAIN frames} \cup {ss[i] : i \in DOMAIN ss}
    /\ \A n \in N : n \in visited <=> rep[n] # NoRep /\ dfs[n] # 0

\* A guessed representative is never wrong, only early: the node and the
\* representative are in one component (no closed set holds one of them only),
\* so that merging by rep is sound even before the search ends.
RepsConnected ==
    \A S \in Closed(edges, N) : \A n \in visited : n \in S <=> rep[n] \in S

\* The topological stack: a component never reaches one pushed later (some
\* closed set holds it and not the later one), and everything it reaches was
\* pushed before it.  The order of the wave, of call graph traversals and of
\* the flow-sensitive solver rests on it.
TopologicalOrder ==
    LET closed == Closed(edges, N)
    IN  /\ \A i, j \in 1 .. Len(topo) :
              i < j => \E S \in closed : topo[j] \in S /\ topo[i] \notin S
        /\ inSCC \in closed

\* rep names one member of every cycle for all its members, and the stack
\* holds each representative once.
RepsAreComponents ==
    LET cycles == Cycles(edges, N)
    IN  /\ \E root \in {f \in [cycles -> N] : \A C \in cycles : f[C] \in C} :
              \A n \in visited : rep[n] = Find(cycles, root, n)
        /\ {topo[i] : i \in 1 .. Len(topo)} = {rep[n] : n \in visited}
        /\ Len(topo) = Cardinality({rep[n] : n \in visited})
        /\ ss = <<>>

\* subNodes is the inverse of rep, and repNodes the representatives of more
\* than themselves: what mergeSccCycle and the LCD and SCD solvers merge.
SubNodesExact ==
    /\ \A r \in N : subNodes[r] = {n \in visited : rep[n] = r}
    /\ repNodes = {rep[n] : n \in {m \in visited : rep[m] # m}}

\* isInCycle.
IsInCycle(n) ==
    Cardinality(subNodes[rep[n]]) > 1 \/ <<rep[n], rep[n]>> \in edges

\* isInCycle is right about every node that was visited, self loops included.
CycleTest == \A n \in visited : IsInCycle(n) <=> \E m \in Succ(n) : n \in Reached(edges, N, m)

\* When find returns, all that its callers read describes the components
\* reachable from the candidates, as module AndersenWaveDiff assumes of
\* SCCDetect.
ComponentsFound == Done => RepsAreComponents /\ SubNodesExact /\ CycleTest
=============================================================================
