------------------------ MODULE SCCDetection_proofs -------------------------
(***************************************************************************)
(* Cycle detection is right for every finite graph and every order of      *)
(* nodes and successors.  The invariant says of the search under way what  *)
(* its end needs: the open nodes are numbered, the calls of visit form a   *)
(* path, every open node leads back to a call that began no later, a call  *)
(* leads to all that was met after it, and a guessed representative is     *)
(* never later than any open successor handled so far.                     *)
(***************************************************************************)
EXTENDS SCCDetection, SequenceTheorems, FiniteSetTheorems, TLAPS

Frame == [node : N, rest : SUBSET N, child : N \cup {NoRep}]

OpenNodes == visited \ inSCC
Stacked == {ss[i] : i \in DOMAIN ss}

Numbered ==
    /\ \A n \in visited : dfs[n] \in 1 .. count
    /\ \A n, m \in visited : dfs[n] = dfs[m] => n = m

Calls ==
    /\ \A i, j \in DOMAIN frames : i < j => dfs[frames[j].node] < dfs[frames[i].node]
    /\ \A i \in DOMAIN frames : frames[i].node \notin Stacked
    /\ \A i \in DOMAIN frames : frames[i].rest \subseteq Succ(frames[i].node)
    /\ \A i \in DOMAIN frames : i > 1 => frames[i].child = frames[i - 1].node

\* What was met after a call and waits lies above the rest in the stack.
StackOrder ==
    \A i \in DOMAIN frames : \A p, q \in DOMAIN ss :
        p < q /\ dfs[ss[q]] > dfs[frames[i].node] => dfs[ss[p]] > dfs[frames[i].node]

MetLater ==
    \A i \in DOMAIN frames : \A n \in visited :
        dfs[frames[i].node] <= dfs[n] => n \in Reached(edges, N, frames[i].node)

LeadBack ==
    \A n \in OpenNodes : \E i \in DOMAIN frames :
        dfs[frames[i].node] <= dfs[n] /\ frames[i].node \in Reached(edges, N, n)

Guesses == \A n \in OpenNodes : rep[n] \in OpenNodes /\ dfs[rep[n]] <= dfs[n]

Equivalent == \A n \in visited : rep[n] \in Reached(edges, N, n) /\ n \in Reached(edges, N, rep[n])

\* n has taken the guess of its successor m into account.
Handled(n, m) == m \in visited /\ (m \in inSCC \/ dfs[rep[n]] <= dfs[m])

AllHandled ==
    /\ \A n \in Stacked : \A m \in Succ(n) : Handled(n, m)
    /\ \A i \in DOMAIN frames :
          \A m \in Succ(frames[i].node) \ frames[i].rest : Handled(frames[i].node, m)

\* A call has the earliest of the guesses made in the calls it made and
\* looked at.
Carried ==
    \A i \in DOMAIN frames : \A n \in Stacked :
        /\ dfs[n] > dfs[frames[i].node]
        /\ frames[i].child = NoRep \/ dfs[n] < dfs[frames[i].child]
        => dfs[rep[frames[i].node]] <= dfs[rep[n]]

\* So has a call that ended and was not looked at yet.
JustEnded ==
    LET c == frames[1].child
    IN  frames # <<>> /\ c # NoRep =>
            \A n \in Stacked : dfs[n] >= dfs[c] => c \notin inSCC /\ dfs[rep[c]] <= dfs[rep[n]]

OnTopo == {topo[i] : i \in DOMAIN topo} = {rep[n] : n \in inSCC}

\* The sub-nodes and representatives kept beside rep.
SubNodesKept ==
    /\ \A r \in N : \A n \in subNodes[r] :
          /\ n \in visited /\ r \in visited
          /\ n \in Reached(edges, N, r) /\ r \in Reached(edges, N, n) /\ dfs[r] <= dfs[n]
    /\ \A r \in visited : rep[r] = r => r \in subNodes[r]
    /\ \A r \in inSCC : subNodes[r] = {n \in inSCC : rep[n] = r}
    /\ \A r \in repNodes : \E n \in subNodes[r] : n # r
    /\ \A n \in inSCC : rep[n] # n => rep[n] \in repNodes

Search ==
    /\ Numbered /\ Calls /\ StackOrder /\ MetLater /\ LeadBack /\ Guesses
    /\ Equivalent /\ AllHandled /\ Carried /\ JustEnded

Kept == TopologicalOrder /\ OnTopo /\ SubNodesKept

IInv == TypeOK /\ Search /\ Kept
-----------------------------------------------------------------------------
\* Reaching along edges, by closed sets: reflexive, transitive, along an edge.
LEMMA ReachedItself == ASSUME NEW E, NEW n \in N PROVE n \in Reached(E, N, n)
BY DEF Reached

LEMMA ReachedOn ==
    ASSUME NEW E, NEW a \in N, NEW b \in Reached(E, N, a), NEW c \in Reached(E, N, b)
    PROVE  c \in Reached(E, N, a)
BY DEF Reached

LEMMA ReachedByEdge ==
    ASSUME NEW E, NEW a \in N, NEW b \in N, <<a, b>> \in E
    PROVE  b \in Reached(E, N, a)
<1>1. ASSUME NEW S \in Closed(E, N), a \in S PROVE b \in S
  BY <1>1 DEF Closed
<1> QED
  BY <1>1 DEF Reached

LEMMA ReachedInClosed ==
    ASSUME NEW E, NEW a, NEW b \in Reached(E, N, a), NEW S \in Closed(E, N), a \in S
    PROVE  b \in S
BY DEF Reached

LEMMA SuccEdge ==
    ASSUME edges \subseteq N \X N, NEW v \in N, NEW w
    PROVE  w \in Succ(v) <=> <<v, w>> \in edges
BY DEF Succ

LEMMA SuccReached ==
    ASSUME edges \subseteq N \X N, NEW v \in N, NEW w \in Succ(v)
    PROVE  w \in N /\ w \in Reached(edges, N, v)
<1>1. <<v, w>> \in edges
  BY SuccEdge
<1>2. w \in N
  BY <1>1
<1> QED
  BY <1>1, <1>2, ReachedByEdge

\* A frame put before others.
LEMMA Pushed ==
    ASSUME NEW T, NEW x \in T, NEW s \in Seq(T)
    PROVE  LET t == <<x>> \o s
           IN  /\ t \in Seq(T) /\ t # <<>> /\ DOMAIN t = 1 .. Len(s) + 1
               /\ t[1] = x /\ Head(t) = x
               /\ \A i \in DOMAIN s : i \in 1 .. Len(s) /\ t[i + 1] = s[i]
               /\ \A i \in DOMAIN t : i = 1 \/ (i > 1 /\ i - 1 \in DOMAIN s /\ t[i] = s[i - 1])
<1> DEFINE t == <<x>> \o s
<1>1. <<x>> \in Seq(T) /\ Len(<<x>>) = 1 /\ <<x>>[1] = x
  OBVIOUS
<1>2. t \in Seq(T) /\ Len(t) = 1 + Len(s) /\ \A i \in 1 .. 1 + Len(s) : t[i] = IF i <= 1 THEN x ELSE s[i - 1]
  BY <1>1, ConcatProperties
<1>3. Len(s) \in Nat /\ DOMAIN s = 1 .. Len(s) /\ DOMAIN t = 1 .. Len(t)
  BY <1>2
<1>4. t # <<>> /\ Head(t) = t[1]
  BY <1>2, <1>3
<1> QED
  BY <1>2, <1>3, <1>4

\* The rest of a sequence.
LEMMA Popping ==
    ASSUME NEW T, NEW s \in Seq(T), s # <<>>
    PROVE  /\ Head(s) = s[1] /\ 1 \in DOMAIN s
           /\ Tail(s) \in Seq(T) /\ DOMAIN Tail(s) = 1 .. Len(s) - 1
           /\ \A i \in DOMAIN Tail(s) : i + 1 \in DOMAIN s /\ Tail(s)[i] = s[i + 1]
           /\ \A i \in DOMAIN s : i = 1 \/ (i > 1 /\ i - 1 \in DOMAIN Tail(s) /\ s[i] = Tail(s)[i - 1])
<1>1. Len(s) \in Nat \ {0} /\ DOMAIN s = 1 .. Len(s)
  OBVIOUS
<1>2. Head(s) = s[1] /\ Tail(s) \in Seq(T) /\ Len(Tail(s)) = Len(s) - 1
      /\ \A i \in 1 .. Len(s) - 1 : Tail(s)[i] = s[i + 1]
  OBVIOUS
<1> QED
  BY <1>1, <1>2
-----------------------------------------------------------------------------
LEMMA InitInv == Init => IInv
<1> SUFFICES ASSUME Init PROVE IInv
  OBVIOUS
<1> USE DEF Init, info
<1>1. Cardinality({}) = 0 /\ Cardinality(N) \in Nat
  BY NAssumption, FS_EmptySet, FS_CardinalityType
<1>2. TypeOK
  BY <1>1, GraphsAssumption DEF TypeOK
<1>3. DOMAIN frames = {} /\ DOMAIN ss = {} /\ DOMAIN topo = {} /\ Stacked = {}
  BY DEF Stacked
<1>4. Search
  BY <1>3 DEF Search, Numbered, Calls, StackOrder, MetLater, LeadBack, Guesses, Equivalent,
              AllHandled, Carried, JustEnded, OpenNodes
<1>5. TopologicalOrder
  BY DEF TopologicalOrder, Closed
<1>6. OnTopo /\ SubNodesKept
  BY <1>3 DEF OnTopo, SubNodesKept
<1> QED
  BY <1>2, <1>4, <1>5, <1>6 DEF IInv, Kept

\* The first lines of visit keep the invariant, whoever calls it: fs are the
\* calls under way, the innermost of them now waiting for w.
LEMMA EnterInv ==
    ASSUME IInv, NEW w \in N \ visited, NEW fs \in Seq(Frame),
           DOMAIN fs = DOMAIN frames,
           \A i \in DOMAIN frames :
               /\ fs[i].node = frames[i].node /\ fs[i].rest = frames[i].rest
               /\ fs[i].child = IF i = 1 THEN w ELSE frames[i].child,
           frames # <<>> => w \in Succ(frames[1].node) /\ frames[1].child = NoRep,
           Enter(w, fs), cand' \subseteq N, UNCHANGED <<edges, inSCC, ss, topo>>
    PROVE  IInv'
<1> DEFINE f == [node |-> w, rest |-> Succ(w), child |-> NoRep]
<1> USE DEF IInv
<1>1. /\ edges \subseteq N \X N /\ frames \in Seq(Frame) /\ visited \subseteq N /\ inSCC \subseteq visited
      /\ rep \in [N -> N \cup {NoRep}] /\ subNodes \in [N -> SUBSET N] /\ repNodes \subseteq N
      /\ dfs \in [N -> 0 .. Cardinality(N)] /\ count = Cardinality(visited)
      /\ ss \in Seq(N) /\ topo \in Seq(N)
      /\ OpenNodes = {frames[i].node : i \in DOMAIN frames} \cup Stacked
      /\ \A n \in N : n \in visited <=> rep[n] # NoRep /\ dfs[n] # 0
  BY DEF TypeOK, Frame, OpenNodes, Stacked
<1>2. w \in N /\ w \notin visited /\ NoRep \notin N
  BY NoRepAssumption
<1>3. /\ Cardinality(N) \in Nat /\ count \in Nat /\ count + 1 = Cardinality(visited \cup {w})
      /\ count + 1 <= Cardinality(N)
  <2>1. IsFiniteSet(visited) /\ Cardinality(visited) \in Nat
    BY <1>1, NAssumption, FS_Subset, FS_CardinalityType
  <2>2. Cardinality(visited \cup {w}) = Cardinality(visited) + 1
    BY <1>2, <2>1, FS_AddElement
  <2>3. Cardinality(visited \cup {w}) <= Cardinality(N) /\ Cardinality(N) \in Nat
    BY <1>1, <1>2, NAssumption, FS_Subset, FS_CardinalityType
  <2> QED
    BY <1>1, <2>1, <2>2, <2>3
<1>4. f \in Frame
  BY <1>1, <1>2, SuccReached DEF Frame
<1>5. frames' = <<f>> \o fs
  BY DEF Enter
<1>6. /\ frames' \in Seq(Frame) /\ frames' # <<>> /\ frames'[1] = f
      /\ DOMAIN frames' = 1 .. Len(fs) + 1 /\ Len(fs) \in Nat /\ DOMAIN fs = 1 .. Len(fs)
      /\ \A i \in DOMAIN frames : i + 1 \in DOMAIN frames' /\ frames'[i + 1] = fs[i]
      /\ \A i \in DOMAIN frames' :
            i \in Nat /\ (i = 1 \/ (i > 1 /\ i - 1 \in DOMAIN frames /\ frames'[i] = fs[i - 1]))
  <2> HIDE DEF f
  <2>1. Len(fs) \in Nat /\ DOMAIN fs = 1 .. Len(fs)
    OBVIOUS
  <2> QED
    BY <1>4, <1>5, <2>1, Pushed
<1>7. /\ count' = count + 1 /\ visited' = visited \cup {w}
      /\ dfs' \in [N -> 0 .. Cardinality(N)] /\ dfs'[w] = count + 1
      /\ \A n \in N : n # w => dfs'[n] = dfs[n]
      /\ rep' \in [N -> N \cup {NoRep}] /\ rep'[w] = w
      /\ \A n \in N : n # w => rep'[n] = rep[n]
      /\ subNodes' \in [N -> SUBSET N] /\ subNodes'[w] = subNodes[w] \cup {w}
      /\ \A n \in N : n # w => subNodes'[n] = subNodes[n]
      /\ repNodes' = repNodes
  BY <1>1, <1>2, <1>3 DEF Enter, SetRep
<1>8. OpenNodes' = OpenNodes \cup {w} /\ Stacked' = Stacked /\ Stacked \subseteq OpenNodes
      /\ \A i \in DOMAIN frames : frames[i].node \in OpenNodes
  BY <1>1, <1>2, <1>7 DEF OpenNodes, Stacked
<1>9. /\ \A n \in visited : dfs[n] \in 1 .. count /\ dfs'[n] = dfs[n] /\ rep'[n] = rep[n]
      /\ \A n \in visited : dfs'[n] < dfs'[w]
      /\ \A n \in OpenNodes : n \in N /\ n \in visited /\ n # w
      /\ edges' = edges
  <2>1. \A n \in visited : n \in N /\ n # w /\ dfs[n] \in 1 .. count
    BY <1>1, <1>2 DEF Search, Numbered
  <2>2. \A n \in visited : dfs'[n] = dfs[n] /\ rep'[n] = rep[n]
    BY <1>7, <2>1
  <2>3. \A n \in visited : dfs'[n] < dfs'[w]
    BY <1>3, <1>7, <2>1, <2>2
  <2> QED
    BY <2>1, <2>2, <2>3 DEF OpenNodes
<1>10. TypeOK'
  <2>1. frames' \in Seq([node : N, rest : SUBSET N, child : N \cup {NoRep}])
    BY <1>6 DEF Frame
  <2>2. visited' \ inSCC' = {frames'[i].node : i \in DOMAIN frames'} \cup {ss'[i] : i \in DOMAIN ss'}
    <3>1. {frames'[i].node : i \in DOMAIN frames'} = {frames[i].node : i \in DOMAIN frames} \cup {w}
      <4>1. ASSUME NEW i \in DOMAIN frames'
            PROVE  frames'[i].node \in {frames[j].node : j \in DOMAIN frames} \cup {w}
        <5>1. CASE i = 1
          BY <1>6, <5>1
        <5>2. CASE i # 1
          BY <1>6, <5>2
        <5> QED
          BY <5>1, <5>2
      <4>2. ASSUME NEW i \in DOMAIN frames
            PROVE  frames[i].node \in {frames'[j].node : j \in DOMAIN frames'}
        <5>1. i + 1 \in DOMAIN frames' /\ frames'[i + 1].node = frames[i].node
          BY <1>6
        <5> QED
          BY <5>1
      <4>3. w \in {frames'[j].node : j \in DOMAIN frames'}
        <5>1. 1 \in DOMAIN frames' /\ frames'[1].node = w
          BY <1>6
        <5> QED
          BY <5>1
      <4> QED
        BY <4>1, <4>2, <4>3
    <3> QED
      BY <1>8, <1>1, <3>1 DEF OpenNodes, Stacked
  <2>3. \A n \in N : n \in visited' <=> rep'[n] # NoRep /\ dfs'[n] # 0
    BY <1>1, <1>2, <1>3, <1>7
  <2>4. count' = Cardinality(visited') /\ visited' \subseteq N /\ inSCC' \subseteq visited'
    BY <1>1, <1>2, <1>3, <1>7
  <2>5. edges' \subseteq N \X N /\ cand' \subseteq N /\ repNodes' \subseteq N
        /\ ss' \in Seq(N) /\ topo' \in Seq(N)
    BY <1>1, <1>7
  <2> QED
    BY <1>7, <2>1, <2>2, <2>3, <2>4, <2>5 DEF TypeOK
<1>11. Numbered'
  BY <1>1, <1>3, <1>7, <1>9 DEF Search, Numbered
<1>12. Calls'
  <2>1. ASSUME NEW i \in DOMAIN frames', NEW j \in DOMAIN frames', i < j
        PROVE  dfs'[frames'[j].node] < dfs'[frames'[i].node]
    <3>1. j > 1 /\ j - 1 \in DOMAIN frames /\ frames'[j].node = frames[j - 1].node
      BY <1>6, <2>1
    <3>2. CASE i = 1
      BY <1>6, <1>8, <1>9, <3>1, <3>2
    <3>3. CASE i # 1
      <4>1. i - 1 \in DOMAIN frames /\ frames'[i].node = frames[i - 1].node /\ i - 1 < j - 1
        BY <1>6, <2>1, <3>3
      <4> QED
        BY <1>8, <1>9, <3>1, <4>1 DEF Search, Calls
    <3> QED
      BY <3>2, <3>3
  <2>2. ASSUME NEW i \in DOMAIN frames'
        PROVE  (/\ frames[i].node \notin Stacked
                /\ frames[i].rest \subseteq Succ(frames[i].node)
                /\ i > 1 => frames[i].child = frames[i - 1].node)'
    <3>1. CASE i = 1
      BY <1>6, <1>8, <1>9, <3>1 DEF Succ
    <3>2. CASE i # 1
      <4>1. i > 1 /\ i - 1 \in DOMAIN frames /\ frames'[i] = fs[i - 1]
        BY <1>6, <3>2
      <4>2. frames'[i].node = frames[i - 1].node /\ frames'[i].rest = frames[i - 1].rest
        BY <4>1
      <4>3. frames[i - 1].node \notin Stacked /\ frames[i - 1].rest \subseteq Succ(frames[i - 1].node)
        BY <4>1 DEF Search, Calls
      <4>4. frames'[i].child = frames'[i - 1].node
        <5>1. CASE i = 2
          <6>1. i - 1 = 1 /\ 1 \in DOMAIN frames /\ frames'[i] = fs[1]
            BY <4>1, <5>1
          <6>2. fs[1].child = w /\ frames'[1].node = w
            BY <1>6, <6>1
          <6> QED
            BY <6>1, <6>2
        <5>2. CASE i # 2
          <6>1. i - 1 > 1 /\ i - 2 \in DOMAIN frames /\ i - 1 \in DOMAIN frames'
                /\ frames'[i - 1] = fs[i - 2]
            BY <1>6, <4>1, <5>2
          <6>2. (i - 1) - 1 = i - 2 /\ i - 1 # 1
            BY <1>6, <6>1
          <6>3. fs[i - 1].child = frames[i - 1].child
            BY <4>1, <6>2
          <6>4. frames[i - 1].child = frames[i - 2].node
            BY <4>1, <6>1, <6>2 DEF Search, Calls
          <6> QED
            BY <1>6, <4>1, <6>1, <6>2, <6>3, <6>4
        <5> QED
          BY <5>1, <5>2
      <4> QED
        BY <1>8, <1>9, <4>1, <4>2, <4>3, <4>4 DEF Succ
    <3> QED
      BY <3>1, <3>2
  <2> QED
    BY <2>1, <2>2 DEF Calls
<1>13. StackOrder'
  <2> SUFFICES ASSUME NEW i \in DOMAIN frames', NEW p \in DOMAIN ss, NEW q \in DOMAIN ss,
                      p < q, dfs'[ss[q]] > dfs'[frames'[i].node]
               PROVE  dfs'[ss[p]] > dfs'[frames'[i].node]
    BY <1>7 DEF StackOrder
  <2>1. ss[p] \in OpenNodes /\ ss[q] \in OpenNodes
    BY <1>8 DEF Stacked
  <2>2. CASE i = 1
    <3>1. frames'[i].node = w /\ dfs'[ss[q]] < dfs'[w] /\ dfs'[ss[q]] \in Int /\ dfs'[w] \in Int
      BY <1>3, <1>6, <1>7, <1>9, <2>1, <2>2
    <3> QED
      BY <3>1
  <2>3. CASE i # 1
    <3>1. i - 1 \in DOMAIN frames /\ frames'[i].node = frames[i - 1].node
      BY <1>6, <2>3
    <3> QED
      BY <1>8, <1>9, <2>1, <3>1 DEF Search, StackOrder
  <2> QED
    BY <2>2, <2>3
<1>14. MetLater'
  <2> SUFFICES ASSUME NEW i \in DOMAIN frames', NEW n \in visited',
                      dfs'[frames'[i].node] <= dfs'[n]
               PROVE  n \in Reached(edges, N, frames'[i].node)
    BY <1>1, <1>4, <1>6, <1>9 DEF MetLater, Frame
  <2>1. CASE i = 1
    <3>1. frames'[i].node = w
      BY <1>6, <2>1
    <3>2. n = w
      BY <1>1, <1>3, <1>7, <1>9, <3>1
    <3> QED
      BY <1>2, <3>1, <3>2, ReachedItself
  <2>2. CASE i # 1
    <3>1. i - 1 \in DOMAIN frames /\ frames'[i].node = frames[i - 1].node
      BY <1>6, <2>2
    <3>2. CASE n # w
      BY <1>7, <1>8, <1>9, <3>1, <3>2 DEF Search, MetLater
    <3>3. CASE n = w
      <4>1. 1 \in DOMAIN frames /\ frames # <<>>
        <5>1. 1 \in DOMAIN frames
          BY <1>6, <3>1
        <5> QED
          BY <5>1
      <4> DEFINE v == frames[1].node
      <4>2. v \in OpenNodes /\ w \in Succ(v)
        BY <1>8, <4>1
      <4>3. w \in Reached(edges, N, v)
        BY <1>1, <1>9, <4>2, SuccReached
      <4>4. dfs[frames[i - 1].node] <= dfs[v]
        <5>1. /\ i - 1 = 1 \/ 1 < i - 1
              /\ dfs[v] \in Int /\ dfs[frames[i - 1].node] \in Int
          BY <1>3, <1>6, <1>8, <1>9, <3>1, <4>2
        <5>2. CASE i - 1 = 1
          BY <5>1, <5>2
        <5>3. CASE 1 < i - 1
          <6>1. dfs[frames[i - 1].node] < dfs[v]
            BY <3>1, <4>1, <5>3 DEF Search, Calls
          <6> QED
            BY <5>1, <6>1
        <5> QED
          BY <5>1, <5>2, <5>3
      <4>5. v \in Reached(edges, N, frames[i - 1].node)
        BY <1>9, <3>1, <4>2, <4>4 DEF Search, MetLater
      <4> QED
        BY <1>8, <1>9, <3>1, <3>3, <4>3, <4>5, ReachedOn
    <3> QED
      BY <3>2, <3>3
  <2> QED
    BY <2>1, <2>2
<1>15. LeadBack'
  <2> SUFFICES ASSUME NEW n \in OpenNodes'
               PROVE  \E i \in DOMAIN frames' :
                          dfs'[frames'[i].node] <= dfs'[n] /\ frames'[i].node \in Reached(edges', N, n)
    BY DEF LeadBack
  <2>1. CASE n = w
    <3>1. 1 \in DOMAIN frames' /\ frames'[1].node = w
      BY <1>6
    <3>2. w \in Reached(edges', N, n) /\ dfs'[w] <= dfs'[n]
      BY <1>2, <1>3, <1>7, <1>9, <2>1, ReachedItself
    <3> QED
      BY <3>1, <3>2
  <2>2. CASE n # w
    <3>1. n \in OpenNodes
      BY <1>8, <2>2
    <3>2. PICK i \in DOMAIN frames :
              dfs[frames[i].node] <= dfs[n] /\ frames[i].node \in Reached(edges, N, n)
      BY <3>1 DEF Search, LeadBack
    <3>3. i + 1 \in DOMAIN frames' /\ frames'[i + 1].node = frames[i].node
      BY <1>6
    <3> QED
      BY <1>8, <1>9, <3>1, <3>2, <3>3
  <2> QED
    BY <2>1, <2>2
<1>16. Guesses'
  BY <1>3, <1>7, <1>8, <1>9 DEF Search, Guesses
<1>17. Equivalent'
  <2> SUFFICES ASSUME NEW n \in visited' PROVE rep'[n] \in Reached(edges', N, n) /\ n \in Reached(edges', N, rep'[n])
    BY DEF Equivalent
  <2>1. CASE n = w
    BY <1>2, <1>7, <1>9, <2>1, ReachedItself
  <2>2. CASE n # w
    <3>1. n \in visited /\ n \in N /\ rep[n] \in N /\ rep'[n] = rep[n]
      BY <1>1, <1>7, <1>9, <2>2
    <3> QED
      BY <1>9, <3>1 DEF Search, Equivalent
  <2> QED
    BY <2>1, <2>2
<1>18. AllHandled'
  <2>1. ASSUME NEW n \in OpenNodes, NEW m, Handled(n, m)
        PROVE  m \in visited' /\ (m \in inSCC' \/ dfs'[rep'[n]] <= dfs'[m])
    <3>1. n \in visited /\ rep'[n] = rep[n] /\ dfs'[rep[n]] = dfs[rep[n]]
      BY <1>9 DEF Search, Guesses
    <3>2. m \in visited /\ (m \in inSCC \/ dfs[rep[n]] <= dfs[m]) /\ dfs'[m] = dfs[m]
      BY <1>9, <2>1 DEF Handled
    <3> QED
      BY <1>7, <3>1, <3>2 DEF Handled
  <2>2. ASSUME NEW n \in Stacked', NEW m \in Succ(n)' PROVE Handled(n, m)'
    <3>1. n \in Stacked /\ n \in OpenNodes /\ m \in Succ(n)
      BY <1>8, <1>9 DEF Succ
    <3> QED
      BY <2>1, <3>1 DEF Search, AllHandled, Handled
  <2>3. ASSUME NEW i \in DOMAIN frames', NEW m \in (Succ(frames[i].node) \ frames[i].rest)'
        PROVE  Handled(frames[i].node, m)'
    <3>1. m \in Succ(frames'[i].node) /\ m \notin frames'[i].rest
      BY <1>9 DEF Succ
    <3>2. i # 1
      BY <1>6, <3>1
    <3>3. i - 1 \in DOMAIN frames /\ frames'[i].node = frames[i - 1].node
          /\ frames'[i].rest = frames[i - 1].rest
      BY <1>6, <3>2
    <3>4. frames[i - 1].node \in OpenNodes /\ Handled(frames[i - 1].node, m)
      BY <1>8, <3>1, <3>3 DEF Search, AllHandled
    <3>5. m \in visited' /\ (m \in inSCC' \/ dfs'[rep'[frames[i - 1].node]] <= dfs'[m])
      BY <2>1, <3>4
    <3> QED
      BY <3>3, <3>5 DEF Handled
  <2> QED
    BY <2>2, <2>3 DEF AllHandled
<1>19. Carried'
  <2> SUFFICES ASSUME NEW i \in DOMAIN frames', NEW n \in Stacked,
                      dfs'[n] > dfs'[frames'[i].node],
                      frames'[i].child = NoRep \/ dfs'[n] < dfs'[frames'[i].child]
               PROVE  dfs'[rep'[frames'[i].node]] <= dfs'[rep'[n]]
    BY <1>8 DEF Carried
  <2>1. n \in visited /\ n \in OpenNodes
    BY <1>8, <1>9
  <2>2. i > 1 /\ i - 1 \in DOMAIN frames /\ frames'[i] = fs[i - 1]
    <3>1. CASE i = 1
      <4>1. frames'[i].node = w /\ dfs'[n] < dfs'[w] /\ dfs'[n] \in Int /\ dfs'[w] \in Int
        BY <1>3, <1>6, <1>7, <1>9, <2>1, <3>1
      <4> QED
        BY <4>1
    <3> QED
      BY <1>6, <3>1
  <2>3. frames'[i].node = frames[i - 1].node /\ frames[i - 1].node \in OpenNodes
    BY <1>8, <2>2
  <2>4. /\ dfs'[n] = dfs[n] /\ dfs'[frames'[i].node] = dfs[frames[i - 1].node]
        /\ dfs'[rep'[n]] = dfs[rep[n]]
        /\ dfs'[rep'[frames'[i].node]] = dfs[rep[frames[i - 1].node]]
    BY <1>9, <2>1, <2>3 DEF Search, Guesses
  <2>5. frames[i - 1].child = NoRep \/ dfs[n] < dfs[frames[i - 1].child]
    <3>1. CASE i - 1 = 1
      BY <2>2, <3>1
    <3>2. CASE i - 1 # 1
      <4>1. i - 1 > 1
        BY <1>6, <2>2, <3>2
      <4>2. frames'[i].child = frames[i - 1].child /\ frames[i - 1].child = frames[(i - 1) - 1].node
        BY <2>2, <4>1 DEF Search, Calls
      <4>3. (i - 1) - 1 \in DOMAIN frames
        BY <1>6, <2>2, <4>1
      <4>4. dfs'[frames[i - 1].child] = dfs[frames[i - 1].child]
        BY <1>8, <1>9, <4>2, <4>3
      <4> QED
        BY <2>4, <4>2, <4>4
    <3> QED
      BY <3>1, <3>2
  <2> QED
    BY <2>2, <2>4, <2>5 DEF Search, Carried
<1>20. JustEnded'
  BY <1>6 DEF JustEnded
<1>21. Kept'
  <2>1. \A n \in inSCC : n \in visited /\ n \in N /\ n # w /\ rep'[n] = rep[n]
    BY <1>1, <1>9
  <2>2. TopologicalOrder'
    BY <1>9 DEF Kept, TopologicalOrder
  <2>3. OnTopo'
    BY <2>1 DEF Kept, OnTopo
  <2>4. subNodes[w] = {} /\ \A r \in N \ {w} : subNodes'[r] = subNodes[r]
    BY <1>1, <1>2, <1>7 DEF Kept, SubNodesKept
  <2>5. ASSUME NEW r \in N, NEW n \in subNodes'[r]
        PROVE  /\ n \in visited' /\ r \in visited'
               /\ n \in Reached(edges', N, r) /\ r \in Reached(edges', N, n) /\ dfs'[r] <= dfs'[n]
    <3>1. CASE r = w
      <4>1. n = w
        BY <1>7, <2>4, <3>1
      <4> QED
        BY <1>1, <1>2, <1>3, <1>7, <1>9, <3>1, <4>1, ReachedItself
    <3>2. CASE r # w
      <4>1. n \in subNodes[r]
        BY <2>4, <3>2
      <4>2. /\ n \in visited /\ r \in visited
            /\ n \in Reached(edges, N, r) /\ r \in Reached(edges, N, n) /\ dfs[r] <= dfs[n]
        BY <4>1 DEF Kept, SubNodesKept
      <4> QED
        BY <1>7, <1>9, <4>2
    <3> QED
      BY <3>1, <3>2
  <2>6. \A r \in visited' : rep'[r] = r => r \in subNodes'[r]
    BY <1>1, <1>7, <1>9, <2>4 DEF Kept, SubNodesKept
  <2>7. \A r \in inSCC' : subNodes'[r] = {n \in inSCC' : rep'[n] = r}
    BY <2>1, <2>4 DEF Kept, SubNodesKept
  <2>8. \A r \in repNodes' : \E n \in subNodes'[r] : n # r
    BY <1>1, <1>7, <2>4 DEF Kept, SubNodesKept
  <2>9. \A n \in inSCC' : rep'[n] # n => rep'[n] \in repNodes'
    BY <1>7, <2>1 DEF Kept, SubNodesKept
  <2> QED
    BY <2>2, <2>3, <2>5, <2>6, <2>7, <2>8, <2>9 DEF Kept, SubNodesKept
<1> QED
  BY <1>10, <1>11, <1>12, <1>13, <1>14, <1>15, <1>16, <1>17, <1>18, <1>19, <1>20, <1>21
  DEF Search

\* What the invariant says of the innermost call.
LEMMA InnermostCall ==
    ASSUME IInv, frames # <<>>
    PROVE  LET v == frames[1].node
           IN  /\ 1 \in DOMAIN frames /\ Head(frames) = frames[1] /\ frames[1] \in Frame
               /\ v \in OpenNodes /\ v \notin Stacked
               /\ \A n \in OpenNodes : v \in Reached(edges, N, n)
               /\ \A i \in DOMAIN frames : i # 1 => dfs[frames[i].node] < dfs[v]
<1> DEFINE v == frames[1].node
<1> USE DEF IInv
<1>1. frames \in Seq(Frame)
      /\ OpenNodes = {frames[i].node : i \in DOMAIN frames} \cup Stacked
  BY DEF TypeOK, Frame, OpenNodes, Stacked
<1>2. 1 \in DOMAIN frames /\ Head(frames) = frames[1] /\ frames[1] \in Frame
      /\ \A i \in DOMAIN frames : i = 1 \/ i > 1
  BY <1>1, Popping
<1>3. v \in OpenNodes /\ v \notin Stacked /\ \A i \in DOMAIN frames : frames[i].node \in OpenNodes
  BY <1>1, <1>2 DEF Search, Calls
<1>4. \A i \in DOMAIN frames : i # 1 => dfs[frames[i].node] < dfs[v]
  BY <1>2 DEF Search, Calls
<1>5. ASSUME NEW n \in OpenNodes PROVE v \in Reached(edges, N, n)
  <2>1. PICK i \in DOMAIN frames :
            dfs[frames[i].node] <= dfs[n] /\ frames[i].node \in Reached(edges, N, n)
    BY DEF Search, LeadBack
  <2>2. n \in N /\ v \in visited /\ \A m \in OpenNodes : dfs[m] \in Int
    BY <1>3 DEF OpenNodes, TypeOK
  <2>3. dfs[frames[i].node] <= dfs[v]
    BY <1>3, <1>4, <2>2
  <2>4. v \in Reached(edges, N, frames[i].node)
    BY <2>2, <2>3 DEF Search, MetLater
  <2> QED
    BY <2>1, <2>2, <2>4, ReachedOn
<1> QED
  BY <1>2, <1>3, <1>4, <1>5

LEMMA LookInv ==
    ASSUME IInv, NEW w \in N, Look(w)
    PROVE  IInv'
<1> DEFINE v == frames[1].node
<1> USE DEF IInv
<1>1. /\ edges \subseteq N \X N /\ frames \in Seq(Frame) /\ visited \subseteq N /\ inSCC \subseteq visited
      /\ rep \in [N -> N \cup {NoRep}] /\ subNodes \in [N -> SUBSET N] /\ repNodes \subseteq N
      /\ dfs \in [N -> 0 .. Cardinality(N)]
      /\ OpenNodes = {frames[i].node : i \in DOMAIN frames} \cup Stacked
      /\ \A n \in N : n \in visited <=> rep[n] # NoRep /\ dfs[n] # 0
  BY DEF TypeOK, Frame, OpenNodes, Stacked
<1>2. /\ frames # <<>> /\ frames[1].child \in {NoRep, w}
      /\ w \in frames[1].rest /\ w \in visited
      /\ frames' = <<[frames[1] EXCEPT !.rest = @ \ {w}, !.child = NoRep]>> \o Tail(frames)
      /\ 1 \in DOMAIN frames /\ frames[1] \in Frame
      /\ v \in OpenNodes /\ v \notin Stacked
      /\ \A n \in OpenNodes : v \in Reached(edges, N, n)
      /\ UNCHANGED <<edges, cand, visited, inSCC, dfs, count, ss, topo>>
  BY InnermostCall DEF Look
<1>3. /\ frames' \in Seq(Frame) /\ DOMAIN frames' = DOMAIN frames
      /\ frames'[1] = [frames[1] EXCEPT !.rest = @ \ {w}, !.child = NoRep]
      /\ \A i \in DOMAIN frames : i = 1 \/ (i > 1 /\ frames'[i] = frames[i])
  <2> DEFINE f == [frames[1] EXCEPT !.rest = @ \ {w}, !.child = NoRep]
  <2>1. f \in Frame
    BY <1>2 DEF Frame
  <2> HIDE DEF f
  <2>2. /\ Tail(frames) \in Seq(Frame) /\ Len(frames) \in Nat \ {0}
        /\ DOMAIN frames = 1 .. Len(frames) /\ DOMAIN Tail(frames) = 1 .. Len(frames) - 1
        /\ Len(Tail(frames)) = Len(frames) - 1
        /\ \A i \in DOMAIN frames :
              i = 1 \/ (i > 1 /\ i - 1 \in DOMAIN Tail(frames) /\ frames[i] = Tail(frames)[i - 1])
    BY <1>1, <1>2, Popping
  <2>3. /\ frames' = <<f>> \o Tail(frames)
        /\ frames' \in Seq(Frame) /\ DOMAIN frames' = 1 .. Len(Tail(frames)) + 1 /\ frames'[1] = f
        /\ \A i \in DOMAIN Tail(frames) : frames'[i + 1] = Tail(frames)[i]
    BY <1>2, <2>1, <2>2, Pushed DEF f
  <2>4. ASSUME NEW i \in DOMAIN frames, i # 1 PROVE i > 1 /\ frames'[i] = frames[i]
    <3>1. i > 1 /\ i - 1 \in DOMAIN Tail(frames) /\ frames[i] = Tail(frames)[i - 1] /\ (i - 1) + 1 = i
      BY <2>2, <2>4
    <3> QED
      BY <2>3, <3>1
  <2> QED
    BY <2>2, <2>3, <2>4 DEF f
<1>4. /\ frames'[1].node = v /\ frames'[1].rest = frames[1].rest \ {w} /\ frames'[1].child = NoRep
      /\ \A i \in DOMAIN frames : frames'[i].node = frames[i].node
  BY <1>2, <1>3 DEF Frame
<1>5. /\ OpenNodes' = OpenNodes /\ Stacked' = Stacked /\ Stacked \subseteq OpenNodes
      /\ OpenNodes \subseteq visited /\ visited \subseteq N
      /\ \A n \in N : dfs[n] \in Int
      /\ \A n \in visited : rep[n] \in N
      /\ v \in visited /\ v \in N
  BY <1>1, <1>2 DEF OpenNodes, Stacked
<1>6. w \in Succ(v)
  BY <1>2 DEF Search, Calls
<1>7. /\ rep' \in [N -> N \cup {NoRep}] /\ \A n \in N : n # v => rep'[n] = rep[n]
      /\ rep'[v] \in OpenNodes /\ dfs[rep'[v]] <= dfs[rep[v]]
      /\ rep'[v] \in Reached(edges, N, v) /\ v \in Reached(edges, N, rep'[v])
      /\ w \in inSCC \/ dfs[rep'[v]] <= dfs[rep[w]]
      /\ w \in inSCC \/ dfs[rep'[v]] <= dfs[w]
  <2>1. rep[v] \in OpenNodes /\ rep[v] \in N
        /\ rep[v] \in Reached(edges, N, v) /\ v \in Reached(edges, N, rep[v])
    BY <1>2, <1>5 DEF Search, Guesses, Equivalent
  <2>2. CASE w \in inSCC
    BY <1>1, <1>5, <2>1, <2>2 DEF Look, Open
  <2>3. CASE w \notin inSCC
    <3> DEFINE r == FirstRep(v, w)
    <3>1. /\ rep[w] \in OpenNodes /\ dfs[rep[w]] <= dfs[w] /\ w \in N /\ rep[w] \in N
          /\ rep[w] \in Reached(edges, N, w)
      BY <1>2, <1>5, <2>3 DEF Search, Guesses, Equivalent, OpenNodes
    <3>2. r \in OpenNodes /\ dfs[r] <= dfs[rep[v]] /\ dfs[r] <= dfs[rep[w]]
          /\ r \in {rep[v], rep[w]}
      BY <1>5, <2>1, <3>1 DEF FirstRep
    <3>3. rep[w] \in Reached(edges, N, v)
      BY <1>1, <1>5, <1>6, <3>1, SuccReached, ReachedOn
    <3>4. v \in Reached(edges, N, r) /\ r \in Reached(edges, N, v)
      BY <1>2, <2>1, <3>2, <3>3
    <3> HIDE DEF r
    <3>5. rep' = [n \in N |-> IF n \in {v} THEN r ELSE rep[n]]
      BY <2>3, InnermostCall, <1>2 DEF Look, Open, SetRep, r
    <3> QED
      BY <1>1, <1>5, <3>1, <3>2, <3>4, <3>5
  <2> QED
    BY <2>2, <2>3
<1>8. TypeOK'
  <2>1. frames' \in Seq([node : N, rest : SUBSET N, child : N \cup {NoRep}])
    BY <1>3 DEF Frame
  <2>2. {frames'[i].node : i \in DOMAIN frames'} = {frames[i].node : i \in DOMAIN frames}
    BY <1>3, <1>4
  <2>3. \A n \in N : n \in visited <=> rep'[n] # NoRep /\ dfs[n] # 0
    BY <1>1, <1>5, <1>7, NoRepAssumption
  <2>4. subNodes' \in [N -> SUBSET N] /\ repNodes' \subseteq N
    <3>1. CASE w \in inSCC
      BY <1>1, <3>1 DEF Look, Open
    <3>2. CASE w \notin inSCC
      <4>1. Head(frames).node = v /\ rep[v] \in N /\ rep[w] \in N
        BY <1>2, <1>5, InnermostCall
      <4>2. FirstRep(v, w) \in N
        BY <4>1 DEF FirstRep
      <4> DEFINE r == FirstRep(v, w)
      <4>3. SetRep({v}, r)
        BY <3>2, <4>1 DEF Look, Open
      <4> HIDE DEF r
      <4>4. r \in N
        BY <4>2 DEF r
      <4>5. v \in N
        BY <1>5
      <4>6. subNodes' = [n \in N |-> IF n = r THEN subNodes[r] \cup {v}
                                    ELSE IF n \in {v} THEN {} ELSE subNodes[n]]
            /\ repNodes' \subseteq repNodes \cup {r}
        BY <4>3 DEF SetRep
      <4> QED
        BY <1>1, <4>4, <4>5, <4>6
    <3> QED
      BY <3>1, <3>2
  <2>5. visited' \ inSCC' = {frames'[i].node : i \in DOMAIN frames'} \cup {ss'[i] : i \in DOMAIN ss'}
    <3>1. visited' \ inSCC' = OpenNodes /\ {ss'[i] : i \in DOMAIN ss'} = Stacked
      BY <1>2 DEF OpenNodes, Stacked
    <3> QED
      BY <1>1, <2>2, <3>1
  <2> HIDE DEF v
  <2> QED
    BY <1>1, <1>2, <1>7, <2>1, <2>3, <2>4, <2>5 DEF TypeOK
<1>9. \A i \in DOMAIN frames : frames[i].node \in OpenNodes /\ frames[i].node \in N
      /\ (i # 1 => i > 1 /\ i - 1 \in DOMAIN frames)
  BY <1>1, <1>3, <1>5
<1>10. \A n \in OpenNodes : n # v => rep'[n] = rep[n]
  BY <1>5, <1>7
<1>11. \A n \in OpenNodes : dfs[rep'[n]] <= dfs[rep[n]] /\ rep'[n] \in OpenNodes /\ rep[n] \in OpenNodes
  BY <1>5, <1>7, <1>10 DEF Search, Guesses
<1>12. Numbered'
  BY <1>2 DEF Search, Numbered
<1>13. Calls'
  <2>1. ASSUME NEW i \in DOMAIN frames', NEW j \in DOMAIN frames', i < j
        PROVE  dfs'[frames'[j].node] < dfs'[frames'[i].node]
    <3>1. /\ i \in DOMAIN frames /\ j \in DOMAIN frames /\ dfs' = dfs
          /\ frames'[i].node = frames[i].node /\ frames'[j].node = frames[j].node
      BY <1>2, <1>3, <1>4
    <3>2. dfs[frames[j].node] < dfs[frames[i].node]
      BY <2>1, <3>1 DEF Search, Calls
    <3> QED
      BY <3>1, <3>2
  <2>2. ASSUME NEW i \in DOMAIN frames'
        PROVE  (/\ frames[i].node \notin Stacked
                /\ frames[i].rest \subseteq Succ(frames[i].node)
                /\ i > 1 => frames[i].child = frames[i - 1].node)'
    <3>1. frames'[i].node = frames[i].node /\ frames'[i].rest \subseteq frames[i].rest
      BY <1>3, <1>4
    <3>2. frames[i].node \notin Stacked' /\ frames[i].rest \subseteq Succ(frames[i].node)
      BY <1>3, <1>5 DEF Search, Calls
    <3>3. i > 1 => frames'[i].child = frames'[i - 1].node
      BY <1>3, <1>4, <1>9 DEF Search, Calls
    <3> QED
      BY <1>2, <3>1, <3>2, <3>3 DEF Succ
  <2> QED
    BY <2>1, <2>2 DEF Calls
<1>14. StackOrder'
  <2> SUFFICES ASSUME NEW i \in DOMAIN frames, NEW j \in DOMAIN ss, NEW k \in DOMAIN ss,
                      j < k, dfs[ss[k]] > dfs[frames[i].node]
               PROVE  dfs[ss[j]] > dfs[frames[i].node]
    <3>1. DOMAIN frames' = DOMAIN frames /\ \A i \in DOMAIN frames : frames'[i].node = frames[i].node
      BY <1>3, <1>4
    <3>2. ss' = ss /\ dfs' = dfs
      BY <1>2
    <3> HIDE DEF IInv
    <3> QED
      BY <3>1, <3>2 DEF StackOrder
  <2> QED
    BY DEF Search, StackOrder
<1>15. MetLater'
  BY <1>2, <1>3, <1>4 DEF Search, MetLater
<1>16. LeadBack'
  BY <1>2, <1>3, <1>4, <1>5 DEF Search, LeadBack
<1>17. Guesses'
  <2> SUFFICES ASSUME NEW n \in OpenNodes PROVE rep'[n] \in OpenNodes /\ dfs[rep'[n]] <= dfs[n]
    BY <1>2, <1>5 DEF Guesses
  <2>1. n \in N /\ rep[n] \in N /\ rep'[n] \in N /\ dfs[rep[n]] <= dfs[n]
    BY <1>5, <1>11 DEF Search, Guesses
  <2> QED
    BY <1>5, <1>11, <2>1
<1>18. Equivalent'
  <2> SUFFICES ASSUME NEW n \in visited
               PROVE  rep'[n] \in Reached(edges, N, n) /\ n \in Reached(edges, N, rep'[n])
    BY <1>2 DEF Equivalent
  <2> QED
    BY <1>5, <1>7 DEF Search, Equivalent
<1>19. AllHandled'
  <2>1. ASSUME NEW n \in OpenNodes, NEW m, Handled(n, m)
        PROVE  m \in visited' /\ (m \in inSCC' \/ dfs'[rep'[n]] <= dfs'[m])
    <3>1. m \in N /\ rep[n] \in N /\ rep'[n] \in N /\ dfs[rep'[n]] <= dfs[rep[n]]
          /\ m \in visited /\ (m \in inSCC \/ dfs[rep[n]] <= dfs[m])
      BY <1>5, <1>11, <2>1 DEF Handled
    <3> QED
      BY <1>2, <1>5, <3>1
  <2>2. ASSUME NEW n \in Stacked', NEW m \in Succ(n)' PROVE Handled(n, m)'
    <3>1. n \in Stacked /\ n \in OpenNodes /\ m \in Succ(n)
      BY <1>2, <1>5 DEF Succ
    <3> QED
      BY <2>1, <3>1 DEF Search, AllHandled, Handled
  <2>3. ASSUME NEW i \in DOMAIN frames', NEW m \in (Succ(frames[i].node) \ frames[i].rest)'
        PROVE  Handled(frames[i].node, m)'
    <3> DEFINE n == frames[i].node
    <3>1. m \in Succ(frames'[i].node) /\ m \notin frames'[i].rest
      BY <1>2 DEF Succ
    <3>2. n \in OpenNodes /\ frames'[i].node = n /\ m \in Succ(n)
      BY <1>3, <1>4, <1>9, <3>1
    <3>3. m \in visited' /\ (m \in inSCC' \/ dfs'[rep'[n]] <= dfs'[m])
      <4>1. CASE m \notin frames[i].rest
        <5>1. Handled(n, m)
          BY <1>3, <3>2, <4>1 DEF Search, AllHandled
        <5> QED
          BY <2>1, <3>2, <5>1
      <4>2. CASE m \in frames[i].rest
        <5>1. i = 1 /\ m = w
          BY <1>3, <1>4, <3>1, <4>2
        <5> QED
          BY <1>2, <1>7, <5>1
      <4> QED
        BY <4>1, <4>2
    <3> QED
      BY <3>2, <3>3 DEF Handled
  <2> QED
    BY <2>2, <2>3 DEF AllHandled
<1>20. Carried'
  <2> SUFFICES ASSUME NEW i \in DOMAIN frames, NEW n \in Stacked,
                      dfs[n] > dfs[frames[i].node],
                      frames'[i].child = NoRep \/ dfs[n] < dfs[frames'[i].child]
               PROVE  dfs[rep'[frames[i].node]] <= dfs[rep'[n]]
    <3>1. DOMAIN frames' = DOMAIN frames /\ \A i \in DOMAIN frames : frames'[i].node = frames[i].node
      BY <1>3, <1>4
    <3>2. Stacked' = Stacked /\ dfs' = dfs
      BY <1>2, <1>5
    <3> HIDE DEF IInv
    <3> QED
      BY <3>1, <3>2 DEF Carried
  <2>1. n \in OpenNodes /\ rep'[n] = rep[n] /\ n # v /\ rep[n] \in N
    BY <1>2, <1>5, <1>10, <1>11
  <2>2. ASSUME dfs[rep[frames[i].node]] <= dfs[rep[n]] PROVE dfs[rep'[frames[i].node]] <= dfs[rep'[n]]
    <3>1. frames[i].node \in OpenNodes
      BY <1>9
    <3>2. dfs[rep'[frames[i].node]] <= dfs[rep[frames[i].node]]
          /\ rep'[frames[i].node] \in N /\ rep[frames[i].node] \in N
      BY <1>5, <1>11, <3>1
    <3> QED
      BY <1>5, <2>1, <2>2, <3>2
  <2>3. CASE i # 1
    BY <1>3, <2>2, <2>3 DEF Search, Carried
  <2>4. CASE i = 1 /\ frames[1].child = NoRep
    BY <2>2, <2>4 DEF Search, Carried
  <2>5. CASE i = 1 /\ frames[1].child = w /\ dfs[n] < dfs[w]
    BY <2>2, <2>5 DEF Search, Carried
  <2>6. CASE i = 1 /\ frames[1].child = w /\ w # NoRep /\ ~(dfs[n] < dfs[w])
    <3>1. dfs[n] >= dfs[w]
      BY <1>5, <2>1, <2>6
    <3>2. w \notin inSCC /\ dfs[rep[w]] <= dfs[rep[n]]
      BY <1>2, <2>6, <3>1 DEF Search, JustEnded
    <3>3. dfs[rep'[v]] <= dfs[rep[w]] /\ rep[w] \in N /\ rep'[v] \in N
      BY <1>2, <1>5, <1>7, <3>2
    <3> QED
      BY <1>5, <2>1, <2>6, <3>2, <3>3
  <2> QED
    BY <1>2, <2>3, <2>4, <2>5, <2>6
<1>21. JustEnded'
  BY <1>4 DEF JustEnded
<1>22. Kept'
  <2>1. \A n \in inSCC : n # v /\ n \in N /\ rep'[n] = rep[n]
    BY <1>1, <1>2, <1>7 DEF OpenNodes
  <2>2. TopologicalOrder' /\ OnTopo'
    <3>1. TopologicalOrder'
      BY <1>2 DEF Kept, TopologicalOrder
    <3>2. OnTopo'
      BY <1>2, <2>1 DEF Kept, OnTopo
    <3> QED
      BY <3>1, <3>2
  <2>3. SubNodesKept'
    <3>1. CASE w \in inSCC
      BY <1>2, <3>1 DEF Kept, SubNodesKept, Look, Open
    <3>2. CASE w \notin inSCC
      <4> DEFINE r == FirstRep(v, w)
      <4>1. Head(frames).node = v
        BY <1>2, InnermostCall
      <4>2. SetRep({v}, r)
        BY <3>2, <4>1 DEF Look, Open
      <4> HIDE DEF r
      <4>3. r = rep'[v] /\ r \in OpenNodes /\ r \in N /\ r \in visited
        BY <1>1, <1>5, <1>7, <4>2 DEF SetRep
      <4>4. /\ subNodes'[r] = subNodes[r] \cup {v}
            /\ v # r => subNodes'[v] = {}
            /\ \A m \in N : m # r /\ m # v => subNodes'[m] = subNodes[m]
            /\ \A m \in N : m # v => (m \in repNodes' <=> m \in repNodes \/ m = r)
            /\ v \in repNodes' <=> v = r /\ r \in repNodes
        BY <1>5, <4>2, <4>3 DEF SetRep
      <4>5. dfs[r] <= dfs[v]
        BY <1>2, <1>17, <4>3 DEF Guesses, OpenNodes
      <4>6. ASSUME NEW m \in N, NEW n \in subNodes'[m]
            PROVE  /\ n \in visited /\ m \in visited
                   /\ n \in Reached(edges, N, m) /\ m \in Reached(edges, N, n) /\ dfs[m] <= dfs[n]
        <5>1. n \in subNodes[m] \/ (m = r /\ n = v)
          BY <4>4, <4>6
        <5>2. CASE n \in subNodes[m]
          BY <5>2 DEF Kept, SubNodesKept
        <5>3. CASE m = r /\ n = v
          BY <1>5, <1>7, <4>3, <4>5, <5>3
        <5> QED
          BY <5>1, <5>2, <5>3
      <4>7. \A m \in visited : rep'[m] = m => m \in subNodes'[m]
        BY <1>5, <1>7, <4>3, <4>4 DEF Kept, SubNodesKept
      <4>8. \A m \in inSCC : subNodes'[m] = {n \in inSCC : rep'[n] = m}
        BY <1>2, <2>1, <4>3, <4>4 DEF Kept, SubNodesKept, OpenNodes
      <4>9. \A m \in repNodes' : \E n \in subNodes'[m] : n # m
        <5> SUFFICES ASSUME NEW m \in repNodes' PROVE \E n \in subNodes'[m] : n # m
          OBVIOUS
        <5>1. m \in N
          BY <1>8 DEF TypeOK
        <5>2. CASE m = v
          BY <4>4, <5>2 DEF Kept, SubNodesKept
        <5>3. CASE m # v /\ m = r
          BY <4>4, <5>3
        <5>4. CASE m # v /\ m # r
          BY <4>4, <5>1, <5>4 DEF Kept, SubNodesKept
        <5> QED
          BY <5>2, <5>3, <5>4
      <4>10. \A n \in inSCC : rep'[n] # n => rep'[n] \in repNodes'
        <5> SUFFICES ASSUME NEW n \in inSCC, rep[n] # n PROVE rep[n] \in repNodes'
          BY <2>1
        <5>1. rep[n] \in repNodes /\ rep[n] \in N
          BY <1>1 DEF Kept, SubNodesKept
        <5>2. inSCC \in Closed(edges, N) /\ n \in Reached(edges, N, rep[n])
              /\ rep[n] \in Reached(edges, N, n)
          BY <1>1 DEF Kept, TopologicalOrder, Search, Equivalent
        <5>3. rep[n] # v
          BY <1>2, <5>2, ReachedInClosed DEF OpenNodes
        <5> QED
          BY <4>4, <5>1, <5>3
      <4> QED
        BY <1>2, <4>6, <4>7, <4>8, <4>9, <4>10 DEF SubNodesKept
    <3> QED
      BY <3>1, <3>2
  <2> QED
    BY <2>2, <2>3 DEF Kept
<1> QED
  BY <1>8, <1>12, <1>13, <1>14, <1>15, <1>16, <1>17, <1>18, <1>19, <1>20, <1>21, <1>22
  DEF Search

\* What pops: exactly the nodes that wait and were met after v.
LEMMA PopsLaterOnes ==
    ASSUME IInv, frames # <<>>
    PROVE  LET v == frames[1].node
               k == Pops(v)
           IN  /\ k \in 0 .. Len(ss)
               /\ \A i \in 1 .. k : dfs[ss[i]] > dfs[v]
               /\ \A i \in k + 1 .. Len(ss) : dfs[ss[i]] < dfs[v]
<1> DEFINE v == frames[1].node
           L == Len(ss)
           D == {i \in 1 .. L : dfs[ss[i]] > dfs[v]}
           P(k) == /\ \A i \in 1 .. k : dfs[ss[i]] > dfs[v]
                   /\ k < L => dfs[ss[k + 1]] <= dfs[v]
<1> USE DEF IInv
<1>1. /\ L \in Nat /\ DOMAIN ss = 1 .. L
      /\ \A i \in 1 .. L : dfs[ss[i]] \in Int /\ dfs[ss[i]] # dfs[v]
      /\ dfs[v] \in Int
  <2>1. ss \in Seq(N) /\ dfs \in [N -> 0 .. Cardinality(N)] /\ Stacked \subseteq visited
        /\ OpenNodes \subseteq visited /\ visited \subseteq N
    BY DEF TypeOK, Stacked, OpenNodes
  <2>2. v \in OpenNodes /\ v \notin Stacked
    BY InnermostCall
  <2>3. L \in Nat /\ DOMAIN ss = 1 .. L
    BY <2>1
  <2>4. \A i \in 1 .. L : ss[i] \in Stacked
    BY <2>3 DEF Stacked
  <2>5. \A n \in N : dfs[n] \in Int
    BY <2>1
  <2>6. ASSUME NEW i \in 1 .. L PROVE dfs[ss[i]] # dfs[v]
    BY <2>1, <2>2, <2>4 DEF Search, Numbered
  <2> QED
    BY <2>1, <2>2, <2>3, <2>4, <2>5, <2>6
<1>2. \A i, j \in 1 .. L : i < j /\ j \in D => i \in D
  BY <1>1, InnermostCall DEF Search, StackOrder
<1>3. \E k \in 0 .. L : P(k)
  <2> DEFINE c == Cardinality(D)
  <2>1. IsFiniteSet(1 .. L) /\ Cardinality(1 .. L) = L
    <3>1. 1 \in Int /\ L \in Int /\ (IF 1 > L THEN 0 ELSE L - 1 + 1) = L
      BY <1>1
    <3> HIDE DEF L, IInv
    <3> QED
      BY <3>1, FS_Interval
  <2>2. IsFiniteSet(D) /\ c <= L /\ c \in Nat
    BY <2>1, FS_Subset, FS_CardinalityType
  <2>3. ASSUME NEW j \in D PROVE j <= c
    <3>1. 1 .. j \subseteq D
      BY <1>1, <1>2
    <3>2. j \in Nat /\ Cardinality(1 .. j) = j
      BY <1>1, FS_Interval
    <3> QED
      BY <2>2, <3>1, <3>2, FS_Subset
  <2> HIDE DEF c
  <2>4. D \in SUBSET (1 .. c) /\ IsFiniteSet(1 .. c) /\ Cardinality(1 .. c) = c
    <3>1. 1 \in Int /\ c \in Int /\ (IF 1 > c THEN 0 ELSE c - 1 + 1) = c
      BY <2>2
    <3>2. IsFiniteSet(1 .. c) /\ Cardinality(1 .. c) = c
      BY <3>1, FS_Interval
    <3> QED
      BY <1>1, <2>2, <2>3, <3>2
  <2>5. D = 1 .. c
    BY <2>4, FS_Subset DEF c
  <2>6. c \in 0 .. L /\ \A i \in 1 .. c : dfs[ss[i]] > dfs[v]
    BY <1>1, <2>2, <2>5
  <2>7. c < L => dfs[ss[c + 1]] <= dfs[v]
    <3> SUFFICES ASSUME c < L PROVE dfs[ss[c + 1]] <= dfs[v]
      OBVIOUS
    <3>1. c + 1 \in 1 .. L /\ c + 1 \notin 1 .. c
      BY <1>1, <2>2
    <3> QED
      BY <1>1, <2>5, <3>1
  <2> QED
    BY <2>6, <2>7
<1>4. Pops(v) \in 0 .. L /\ P(Pops(v))
  <2>1. Pops(v) = CHOOSE k \in 0 .. L : P(k)
    BY DEF Pops
  <2> HIDE DEF P
  <2> QED
    BY <1>3, <2>1
<1>5. ASSUME NEW i \in Pops(v) + 1 .. L PROVE dfs[ss[i]] < dfs[v]
  <2>1. /\ Pops(v) \in Nat /\ Pops(v) < L /\ Pops(v) + 1 \in 1 .. L /\ i \in 1 .. L
        /\ Pops(v) + 1 = i \/ Pops(v) + 1 < i
    BY <1>1, <1>4
  <2>2. Pops(v) + 1 \notin D
    BY <1>1, <1>4, <2>1
  <2>3. i \notin D
    BY <1>2, <2>1, <2>2
  <2> QED
    BY <1>1, <2>1, <2>3
<1> QED
  BY <1>4, <1>5

\* What both ways of returning from visit have in common.
LEMMA ReturnFacts ==
    ASSUME IInv, Return
    PROVE  LET v == frames[1].node
           IN  /\ frames # <<>> /\ Head(frames).node = v /\ Head(frames) = frames[1]
               /\ 1 \in DOMAIN frames /\ v \in OpenNodes /\ v \notin Stacked
               /\ \A n \in OpenNodes : v \in Reached(edges, N, n)
               /\ frames[1].rest = {} /\ frames[1].child = NoRep
               /\ frames' \in Seq(Frame)
               /\ \A i \in DOMAIN frames' :
                     /\ i \in Nat /\ i > 0 /\ i + 1 \in DOMAIN frames
                     /\ frames'[i] = frames[i + 1]
                     /\ dfs[frames[i + 1].node] < dfs[v]
                     /\ i = 1 => frames[i + 1].child = v
               /\ \A i \in DOMAIN frames :
                     i = 1 \/ (i - 1 \in DOMAIN frames' /\ frames'[i - 1] = frames[i])
               /\ UNCHANGED <<edges, cand, visited, dfs, count>>
<1> DEFINE v == frames[1].node
<1> USE DEF IInv
<1>1. frames # <<>> /\ Head(frames).rest = {} /\ Head(frames).child = NoRep
      /\ frames' = Tail(frames) /\ UNCHANGED <<edges, cand, visited, dfs, count>>
  BY DEF Return
<1>2. /\ 1 \in DOMAIN frames /\ Head(frames) = frames[1]
      /\ v \in OpenNodes /\ v \notin Stacked
      /\ \A n \in OpenNodes : v \in Reached(edges, N, n)
      /\ \A i \in DOMAIN frames : i # 1 => dfs[frames[i].node] < dfs[v]
  BY <1>1, InnermostCall
<1>3. /\ frames' \in Seq(Frame) /\ DOMAIN frames' = 1 .. Len(frames) - 1 /\ Len(frames) \in Nat
      /\ \A i \in DOMAIN frames' : i + 1 \in DOMAIN frames /\ frames'[i] = frames[i + 1]
      /\ \A i \in DOMAIN frames :
            i = 1 \/ (i > 1 /\ i - 1 \in DOMAIN frames' /\ frames[i] = frames'[i - 1])
  <2>1. frames \in Seq(Frame)
    BY DEF TypeOK, Frame
  <2> QED
    BY <1>1, <2>1, Popping
<1>4. ASSUME NEW i \in DOMAIN frames'
      PROVE  /\ i \in Nat /\ i > 0 /\ i + 1 \in DOMAIN frames
             /\ frames'[i] = frames[i + 1]
             /\ dfs[frames[i + 1].node] < dfs[v]
             /\ i = 1 => frames[i + 1].child = v
  <2>1. i \in Nat /\ i > 0 /\ i + 1 \in DOMAIN frames /\ frames'[i] = frames[i + 1] /\ i + 1 > 1
    BY <1>3
  <2>2. frames[i + 1].child = frames[(i + 1) - 1].node
    BY <2>1 DEF Search, Calls
  <2>3. (i + 1) - 1 = i /\ i + 1 # 1
    BY <2>1
  <2> QED
    BY <1>2, <2>1, <2>2, <2>3
<1> QED
  BY <1>1, <1>2, <1>3, <1>4

\* The end of visit(v) when v is not the root of its component.
LEMMA ReturnOpenInv ==
    ASSUME IInv, Return, rep[frames[1].node] # frames[1].node
    PROVE  IInv'
<1> DEFINE v == frames[1].node
<1> USE DEF IInv
<1>1. /\ visited \subseteq N /\ inSCC \subseteq visited /\ ss \in Seq(N)
      /\ OpenNodes = {frames[i].node : i \in DOMAIN frames} \cup Stacked
      /\ \A n \in N : dfs[n] \in Int
  <2>1. dfs \in [N -> 0 .. Cardinality(N)]
    BY DEF TypeOK
  <2>2. \A n \in N : dfs[n] \in Int
    BY <2>1
  <2> QED
    BY <2>2 DEF TypeOK, OpenNodes, Stacked
<1>2. /\ frames # <<>> /\ Head(frames).node = v
      /\ 1 \in DOMAIN frames /\ v \in OpenNodes /\ v \notin Stacked
      /\ \A n \in OpenNodes : v \in Reached(edges, N, n)
      /\ frames[1].rest = {} /\ frames[1].child = NoRep
      /\ frames' \in Seq(Frame)
      /\ \A i \in DOMAIN frames' :
            /\ i \in Nat /\ i > 0 /\ i + 1 \in DOMAIN frames
            /\ frames'[i] = frames[i + 1]
            /\ dfs[frames[i + 1].node] < dfs[v]
            /\ i = 1 => frames[i + 1].child = v
      /\ \A i \in DOMAIN frames : i = 1 \/ (i - 1 \in DOMAIN frames' /\ frames'[i - 1] = frames[i])
      /\ UNCHANGED <<edges, cand, visited, dfs, count>>
  BY ReturnFacts
<1>3. ss' = <<v>> \o ss /\ UNCHANGED <<inSCC, rep, subNodes, repNodes, topo>>
  BY <1>2 DEF Return
<1>4. v \in N /\ v \in visited /\ v \notin inSCC
      /\ \A n \in OpenNodes : n \in N /\ n \in visited /\ rep[n] \in OpenNodes
  BY <1>1, <1>2 DEF OpenNodes, Search, Guesses
<1>5. /\ ss' \in Seq(N) /\ DOMAIN ss' = 1 .. Len(ss) + 1 /\ ss'[1] = v /\ Len(ss) \in Nat
      /\ DOMAIN ss = 1 .. Len(ss)
      /\ \A i \in DOMAIN ss : i + 1 \in DOMAIN ss' /\ ss'[i + 1] = ss[i]
      /\ \A i \in DOMAIN ss' : i = 1 \/ (i > 1 /\ i - 1 \in DOMAIN ss /\ ss'[i] = ss[i - 1])
  <2> HIDE DEF v
  <2>1. Len(ss) \in Nat /\ DOMAIN ss = 1 .. Len(ss)
    BY <1>1
  <2>2. v \in N
    BY <1>4 DEF v
  <2>3. ss' = <<v>> \o ss
    BY <1>3 DEF v
  <2> QED
    BY <1>1, <2>1, <2>2, <2>3, Pushed
<1>6. Stacked' = Stacked \cup {v} /\ OpenNodes' = OpenNodes
  <2>1. ASSUME NEW i \in DOMAIN ss' PROVE ss'[i] \in Stacked \cup {v}
    BY <1>5 DEF Stacked
  <2>2. ASSUME NEW i \in DOMAIN ss PROVE ss[i] \in Stacked'
    <3>1. i + 1 \in DOMAIN ss' /\ ss'[i + 1] = ss[i]
      BY <1>5
    <3> QED
      BY <3>1 DEF Stacked
  <2>3. v \in Stacked'
    <3>1. 1 \in DOMAIN ss' /\ ss'[1] = v
      BY <1>5
    <3> QED
      BY <3>1 DEF Stacked
  <2>4. OpenNodes' = OpenNodes
    BY <1>2, <1>3 DEF OpenNodes
  <2>5. Stacked \subseteq Stacked'
    BY <2>2 DEF Stacked
  <2>6. Stacked' \subseteq Stacked \cup {v}
    BY <2>1 DEF Stacked
  <2> QED
    BY <2>3, <2>4, <2>5, <2>6
<1>7. ASSUME NEW i \in DOMAIN frames'
      PROVE  /\ frames'[i].node = frames[i + 1].node /\ frames'[i].node \in OpenNodes
             /\ frames'[i].node # v
  <2>1. i + 1 \in DOMAIN frames /\ frames'[i] = frames[i + 1] /\ dfs[frames[i + 1].node] < dfs[v]
    BY <1>2
  <2>2. frames[i + 1].node \in OpenNodes
    BY <1>1, <2>1
  <2>3. frames[i + 1].node # v
    BY <1>1, <1>4, <2>1
  <2> QED
    BY <2>1, <2>2, <2>3
<1>8. TypeOK'
  <2>1. frames' \in Seq([node : N, rest : SUBSET N, child : N \cup {NoRep}])
    BY <1>2 DEF Frame
  <2>2. visited' \ inSCC' = {frames'[i].node : i \in DOMAIN frames'} \cup {ss'[i] : i \in DOMAIN ss'}
    <3>1. OpenNodes = {frames'[i].node : i \in DOMAIN frames'} \cup (Stacked \cup {v})
      <4>1. ASSUME NEW i \in DOMAIN frames
            PROVE  frames[i].node \in {frames'[j].node : j \in DOMAIN frames'} \cup {v}
        <5>1. CASE i = 1
          BY <5>1
        <5>2. CASE i - 1 \in DOMAIN frames' /\ frames'[i - 1] = frames[i]
          BY <5>2
        <5> QED
          BY <1>2, <5>1, <5>2
      <4>2. {frames'[i].node : i \in DOMAIN frames'} \subseteq OpenNodes
        BY <1>7
      <4>3. OpenNodes \subseteq {frames'[i].node : i \in DOMAIN frames'} \cup (Stacked \cup {v})
        BY <1>1, <4>1
      <4> QED
        BY <1>1, <1>2, <4>2, <4>3
    <3>2. OpenNodes' = visited' \ inSCC' /\ Stacked' = {ss'[i] : i \in DOMAIN ss'}
      BY DEF OpenNodes, Stacked
    <3> QED
      BY <1>6, <3>1, <3>2
  <2> HIDE DEF v
  <2> QED
    BY <1>2, <1>3, <1>5, <2>1, <2>2 DEF TypeOK
<1>9. Numbered'
  BY <1>2 DEF Search, Numbered
<1>10. Calls'
  <2>1. ASSUME NEW i \in DOMAIN frames', NEW j \in DOMAIN frames', i < j
        PROVE  dfs'[frames'[j].node] < dfs'[frames'[i].node]
    <3>1. i + 1 \in DOMAIN frames /\ j + 1 \in DOMAIN frames /\ i + 1 < j + 1
      BY <1>2, <2>1
    <3>2. dfs[frames[j + 1].node] < dfs[frames[i + 1].node]
      BY <3>1 DEF Search, Calls
    <3> QED
      BY <1>2, <3>2
  <2>2. ASSUME NEW i \in DOMAIN frames'
        PROVE  (/\ frames[i].node \notin Stacked
                /\ frames[i].rest \subseteq Succ(frames[i].node)
                /\ i > 1 => frames[i].child = frames[i - 1].node)'
    <3>1. i + 1 \in DOMAIN frames /\ frames'[i] = frames[i + 1] /\ i \in Nat /\ i > 0
      BY <1>2
    <3>2. frames[i + 1].node \notin Stacked /\ frames[i + 1].rest \subseteq Succ(frames[i + 1].node)
      BY <3>1 DEF Search, Calls
    <3>3. i > 1 => frames'[i].child = frames'[i - 1].node
      <4> SUFFICES ASSUME i > 1 PROVE frames'[i].child = frames'[i - 1].node
        OBVIOUS
      <4>1. i + 1 > 1 /\ (i + 1) - 1 = i /\ i # 1
        BY <3>1
      <4>2. i \in DOMAIN frames
        <5>1. frames \in Seq(Frame)
          BY DEF TypeOK, Frame
        <5>2. DOMAIN frames = 1 .. Len(frames) /\ Len(frames) \in Nat
          BY <5>1
        <5> QED
          BY <3>1, <5>2
      <4>3. frames'[i - 1] = frames[i]
        BY <1>2, <4>1, <4>2
      <4>4. frames[i + 1].child = frames[i].node
        BY <3>1, <4>1 DEF Search, Calls
      <4> QED
        BY <3>1, <4>3, <4>4
    <3> QED
      BY <1>2, <1>6, <1>7, <3>1, <3>2, <3>3 DEF Succ
  <2> QED
    BY <2>1, <2>2 DEF Calls
<1>11. StackOrder'
  <2> SUFFICES ASSUME NEW i \in DOMAIN frames', NEW j \in DOMAIN ss', NEW k \in DOMAIN ss',
                      j < k, dfs[ss'[k]] > dfs[frames[i + 1].node]
               PROVE  dfs[ss'[j]] > dfs[frames[i + 1].node]
    BY <1>2 DEF StackOrder
  <2>1. CASE j = 1
    <3>1. ss'[j] = v /\ dfs[v] \in Int /\ dfs[frames[i + 1].node] \in Int
      BY <1>1, <1>4, <1>5, <1>7, <2>1
    <3> QED
      BY <1>2, <3>1
  <2>2. CASE j # 1
    <3>1. j - 1 \in DOMAIN ss /\ k - 1 \in DOMAIN ss /\ j - 1 < k - 1
          /\ ss'[j] = ss[j - 1] /\ ss'[k] = ss[k - 1]
      BY <1>5, <2>2
    <3> QED
      BY <1>2, <3>1 DEF Search, StackOrder
  <2> QED
    BY <2>1, <2>2
<1>12. MetLater'
  BY <1>2 DEF Search, MetLater
<1>13. LeadBack'
  <2>1. ASSUME NEW n \in OpenNodes, NEW i \in DOMAIN frames,
               dfs[frames[i].node] <= dfs[n], frames[i].node \in Reached(edges, N, n), i # 1
        PROVE  \E j \in DOMAIN frames' :
                   dfs[frames'[j].node] <= dfs[n] /\ frames'[j].node \in Reached(edges, N, n)
    BY <1>2, <2>1
  <2> SUFFICES ASSUME NEW n \in OpenNodes
               PROVE  \E i \in DOMAIN frames' :
                          dfs[frames'[i].node] <= dfs[n] /\ frames'[i].node \in Reached(edges, N, n)
    BY <1>2, <1>6 DEF LeadBack
  <2>2. PICK i \in DOMAIN frames :
            dfs[frames[i].node] <= dfs[n] /\ frames[i].node \in Reached(edges, N, n)
    BY DEF Search, LeadBack
  <2>3. CASE i # 1
    BY <2>1, <2>2, <2>3
  <2>4. CASE i = 1
    <3>1. rep[v] \in OpenNodes /\ rep[v] \in N /\ dfs[rep[v]] < dfs[v]
          /\ rep[v] \in Reached(edges, N, v)
      <4>1. rep[v] \in OpenNodes /\ dfs[rep[v]] <= dfs[v] /\ rep[v] \in Reached(edges, N, v)
        BY <1>2, <1>4 DEF Search, Guesses, Equivalent
      <4>2. dfs[rep[v]] # dfs[v]
        BY <1>4, <4>1 DEF Search, Numbered
      <4> QED
        BY <1>1, <1>4, <4>1, <4>2
    <3>2. PICK j \in DOMAIN frames :
              dfs[frames[j].node] <= dfs[rep[v]] /\ frames[j].node \in Reached(edges, N, rep[v])
      BY <3>1 DEF Search, LeadBack
    <3>3. dfs[frames[j].node] \in Int /\ dfs[v] \in Int /\ dfs[n] \in Int /\ dfs[rep[v]] \in Int
          /\ dfs[v] <= dfs[n]
      BY <1>1, <1>4, <2>2, <2>4, <3>1
    <3>4. j # 1 /\ dfs[frames[j].node] <= dfs[n]
      BY <3>1, <3>2, <3>3
    <3>5. frames[j].node \in Reached(edges, N, n)
      BY <1>2, <1>4, <3>1, <3>2, ReachedOn
    <3> QED
      BY <2>1, <3>4, <3>5
  <2> QED
    BY <2>3, <2>4
<1>14. Guesses' /\ Equivalent'
  <2>1. Guesses'
    BY <1>2, <1>3, <1>6 DEF Search, Guesses
  <2>2. Equivalent'
    BY <1>2, <1>3 DEF Search, Equivalent
  <2> QED
    BY <2>1, <2>2
<1>15. AllHandled'
  <2>1. ASSUME NEW n, NEW m, Handled(n, m)
        PROVE  m \in visited' /\ (m \in inSCC' \/ dfs'[rep'[n]] <= dfs'[m])
    BY <1>2, <1>3, <2>1 DEF Handled
  <2>2. ASSUME NEW n \in Stacked', NEW m \in Succ(n)' PROVE Handled(n, m)'
    <3>1. m \in Succ(n)
      BY <1>2 DEF Succ
    <3>2. Handled(n, m)
      BY <1>2, <1>6, <3>1 DEF Search, AllHandled
    <3> QED
      BY <2>1, <3>2 DEF Handled
  <2>3. ASSUME NEW i \in DOMAIN frames', NEW m \in (Succ(frames[i].node) \ frames[i].rest)'
        PROVE  Handled(frames[i].node, m)'
    <3>1. i + 1 \in DOMAIN frames /\ m \in Succ(frames[i + 1].node) \ frames[i + 1].rest
      BY <1>2 DEF Succ
    <3>2. Handled(frames[i + 1].node, m)
      BY <3>1 DEF Search, AllHandled
    <3> QED
      BY <1>2, <2>1, <3>2 DEF Handled
  <2> QED
    BY <2>2, <2>3 DEF AllHandled
<1>16. Carried'
  <2> SUFFICES ASSUME NEW i \in DOMAIN frames', NEW n \in Stacked',
                      dfs[n] > dfs[frames[i + 1].node],
                      frames[i + 1].child = NoRep \/ dfs[n] < dfs[frames[i + 1].child]
               PROVE  dfs[rep[frames[i + 1].node]] <= dfs[rep[n]]
    BY <1>2, <1>3 DEF Carried
  <2>1. i + 1 \in DOMAIN frames
    BY <1>2
  <2>2. CASE n # v
    BY <1>6, <2>1, <2>2 DEF Search, Carried
  <2>3. CASE n = v
    <3>1. i + 1 > 1 /\ (i + 1) - 1 = i /\ i \in DOMAIN frames
      <4>1. frames \in Seq(Frame)
        BY DEF TypeOK, Frame
      <4>2. DOMAIN frames = 1 .. Len(frames) /\ Len(frames) \in Nat
        BY <4>1
      <4> QED
        BY <1>2, <4>2
    <3>2. frames[i + 1].child = frames[i].node
      BY <2>1, <3>1 DEF Search, Calls
    <3>3. frames[i].node \in OpenNodes
      BY <1>1, <3>1
    <3>4. dfs[frames[i].node] <= dfs[v]
      <4>1. CASE i = 1
        BY <1>1, <1>4, <4>1
      <4>2. CASE i # 1
        <5>1. i - 1 \in DOMAIN frames' /\ (i - 1) + 1 = i
          BY <1>2, <3>1, <4>2
        <5>2. dfs[frames[i].node] < dfs[v]
          BY <1>1, <1>2, <3>1, <4>2, <5>1
        <5>3. dfs[frames[i].node] \in Int /\ dfs[v] \in Int
          BY <1>1, <1>4, <3>3
        <5> QED
          BY <5>2, <5>3
      <4> QED
        BY <4>1, <4>2
    <3>5. frames[i].node # NoRep
      BY <1>4, <3>3, NoRepAssumption
    <3> QED
      BY <1>1, <1>4, <2>3, <3>2, <3>3, <3>4, <3>5
  <2> QED
    BY <2>2, <2>3
<1>17. JustEnded'
  <2> SUFFICES ASSUME frames' # <<>>, NEW n \in Stacked \cup {v}, dfs[n] >= dfs[v]
               PROVE  v \notin inSCC /\ dfs[rep[v]] <= dfs[rep[n]]
    <3> SUFFICES ASSUME frames' # <<>> PROVE JustEnded'
      BY DEF JustEnded
    <3>1. 1 \in DOMAIN frames'
      BY <1>2, Popping
    <3>2. frames'[1].child = v
      BY <1>2, <3>1
    <3> QED
      BY <1>2, <1>3, <1>6, <3>2 DEF JustEnded
  <2>1. CASE n = v
    <3>1. dfs[rep[v]] \in Int
      BY <1>1, <1>2, <1>4
    <3> QED
      BY <1>4, <2>1, <3>1
  <2>2. CASE n \in Stacked
    <3>1. n \in OpenNodes /\ n # v
      BY <1>1, <1>2, <2>2
    <3>2. dfs[n] # dfs[v]
      BY <1>4, <3>1 DEF Search, Numbered
    <3>3. dfs[n] > dfs[v]
      BY <1>1, <1>4, <3>1, <3>2
    <3> QED
      BY <1>2, <1>4, <2>2, <3>3 DEF Search, Carried
  <2> QED
    BY <2>1, <2>2
<1>18. Kept'
  <2>1. TopologicalOrder'
    BY <1>2, <1>3 DEF Kept, TopologicalOrder
  <2>2. OnTopo'
    BY <1>3 DEF Kept, OnTopo
  <2>3. SubNodesKept'
    BY <1>2, <1>3 DEF Kept, SubNodesKept
  <2> QED
    BY <2>1, <2>2, <2>3 DEF Kept
<1> QED
  BY <1>8, <1>9, <1>10, <1>11, <1>12, <1>13, <1>14, <1>15, <1>16, <1>17, <1>18
  DEF Search

\* The end of visit(v) when v is the root of its component.
LEMMA ReturnRootInv ==
    ASSUME IInv, Return, rep[frames[1].node] = frames[1].node
    PROVE  IInv'
<1> DEFINE v == frames[1].node
           k == Pops(v)
           members == {ss[i] : i \in 1 .. k}
           done == members \cup {v}
<1> USE DEF IInv
<1>1. /\ visited \subseteq N /\ inSCC \subseteq visited /\ ss \in Seq(N) /\ topo \in Seq(N)
      /\ edges \subseteq N \X N
      /\ rep \in [N -> N \cup {NoRep}] /\ subNodes \in [N -> SUBSET N] /\ repNodes \subseteq N
      /\ OpenNodes = {frames[i].node : i \in DOMAIN frames} \cup Stacked
      /\ \A n \in N : dfs[n] \in Int
      /\ \A n \in N : n \in visited <=> rep[n] # NoRep /\ dfs[n] # 0
  <2>1. dfs \in [N -> 0 .. Cardinality(N)]
    BY DEF TypeOK
  <2>2. \A n \in N : dfs[n] \in Int
    BY <2>1
  <2> QED
    BY <2>2 DEF TypeOK, OpenNodes, Stacked
<1>2. /\ frames # <<>> /\ Head(frames).node = v
      /\ 1 \in DOMAIN frames /\ v \in OpenNodes /\ v \notin Stacked
      /\ \A n \in OpenNodes : v \in Reached(edges, N, n)
      /\ frames[1].rest = {} /\ frames[1].child = NoRep
      /\ frames' \in Seq(Frame)
      /\ \A i \in DOMAIN frames' :
            /\ i \in Nat /\ i > 0 /\ i + 1 \in DOMAIN frames
            /\ frames'[i] = frames[i + 1]
            /\ dfs[frames[i + 1].node] < dfs[v]
            /\ i = 1 => frames[i + 1].child = v
      /\ \A i \in DOMAIN frames : i = 1 \/ (i - 1 \in DOMAIN frames' /\ frames'[i - 1] = frames[i])
      /\ UNCHANGED <<edges, cand, visited, dfs, count>>
  BY ReturnFacts
<1>3. /\ inSCC' = inSCC \cup members \cup {v}
      /\ IF members = {} THEN UNCHANGED <<rep, subNodes, repNodes>> ELSE SetRep(members, v)
      /\ ss' = SubSeq(ss, k + 1, Len(ss)) /\ topo' = <<v>> \o topo
  BY <1>2 DEF Return, Popped, TopoPush
<1>4. /\ v \in N /\ v \in visited /\ v \notin inSCC
      /\ \A n \in OpenNodes : n \in N /\ n \in visited /\ rep[n] \in OpenNodes /\ dfs[rep[n]] <= dfs[n]
      /\ Stacked \subseteq OpenNodes
      /\ \A n \in OpenNodes : dfs[n] = dfs[v] => n = v
  BY <1>1, <1>2 DEF OpenNodes, Search, Guesses, Numbered
<1>5. /\ k \in 0 .. Len(ss) /\ Len(ss) \in Nat /\ DOMAIN ss = 1 .. Len(ss)
      /\ \A i \in 1 .. k : i \in DOMAIN ss /\ dfs[ss[i]] > dfs[v]
      /\ \A i \in k + 1 .. Len(ss) : dfs[ss[i]] < dfs[v]
  <2>1. Len(ss) \in Nat /\ DOMAIN ss = 1 .. Len(ss)
    BY <1>1
  <2>2. /\ k \in 0 .. Len(ss)
        /\ \A i \in 1 .. k : dfs[ss[i]] > dfs[v]
        /\ \A i \in k + 1 .. Len(ss) : dfs[ss[i]] < dfs[v]
    BY <1>2, PopsLaterOnes
  <2> HIDE DEF k
  <2> QED
    BY <2>1, <2>2
<1> HIDE DEF k
<1>6. /\ ss' \in Seq(N) /\ DOMAIN ss' = 1 .. Len(ss) - k
      /\ \A i \in DOMAIN ss' : i + k \in k + 1 .. Len(ss) /\ i + k \in DOMAIN ss /\ ss'[i] = ss[i + k]
  <2>1. k + 1 \in Int /\ Len(ss) \in Int /\ \A i \in k + 1 .. Len(ss) : ss[i] \in N
    BY <1>1, <1>5
  <2>2. /\ SubSeq(ss, k + 1, Len(ss)) \in Seq(N)
        /\ Len(SubSeq(ss, k + 1, Len(ss))) =
              IF k + 1 <= Len(ss) THEN Len(ss) - (k + 1) + 1 ELSE 0
        /\ \A i \in 1 .. Len(ss) - (k + 1) + 1 : SubSeq(ss, k + 1, Len(ss))[i] = ss[(k + 1) + i - 1]
    BY <2>1, SubSeqProperties
  <2>3. Len(ss') = Len(ss) - k /\ ss' \in Seq(N)
    <3>1. (IF k + 1 <= Len(ss) THEN Len(ss) - (k + 1) + 1 ELSE 0) = Len(ss) - k
      <4>1. k \in Int /\ Len(ss) \in Int /\ k <= Len(ss)
        BY <1>5
      <4> QED
        BY <4>1
    <3>2. ss' = SubSeq(ss, k + 1, Len(ss))
      BY <1>3
    <3> QED
      BY <2>2, <3>1, <3>2
  <2>4. ASSUME NEW i \in 1 .. Len(ss) - k
        PROVE  i + k \in k + 1 .. Len(ss) /\ i + k \in DOMAIN ss /\ ss'[i] = ss[i + k]
    <3>1. i \in 1 .. Len(ss) - (k + 1) + 1 /\ (k + 1) + i - 1 = i + k
      BY <1>5
    <3> QED
      BY <1>3, <1>5, <2>2, <3>1
  <2> QED
    BY <2>3, <2>4
<1>7. members = {n \in Stacked : dfs[n] > dfs[v]} /\ Stacked' = {n \in Stacked : dfs[n] < dfs[v]}
  <2>1. ASSUME NEW n \in Stacked
        PROVE  \/ n \in members /\ dfs[n] > dfs[v]
               \/ n \in Stacked' /\ dfs[n] < dfs[v]
    <3>1. PICK i \in DOMAIN ss : n = ss[i]
      BY DEF Stacked
    <3>2. CASE i <= k
      <4>1. i \in 1 .. k
        BY <1>5, <3>2
      <4> QED
        BY <1>5, <3>1, <4>1
    <3>3. CASE ~(i <= k)
      <4>1. i \in k + 1 .. Len(ss) /\ i - k \in DOMAIN ss' /\ (i - k) + k = i
        BY <1>5, <1>6, <3>3
      <4>2. ss'[i - k] = n
        BY <1>6, <3>1, <4>1
      <4> QED
        BY <1>5, <3>1, <4>1, <4>2 DEF Stacked
    <3> QED
      BY <3>2, <3>3
  <2>2. ASSUME NEW n \in members PROVE n \in Stacked /\ dfs[n] > dfs[v]
    BY <1>5 DEF Stacked
  <2>3. ASSUME NEW n \in Stacked' PROVE n \in Stacked /\ dfs[n] < dfs[v]
    <3>1. PICK i \in DOMAIN ss' : n = ss'[i]
      BY DEF Stacked
    <3>2. i + k \in k + 1 .. Len(ss) /\ i + k \in DOMAIN ss /\ n = ss[i + k]
      BY <1>6, <3>1
    <3> QED
      BY <1>5, <3>2 DEF Stacked
  <2>4. \A n \in Stacked : dfs[n] \in Int
    BY <1>1, <1>4
  <2> HIDE DEF members
  <2> QED
    BY <1>1, <1>4, <2>1, <2>2, <2>3, <2>4
<1> HIDE DEF members
<1>8. /\ done \subseteq OpenNodes /\ \A n \in done : dfs[n] >= dfs[v]
      /\ OpenNodes' = OpenNodes \ done
      /\ \A n \in OpenNodes' : dfs[n] < dfs[v]
      /\ \A n \in OpenNodes : dfs[n] >= dfs[v] => n \in done
      /\ \A i \in DOMAIN frames' : frames'[i].node = frames[i + 1].node /\ frames'[i].node \in OpenNodes'
  <2>1. done \subseteq OpenNodes /\ \A n \in done : dfs[n] >= dfs[v]
    BY <1>1, <1>2, <1>4, <1>7
  <2>2. OpenNodes' = OpenNodes \ done
    BY <1>2, <1>3 DEF OpenNodes
  <2>3. ASSUME NEW i \in DOMAIN frames', i + 1 \in DOMAIN frames
        PROVE  frames'[i].node = frames[i + 1].node /\ frames'[i].node \in OpenNodes \ done
               /\ dfs[frames'[i].node] < dfs[v]
    <3>1. frames'[i] = frames[i + 1] /\ dfs[frames[i + 1].node] < dfs[v]
      BY <1>2
    <3>2. frames[i + 1].node \in OpenNodes
      BY <1>1, <2>3
    <3>3. frames[i + 1].node \notin done
      BY <1>1, <1>4, <2>1, <3>1, <3>2
    <3> QED
      BY <3>1, <3>2, <3>3
  <2>4. ASSUME NEW n \in OpenNodes \ done PROVE dfs[n] < dfs[v]
    <3>1. CASE n \in Stacked
      <4>1. dfs[n] # dfs[v] /\ ~(dfs[n] > dfs[v])
        BY <1>2, <1>4, <1>7, <2>4, <3>1
      <4> QED
        BY <1>1, <1>4, <4>1
    <3>2. CASE n \notin Stacked
      <4>1. PICK i \in DOMAIN frames : n = frames[i].node
        BY <1>1, <3>2
      <4>2. i # 1
        BY <2>4, <4>1
      <4>3. i - 1 \in DOMAIN frames' /\ frames'[i - 1] = frames[i]
        BY <1>2, <4>2
      <4>4. (i - 1) + 1 \in DOMAIN frames
        BY <1>2, <4>3
      <4> QED
        BY <2>3, <4>1, <4>3, <4>4
    <3> QED
      BY <3>1, <3>2
  <2>5. ASSUME NEW n \in OpenNodes, dfs[n] >= dfs[v] PROVE n \in done
    <3> HIDE DEF done
    <3>1. CASE n \notin done
      BY <1>1, <1>4, <2>4, <2>5, <3>1
    <3> QED
      BY <3>1
  <2> HIDE DEF done
  <2>6. \A i \in DOMAIN frames' : i + 1 \in DOMAIN frames
    BY <1>2
  <2> QED
    BY <2>1, <2>2, <2>3, <2>4, <2>5, <2>6
<1>9. /\ rep' \in [N -> N \cup {NoRep}]
      /\ \A n \in done : rep'[n] = v
      /\ \A n \in N : n \notin done => rep'[n] = rep[n]
      /\ subNodes' \in [N -> SUBSET N] /\ repNodes' \subseteq N
      /\ subNodes'[v] = subNodes[v] \cup members
      /\ \A n \in members : n # v /\ subNodes'[n] = {}
      /\ \A n \in N : n \notin done => subNodes'[n] = subNodes[n]
      /\ repNodes' = (repNodes \ members) \cup {n \in {v} : members # {} \/ v \in repNodes}
  <2>1. v \notin members /\ members \subseteq N
    BY <1>1, <1>2, <1>4, <1>7
  <2>2. CASE members = {}
    BY <1>1, <1>3, <1>4, <2>1, <2>2
  <2>3. CASE members # {}
    <3>1. SetRep(members, v) /\ members \ {v} # {}
      BY <1>3, <2>1, <2>3
    <3> QED
      BY <1>1, <1>4, <2>1, <2>3, <3>1 DEF SetRep
  <2> QED
    BY <2>2, <2>3
<1> HIDE DEF done
<1>10. TypeOK'
  <2>1. frames' \in Seq([node : N, rest : SUBSET N, child : N \cup {NoRep}])
    BY <1>2 DEF Frame
  <2>2. visited' \ inSCC' = {frames'[i].node : i \in DOMAIN frames'} \cup {ss'[i] : i \in DOMAIN ss'}
    <3>1. OpenNodes' \subseteq {frames'[i].node : i \in DOMAIN frames'} \cup Stacked'
      <4> SUFFICES ASSUME NEW n \in OpenNodes', n \notin Stacked'
                   PROVE  n \in {frames'[i].node : i \in DOMAIN frames'}
        OBVIOUS
      <4>1. n \in OpenNodes /\ dfs[n] < dfs[v] /\ n # v
        BY <1>8 DEF done
      <4>2. n \notin Stacked
        BY <1>7, <4>1
      <4>3. PICK i \in DOMAIN frames : n = frames[i].node
        BY <1>1, <4>1, <4>2
      <4>4. i - 1 \in DOMAIN frames' /\ frames'[i - 1] = frames[i]
        BY <1>2, <4>1, <4>3
      <4> QED
        BY <4>3, <4>4
    <3>2. {frames'[i].node : i \in DOMAIN frames'} \subseteq OpenNodes'
      BY <1>8
    <3>3. Stacked' \subseteq OpenNodes'
      <4> SUFFICES ASSUME NEW n \in Stacked' PROVE n \in OpenNodes \ done
        BY <1>8
      <4>1. n \in Stacked /\ dfs[n] < dfs[v] /\ n \in OpenNodes
        BY <1>4, <1>7
      <4> QED
        BY <1>1, <1>4, <1>8, <4>1
    <3>4. OpenNodes' = visited' \ inSCC' /\ Stacked' = {ss'[i] : i \in DOMAIN ss'}
      BY DEF OpenNodes, Stacked
    <3> QED
      BY <3>1, <3>2, <3>3, <3>4
  <2>3. \A n \in N : n \in visited <=> rep'[n] # NoRep /\ dfs[n] # 0
    <3> SUFFICES ASSUME NEW n \in N PROVE n \in visited <=> rep'[n] # NoRep /\ dfs[n] # 0
      OBVIOUS
    <3>1. CASE n \in done
      <4>1. n \in visited /\ rep'[n] = v /\ v # NoRep
        BY <1>4, <1>8, <1>9, <3>1, NoRepAssumption
      <4> QED
        BY <1>1, <4>1
    <3>2. CASE n \notin done
      BY <1>1, <1>9, <3>2
    <3> QED
      BY <3>1, <3>2
  <2>4. topo' \in Seq(N) /\ inSCC' \subseteq visited'
    <3>1. <<v>> \in Seq(N)
      BY <1>4
    <3>2. topo' \in Seq(N)
      BY <1>1, <1>3, <3>1, ConcatProperties
    <3>3. inSCC' = inSCC \cup done
      BY <1>3 DEF done
    <3> QED
      BY <1>1, <1>2, <1>4, <1>8, <3>2, <3>3
  <2> HIDE DEF v
  <2> QED
    BY <1>2, <1>6, <1>9, <2>1, <2>2, <2>3, <2>4 DEF TypeOK
<1>11. Stacked' \subseteq OpenNodes' /\ \A n \in OpenNodes' : n \in OpenNodes /\ n \notin done
       /\ n \in N /\ rep'[n] = rep[n] /\ rep[n] \in OpenNodes
  <2>1. \A n \in OpenNodes' : n \in OpenNodes /\ n \notin done
       /\ n \in N /\ rep'[n] = rep[n] /\ rep[n] \in OpenNodes
    BY <1>4, <1>8, <1>9
  <2>2. Stacked' \subseteq OpenNodes'
    BY <1>10 DEF TypeOK, Stacked, OpenNodes
  <2> QED
    BY <2>1, <2>2
<1>12. Numbered'
  BY <1>2 DEF Search, Numbered
<1>13. \A i \in DOMAIN frames' : i \in DOMAIN frames
  <2>1. frames \in Seq(Frame)
    BY DEF TypeOK, Frame
  <2>2. DOMAIN frames = 1 .. Len(frames) /\ Len(frames) \in Nat
    BY <2>1
  <2> QED
    BY <1>2, <2>2
<1>14. Calls'
  <2>1. ASSUME NEW i \in DOMAIN frames', NEW j \in DOMAIN frames', i < j
        PROVE  dfs'[frames'[j].node] < dfs'[frames'[i].node]
    <3>1. i + 1 \in DOMAIN frames /\ j + 1 \in DOMAIN frames /\ i + 1 < j + 1
      BY <1>2, <2>1
    <3>2. dfs[frames[j + 1].node] < dfs[frames[i + 1].node]
      BY <3>1 DEF Search, Calls
    <3> QED
      BY <1>2, <3>2
  <2>2. ASSUME NEW i \in DOMAIN frames'
        PROVE  (/\ frames[i].node \notin Stacked
                /\ frames[i].rest \subseteq Succ(frames[i].node)
                /\ i > 1 => frames[i].child = frames[i - 1].node)'
    <3>1. i + 1 \in DOMAIN frames /\ frames'[i] = frames[i + 1] /\ i \in Nat /\ i > 0
      BY <1>2
    <3>2. frames[i + 1].node \notin Stacked /\ frames[i + 1].rest \subseteq Succ(frames[i + 1].node)
      BY <3>1 DEF Search, Calls
    <3>3. i > 1 => frames'[i].child = frames'[i - 1].node
      <4> SUFFICES ASSUME i > 1 PROVE frames'[i].child = frames'[i - 1].node
        OBVIOUS
      <4>1. i + 1 > 1 /\ (i + 1) - 1 = i /\ i # 1
        BY <3>1
      <4>2. frames'[i - 1] = frames[i]
        BY <1>2, <1>13, <4>1
      <4>3. frames[i + 1].child = frames[i].node
        BY <3>1, <4>1 DEF Search, Calls
      <4> QED
        BY <3>1, <4>2, <4>3
    <3> QED
      BY <1>2, <1>7, <3>1, <3>2, <3>3 DEF Succ
  <2> QED
    BY <2>1, <2>2 DEF Calls
<1>15. StackOrder'
  <2> SUFFICES ASSUME NEW i \in DOMAIN frames', NEW p \in DOMAIN ss', NEW q \in DOMAIN ss',
                      p < q, dfs[ss'[q]] > dfs[frames[i + 1].node]
               PROVE  dfs[ss'[p]] > dfs[frames[i + 1].node]
    BY <1>2 DEF StackOrder
  <2>1. p + k \in DOMAIN ss /\ q + k \in DOMAIN ss /\ p + k < q + k
        /\ ss'[p] = ss[p + k] /\ ss'[q] = ss[q + k]
    BY <1>5, <1>6
  <2> QED
    BY <1>2, <2>1 DEF Search, StackOrder
<1>16. MetLater'
  BY <1>2 DEF Search, MetLater
<1>17. LeadBack'
  <2> SUFFICES ASSUME NEW n \in OpenNodes'
               PROVE  \E i \in DOMAIN frames' :
                          dfs[frames'[i].node] <= dfs[n] /\ frames'[i].node \in Reached(edges, N, n)
    BY <1>2 DEF LeadBack
  <2>1. PICK i \in DOMAIN frames :
            dfs[frames[i].node] <= dfs[n] /\ frames[i].node \in Reached(edges, N, n)
    BY <1>11 DEF Search, LeadBack
  <2>2. i # 1
    BY <1>1, <1>4, <1>8, <1>11, <2>1
  <2> QED
    BY <1>2, <2>1, <2>2
<1>18. Guesses'
  <2> SUFFICES ASSUME NEW n \in OpenNodes' PROVE rep[n] \in OpenNodes' /\ dfs[rep[n]] <= dfs[n]
    BY <1>2, <1>11 DEF Guesses
  <2>1. dfs[rep[n]] <= dfs[n] /\ dfs[n] < dfs[v] /\ rep[n] \in OpenNodes /\ rep[n] \in N /\ n \in N
    BY <1>4, <1>8, <1>11
  <2> QED
    BY <1>1, <1>4, <1>8, <2>1
<1>19. Equivalent'
  <2> SUFFICES ASSUME NEW n \in visited
               PROVE  rep'[n] \in Reached(edges, N, n) /\ n \in Reached(edges, N, rep'[n])
    BY <1>2 DEF Equivalent
  <2>1. CASE n \in done
    <3>1. n \in Reached(edges, N, v)
      BY <1>1, <1>2, <1>4, <1>8, <2>1 DEF Search, MetLater
    <3> QED
      BY <1>2, <1>8, <1>9, <2>1, <3>1
  <2>2. CASE n \notin done
    BY <1>1, <1>9, <2>2 DEF Search, Equivalent
  <2> QED
    BY <2>1, <2>2
<1>20. AllHandled'
  <2>1. ASSUME NEW n \in OpenNodes', NEW m, Handled(n, m)
        PROVE  m \in visited' /\ (m \in inSCC' \/ dfs'[rep'[n]] <= dfs'[m])
    BY <1>2, <1>3, <1>11, <2>1 DEF Handled
  <2>2. ASSUME NEW n \in Stacked', NEW m \in Succ(n)' PROVE Handled(n, m)'
    <3>1. m \in Succ(n) /\ n \in Stacked /\ n \in OpenNodes'
      BY <1>2, <1>7, <1>11 DEF Succ
    <3>2. Handled(n, m)
      BY <3>1 DEF Search, AllHandled
    <3> QED
      BY <2>1, <3>1, <3>2 DEF Handled
  <2>3. ASSUME NEW i \in DOMAIN frames', NEW m \in (Succ(frames[i].node) \ frames[i].rest)'
        PROVE  Handled(frames[i].node, m)'
    <3>1. i + 1 \in DOMAIN frames /\ m \in Succ(frames[i + 1].node) \ frames[i + 1].rest
      BY <1>2 DEF Succ
    <3>2. Handled(frames[i + 1].node, m) /\ frames[i + 1].node \in OpenNodes'
      BY <1>8, <3>1 DEF Search, AllHandled
    <3>3. m \in visited' /\ (m \in inSCC' \/ dfs'[rep'[frames[i + 1].node]] <= dfs'[m])
      BY <2>1, <3>2
    <3> QED
      BY <1>2, <3>3 DEF Handled
  <2> QED
    BY <2>2, <2>3 DEF AllHandled
<1>21. Carried'
  <2> SUFFICES ASSUME NEW i \in DOMAIN frames', NEW n \in Stacked',
                      dfs[n] > dfs[frames[i + 1].node],
                      frames[i + 1].child = NoRep \/ dfs[n] < dfs[frames[i + 1].child]
               PROVE  dfs[rep'[frames[i + 1].node]] <= dfs[rep'[n]]
    BY <1>2 DEF Carried
  <2>1. i + 1 \in DOMAIN frames /\ n \in Stacked /\ frames[i + 1].node \in OpenNodes' /\ n \in OpenNodes'
    BY <1>2, <1>7, <1>8, <1>11
  <2>2. rep'[frames[i + 1].node] = rep[frames[i + 1].node] /\ rep'[n] = rep[n]
    BY <1>11, <2>1
  <2> QED
    BY <2>1, <2>2 DEF Search, Carried
<1>22. JustEnded'
  <2> SUFFICES ASSUME frames' # <<>>, NEW n \in Stacked', dfs[n] >= dfs[v] PROVE FALSE
    <3> SUFFICES ASSUME frames' # <<>> PROVE JustEnded'
      BY DEF JustEnded
    <3>1. 1 \in DOMAIN frames'
      BY <1>2, Popping
    <3>2. frames'[1].child = v
      BY <1>2, <3>1
    <3> QED
      BY <1>2, <3>2 DEF JustEnded
  <2> QED
    BY <1>1, <1>4, <1>7
<1>23. inSCC' = inSCC \cup done
  BY <1>3 DEF done
<1>24. inSCC \in Closed(edges, N)
  BY DEF Kept, TopologicalOrder
\* A successor that a member has handled is finished or a member.
<1>25. ASSUME NEW n \in done, NEW m \in Succ(n) PROVE m \in N /\ m \in inSCC'
  <2>1. n \in OpenNodes /\ n \in N /\ m \in N
    BY <1>1, <1>4, <1>8, SuccReached
  <2>2. Handled(n, m)
    <3>1. CASE n = v
      BY <1>2, <3>1 DEF Search, AllHandled
    <3>2. CASE n # v
      <4>1. n \in Stacked
        BY <1>7, <3>2 DEF done
      <4> QED
        BY <4>1 DEF Search, AllHandled
    <3> QED
      BY <3>1, <3>2
  <2>3. dfs[v] <= dfs[rep[n]]
    <3>1. CASE n = v
      BY <1>1, <1>4, <3>1
    <3>2. CASE n # v
      <4>1. n \in Stacked /\ dfs[n] > dfs[v]
        BY <1>7, <3>2 DEF done
      <4>2. dfs[rep[v]] <= dfs[rep[n]]
        BY <1>2, <4>1 DEF Search, Carried
      <4> QED
        BY <4>2
    <3> QED
      BY <3>1, <3>2
  <2>4. CASE m \notin inSCC
    <3>1. m \in OpenNodes /\ dfs[rep[n]] <= dfs[m]
      BY <2>2, <2>4 DEF Handled, OpenNodes
    <3>2. dfs[m] >= dfs[v]
      BY <1>1, <1>4, <2>1, <2>3, <3>1
    <3> QED
      BY <1>8, <1>23, <2>1, <3>1, <3>2
  <2> QED
    BY <1>23, <2>1, <2>4
<1>26. inSCC' \in Closed(edges, N)
  <2>1. ASSUME NEW e \in edges, e[1] \in inSCC' PROVE e[2] \in inSCC'
    <3>1. CASE e[1] \in inSCC
      BY <1>23, <1>24, <3>1 DEF Closed
    <3>2. CASE e[1] \in done
      <4>1. e[2] \in Succ(e[1])
        BY DEF Succ
      <4> QED
        BY <1>25, <3>2, <4>1
    <3> QED
      BY <1>23, <2>1, <3>1, <3>2
  <2>2. inSCC' \subseteq N
    BY <1>1, <1>4, <1>8, <1>23
  <2> QED
    BY <2>1, <2>2 DEF Closed
<1>27. /\ topo' \in Seq(N) /\ DOMAIN topo' = 1 .. Len(topo) + 1 /\ topo'[1] = v
       /\ Len(topo') = Len(topo) + 1 /\ Len(topo) \in Nat /\ DOMAIN topo = 1 .. Len(topo)
       /\ \A i \in DOMAIN topo : topo'[i + 1] = topo[i]
       /\ \A i \in DOMAIN topo' : i = 1 \/ (i > 1 /\ i - 1 \in DOMAIN topo /\ topo'[i] = topo[i - 1])
  <2>1. Len(topo) \in Nat /\ DOMAIN topo = 1 .. Len(topo) /\ topo \in Seq(N) /\ v \in N
    BY <1>1, <1>4
  <2>2. topo' = <<v>> \o topo
    BY <1>3
  <2> HIDE DEF v
  <2>3. topo' \in Seq(N) /\ DOMAIN topo' = 1 .. Len(topo) + 1 /\ topo'[1] = v
        /\ (\A i \in DOMAIN topo : topo'[i + 1] = topo[i])
        /\ (\A i \in DOMAIN topo' : i = 1 \/ (i > 1 /\ i - 1 \in DOMAIN topo /\ topo'[i] = topo[i - 1]))
    BY <2>1, <2>2, Pushed
  <2>4. Len(topo') = Len(topo) + 1
    BY <2>1, <2>3
  <2> QED
    BY <2>1, <2>3, <2>4
<1>28. TopologicalOrder'
  <2>1. ASSUME NEW i \in 1 .. Len(topo'), NEW j \in 1 .. Len(topo'), i < j
        PROVE  \E S \in Closed(edges, N) : topo'[j] \in S /\ topo'[i] \notin S
    <3>1. j > 1 /\ j - 1 \in DOMAIN topo /\ topo'[j] = topo[j - 1]
      BY <1>27, <2>1
    <3>2. CASE i = 1
      <4>1. topo[j - 1] \in {rep[n] : n \in inSCC}
        BY <3>1 DEF Kept, OnTopo
      <4>2. topo[j - 1] \in inSCC
        BY <1>1, <1>24, <4>1, ReachedInClosed DEF Search, Equivalent
      <4> QED
        BY <1>4, <1>24, <1>27, <3>1, <3>2, <4>2
    <3>3. CASE i # 1
      <4>1. i - 1 \in 1 .. Len(topo) /\ j - 1 \in 1 .. Len(topo) /\ i - 1 < j - 1 /\ topo'[i] = topo[i - 1]
        BY <1>27, <2>1, <3>3
      <4> QED
        BY <3>1, <4>1 DEF Kept, TopologicalOrder
    <3> QED
      BY <3>2, <3>3
  <2> QED
    BY <1>2, <1>26, <2>1 DEF TopologicalOrder
<1>29. \A n \in inSCC : n \in N /\ n \notin done /\ rep'[n] = rep[n] /\ rep[n] \in inSCC
  BY <1>1, <1>8, <1>9, <1>24, ReachedInClosed DEF Search, Equivalent, OpenNodes
<1>30. OnTopo'
  <2>1. {topo'[i] : i \in DOMAIN topo'} = {topo[i] : i \in DOMAIN topo} \cup {v}
    <3>1. ASSUME NEW i \in DOMAIN topo' PROVE topo'[i] \in {topo[j] : j \in DOMAIN topo} \cup {v}
      BY <1>27
    <3>2. ASSUME NEW i \in DOMAIN topo PROVE topo[i] \in {topo'[j] : j \in DOMAIN topo'}
      <4>1. i + 1 \in DOMAIN topo' /\ topo'[i + 1] = topo[i]
        BY <1>27
      <4> QED
        BY <4>1
    <3>3. v \in {topo'[j] : j \in DOMAIN topo'}
      <4>1. 1 \in DOMAIN topo' /\ topo'[1] = v
        BY <1>27
      <4> QED
        BY <4>1
    <3> QED
      BY <3>1, <3>2, <3>3
  <2>2. {rep'[n] : n \in inSCC'} = {rep[n] : n \in inSCC} \cup {v}
    <3>1. v \in done
      BY DEF done
    <3> QED
      BY <1>9, <1>23, <1>29, <3>1
  <2> QED
    BY <2>1, <2>2 DEF Kept, OnTopo
<1>31. v \in done /\ members = done \ {v} /\ v \notin members
  BY <1>4, <1>7, <1>2 DEF done
\* What v stood for when its visit ends is in its component.
<1>32. subNodes'[v] = done
  <2>1. ASSUME NEW n \in subNodes[v] PROVE n \in done
    <3>1. n \in visited /\ v \in Reached(edges, N, n) /\ dfs[v] <= dfs[n]
      BY <1>4, <2>1 DEF Kept, SubNodesKept
    <3>2. n \notin inSCC
      BY <1>4, <1>24, <3>1, ReachedInClosed
    <3>3. n \in OpenNodes
      BY <3>1, <3>2 DEF OpenNodes
    <3> QED
      BY <1>1, <1>4, <1>8, <3>1, <3>3
  <2>2. v \in subNodes[v]
    BY <1>4 DEF Kept, SubNodesKept
  <2> QED
    BY <1>9, <1>31, <2>1, <2>2
<1>33. SubNodesKept'
  <2>1. ASSUME NEW r \in N, NEW n \in subNodes'[r]
        PROVE  /\ n \in visited /\ r \in visited
               /\ n \in Reached(edges, N, r) /\ r \in Reached(edges, N, n) /\ dfs[r] <= dfs[n]
    <3>1. CASE r = v
      <4>1. n \in done
        BY <1>32, <2>1, <3>1
      <4>2. n \in Reached(edges, N, v)
        BY <1>1, <1>2, <1>4, <1>8, <4>1 DEF Search, MetLater
      <4> QED
        BY <1>1, <1>2, <1>4, <1>8, <3>1, <4>1, <4>2
    <3>2. CASE r # v
      <4>1. r \notin members
        BY <1>9, <2>1
      <4>2. r \notin done
        BY <1>31, <3>2, <4>1
      <4>3. n \in subNodes[r]
        BY <1>9, <2>1, <4>2
      <4> QED
        BY <4>3 DEF Kept, SubNodesKept
    <3> QED
      BY <3>1, <3>2
  <2>2. ASSUME NEW r \in visited, rep'[r] = r PROVE r \in subNodes'[r]
    <3>1. CASE r \in done
      BY <1>9, <1>31, <1>32, <2>2, <3>1
    <3>2. CASE r \notin done
      BY <1>1, <1>9, <2>2, <3>2 DEF Kept, SubNodesKept
    <3> QED
      BY <3>1, <3>2
  <2>3. ASSUME NEW r \in inSCC' PROVE subNodes'[r] = {n \in inSCC' : rep'[n] = r}
    <3>1. CASE r = v
      BY <1>4, <1>9, <1>23, <1>29, <1>32, <3>1
    <3>2. CASE r \in members
      BY <1>4, <1>9, <1>8, <1>23, <1>29, <1>31, <3>2 DEF OpenNodes
    <3>3. CASE r \notin done
      <4>1. r \in inSCC /\ r # v
        BY <1>23, <1>31, <3>3
      <4>2. subNodes'[r] = {n \in inSCC : rep[n] = r}
        BY <1>9, <1>29, <3>3, <4>1 DEF Kept, SubNodesKept
      <4> QED
        BY <1>9, <1>23, <1>29, <4>1, <4>2
    <3> QED
      BY <1>31, <3>1, <3>2, <3>3
  <2>4. ASSUME NEW r \in repNodes' PROVE \E n \in subNodes'[r] : n # r
    <3>1. CASE r = v
      <4>1. CASE members # {}
        BY <1>31, <1>32, <3>1, <4>1
      <4>2. CASE members = {}
        <5>1. v \in repNodes
          BY <1>9, <2>4, <3>1, <4>2
        <5> QED
          BY <1>9, <3>1, <5>1 DEF Kept, SubNodesKept
      <4> QED
        BY <4>1, <4>2
    <3>2. CASE r # v
      <4>1. r \in repNodes /\ r \notin members /\ r \in N
        BY <1>1, <1>9, <2>4, <3>2
      <4>2. r \notin done
        BY <1>31, <3>2, <4>1
      <4> QED
        BY <1>9, <4>1, <4>2 DEF Kept, SubNodesKept
    <3> QED
      BY <3>1, <3>2
  <2>5. ASSUME NEW n \in inSCC', rep'[n] # n PROVE rep'[n] \in repNodes'
    <3>1. CASE n \in done
      BY <1>9, <1>31, <2>5, <3>1
    <3>2. CASE n \notin done
      <4>1. n \in inSCC /\ rep[n] # n /\ rep'[n] = rep[n] /\ rep[n] \notin done
        BY <1>23, <1>29, <2>5, <3>2
      <4> QED
        BY <1>9, <1>31, <4>1 DEF Kept, SubNodesKept
    <3> QED
      BY <3>1, <3>2
  <2> HIDE DEF v
  <2> QED
    BY <1>2, <2>1, <2>2, <2>3, <2>4, <2>5 DEF SubNodesKept
<1> QED
  BY <1>10, <1>12, <1>14, <1>15, <1>16, <1>17, <1>18, <1>19, <1>20, <1>21, <1>22, <1>28, <1>30, <1>33
  DEF Search, Kept
-----------------------------------------------------------------------------
\* A step that changes nothing but the candidates.
LEMMA CandidateInv ==
    ASSUME IInv, UNCHANGED <<edges, frames, info, dfs, count, ss, topo>>, cand' \subseteq N
    PROVE  IInv'
<1> USE DEF info
<1>1. TypeOK'
  <2>1. TypeOK
    BY DEF IInv
  <2> DEFINE others == {frames[i].node : i \in DOMAIN frames} \cup {ss[i] : i \in DOMAIN ss}
  <2>2. others' = others
    OBVIOUS
  <2>3. visited \ inSCC = others /\ \A n \in N : n \in visited <=> rep[n] # NoRep /\ dfs[n] # 0
    BY <2>1 DEF TypeOK
  <2>4. visited' \ inSCC' = others'
    BY ONLY <2>2, <2>3, UNCHANGED info
  <2> HIDE DEF others
  <2> QED
    BY <2>1, <2>3, <2>4 DEF TypeOK, others
<1>2. OpenNodes' = OpenNodes /\ Stacked' = Stacked
      /\ \A v : Succ(v)' = Succ(v)
  BY DEF OpenNodes, Stacked, Succ
<1>3. Numbered' /\ Calls' /\ StackOrder'
  BY <1>2 DEF IInv, Search, Numbered, Calls, StackOrder, Succ
<1>4. MetLater' /\ LeadBack' /\ Guesses' /\ Equivalent'
  BY <1>2 DEF IInv, Search, MetLater, LeadBack, Guesses, Equivalent
<1>5. AllHandled'
  BY <1>2 DEF IInv, Search, AllHandled, Handled, Succ
<1>6. Carried' /\ JustEnded'
  BY <1>2 DEF IInv, Search, Carried, JustEnded
<1>7. Kept'
  <2>1. TopologicalOrder'
    BY DEF IInv, Kept, TopologicalOrder
  <2>2. OnTopo'
    BY DEF IInv, Kept, OnTopo
  <2>3. SubNodesKept'
    BY DEF IInv, Kept, SubNodesKept
  <2> QED
    BY <2>1, <2>2, <2>3 DEF Kept
<1> QED
  BY <1>1, <1>3, <1>4, <1>5, <1>6, <1>7 DEF IInv, Search

LEMMA NextInv == IInv /\ [Next]_vars => IInv'
<1> SUFFICES ASSUME IInv, [Next]_vars PROVE IInv'
  OBVIOUS
<1>1. cand \subseteq N /\ frames \in Seq(Frame)
  BY DEF IInv, TypeOK, Frame
<1>2. ASSUME NEW n \in cand, Candidate(n) PROVE IInv'
  <2>1. n \in N /\ cand' \subseteq N /\ frames = <<>>
    BY <1>1, <1>2 DEF Candidate
  <2>2. CASE n \in visited
    BY <1>2, <2>1, <2>2, CandidateInv DEF Candidate
  <2>3. CASE n \notin visited
    <3>1. Enter(n, <<>>) /\ UNCHANGED <<edges, inSCC, ss, topo>>
      BY <1>2, <2>3 DEF Candidate
    <3>2. n \in N \ visited /\ <<>> \in Seq(Frame) /\ DOMAIN frames = {} /\ DOMAIN <<>> = DOMAIN frames
      BY <2>1, <2>3
    <3> QED
      BY <2>1, <3>1, <3>2, EnterInv
  <2> QED
    BY <2>2, <2>3
<1>3. ASSUME NEW w \in N, Descend(w) PROVE IInv'
  <2> DEFINE f == [frames[1] EXCEPT !.child = w]
             fs == <<f>> \o Tail(frames)
  <2>1. /\ frames # <<>> /\ frames[1].child = NoRep /\ w \in frames[1].rest /\ w \notin visited
        /\ Enter(w, fs) /\ UNCHANGED <<edges, cand, inSCC, ss, topo>>
        /\ 1 \in DOMAIN frames /\ frames[1] \in Frame
    BY <1>3, InnermostCall DEF Descend
  <2>2. f \in Frame /\ f.node = frames[1].node /\ f.rest = frames[1].rest /\ f.child = w
    BY <2>1 DEF Frame
  <2>3. w \in Succ(frames[1].node)
    BY <2>1 DEF IInv, Search, Calls
  <2> HIDE DEF f
  <2>4. /\ Tail(frames) \in Seq(Frame) /\ Len(frames) \in Nat /\ 1 <= Len(frames)
        /\ Len(Tail(frames)) = Len(frames) - 1 /\ DOMAIN frames = 1 .. Len(frames)
        /\ \A i \in DOMAIN frames :
              i = 1 \/ (i > 1 /\ i - 1 \in DOMAIN Tail(frames) /\ frames[i] = Tail(frames)[i - 1])
    BY <1>1, <2>1, Popping
  <2>5. /\ fs \in Seq(Frame) /\ DOMAIN fs = DOMAIN frames /\ fs[1] = f
        /\ \A i \in DOMAIN fs : i = 1 \/ (i > 1 /\ fs[i] = Tail(frames)[i - 1])
    BY <2>2, <2>4, Pushed
  <2>6. ASSUME NEW i \in DOMAIN frames
        PROVE  /\ fs[i].node = frames[i].node /\ fs[i].rest = frames[i].rest
               /\ fs[i].child = IF i = 1 THEN w ELSE frames[i].child
    <3> HIDE DEF fs
    <3>1. CASE i = 1
      BY <2>2, <2>5, <3>1
    <3>2. CASE i # 1
      <4>1. fs[i] = frames[i]
        BY <2>4, <2>5, <3>2
      <4> QED
        BY <3>2, <4>1
    <3> QED
      BY <3>1, <3>2
  <2> HIDE DEF fs
  <2> QED
    BY <1>1, <2>1, <2>3, <2>5, <2>6, EnterInv
<1>4. ASSUME NEW w \in N, Look(w) PROVE IInv'
  BY <1>4, LookInv
<1>5. CASE Return
  BY <1>5, ReturnOpenInv, ReturnRootInv
<1>6. CASE UNCHANGED vars
  BY <1>1, <1>6, CandidateInv DEF vars
<1> QED
  BY <1>2, <1>3, <1>4, <1>5, <1>6 DEF Next, Terminated

THEOREM Invariance == Spec => []IInv
BY InitInv, NextInv, PTL DEF Spec

\* The types, and that a node waits in one of the stacks of the search exactly
\* while its component is open.
THEOREM TypeCorrect == Spec => []TypeOK
<1>1. IInv => TypeOK
  BY DEF IInv
<1> QED
  BY Invariance, <1>1, PTL

\* A representative is in the component of its node at every moment of the
\* search: merging by a guess that is not final merges nothing that is apart.
THEOREM GuessesSound == Spec => []RepsConnected
<1>1. IInv => RepsConnected
  BY ReachedInClosed DEF IInv, Search, Equivalent, RepsConnected
<1> QED
  BY Invariance, <1>1, PTL

\* The stack _T is in topological order after every call of visit.
THEOREM StackTopological == Spec => []TopologicalOrder
<1>1. IInv => TopologicalOrder
  BY DEF IInv, Kept
<1> QED
  BY Invariance, <1>1, PTL
-----------------------------------------------------------------------------
(* When find returns. *)

LEMMA ReachedNodes == ASSUME NEW E, NEW n, NEW m \in Reached(E, N, n) PROVE m \in N
BY DEF Reached

\* What a node reaches is closed.
LEMMA ReachedClosed ==
    ASSUME NEW E, E \subseteq N \X N, NEW n \in N
    PROVE  Reached(E, N, n) \in Closed(E, N)
<1>1. ASSUME NEW e \in E, e[1] \in Reached(E, N, n) PROVE e[2] \in Reached(E, N, n)
  <2>1. e[2] \in N
    OBVIOUS
  <2>2. ASSUME NEW S \in Closed(E, N), n \in S PROVE e[2] \in S
    <3>1. e[1] \in S
      BY <1>1, <2>2, ReachedInClosed
    <3> QED
      BY <3>1 DEF Closed
  <2> QED
    BY <2>1, <2>2 DEF Reached
<1> QED
  BY <1>1, ReachedNodes DEF Closed

LEMMA TwoElements ==
    ASSUME NEW S, IsFiniteSet(S)
    PROVE  Cardinality(S) > 1 <=> \E a, b \in S : a # b
<1>1. Cardinality(S) \in Nat /\ (Cardinality(S) = 0 <=> S = {}) /\ (Cardinality(S) = 1 <=> \E x : S = {x})
  BY FS_CardinalityType, FS_EmptySet, FS_Singleton
<1>2. (\E a, b \in S : a # b) <=> ~(S = {} \/ \E x : S = {x})
  OBVIOUS
<1> QED
  BY <1>1, <1>2

\* The nodes of a cycle are those that reach each other.
LEMMA CycleMembers ==
    ASSUME NEW E, NEW C \in Cycles(E, N)
    PROVE  /\ C \subseteq N /\ C # {}
           /\ \A a \in C : \A m \in N : m \in C <=> m \in Reached(E, N, a) /\ a \in Reached(E, N, m)
<1>1. PICK n \in N : C = {m \in N : \A S \in Closed(E, N) : n \in S <=> m \in S}
  BY DEF Cycles
<1>2. n \in C /\ C \subseteq N
  BY <1>1
<1>3. \A a \in C : \A S \in Closed(E, N) : n \in S <=> a \in S
  BY <1>1
<1>4. \A a \in C : \A m \in N : m \in C <=> \A S \in Closed(E, N) : a \in S <=> m \in S
  BY <1>1, <1>3
<1> QED
  BY <1>2, <1>4 DEF Reached

LEMMA CycleOf ==
    ASSUME NEW E, NEW a \in N, NEW b \in N, a # b,
           b \in Reached(E, N, a), a \in Reached(E, N, b)
    PROVE  \E C \in Cycles(E, N) : a \in C
<1> DEFINE C == {m \in N : \A S \in Closed(E, N) : a \in S <=> m \in S}
<1>1. a \in C /\ b \in C /\ C \subseteq N
  BY DEF Reached
<1>2. IsFiniteSet(C)
  BY <1>1, NAssumption, FS_Subset
<1>3. Cardinality(C) > 1
  BY <1>1, <1>2, TwoElements
<1> QED
  BY <1>1, <1>3 DEF Cycles

\* The representatives of different finished components are apart: one of
\* them is higher in the topological stack.
LEMMA OneRep ==
    ASSUME IInv, NEW n \in inSCC, NEW m \in inSCC,
           m \in Reached(edges, N, n), n \in Reached(edges, N, m)
    PROVE  rep[n] = rep[m]
<1>1. /\ n \in visited /\ m \in visited /\ topo \in Seq(N)
      /\ {topo[i] : i \in DOMAIN topo} = {rep[x] : x \in inSCC}
  BY DEF IInv, TypeOK, Kept, OnTopo
<1>2. PICK i \in DOMAIN topo, j \in DOMAIN topo : topo[i] = rep[n] /\ topo[j] = rep[m]
  <2>1. rep[n] \in {topo[i] : i \in DOMAIN topo} /\ rep[m] \in {topo[i] : i \in DOMAIN topo}
    BY <1>1
  <2> QED
    BY <2>1
<1>3. DOMAIN topo = 1 .. Len(topo) /\ Len(topo) \in Nat
  BY <1>1
<1>4. ASSUME NEW S \in Closed(edges, N) PROVE rep[n] \in S <=> rep[m] \in S
  <2>1. rep[n] \in S <=> n \in S
    BY <1>1, ReachedInClosed DEF IInv, Search, Equivalent
  <2>2. rep[m] \in S <=> m \in S
    BY <1>1, ReachedInClosed DEF IInv, Search, Equivalent
  <2>3. n \in S <=> m \in S
    BY ReachedInClosed
  <2> QED
    BY <2>1, <2>2, <2>3
<1>5. ~(i < j) /\ ~(j < i)
  BY <1>2, <1>3, <1>4 DEF IInv, Kept, TopologicalOrder
<1> QED
  BY <1>2, <1>3, <1>5

LEMMA AtEnd ==
    ASSUME IInv, Done
    PROVE  /\ visited = inSCC /\ ss = <<>> /\ visited \subseteq N /\ visited \in Closed(edges, N)
           /\ edges \subseteq N \X N
           /\ \A n \in visited : rep[n] \in visited /\ n \in N
<1>1. DOMAIN frames = {} /\ ss \in Seq(N) /\ visited \subseteq N /\ inSCC \subseteq visited
      /\ edges \subseteq N \X N
      /\ visited \ inSCC = {frames[i].node : i \in DOMAIN frames} \cup {ss[i] : i \in DOMAIN ss}
  BY DEF IInv, TypeOK, Done
<1>2. OpenNodes = {}
  BY <1>1 DEF IInv, Search, LeadBack
<1>3. visited = inSCC
  BY <1>1, <1>2 DEF OpenNodes
<1>4. DOMAIN ss = {}
  BY <1>1, <1>3
<1>5. ss = <<>>
  BY <1>1, <1>4
<1>6. visited \in Closed(edges, N)
  BY <1>3 DEF IInv, Kept, TopologicalOrder
<1>7. \A n \in visited : rep[n] \in visited
  BY <1>6, ReachedInClosed DEF IInv, Search, Equivalent
<1> QED
  BY <1>1, <1>3, <1>5, <1>6, <1>7

LEMMA RepsAtEnd == ASSUME IInv, Done PROVE RepsAreComponents
<1> DEFINE cycles == Cycles(edges, N)
           met(C) == CHOOSE n \in C : n \in visited
           root == [C \in cycles |-> IF \E n \in C : n \in visited THEN rep[met(C)]
                                     ELSE CHOOSE n \in C : TRUE]
<1>1. /\ visited = inSCC /\ ss = <<>> /\ visited \subseteq N
      /\ \A n \in visited : rep[n] \in visited /\ n \in N
  BY AtEnd
<1>2. \A n \in visited : rep[n] \in Reached(edges, N, n) /\ n \in Reached(edges, N, rep[n])
  BY DEF IInv, Search, Equivalent
<1>3. ASSUME NEW C \in cycles, \E n \in C : n \in visited
      PROVE  met(C) \in C /\ met(C) \in visited /\ root[C] = rep[met(C)]
  BY <1>3
<1>4. ASSUME NEW C \in cycles, ~\E n \in C : n \in visited PROVE root[C] \in C
  <2>1. root[C] = CHOOSE n \in C : TRUE
    BY <1>4
  <2>2. C # {}
    BY CycleMembers
  <2> QED
    BY <2>1, <2>2
<1> HIDE DEF met, root
<1>5. ASSUME NEW C \in cycles PROVE C \subseteq N /\ root[C] \in C
  <2>1. /\ C \subseteq N
        /\ \A a \in C : \A m \in N : m \in C <=> m \in Reached(edges, N, a) /\ a \in Reached(edges, N, m)
    BY CycleMembers
  <2>2. CASE \E n \in C : n \in visited
    BY <1>1, <1>2, <1>3, <2>1, <2>2
  <2> QED
    BY <1>4, <2>1, <2>2
<1>6. root \in [cycles -> N]
  BY <1>5 DEF root
<1>7. ASSUME NEW n \in visited PROVE rep[n] = Find(cycles, root, n)
  <2>1. CASE \E C \in cycles : n \in C
    <3> DEFINE C == CHOOSE D \in cycles : n \in D
    <3>1. C \in cycles /\ n \in C
      BY <2>1
    <3>2. Find(cycles, root, n) = root[C]
      BY <2>1 DEF Find
    <3> HIDE DEF C
    <3>3. met(C) \in C /\ met(C) \in visited /\ root[C] = rep[met(C)]
      BY <1>3, <3>1
    <3>4. n \in Reached(edges, N, met(C)) /\ met(C) \in Reached(edges, N, n)
      BY <1>1, <3>1, <3>3, CycleMembers
    <3> QED
      BY <1>1, <3>2, <3>3, <3>4, OneRep
  <2>2. CASE ~\E C \in cycles : n \in C
    <3>1. rep[n] = n
      BY <1>1, <1>2, <2>2, CycleOf
    <3> QED
      BY <2>2, <3>1 DEF Find
  <2> QED
    BY <2>1, <2>2
<1>8. {topo[i] : i \in 1 .. Len(topo)} = {rep[n] : n \in visited}
      /\ topo \in Seq(N) /\ Len(topo) \in Nat /\ DOMAIN topo = 1 .. Len(topo)
  <2>1. topo \in Seq(N)
    BY DEF IInv, TypeOK
  <2>2. Len(topo) \in Nat /\ DOMAIN topo = 1 .. Len(topo)
    BY <2>1
  <2>3. {topo[i] : i \in DOMAIN topo} = {rep[n] : n \in visited}
    BY <1>1 DEF IInv, Kept, OnTopo
  <2> QED
    BY <2>1, <2>2, <2>3
<1>9. Len(topo) = Cardinality({rep[n] : n \in visited})
  <2> DEFINE T == {topo[i] : i \in 1 .. Len(topo)}
  <2>1. \A i, j \in 1 .. Len(topo) : topo[i] = topo[j] => i = j
    BY <1>8 DEF IInv, Kept, TopologicalOrder
  <2>2. topo \in [1 .. Len(topo) -> T]
    BY <1>8
  <2>3. topo \in Surjection(1 .. Len(topo), T) /\ topo \in Injection(1 .. Len(topo), T)
    BY <2>1, <2>2 DEF Surjection, Injection, IsInjective
  <2>4. IsFiniteSet(1 .. Len(topo)) /\ Cardinality(1 .. Len(topo)) = Len(topo)
    BY <1>8, FS_Interval
  <2> HIDE DEF T
  <2>5. Cardinality(T) = Len(topo)
    BY <2>3, <2>4, FS_Surjection
  <2> QED
    BY <1>8, <2>5 DEF T
<1> QED
  BY <1>1, <1>5, <1>6, <1>7, <1>8, <1>9 DEF RepsAreComponents

LEMMA SubNodesAtEnd == ASSUME IInv, Done PROVE SubNodesExact
<1>1. visited = inSCC /\ \A n \in visited : rep[n] \in visited /\ n \in N
  BY AtEnd
<1>2. ASSUME NEW r \in N PROVE subNodes[r] = {n \in visited : rep[n] = r}
  <2>1. CASE r \in visited
    BY <1>1, <2>1 DEF IInv, Kept, SubNodesKept
  <2>2. CASE r \notin visited
    BY <1>1, <2>2 DEF IInv, Kept, SubNodesKept
  <2> QED
    BY <2>1, <2>2
<1>3. repNodes = {rep[n] : n \in {m \in visited : rep[m] # m}}
  <2>1. ASSUME NEW r \in repNodes PROVE r \in {rep[n] : n \in {m \in visited : rep[m] # m}}
    <3>1. PICK n \in subNodes[r] : n # r
      BY DEF IInv, Kept, SubNodesKept
    <3>2. r \in N
      BY DEF IInv, TypeOK
    <3> QED
      BY <1>2, <3>1, <3>2
  <2>2. ASSUME NEW n \in visited, rep[n] # n PROVE rep[n] \in repNodes
    BY <1>1, <2>2 DEF IInv, Kept, SubNodesKept
  <2> QED
    BY <2>1, <2>2
<1> QED
  BY <1>2, <1>3 DEF SubNodesExact

\* A node on a cycle has a successor that leads back to it.
LEMMA CycleByEdge ==
    ASSUME edges \subseteq N \X N, NEW n \in N, NEW a \in N, a # n,
           a \in Reached(edges, N, n), n \in Reached(edges, N, a)
    PROVE  \E m \in Succ(n) : n \in Reached(edges, N, m)
<1> DEFINE U == {n} \cup UNION {Reached(edges, N, m) : m \in Succ(n)}
<1>1. \A m \in Succ(n) : m \in N /\ m \in Reached(edges, N, m)
  BY SuccReached, ReachedItself
<1>2. U \subseteq N
  BY ReachedNodes
<1>3. ASSUME NEW e \in edges, e[1] \in U PROVE e[2] \in U
  <2>1. CASE e[1] = n
    <3>1. e[2] \in Succ(n)
      BY <2>1 DEF Succ
    <3> QED
      BY <1>1, <3>1
  <2>2. CASE e[1] # n
    <3>1. PICK m \in Succ(n) : e[1] \in Reached(edges, N, m)
      BY <1>3, <2>2
    <3>2. Reached(edges, N, m) \in Closed(edges, N)
      BY <1>1, ReachedClosed
    <3>3. e[2] \in Reached(edges, N, m)
      BY <3>1, <3>2 DEF Closed
    <3> QED
      BY <3>3
  <2> QED
    BY <2>1, <2>2
<1>4. U \in Closed(edges, N) /\ n \in U
  BY <1>2, <1>3 DEF Closed
<1> HIDE DEF U
<1>5. a \in U
  BY <1>4, ReachedInClosed
<1>6. PICK m \in Succ(n) : a \in Reached(edges, N, m)
  BY <1>5 DEF U
<1> QED
  BY <1>1, <1>6, ReachedOn

LEMMA CycleTestAtEnd == ASSUME IInv, Done PROVE CycleTest
<1>1. /\ visited = inSCC /\ visited \subseteq N /\ visited \in Closed(edges, N)
      /\ edges \subseteq N \X N
      /\ \A n \in visited : rep[n] \in visited /\ n \in N
  BY AtEnd
<1>2. \A n \in visited : rep[n] \in Reached(edges, N, n) /\ n \in Reached(edges, N, rep[n])
  BY DEF IInv, Search, Equivalent
<1>3. \A r \in N : subNodes[r] = {n \in visited : rep[n] = r}
  BY SubNodesAtEnd DEF SubNodesExact
<1>4. \A r \in N : Cardinality(subNodes[r]) > 1 <=> \E a, b \in subNodes[r] : a # b
  <2>1. \A r \in N : IsFiniteSet(subNodes[r])
    BY <1>1, <1>3, NAssumption, FS_Subset
  <2> QED
    BY <2>1, TwoElements
<1>5. ASSUME NEW n \in visited, IsInCycle(n) PROVE \E m \in Succ(n) : n \in Reached(edges, N, m)
  <2>1. CASE rep[n] # n
    BY <1>1, <1>2, <2>1, CycleByEdge
  <2>2. CASE \E a \in subNodes[rep[n]] : a # n
    <3>1. PICK a \in subNodes[rep[n]] : a # n
      BY <2>2
    <3>2. a \in visited /\ rep[a] = rep[n]
      BY <1>1, <1>3, <3>1
    <3>3. a \in Reached(edges, N, n) /\ n \in Reached(edges, N, a)
      BY <1>1, <1>2, <3>2, ReachedOn
    <3> QED
      BY <1>1, <3>1, <3>2, <3>3, CycleByEdge
  <2>3. CASE rep[n] = n /\ <<n, n>> \in edges
    <3>1. n \in Succ(n)
      BY <1>1, <2>3, SuccEdge
    <3> QED
      BY <1>1, <3>1, ReachedItself
  <2> QED
    BY <1>1, <1>4, <1>5, <2>1, <2>2, <2>3 DEF IsInCycle
<1>6. ASSUME NEW n \in visited, NEW m \in Succ(n), n \in Reached(edges, N, m) PROVE IsInCycle(n)
  <2>1. m \in Reached(edges, N, n) /\ <<n, m>> \in edges
    BY <1>1, SuccReached, SuccEdge
  <2>2. m \in visited
    BY <1>1, <2>1, ReachedInClosed
  <2>3. rep[m] = rep[n]
    BY <1>1, <1>6, <2>1, <2>2, OneRep
  <2>4. rep[rep[n]] = rep[n]
    BY <1>1, <1>2, OneRep
  <2>5. CASE m # n
    BY <1>1, <1>3, <1>4, <2>2, <2>3, <2>5 DEF IsInCycle
  <2>6. CASE rep[n] # n
    BY <1>1, <1>3, <1>4, <2>4, <2>6 DEF IsInCycle
  <2>7. CASE m = n /\ rep[n] = n
    BY <2>1, <2>7 DEF IsInCycle
  <2> QED
    BY <2>5, <2>6, <2>7
<1> QED
  BY <1>5, <1>6 DEF CycleTest

\* When find returns, rep names one member of every component for all its
\* members, the stack holds each representative once, subNodes and repNodes
\* are rep turned round, and isInCycle is right about every node visited: what
\* the callers of SCCDetection read is true of every finite graph.
THEOREM ComponentsRight == Spec => []ComponentsFound
<1>1. IInv => ComponentsFound
  BY RepsAtEnd, SubNodesAtEnd, CycleTestAtEnd DEF ComponentsFound
<1> QED
  BY Invariance, <1>1, PTL
=============================================================================
