------------------------- MODULE PathCondAllocator --------------------------
(***************************************************************************)
(* Guards of value flows (lib/Util/PathCondAllocator.cpp): branch          *)
(* conditions are allocated for every basic block, then the condition      *)
(* under which control flows from the block of a definition to the block   *)
(* of a use is computed by a FIFO worklist over the control-flow graph,    *)
(* once within a function, twice across a call or a return.                *)
(* A condition is the set of the assignments of the branch atoms under     *)
(* which it holds.                                                         *)
(***************************************************************************)
EXTENDS Naturals, SequencesExt

CONSTANTS BB,       \* basic blocks
          Requests  \* see RequestType

\* A request for the guard of a value flow from block src to block dst over
\* call or return site, with the control-flow graph it is asked on: the
\* successors of each block in order, the blocks of each function, its entry
\* and its last block, the blocks that call a program exit, how the branch of
\* a block tests the flowing value against null, and whether there is a value.
RequestType ==
    [succs : [BB -> Seq(BB)], fun : [BB -> BB], exit : [BB -> BB],
     progExits : SUBSET BB, nullTest : [BB -> {"none", "eq", "ne"}], hasValue : BOOLEAN,
     kind : {"intra", "call", "ret"}, src : BB, dst : BB, site : BB]

\* Control stays in a function, and so does each way of the flow.
WellFormed(r) ==
    /\ r \in RequestType
    /\ \A b \in BB : {r.fun[b], r.exit[b]} \cup ToSet(r.succs[b]) \subseteq {d \in BB : r.fun[d] = r.fun[b]}
    /\ r.kind = "intra" => r.fun[r.src] = r.fun[r.dst]
    /\ r.kind = "call" => r.fun[r.src] = r.fun[r.site]
    /\ r.kind = "ret" => r.fun[r.site] = r.fun[r.dst]

ASSUME BBAssumption == IsFiniteSet(BB)

ASSUME RequestsAssumption == \A r \in Requests : WellFormed(r)

VARIABLES req,
          phase,
          from, to,     \* of the current ComputeIntraVFGGuard
          bbToCondMap,
          worklist,
          guards        \* what ComputeIntraVFGGuard returned so far

vars == <<req, phase, from, to, bbToCondMap, worklist, guards>>

Succ(b) == ToSet(req.succs[b])
\* A function is named by its entry block.
Entry(b) == req.fun[b]
Blocks(b) == {d \in BB : req.fun[d] = req.fun[b]}

\* The blocks in N and those one step on, where next leads and avoid is not
\* entered.
Onward(next, avoid, N) == UNION {M \cup ((UNION {next[d] : d \in M}) \ avoid) : M \in {N}}

Reached(next, b, avoid) ==
    LET reached[i \in 0 .. Cardinality(BB)] ==
            IF i = 0 THEN {b} \ avoid ELSE Onward(next, avoid, reached[i - 1])
    IN  reached[Cardinality(BB)]

\* The blocks control may come to from b outside of avoid.
Reach(b, avoid) == Reached([d \in BB |-> Succ(d)], b, avoid)

Dominates(d, b) == b \notin Reach(Entry(b), {d})
PostDominates(d, b) == \A e \in Reach(b, {d}) : Succ(e) # {}
-----------------------------------------------------------------------------
\* Index i without its lowest j bits, and its bit j.
Shifted(i, j) == LET half[k \in 0 .. j] == IF k = 0 THEN i ELSE half[k - 1] \div 2 IN half[j]
Bit(i, j) == Shifted(i, j) % 2 = 1

\* allocateForBB: the decision variables of a block, enough to tell its
\* successors apart, which are numbered from 0.
Atoms(b) == {<<b, j>> : j \in {i \in 0 .. Len(req.succs[b]) : Shifted(Len(req.succs[b]) - 1, i) > 0}}
Assignments == SUBSET UNION {Atoms(b) : b \in Blocks(req.src) \cup Blocks(req.dst)}

TrueCond == Assignments
FalseCond == {}

\* A bit of the i-th successor's number is set where its variable is false.
SuccCond(b, i) == {as \in Assignments : \A x \in Atoms(b) : Bit(i - 1, x[2]) <=> x \notin as}

\* getBranchCond: setBranchCond overwrites what an earlier occurrence of the
\* same successor was given.
BranchCond(b, s) ==
    LET succs == req.succs[b]
    IN  SuccCond(b, CHOOSE i \in DOMAIN succs :
                       succs[i] = s /\ \A j \in DOMAIN succs : j > i => succs[j] # s)

\* isBBCallsProgExit
CallsProgExit(b) == \E x \in req.progExits \cap Blocks(b) : PostDominates(x, b)

\* LoopInfo: the blocks of the loop with header h, none if h is no header.
Latches(h) == {t \in Reach(Entry(h), {}) : h \in Succ(t) /\ Dominates(h, t)}
Loop(h) ==
    IF Latches(h) = {} THEN {}
    ELSE {h} \cup {b \in Blocks(h) : Latches(h) \cap Reach(b, {h}) # {}}
ExitBlocks(h) == (UNION {Succ(b) : b \in Loop(h)}) \ Loop(h)

\* Fault: one of the exits comes to d.
EligibleLoopExitOfOne(h, d) ==
    Latches(h) # {} /\ \E e \in ExitBlocks(h) : ~CallsProgExit(e) /\ PostDominates(d, e)

\* evaluateLoopExitBranch: d comes after h's loop, however it is left.
EligibleLoopExit(h, d) ==
    Latches(h) # {} /\ \A e \in ExitBlocks(h) : CallsProgExit(e) \/ PostDominates(d, e)

IsBranch(b) == Len(req.succs[b]) = 2

\* evaluateProgExit
ProgExitCond(b, s) == IF CallsProgExit(s) THEN FalseCond ELSE TrueCond

\* evaluateTestNullLikeExpr: the value is not null.
NullTestCond(b, s) == IF (s = req.succs[b][1]) <=> (req.nullTest[b] = "eq") THEN FalseCond ELSE TrueCond

\* What evaluateBranchCond finds in the branch itself.
TestedCond(b, s) ==
    IF Len(req.succs[b]) = 1 THEN TrueCond
    ELSE IF ~(req.hasValue /\ IsBranch(b)) THEN BranchCond(b, s)
    ELSE IF \E t \in Succ(b) : CallsProgExit(t) THEN ProgExitCond(b, s)
    ELSE IF req.nullTest[b] # "none" THEN NullTestCond(b, s)
    ELSE BranchCond(b, s)

\* getEvalBrCond
EvalBrCond(b, s) ==
    IF req.hasValue /\ IsBranch(b) /\ EligibleLoopExit(b, s) THEN TrueCond ELSE TestedCond(b, s)
-----------------------------------------------------------------------------
getCFCond(map, b) == IF b \in DOMAIN map THEN map[b] ELSE FalseCond

setCFCond(map, b, cond) == [d \in DOMAIN map \cup {b} |-> IF d = b THEN cond ELSE map[d]]

\* The first, or the only, ComputeIntraVFGGuard of a request.
Init ==
    /\ req \in Requests
    /\ phase = "begin"
    /\ from = req.src
    /\ to = (CASE req.kind = "intra" -> req.dst
               [] req.kind = "call" -> req.site
               [] req.kind = "ret" -> req.exit[req.src])
    /\ bbToCondMap = [b \in {} |-> FalseCond]
    /\ worklist = <<>>
    /\ guards = <<>>

Returned(cond) ==
    /\ guards' = Append(guards, cond)
    /\ phase' = "returned"
    /\ worklist' = <<>>

\* ComputeIntraVFGGuard, the beginning.
BeginIntra ==
    /\ phase = "begin"
    /\ IF PostDominates(to, from)
       THEN Returned(TrueCond) /\ UNCHANGED bbToCondMap
       ELSE /\ phase' = "work"
            /\ worklist' = <<from>>
            /\ bbToCondMap' = setCFCond(bbToCondMap, from, TrueCond)
            /\ UNCHANGED guards
    /\ UNCHANGED <<req, from, to>>

\* The block popped is the header of a loop left to the target.
EarlyTermination ==
    /\ phase = "work" /\ worklist # <<>>
    /\ EligibleLoopExit(Head(worklist), to)
    /\ Returned(getCFCond(bbToCondMap, Head(worklist)))
    /\ UNCHANGED <<req, from, to, bbToCondMap>>

\* The condition under which control passes from b to its successor s.
FlowCond(b, s) == IF PostDominates(s, b) THEN TrueCond ELSE EvalBrCond(b, s)

\* Faults: a block whose condition grows is not visited again; or any is.
ChangedOnce(b, cond) == b \notin DOMAIN bbToCondMap
ChangedAlways(b, cond) == TRUE

\* setCFCond returns true.
Changed(b, cond) == b \notin DOMAIN bbToCondMap \/ bbToCondMap[b] # cond

\* list after the blocks in succs have been pushed, those in skip and those
\* that are there excepted.
Pushed(list, succs, skip) ==
    LET pushed[i \in 0 .. Len(succs)] ==
            IF i = 0 THEN list
            ELSE IF succs[i] \in skip \cup ToSet(pushed[i - 1]) THEN pushed[i - 1]
            ELSE Append(pushed[i - 1], succs[i])
    IN  pushed[Len(succs)]

\* What successor s of block b gets.
NewCond(b, s) == getCFCond(bbToCondMap, s) \cup (getCFCond(bbToCondMap, b) \cap FlowCond(b, s))

\* One iteration of ComputeIntraVFGGuard.
VisitBlock ==
    /\ phase = "work" /\ worklist # <<>>
    /\ LET b == Head(worklist)
           new == [s \in Succ(b) |-> NewCond(b, s)]
       IN  /\ ~EligibleLoopExit(b, to)
           /\ bbToCondMap' = [d \in DOMAIN bbToCondMap \cup Succ(b) |->
                                 IF d \in Succ(b) THEN new[d] ELSE bbToCondMap[d]]
           /\ worklist' = Pushed(Tail(worklist), req.succs[b], {s \in Succ(b) : ~Changed(s, new[s])})
    /\ UNCHANGED <<req, phase, from, to, guards>>

EndIntra ==
    /\ phase = "work" /\ worklist = <<>>
    /\ Returned(getCFCond(bbToCondMap, to))
    /\ UNCHANGED <<req, from, to, bbToCondMap>>

\* ComputeInterCallVFGGuard and ComputeInterRetVFGGuard go on in the other
\* function, from its entry or from the return site.
Cross ==
    /\ phase = "returned" /\ req.kind # "intra" /\ Len(guards) = 1
    /\ from' = IF req.kind = "call" THEN Entry(req.dst) ELSE req.site
    /\ to' = req.dst
    /\ bbToCondMap' = setCFCond(bbToCondMap, from',
                                getCFCond(bbToCondMap, from') \cup getCFCond(bbToCondMap, to))
    /\ phase' = "begin"
    /\ UNCHANGED <<req, worklist, guards>>

Step == BeginIntra \/ EarlyTermination \/ VisitBlock \/ EndIntra \/ Cross

Done == phase = "returned" /\ (req.kind = "intra" \/ Len(guards) = 2)

Next == Step \/ (Done /\ UNCHANGED vars)

Spec == Init /\ [][Next]_vars /\ WF_vars(Step)

\* The guard of the value flow, condAnd of the two.
Guard == IF req.kind = "intra" THEN guards[1] ELSE guards[1] \cap guards[2]
=============================================================================
