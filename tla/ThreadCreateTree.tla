-------------------------- MODULE ThreadCreateTree --------------------------
(***************************************************************************)
(* The thread create tree (lib/MTA/TCT.cpp): which abstract threads a      *)
(* program starts, in which calling context, and who creates whom.  A      *)
(* program is a function from functions to sequences of operations; an     *)
(* instruction is a pair of a function and an index.  A thread handle is   *)
(* named by the routine it is for: a join joins the fork sites of that     *)
(* routine.                                                                *)
(***************************************************************************)
EXTENDS Integers, FiniteSets, SequencesExt

CONSTANTS Fun, Main, Programs, NoInst

ASSUME FunAssumption == Main \in Fun /\ IsFiniteSet(Fun)

VARIABLES prog,     \* the program, it stays as chosen
          info,     \* what build finds out about it first: candidateFuncSet,
                    \* joinSiteToLoopMap, inRecurJoinSites, the cycles of tcgSCC
          threads,  \* the nodes of the tree in the order of their ids
          ctpList, visitedCTPs

tctVars == <<prog, info, threads, ctpList, visitedCTPs>>
\* FoldLeft with every intermediate value computed once.
Fold(op(_, _), base, seq) ==
    LET after[k \in Nat] == IF k = 0 THEN base
                            ELSE CHOOSE r \in {op(x, seq[k]) : x \in {after[k - 1]}} : TRUE
    IN  after[Len(seq)]
-----------------------------------------------------------------------------
(* The program: control flow, loops and calls.                             *)

Insts(f) == {<<f, k>> : k \in DOMAIN prog[f]}
AllInsts == UNION {Insts(f) : f \in DOMAIN prog}
Op(i) == prog[i[1]][i[2]].op
Callee(i) == prog[i[1]][i[2]].fun
Sites(kinds) == {i \in AllInsts : Op(i) \in kinds}
Entry(f) == <<f, 1>>
Return(f) == <<f, Len(prog[f])>>

\* The control-flow successors; a branch lists them, a return has none.
Succs(i) ==
    CASE Op(i) = "br"  -> [k \in DOMAIN prog[i[1]][i[2]].to |-> <<i[1], prog[i[1]][i[2]].to[k]>>]
      [] Op(i) = "ret" -> <<>>
      [] OTHER         -> <<<<i[1], i[2] + 1>>>>

\* Basic blocks begin at the entry, at targets of branches and behind them.
Leaders(f) ==
    {Entry(f)} \cup UNION {ToSet(Succs(i)) \cup {<<f, i[2] + 1>>} : i \in {j \in Insts(f) : Op(j) = "br"}}

\* The instructions of the block of i.
Block(i) ==
    {j \in Insts(i[1]) : \A l \in Leaders(i[1]) : l[2] <= i[2] <=> l[2] <= j[2]}

\* The instructions control reaches from i around one to avoid.
FlowFrom(i, avoided) ==
    LET reached[n \in Nat] ==
            IF n = 0 THEN {i}
            ELSE UNION {x \cup UNION {ToSet(Succs(j)) \ {avoided} : j \in x} : x \in {reached[n - 1]}}
    IN  reached[Len(prog[i[1]])]

\* getLoopFor: the loop around an instruction, empty outside of loops (loops
\* are not nested here).
LoopOf(i) == {j \in FlowFrom(i, NoInst) : \E k \in ToSet(Succs(j)) : i \in FlowFrom(k, NoInst)}

\* The branch that ends the header of a loop.
HeaderEnd(loop) ==
    CHOOSE i \in loop : Op(i) = "br" /\ \A j \in loop : Op(j) = "br" => i[2] <= j[2]

Exits(loop) == UNION {ToSet(Succs(i)) : i \in loop} \ loop

\* Call sites and fork sites, the edges of the thread call graph.
CallSites == Sites({"call", "fork"})
SitesOf(f) ==
    SelectSeq([k \in DOMAIN prog[f] |-> <<f, k>>], LAMBDA i : Op(i) \in {"call", "fork"})
CallersOf(f) == {i \in CallSites : Callee(i) = f}

\* The functions of S and all that call or start them, directly or not.
BackwardFrom(S) ==
    LET reached[n \in Nat] ==
            IF n = 0 THEN S
            ELSE UNION {x \cup {i[1] : i \in {j \in CallSites : Callee(j) \in x}} : x \in {reached[n - 1]}}
    IN  reached[Cardinality(Fun)]

Callers(f) == BackwardFrom({i[1] : i \in CallersOf(f)})
-----------------------------------------------------------------------------
(* What build finds out first.                                             *)

\* markRelProcs.
CandidateFuncs ==
    BackwardFrom({i[1] : i \in Sites({"fork", "join"})}) \cup {Callee(i) : i \in Sites({"fork"})}

isInLoopInstruction(i) ==
    \E j \in {i} \cup UNION {CallersOf(f) : f \in BackwardFrom({i[1]})} : LoopOf(j) # {}

isInRecursion(i) == \E f \in BackwardFrom({i[1]}) : f \in Callers(f)

\* All ways from the header into the loop pass the join.
isJoinMustExecutedInLoop(loop, join) ==
    \A i \in ToSet(Succs(HeaderEnd(loop))) \cap loop :
        i = join \/ Return(join[1]) \notin FlowFrom(i, join)

\* collectLoopInfoForJoin.
JoinLoops ==
    [j \in {i \in Sites({"join"}) : LoopOf(i) # {} /\ isJoinMustExecutedInLoop(LoopOf(i), i)} |->
        LoopOf(j)]

Info ==
    [candidateFuncs |-> CandidateFuncs, joinLoops |-> JoinLoops,
     recurJoins |-> {j \in Sites({"join"}) : isInRecursion(j)},
     cycles |-> {x \in Fun \X Fun : x[1] \in Callers(x[2]) /\ x[2] \in Callers(x[1])}]
-----------------------------------------------------------------------------
(* What the tree is asked for.                                             *)

candidateFuncs == info.candidateFuncs
joinLoops == info.joinLoops
inSameCallGraphSCC(f, g) == f = g \/ <<f, g>> \in info.cycles

\* getNextInsts: the header of a join loop leads into the loop only.
getNextInsts(i) ==
    SelectSeq(Succs(i), LAMBDA s : \A j \in DOMAIN joinLoops :
                            i = HeaderEnd(joinLoops[j]) => s \in joinLoops[j])

pushCxt(cxt, site) ==
    IF site[1] \in candidateFuncs /\ ~inSameCallGraphSCC(site[1], Callee(site))
    THEN Append(cxt, site)
    ELSE cxt

\* The context after a return to the call site, as a set: empty on a mismatch.
matchCxt(cxt, site) ==
    IF cxt = <<>> \/ site[1] \notin candidateFuncs \/ inSameCallGraphSCC(site[1], Callee(site))
    THEN {cxt}
    ELSE IF Last(cxt) = site THEN {Front(cxt)} ELSE {}

Tids == DOMAIN threads

\* hasParentThread, getParentThread: none or one.
ParentThread(t) == {threads[t].parent} \ {0}

getAncestorThread(t) ==
    LET ancestors[n \in Nat] == IF n = 0 THEN {}
                                ELSE ParentThread(n) \cup UNION {ancestors[p] : p \in ParentThread(n)}
    IN  ancestors[t]

Children(t) == {c \in Tids : threads[c].parent = t}
getSiblingThread(t) == UNION {Children(p) : p \in ParentThread(t)} \ {t}

isMultiForkedThread(t) == threads[t].multiForked
-----------------------------------------------------------------------------
(* Building it.                                                            *)

TCTNode(cxt, fork, forkCxt, routine, parent, multiForked) ==
    [cxt |-> cxt, fork |-> fork, forkCxt |-> forkCxt, routine |-> routine, parent |-> parent,
     multiForked |-> multiForked]

\* setMultiForkedAttrs, collectMultiForkedThreads.
StartsMany(fork, parent) ==
    isInLoopInstruction(fork) \/ isInRecursion(fork) \/ parent.multiForked

TCTInit ==
    /\ prog \in Programs
    /\ info = Info
    /\ threads = <<TCTNode(<<>>, NoInst, <<>>, Main, 0, FALSE)>>
    /\ ctpList = <<[tid |-> 1, cxt |-> <<>>, proc |-> Main]>>
    /\ visitedCTPs = {[tid |-> 1, cxt |-> <<>>, proc |-> Main]}

pushToCTPWorkList(tct, ctp) ==
    IF ctp \in tct.visited THEN tct
    ELSE [tct EXCEPT !.list = Append(@, ctp), !.visited = @ \cup {ctp}]

\* The thread of a fork site in a context is created once, and is the child of
\* the thread whose procedure met it first.
handleCallRelation(tct, ctp, site) ==
    LET cxt == pushCxt(ctp.cxt, site)
        Known == {t \in DOMAIN tct.threads : tct.threads[t].cxt = cxt /\ tct.threads[t].fork = site}
        node == TCTNode(cxt, site, ctp.cxt, Callee(site), ctp.tid,
                        StartsMany(site, tct.threads[ctp.tid]))
    IN  IF Op(site) = "call"
        THEN pushToCTPWorkList(tct, [tid |-> ctp.tid, cxt |-> cxt, proc |-> Callee(site)])
        ELSE IF Known # {} THEN tct
        ELSE pushToCTPWorkList([tct EXCEPT !.threads = Append(@, node)],
                               [tid |-> Len(tct.threads) + 1, cxt |-> cxt, proc |-> Callee(site)])

\* An iteration of the loop of build.
BuildStep ==
    LET ctp == Head(ctpList)
        before == [threads |-> threads, list |-> Tail(ctpList), visited |-> visitedCTPs]
        after == IF ctp.proc \notin candidateFuncs THEN before
                 ELSE Fold(LAMBDA tct, site : handleCallRelation(tct, ctp, site), before,
                               SitesOf(ctp.proc))
    IN  /\ ctpList # <<>>
        /\ threads' = after.threads /\ ctpList' = after.list /\ visitedCTPs' = after.visited
        /\ UNCHANGED <<prog, info>>
=============================================================================
