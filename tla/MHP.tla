-------------------------------- MODULE MHP ---------------------------------
(***************************************************************************)
(* The may-happen-in-parallel analysis (class MHP of lib/MTA/MHP.cpp and   *)
(* include/MTA/MHP.h): for every statement of a thread in a context the    *)
(* set of the threads that may run while it is executed.  The sets grow    *)
(* along control flow, calls and forks, and lose threads at joins.         *)
(***************************************************************************)
EXTENDS ForkJoinAnalysis

VARIABLES interleav,  \* threadStmtToTheadInterLeav; no entry is the empty set
          reachable   \* instToTSMap: the statements met, with thread and context

mhpVars == <<interleav, reachable>>

CxtThreadStmt(t, cxt, i) == [tid |-> t, cxt |-> cxt, inst |-> i]
EntryOf(t) == CxtThreadStmt(t, threads[t].cxt, Entry(threads[t].routine))
ThreadStmts(t, stmts) == [k \in DOMAIN stmts |-> CxtThreadStmt(t, stmts[k].cxt, stmts[k].inst)]
InOrder(tids) == SelectSeq([t \in Tids |-> t], LAMBDA t : t \in tids)

MHPInit == interleav = [s \in {} |-> {}] /\ reachable = {}
-----------------------------------------------------------------------------
(* The sets.  walk holds them with the worklist.                           *)

\* Fault: a statement is visited again although its set is the same.
addInterleavingThreadAgain(walk, stmt, tids) ==
    [leav |-> With(walk.leav, stmt, At(walk.leav, stmt, {}) \cup tids), list |-> Pushed(walk.list, stmt),
     met |-> walk.met \cup {stmt}]

\* addInterleavingThread with a thread, or those of another statement.
addInterleavingThread(walk, stmt, tids) ==
    LET before == At(walk.leav, stmt, {})
    IN  IF tids \subseteq before THEN walk
        ELSE [leav |-> With(walk.leav, stmt, before \cup tids), list |-> Pushed(walk.list, stmt),
              met |-> walk.met \cup {stmt}]

AddAll(walk, stmts, tids) == Fold(LAMBDA w, stmt : addInterleavingThread(w, stmt, tids), walk, stmts)
Flow(walk, stmts, src) == Fold(LAMBDA w, stmt : addInterleavingThread(w, stmt, w.leav[src]), walk, stmts)

\* isMustJoin, which rmInterleavingThread asks about the thread that joins.
isMustJoin(t, join) == ~isMultiForkedThread(t) /\ join \notin info.recurJoins

\* Fault: only the directly joined thread is removed where several are.
rmOneInterleavingThread(walk, stmt, tids, join) ==
    LET before == At(walk.leav, stmt, {})
        gone == {t \in tids : \A u \in tids : t <= u}
    IN  IF ~isMustJoin(stmt.tid, join) \/ before \cap gone = {} THEN walk
        ELSE [walk EXCEPT !.leav = With(@, stmt, before \ gone), !.list = Pushed(@, stmt)]

\* rmInterleavingThread.
rmInterleavingThread(walk, stmt, tids, join) ==
    LET before == At(walk.leav, stmt, {})
    IN  IF ~isMustJoin(stmt.tid, join) \/ before \cap tids = {} THEN walk
        ELSE [walk EXCEPT !.leav = With(@, stmt, before \ tids), !.list = Pushed(@, stmt)]

Ancestry(t) == {t} \cup getAncestorThread(t)

\* updateAncestorThreads: a thread may run behind its fork site, and behind
\* those of its ancestors.
updateAncestorThreads(walk, t) ==
    Fold(LAMBDA w, a :
                 AddAll(w, ThreadStmts(threads[a].parent,
                                       Stmts(threads[a].forkCxt, getNextInsts(threads[a].fork))), {t}),
             walk, InOrder({a \in Ancestry(t) : threads[a].fork # NoInst}))

\* parent joins t on all ways, or a thread that so joins t.
isRecurFullJoin(parent, t) ==
    /\ parent \in Ancestry(t)
    /\ \A a \in Ancestry(t) \ Ancestry(parent) : isFullJoin(threads[a].parent, a)

\* Never in parallel: sibling begins after t has ended, or ended before.
Ordered(a, sibling, t) ==
    (isHBPair(a, sibling) /\ isRecurFullJoin(a, t)) \/ isHBPair(sibling, a)

\* updateSiblingThreads: a thread may run beside its siblings, and those of
\* its ancestors.
updateSiblingThreads(walk, t) ==
    Fold(LAMBDA w, a :
                 AddAll(w, [k \in DOMAIN InOrder({s \in getSiblingThread(a) : ~Ordered(a, s, t)}) |->
                               EntryOf(InOrder({s \in getSiblingThread(a) : ~Ordered(a, s, t)})[k])], {t}),
             walk, InOrder(Ancestry(t)))
-----------------------------------------------------------------------------
Updated(walk) ==
    /\ interleav' = walk.leav /\ cxtStmtList' = walk.list /\ reachable' = walk.met

FJAResults == <<aliveFlag, directJoin, symmetricJoins, HBPair, HPPair, fullJoin, partialJoin>>

\* An iteration over the tree.
MHPRoot ==
    /\ phase = "interleave" /\ cxtStmtList = <<>> /\ rootTid < Len(threads)
    /\ rootTid' = rootTid + 1
    /\ LET own == addInterleavingThread([leav |-> interleav, list |-> <<>>, met |-> reachable],
                      EntryOf(rootTid'), {rootTid'})
       IN  Updated(updateSiblingThreads(updateAncestorThreads(own, rootTid'), rootTid'))
    /\ UNCHANGED <<phase, FJAResults>>

\* Instructions of candidate functions are dispatched on.
Dispatched(kinds) ==
    /\ phase = "interleave" /\ cxtStmtList # <<>>
    /\ Head(cxtStmtList).inst[1] \in candidateFuncs /\ Op(Head(cxtStmtList).inst) \in kinds
    /\ UNCHANGED <<phase, rootTid, FJAResults>>

MHPWalk == [leav |-> interleav, list |-> Tail(cxtStmtList), met |-> reachable]

IntraOf(s) == ThreadStmts(s.tid, Intra(s))

\* handleNonCandidateFun: functions with neither forks nor joins have one set.
MHPNonCandidateFun ==
    /\ phase = "interleave" /\ cxtStmtList # <<>>
    /\ LET s == Head(cxtStmtList)
           callees == SitesOf(s.inst[1])
       IN  /\ s.inst[1] \notin candidateFuncs
           /\ Updated(Flow(MHPWalk, [k \in DOMAIN callees |->
                                        CxtThreadStmt(s.tid, s.cxt, Entry(Callee(callees[k])))], s))
    /\ UNCHANGED <<phase, rootTid, FJAResults>>

\* handleFork.
MHPFork ==
    /\ Dispatched({"fork"})
    /\ LET s == Head(cxtStmtList)
       IN  Updated(Flow(MHPWalk, <<EntryOf(TidOf(s.cxt, s.inst))>> \o IntraOf(s), s))

\* handleJoin: a join in a loop takes effect at the exits of the loop, if all
\* threads of the loop's array are joined.
MHPJoin ==
    /\ Dispatched({"join"})
    /\ LET s == Head(cxtStmtList)
           stmt == CxtStmt(s.cxt, s.inst)
           joined == getDirAndIndJoinedTid(stmt)
           exits == IF s.inst \in DOMAIN joinLoops
                    THEN ThreadStmts(s.tid, Stmts(s.cxt, SetToSeq(Exits(joinLoops[s.inst])))) ELSE <<>>
           ended == IF s.inst \notin DOMAIN joinLoops THEN <<s>>
                    ELSE IF stmt \in symmetricJoins THEN exits ELSE <<>>
           less == Fold(LAMBDA w, x : rmInterleavingThread(w, x, joined, s.inst), Flow(MHPWalk, exits, s), ended)
       IN  Updated(Flow(less, IntraOf(s), s))

\* handleCall; a call of a function that is no candidate is stepped over too.
MHPCall ==
    /\ Dispatched({"call"})
    /\ LET s == Head(cxtStmtList)
           entry == CxtThreadStmt(s.tid, pushCxt(s.cxt, s.inst), Entry(Callee(s.inst)))
           over == IF Callee(s.inst) \in candidateFuncs THEN <<>> ELSE IntraOf(s)
       IN  Updated(Flow(MHPWalk, <<entry>> \o over, s))

\* handleRet.
MHPRet ==
    /\ Dispatched({"ret"})
    /\ LET s == Head(cxtStmtList)
       IN  Updated(Flow(MHPWalk, ThreadStmts(s.tid, Returns(s)), s))

\* handleIntra.
MHPIntra ==
    /\ Dispatched({"nop", "br", "lock", "unlock"})
    /\ LET s == Head(cxtStmtList)
       IN  Updated(Flow(MHPWalk, IntraOf(s), s))

\* updateNonCandidateFunInterleaving: what holds at the entry of a function
\* that is no candidate holds at all its instructions.
MHPFinish ==
    /\ phase = "interleave" /\ cxtStmtList = <<>> /\ rootTid = Len(threads)
    /\ LET EntryStmt(s) == [s EXCEPT !.inst = Entry(s.inst[1])]
           copies == {CxtThreadStmt(s.tid, s.cxt, i) :
                         <<s, i>> \in {x \in {r \in reachable : r.inst[1] \notin candidateFuncs} \X AllInsts :
                                          x[1].inst[1] = x[2][1]}}
       IN  /\ reachable' = reachable \cup copies
           /\ interleav' = [s \in DOMAIN interleav \cup copies |->
                               IF s \in copies THEN interleav[EntryStmt(s)] ELSE interleav[s]]
    /\ phase' = "locks"
    /\ UNCHANGED <<cxtStmtList, rootTid, FJAResults>>

MHPStep ==
    /\ \/ MHPRoot \/ MHPNonCandidateFun \/ MHPFork \/ MHPJoin \/ MHPCall \/ MHPRet \/ MHPIntra
       \/ MHPFinish
    /\ UNCHANGED tctVars
-----------------------------------------------------------------------------
(* The queries.                                                            *)

\* getThreadStmtSet, empty for an instruction no thread reaches.
ThreadStmtSet(i) == {s \in reachable : s.inst = i}

mayHappenInParallelInst(i1, i2) ==
    \E s1 \in ThreadStmtSet(i1), s2 \in ThreadStmtSet(i2) :
        IF s1.tid = s2.tid THEN isMultiForkedThread(s1.tid)
        ELSE s2.tid \in interleav[s1] /\ s1.tid \in interleav[s2]

executedByTheSameThread(i1, i2) ==
    \A s1 \in ThreadStmtSet(i1), s2 \in ThreadStmtSet(i2) : s1.tid = s2.tid /\ ~isMultiForkedThread(s1.tid)

\* What a query may answer: mayHappenInParallelCache gives two functions that
\* are no candidates the answer to the first query about them.
MayHappenInParallel(i1, i2) ==
    IF i1[1] \in candidateFuncs \/ i2[1] \in candidateFuncs
    THEN {mayHappenInParallelInst(i1, i2)}
    ELSE {mayHappenInParallelInst(j1, j2) : j1 \in Insts(i1[1]), j2 \in Insts(i2[1])}
=============================================================================
