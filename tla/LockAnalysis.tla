---------------------------- MODULE LockAnalysis ----------------------------
(***************************************************************************)
(* The lock analysis (lib/MTA/LockAnalysis.cpp and the header): which      *)
(* locks are held at a statement.  Spans within one function are found by  *)
(* two traversals; for the others a context-sensitive walk from the entry  *)
(* procedures keeps with every statement the locks held on all ways to it. *)
(***************************************************************************)
EXTENDS ForkJoinAnalysis

VARIABLES ciSpan, condSpan, \* instCILocksMap and instTocondCILocksMap, by lock
          cxtLocks,      \* cxtLockset
          stmtLocks,     \* cxtStmtToCxtLockSet
          lockStmts      \* instToCxtStmtSet: the statements met, with context

lockVars == <<ciSpan, condSpan, cxtLocks, stmtLocks, lockStmts>>

locksites == Sites({"lock"})

LockInit ==
    /\ ciSpan = [l \in locksites |-> {}] /\ condSpan = [l \in locksites |-> {}]
    /\ cxtLocks = {} /\ stmtLocks = [s \in {} |-> {}] /\ lockStmts = {}

\* The pointers are taken to alias if they are to the same lock.
isAliasedLocks(i, j) == prog[i[1]][i[2]].lock = prog[j[1]][j[2]].lock

lockcandidateFuncSet == BackwardFrom({i[1] : i \in Sites({"lock", "unlock"})})

\* TCT::getEntryProcs.
EntryProcs == {f \in DOMAIN prog : CallersOf(f) = {}}

pushLockCxt(cxt, site) == IF inSameCallGraphSCC(site[1], Callee(site)) THEN cxt ELSE Append(cxt, site)

\* The context after a return to the call site, as a set: empty on a mismatch.
matchLockCxt(cxt, site) ==
    IF cxt = <<>> \/ inSameCallGraphSCC(site[1], Callee(site)) THEN {cxt}
    ELSE IF Last(cxt) = site THEN {Front(cxt)} ELSE {}
-----------------------------------------------------------------------------
(* analyzeIntraProcedualLock.                                              *)

Spread(S, next(_)) ==
    LET reached[n \in Nat] ==
            IF n = 0 THEN S ELSE UNION {x \cup UNION {next(i) : i \in x} : x \in {reached[n - 1]}}
    IN  reached[Cardinality(AllInsts)]

\* The statements behind a lock up to its unlocks.
intraForward(lock) ==
    Spread({lock}, LAMBDA i : IF Op(i) = "unlock" /\ isAliasedLocks(lock, i) THEN {} ELSE ToSet(Succs(i)))

unlockSet(lock, forward) == {i \in forward : Op(i) = "unlock" /\ isAliasedLocks(lock, i)}

Prevs(i) == {j \in Insts(i[1]) : i \in ToSet(Succs(j))}

\* The statements before the unlocks up to their locks.
AtLock(lock, i) == Op(i) = "lock" /\ isAliasedLocks(lock, i)
intraBackward(lock, forward) ==
    Spread(unlockSet(lock, forward), LAMBDA i : IF AtLock(lock, i) THEN {} ELSE Prevs(i))

\* What intraBackwardTraverse takes for the entry is the end of the entry
\* block: to come back to that block is to fail.
FollowsEntryBlock(i) ==
    \E entry \in {Block(Entry(i[1]))} : i \notin entry /\ Prevs(i) \cap entry # {}

BackwardFails(lock, forward) ==
    \E i \in intraBackward(lock, forward) : ~AtLock(lock, i) /\ FollowsEntryBlock(i)

\* The spans of lock, a pair: it is released on all ways, and it was taken on
\* all ways to where it is released, or on some only.
IntraSpans(lock) ==
    CHOOSE spans \in {IF Return(lock[1]) \in f THEN <<{}, {}>>
                      ELSE IF BackwardFails(lock, f) THEN <<{}, f>> ELSE <<f, {}>> : f \in {intraForward(lock)}} : TRUE
-----------------------------------------------------------------------------
(* collectCxtLock: the procedures from the entry procedures on, with their *)
(* contexts, and the locks in them.                                        *)
LockProcs(candidates) ==
    LET called(p) ==
            IF p[2] \notin candidates THEN {}
            ELSE {<<pushLockCxt(p[1], i), Callee(i)>> : i \in {j \in CallSites : j[1] = p[2]}}
        procs[n \in Nat] ==
            IF n = 0 THEN {<<>>} \X (EntryProcs \cap candidates)
            ELSE UNION {x \cup UNION {called(p) : p \in x} : x \in {procs[n - 1]}}
    IN  procs[Cardinality(Fun)]

collectCxtLock(candidates) ==
    {CxtStmt(p[1], i) : <<p, i>> \in {x \in LockProcs(candidates) \X locksites : x[1][2] = x[2][1]}}

\* analyze up to the loop of analyzeLockSpanCxtStmt.
LockStart ==
    /\ phase = "locks"
    /\ \E spans \in {[l \in locksites |-> IntraSpans(l)]} :
          /\ ciSpan' = [l \in locksites |-> spans[l][1]]
          /\ condSpan' = [l \in locksites |-> spans[l][2]]
    /\ \E candidates \in {lockcandidateFuncSet} :
          /\ cxtLocks' = collectCxtLock(candidates)
          /\ cxtStmtList' = SetToSeq({CxtStmt(<<>>, Entry(f)) : f \in EntryProcs \cap candidates})
    /\ phase' = "spans"
    /\ UNCHANGED <<stmtLocks, lockStmts>>
-----------------------------------------------------------------------------
(* analyzeLockSpanCxtStmt.  walk holds the lock sets with the worklist.    *)

\* markCxtStmtFlag: a statement gets the locks of the first one before it and
\* keeps what all have; it has no entry as long as there is none to give it.
markCxtStmtFlag(walk, tgr, src) ==
    LET locks == walk.locks[src]
        fewer == At(walk.locks, tgr, {}) \cap locks
    IN  IF tgr \notin DOMAIN walk.locks
        THEN [locks |-> IF locks = {} THEN walk.locks ELSE With(walk.locks, tgr, locks),
              list |-> Pushed(walk.list, tgr)]
        ELSE IF fewer = walk.locks[tgr] THEN walk
        ELSE [locks |-> With(walk.locks, tgr, fewer), list |-> Pushed(walk.list, tgr)]

Given(walk, stmts, src) == Fold(LAMBDA w, tgr : markCxtStmtFlag(w, tgr, src), walk, stmts)

\* The next statements in the function.
Following(s) == Stmts(s.cxt, Succs(s.inst))

\* The statement popped, and the lock sets when it has been touched.
Current == Head(cxtStmtList)
Touched == [locks |-> With(stmtLocks, Current, At(stmtLocks, Current, {})), list |-> Tail(cxtStmtList)]

\* One iteration on a statement of these kinds ends with the sets and the list
\* in walk.
Visits(kinds) == phase = "spans" /\ cxtStmtList # <<>> /\ Op(Current.inst) \in kinds

VisitEnds(walk) ==
    /\ \E w \in {walk} : stmtLocks' = w.locks /\ cxtStmtList' = w.list
    /\ lockStmts' = lockStmts \cup {Current}
    /\ UNCHANGED <<phase, ciSpan, condSpan, cxtLocks>>

LockEntry(s) == CxtStmt(pushLockCxt(s.cxt, s.inst), Entry(Callee(s.inst)))

\* A thread begins with the locks held where it is created.
LockFork ==
    /\ Visits({"fork"})
    /\ VisitEnds(Given(Touched, <<LockEntry(Current)>> \o Following(Current), Current))

\* A lock holds itself; if it did before, nothing follows.
LockAcquire ==
    /\ Visits({"lock"}) /\ Current \in cxtLocks
    /\ VisitEnds(IF Current \in Touched.locks[Current] THEN Touched
                 ELSE Given([Touched EXCEPT !.locks[Current] = @ \cup {Current}], Following(Current), Current))

\* removeCxtStmtToSpan looks for the unlock among the locks.
LockRelease ==
    /\ Visits({"unlock"})
    /\ VisitEnds(IF Current \in Touched.locks[Current]
                 THEN Given([Touched EXCEPT !.locks[Current] = @ \ {Current}], Following(Current), Current)
                 ELSE Touched)

LockCall == Visits({"call"}) /\ VisitEnds(Given(Touched, <<LockEntry(Current)>>, Current))

\* What follows the calls s may return to.
Returning(s) ==
    LET sites == {c \in CallersOf(s.inst[1]) : Op(c) = "call"}
    IN  FlattenSeq(SetToSeq({Stmts(cxt, Succs(site)) :
            <<cxt, site>> \in UNION {matchLockCxt(s.cxt, c) \X {c} : c \in sites}}))

LockRet == Visits({"ret"}) /\ VisitEnds(Given(Touched, Returning(Current), Current))

LockIntra == Visits({"nop", "br", "join"}) /\ VisitEnds(Given(Touched, Following(Current), Current))

LockEnd ==
    /\ phase = "spans" /\ cxtStmtList = <<>> /\ phase' = "done"
    /\ UNCHANGED <<cxtStmtList, lockVars>>

LockStep ==
    /\ \/ LockStart \/ LockFork \/ LockAcquire \/ LockRelease \/ LockCall \/ LockRet \/ LockIntra
       \/ LockEnd
    /\ UNCHANGED <<tctVars, rootTid, aliveFlag, directJoin, symmetricJoins, HBPair, HPPair, fullJoin,
                   partialJoin>>
-----------------------------------------------------------------------------
(* The queries.                                                            *)

isInsideCondIntraLock(i) == \E l \in locksites : i \in condSpan[l]
isInsideIntraLock(i) == (\E l \in locksites : i \in ciSpan[l]) \/ isInsideCondIntraLock(i)

isProtectedByCommonCILock(i1, i2) ==
    /\ ~isInsideCondIntraLock(i1) /\ ~isInsideCondIntraLock(i2)
    /\ \E l1, l2 \in locksites : i1 \in ciSpan[l1] /\ i2 \in ciSpan[l2] /\ isAliasedLocks(l1, l2)

HoldCommonLock(s1, s2) ==
    \E l1 \in stmtLocks[s1], l2 \in stmtLocks[s2] : isAliasedLocks(l1.inst, l2.inst)

\* The contexts a statement was met in.
CxtStmtsOf(i) == {s \in lockStmts : s.inst = i}

\* Fault: one pair of contexts with a common lock is enough.
isProtectedInSomeCxt(i1, i2) ==
    \E s1 \in CxtStmtsOf(i1), s2 \in CxtStmtsOf(i2) : HoldCommonLock(s1, s2)

isProtectedByCommonCxtLock(i1, i2) ==
    /\ CxtStmtsOf(i1) # {} /\ CxtStmtsOf(i2) # {}
    /\ \A s1 \in CxtStmtsOf(i1), s2 \in CxtStmtsOf(i2) : s1 # s2 => HoldCommonLock(s1, s2)

isProtectedByCommonLock(i1, i2) ==
    IF isInsideIntraLock(i1) /\ isInsideIntraLock(i2)
    THEN isProtectedByCommonCILock(i1, i2) ELSE isProtectedByCommonCxtLock(i1, i2)
=============================================================================
