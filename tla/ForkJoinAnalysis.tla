-------------------------- MODULE ForkJoinAnalysis --------------------------
(***************************************************************************)
(* The fork-join analysis (class ForkJoinAnalysis of lib/MTA/MHP.cpp and   *)
(* include/MTA/MHP.h): for one thread of the tree after the other, a       *)
(* context-sensitive walk from behind its fork site that marks statements  *)
(* where the thread is alive and where it was joined.  It tells which      *)
(* thread was joined before another was forked, and which threads their    *)
(* parents join on all ways.                                               *)
(***************************************************************************)
EXTENDS ThreadCreateTree

VARIABLES phase,       \* "build", "forkjoin", "interleave", "locks", "spans", "done"
          rootTid,     \* the thread under analysis, 0 before the first
          cxtStmtList, \* worklist; MHP and LockAnalysis have one of their own, all are drained
          aliveFlag,   \* cxtStmtToAliveFlagMap; no entry is Empty
          directJoin,  \* directJoinMap, joins of threads not joined left out
          symmetricJoins,      \* cxtJoinInLoop
          HBPair, HPPair, fullJoin, partialJoin

fjaVars == <<rootTid, cxtStmtList, aliveFlag, directJoin, symmetricJoins, HBPair, HPPair,
             fullJoin, partialJoin>>

CxtStmt(cxt, i) == [cxt |-> cxt, inst |-> i]

FJAInit ==
    /\ phase = "build" /\ rootTid = 0
    /\ cxtStmtList = <<>> /\ aliveFlag = [s \in {} |-> "alive"]
    /\ directJoin = [s \in {} |-> {}] /\ symmetricJoins = {}
    /\ HBPair = {} /\ HPPair = {} /\ fullJoin = {} /\ partialJoin = {}

\* FIFOWorkList::push.
Pushed(list, item) == IF item \in ToSet(list) THEN list ELSE Append(list, item)

\* Partial functions with a default.
At(f, x, default) == IF x \in DOMAIN f THEN f[x] ELSE default
With(f, x, value) == [y \in DOMAIN f \cup {x} |-> IF y = x THEN value ELSE f[y]]
-----------------------------------------------------------------------------
(* The flags.  walk holds them with the worklist.                          *)

\* markCxtStmtFlag with a flag.
Mark(walk, stmt, flag) ==
    IF At(walk.flag, stmt, "empty") = flag THEN walk
    ELSE [flag |-> With(walk.flag, stmt, flag), list |-> Pushed(walk.list, stmt)]

\* The semilattice empty, dead, alive.
JoinOf(old, new) ==
    IF old = "empty" \/ (old = "dead" /\ new = "alive") THEN new ELSE old

\* markCxtStmtFlag with the flag of another statement.
Propagate(walk, stmts, src) ==
    Fold(LAMBDA w, stmt : Mark(w, stmt, JoinOf(At(w.flag, stmt, "empty"), w.flag[src])), walk, stmts)

Alive(walk, stmt) == walk.flag[stmt] = "alive"

Stmts(cxt, insts) == [k \in DOMAIN insts |-> CxtStmt(cxt, insts[k])]
Intra(s) == Stmts(s.cxt, getNextInsts(s.inst))

\* Behind the call sites a return leads to.
Returns(s) ==
    FlattenSeq(SetToSeq({Stmts(cxt, getNextInsts(site)) :
        <<cxt, site>> \in UNION {matchCxt(s.cxt, site) \X {site} :
            site \in {c \in CallersOf(s.inst[1]) : Op(c) = "call"}}}))

\* The handles are the same, and so are their positions in an array.
isAliasedForkJoin(fork, join) == Callee(fork) = Callee(join)

\* The thread a fork site starts in a context.
TidOf(cxt, fork) ==
    CHOOSE t \in Tids : threads[t].cxt = pushCxt(cxt, fork) /\ threads[t].fork = fork
-----------------------------------------------------------------------------
\* An iteration over the tree: clear the flags, start behind the fork site.
FJARoot ==
    /\ phase = "forkjoin" /\ cxtStmtList = <<>> /\ rootTid < Len(threads)
    /\ rootTid' = rootTid + 1
    /\ LET thread == threads[rootTid']
           starts == IF thread.fork = NoInst THEN <<>>
                     ELSE Stmts(thread.forkCxt, getNextInsts(thread.fork))
           walk == Fold(LAMBDA w, stmt : Mark(w, stmt, "alive"),
                            [flag |-> [s \in {} |-> "alive"], list |-> <<>>], starts)
       IN  aliveFlag' = walk.flag /\ cxtStmtList' = walk.list
    /\ UNCHANGED <<phase, directJoin, symmetricJoins, HBPair, HPPair, fullJoin, partialJoin>>

\* The end of the loop over a statement: at the exit of the parent's routine
\* the thread was fully joined, or not.
Visited(walk, s) ==
    LET parents == ParentThread(rootTid)
        atExit == \E p \in parents : s.inst = Return(threads[p].routine)
    IN  /\ aliveFlag' = walk.flag /\ cxtStmtList' = walk.list
        /\ fullJoin' = fullJoin \cup (IF atExit /\ ~Alive(walk, s) THEN parents \X {rootTid} ELSE {})
        /\ partialJoin' = partialJoin \cup (IF atExit /\ Alive(walk, s) THEN parents \X {rootTid} ELSE {})
        /\ UNCHANGED <<phase, rootTid>>

Popped(kind) ==
    /\ phase = "forkjoin" /\ cxtStmtList # <<>>
    /\ Op(Head(cxtStmtList).inst) = kind

Walk == [flag |-> aliveFlag, list |-> Tail(cxtStmtList)]

\* handleFork.
FJAFork ==
    /\ Popped("fork")
    /\ LET s == Head(cxtStmtList)
           spawnee == TidOf(s.cxt, s.inst)
       IN  /\ IF Alive(Walk, s)
              THEN HPPair' = HPPair \cup {<<rootTid, spawnee>>, <<spawnee, rootTid>>} /\ UNCHANGED HBPair
              ELSE HBPair' = HBPair \cup {<<rootTid, spawnee>>} /\ UNCHANGED HPPair
           /\ Visited(Propagate(Walk, Intra(s), s), s)
    /\ UNCHANGED <<directJoin, symmetricJoins>>

\* handleJoin: the thread is dead at its join, or at the exits of the loop the
\* join is in; a join of other threads in a loop leads to the exits too.
FJAJoin ==
    /\ Popped("join")
    /\ LET s == Head(cxtStmtList)
           fork == threads[rootTid].fork
           joined == isAliasedForkJoin(fork, s.inst)
           exits == IF s.inst \in DOMAIN joinLoops
                    THEN Stmts(s.cxt, SetToSeq(Exits(joinLoops[s.inst]))) ELSE <<>>
           dead == IF ~joined THEN <<>> ELSE IF s.inst \in DOMAIN joinLoops THEN exits ELSE <<s>>
           marked == Fold(LAMBDA w, stmt : Mark(w, stmt, "dead"), Walk, dead)
           left == IF joined THEN marked ELSE Propagate(marked, exits, s)
       IN  /\ directJoin' = IF dead = <<>> THEN directJoin
                            ELSE With(directJoin, s, At(directJoin, s, {}) \cup {rootTid})
           /\ symmetricJoins' = IF joined /\ exits # <<>> THEN symmetricJoins \cup {s} ELSE symmetricJoins
           /\ Visited(Propagate(left, Intra(s), s), s)
    /\ UNCHANGED <<HBPair, HPPair>>

\* handleCall; calls of functions that are no candidates are stepped over.
FJACall ==
    /\ Popped("call")
    /\ LET s == Head(cxtStmtList)
           next == IF Callee(s.inst) \in candidateFuncs
                   THEN <<CxtStmt(pushCxt(s.cxt, s.inst), Entry(Callee(s.inst)))>>
                   ELSE Intra(s)
       IN  Visited(Propagate(Walk, next, s), s)
    /\ UNCHANGED <<directJoin, symmetricJoins, HBPair, HPPair>>

\* handleRet.
FJARet ==
    /\ Popped("ret")
    /\ LET s == Head(cxtStmtList)
       IN  Visited(Propagate(Walk, Returns(s), s), s)
    /\ UNCHANGED <<directJoin, symmetricJoins, HBPair, HPPair>>

\* handleIntra.
FJAIntra ==
    /\ \E kind \in {"nop", "br", "lock", "unlock"} : Popped(kind)
    /\ LET s == Head(cxtStmtList)
       IN  Visited(Propagate(Walk, Intra(s), s), s)
    /\ UNCHANGED <<directJoin, symmetricJoins, HBPair, HPPair>>

FJADone ==
    /\ phase = "forkjoin" /\ cxtStmtList = <<>> /\ rootTid = Len(threads)
    /\ phase' = "interleave" /\ rootTid' = 0
    /\ UNCHANGED <<cxtStmtList, aliveFlag, directJoin, symmetricJoins, HBPair, HPPair, fullJoin, partialJoin>>

FJAStep ==
    /\ \/ FJARoot \/ FJAFork \/ FJAJoin \/ FJACall \/ FJARet \/ FJAIntra \/ FJADone
    /\ UNCHANGED tctVars
-----------------------------------------------------------------------------
(* What the analysis tells.                                                *)

isHBPair(t1, t2) == <<t1, t2>> \in HBPair /\ <<t1, t2>> \notin HPPair

\* Fault: joined on some way.
isJoinOnSomeWay(t1, t2) == <<t1, t2>> \in fullJoin

isFullJoin(t1, t2) == <<t1, t2>> \in fullJoin /\ <<t1, t2>> \notin partialJoin

\* The threads a join joins, with those they have fully joined before.
getDirAndIndJoinedTid(s) ==
    LET joined[n \in Nat] ==
            IF n = 0 THEN At(directJoin, s, {})
            ELSE UNION {x \cup {c \in Tids : \E t \in x : c \in Children(t) /\ isFullJoin(t, c)} :
                           x \in {joined[n - 1]}}
    IN  joined[Len(threads)]
=============================================================================
