---------------------------- MODULE MHPReference ----------------------------
(***************************************************************************)
(* The analyses of multithreaded programs, one after the other as in       *)
(* MTA::runOnModule, and then the program itself: its threads run in all   *)
(* interleavings, and what happens is compared with what was said of it.   *)
(***************************************************************************)
EXTENDS MHP, LockAnalysis, PCG

CONSTANTS Lock, MaxThreads, MaxDepth  \* bounds of an execution

VARIABLES stacks,  \* of the threads in the order they were started
          handle,  \* what a thread's handle of a routine holds, 0 at first
          owner    \* of a lock, 0 if it is free

vars == <<tctVars, phase, fjaVars, mhpVars, lockVars, pcg, stacks, handle, owner>>

Init ==
    /\ TCTInit /\ FJAInit /\ MHPInit /\ LockInit /\ PCGInit
    /\ stacks = <<<<Entry(Main)>>>> /\ handle = <<[f \in Fun |-> 0]>> /\ owner = [l \in Lock |-> 0]

Build ==
    /\ phase = "build"
    /\ \/ BuildStep /\ UNCHANGED <<phase, rootTid>>
       \/ ctpList = <<>> /\ phase' = "forkjoin" /\ UNCHANGED <<tctVars, rootTid>>
    /\ UNCHANGED <<cxtStmtList, aliveFlag, directJoin, symmetricJoins, HBPair, HPPair, fullJoin,
                   partialJoin>>

Analyse ==
    /\ \/ Build /\ UNCHANGED <<mhpVars, lockVars>>
       \/ FJAStep /\ UNCHANGED <<mhpVars, lockVars>>
       \/ MHPStep /\ UNCHANGED lockVars
       \/ LockStep /\ UNCHANGED mhpVars
    /\ UNCHANGED <<pcg, stacks, handle, owner>>
-----------------------------------------------------------------------------
Started == DOMAIN stacks
Ended(t) == stacks[t] = <<>>
Pc(t) == Last(stacks[t])
LockAt(t) == prog[Pc(t)[1]][Pc(t)[2]].lock

\* Main runs, and t is waiting for neither the thread it joins nor a lock.  What
\* follows the release of a lock that t does not hold is undefined.
CanStep(t) ==
    /\ phase = "done" /\ ~Ended(1) /\ ~Ended(t)
    /\ Op(Pc(t)) = "join" /\ handle[t][Callee(Pc(t))] # 0 => Ended(handle[t][Callee(Pc(t))])
    /\ Op(Pc(t)) = "lock" => owner[LockAt(t)] = 0
    /\ Op(Pc(t)) = "unlock" => owner[LockAt(t)] = t

Goto(t, i) == [stacks EXCEPT ![t] = Append(Front(@), i)]

RunFork(t) ==
    /\ Op(Pc(t)) = "fork" /\ Len(stacks) < MaxThreads
    /\ stacks' = Append(Goto(t, Succs(Pc(t))[1]), <<Entry(Callee(Pc(t)))>>)
    /\ handle' = Append([handle EXCEPT ![t][Callee(Pc(t))] = Len(stacks) + 1], [f \in Fun |-> 0])
    /\ UNCHANGED owner

RunCall(t) ==
    /\ Op(Pc(t)) = "call" /\ Len(stacks[t]) < MaxDepth
    /\ stacks' = [stacks EXCEPT ![t] = Append(Goto(t, Succs(Pc(t))[1])[t], Entry(Callee(Pc(t))))]
    /\ UNCHANGED <<handle, owner>>

RunReturn(t) ==
    /\ Op(Pc(t)) = "ret"
    /\ stacks' = [stacks EXCEPT ![t] = Front(@)]
    /\ UNCHANGED <<handle, owner>>

RunOther(t) ==
    /\ Op(Pc(t)) \in {"nop", "br", "join"}
    /\ \E i \in ToSet(Succs(Pc(t))) : stacks' = Goto(t, i)
    /\ UNCHANGED <<handle, owner>>

RunLock(t) ==
    /\ Op(Pc(t)) \in {"lock", "unlock"}
    /\ stacks' = Goto(t, Succs(Pc(t))[1])
    /\ owner' = [owner EXCEPT ![LockAt(t)] = IF Op(Pc(t)) = "lock" THEN t ELSE 0]
    /\ UNCHANGED handle

Execute ==
    /\ \E t \in Started : CanStep(t) /\ (RunFork(t) \/ RunCall(t) \/ RunReturn(t) \/ RunLock(t) \/ RunOther(t))
    /\ UNCHANGED <<tctVars, phase, fjaVars, mhpVars, lockVars, pcg>>

Next == Analyse \/ Execute

Spec == Init /\ [][Next]_vars /\ WF_vars(Analyse)
-----------------------------------------------------------------------------
\* Whenever two threads are both about to execute an instruction,
\* mayHappenInParallel has said so of the two, whichever query came first, and
\* executedByTheSameThread has not claimed one thread for both.  The procedure
\* creation graph has said so of their functions.
ParallelReported ==
    \A t, u \in Started :
        t < u /\ CanStep(t) /\ CanStep(u) =>
            /\ MayHappenInParallel(Pc(t), Pc(u)) = {TRUE}
            /\ ~executedByTheSameThread(Pc(t), Pc(u))
            /\ mayHappenInParallelBetweenFunctions(Pc(t)[1], Pc(u)[1])

\* Two threads never both are about to execute ordinary statements that the
\* lock analysis takes to be protected by a common lock.
LockedApart ==
    \A t, u \in Started :
        t < u /\ CanStep(t) /\ CanStep(u) /\ Op(Pc(t)) = "nop" /\ Op(Pc(u)) = "nop" =>
            ~isProtectedByCommonLock(Pc(t), Pc(u))

\* A race is two accesses that may happen in parallel and are not protected by
\* the same lock (MTA::detect): none is missed.
RacesReported == ParallelReported /\ LockedApart

\* Control flow within threads, into calls and new threads, and out of ended
\* threads into their joins.
ComesNext(i) ==
    ToSet(Succs(i))
    \cup (IF Op(i) \in {"call", "fork"} THEN {Entry(Callee(i))} ELSE {})
    \cup (IF Op(i) # "ret" THEN {}
          ELSE {j \in Sites({"join"}) : Callee(j) = i[1]}
               \cup {Succs(c)[1] : c \in {d \in CallersOf(i[1]) : Op(d) = "call"}})

Later(i) ==
    LET reached[n \in Nat] ==
            IF n = 0 THEN ComesNext(i)
            ELSE UNION {x \cup UNION {ComesNext(j) : j \in x} : x \in {reached[n - 1]}}
    IN  reached[Cardinality(AllInsts)]

\* In a program without branches whose functions are called or started at one
\* place, mayHappenInParallel says of no two instructions that they may happen
\* in parallel if one comes before the other.
NothingSpurious ==
    /\ phase = "done" /\ stacks = <<<<Entry(Main)>>>>
    /\ Sites({"br"}) = {} /\ \A f \in DOMAIN prog : Cardinality(CallersOf(f)) <= 1
    => \A i \in AllInsts : \A j \in Later(i) : MayHappenInParallel(i, j) = {FALSE}

\* The analyses come to an end, although sets of threads shrink at joins
\* and their statements are then visited again.
Termination == <>(phase = "done")
=============================================================================
