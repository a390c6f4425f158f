-------------------------------- MODULE PCG ---------------------------------
(***************************************************************************)
(* The procedure creation graph (lib/MTA/PCG.cpp), a coarser analysis of   *)
(* what may happen in parallel: functions that create threads, that run in *)
(* created threads, and that are called after a thread was created.        *)
(***************************************************************************)
EXTENDS ThreadCreateTree

VARIABLE pcg  \* spawners, spawnees and followers

\* The functions of S and all they call or start.
ForwardFrom(S) ==
    LET reached[n \in Nat] ==
            IF n = 0 THEN S
            ELSE UNION {x \cup {Callee(i) : i \in {j \in CallSites : j[1] \in x}} : x \in {reached[n - 1]}}
    IN  reached[Cardinality(Fun)]

Spawners == BackwardFrom({i[1] : i \in Sites({"fork"})})
Spawnees == ForwardFrom({Callee(i) : i \in Sites({"fork"})})

\* identifyFollowers: what is called, but spawns nothing, in the block of a
\* spawn site or behind it.
identifyFollowers(spawners) ==
    LET isSpawnsite(i) == Op(i) = "fork" \/ Callee(i) \in spawners
        reached == UNION {FlowFrom(i, NoInst) : i \in {j \in CallSites : isSpawnsite(j)}}
    IN  {Callee(i) : i \in {j \in UNION {Block(k) : k \in reached} : Op(j) = "call" /\ ~isSpawnsite(j)}}

\* analyze.
PCGInit ==
    pcg = [spawners |-> Spawners, spawnees |-> Spawnees,
           followers |-> ForwardFrom(identifyFollowers(Spawners))]

mayHappenInParallelBetweenFunctions(f1, f2) ==
    /\ f1 \in pcg.spawnees \/ f2 \in pcg.spawnees
    /\ {f1, f2} \subseteq pcg.spawners \cup pcg.spawnees \cup pcg.followers
=============================================================================
