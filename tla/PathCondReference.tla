------------------------- MODULE PathCondReference --------------------------
(***************************************************************************)
(* What a guard is measured against: the runs of the control-flow graph.   *)
(* Under an assignment every branch goes one way each time, program exits  *)
(* are not taken, and a tested value is not null.                          *)
(***************************************************************************)
EXTENDS PathCondAllocator

\* Where a run under assignment as goes from a block; one that calls a
\* program exit is the end of it.
Goes(as) == [d \in BB |-> {s \in Succ(d) : d \notin req.progExits /\ as \in TestedCond(d, s)}]

\* The blocks runs from b come to under assignment as, as far as avoid.
Run(b, as, avoid) == Reached(Goes(as), b, avoid)

\* The ways within functions a value flow is made of, as the comments on
\* ComputeInterCallVFGGuard and ComputeInterRetVFGGuard draw them.
Legs ==
    CASE req.kind = "intra" -> {<<req.src, req.dst>>}
      [] req.kind = "call" -> {<<req.src, req.site>>, <<Entry(req.dst), req.dst>>}
      [] req.kind = "ret" -> {<<req.src, req.exit[req.src]>>, <<req.site, req.dst>>}

\* A run under as comes all the way.
Covered(as) == \A leg \in Legs : leg[2] \in Run(leg[1], as, {})

AfterLoop == \E leg \in Legs : \E h \in Blocks(leg[2]) : EligibleLoopExit(h, leg[2])

\* The value flow happens whenever a run comes from the definition to the
\* use: the guard misses no path, in whatever order blocks are visited.
PathsCovered == Done /\ ~AfterLoop => \A as \in Assignments : Covered(as) => as \in Guard

\* The comment on the early return in ComputeIntraVFGGuard: where the target
\* is the exit of the current block's loop, the computation can end early.
LoopExitsCovered == Done => \A as \in Assignments : Covered(as) => as \in Guard

\* Both ways of the value flow lie in one function: its block conditions are
\* those of the first way when the second is begun.
IsRecursive == req.kind # "intra" /\ Entry(req.src) = Entry(req.dst)

\* Where the guard holds, no run leaves the function without the use: a free
\* the leak checker counts on is not passed by.
NothingPassedBy ==
    Done /\ ~IsRecursive => \A as \in Guard : \A leg \in Legs :
                \A b \in Run(leg[1], as, {leg[2]}) : Succ(b) # {} \/ CallsProgExit(b)

\* The computation ends, on loops too.
Termination == <>Done
=============================================================================
