---------------------------- MODULE DDAReference ----------------------------
(***************************************************************************)
(* What a demand-driven query is to answer: the least flow-sensitive       *)
(* solution of the whole program.                                          *)
(***************************************************************************)
EXTENDS DDAVFSolver, FlowSensitiveSolution

\* Between two queries, every answer given within the budget is the least
\* flow-sensitive one, as long as no query was downgraded before it, and no
\* answer misses a target of it, the downgraded ones included.
AnswersExact ==
    phase = "rest" =>
        LET exact == LeastSolution
        IN  \A v \in prog.queries \ queries :
              /\ VarPts(exact, v) \subseteq cached[VarItem(v)]
              /\ outOfBudgetDpms = {} => cached[VarItem(v)] = VarPts(exact, v)
=============================================================================
