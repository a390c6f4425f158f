------------------------ MODULE FlowSensitiveTools --------------------------
(***************************************************************************)
(* The two tools with a flow-sensitive analysis, of one value-flow graph:  *)
(* dvf (DDAVFSolver) and wpa (FlowSensitive).                              *)
(***************************************************************************)
EXTENDS DDAReference, FlowSensitive

VARIABLE tool

ddaVars == <<queries, query, phase, searchVars, cached, outOfBudgetDpms, stack>>

\* Either analysis is run; the whole-program one has no state of its own
\* while the other runs.
ToolInit ==
    /\ Init
    /\ \/ tool = "wpa" /\ FSInit
       \/ /\ tool = "dvf" /\ pts = NoItem /\ dfIn = NoItem /\ dfOut = NoItem
          /\ inUpdated = NoItem /\ worklist = NoItem /\ fsPhase = NoItem

ToolStep ==
    /\ UNCHANGED tool
    /\ \/ tool = "dvf" /\ Step /\ UNCHANGED fsVars
       \/ tool = "wpa" /\ FSStep /\ UNCHANGED ddaVars

ToolDone == IF tool = "dvf" THEN Done ELSE FSDone

ToolNext == ToolStep \/ (ToolDone /\ UNCHANGED <<tool, vars, fsVars>>)

ToolSpec == ToolInit /\ [][ToolNext]_<<tool, vars, fsVars>> /\ WF_<<tool, vars, fsVars>>(ToolStep)

\* FSSettled, where that analysis is run.
Settled == tool = "wpa" => FSSettled

\* The whole-program analysis ends with the least flow-sensitive solution,
\* of variables and of what stores leave behind, whatever the order of its
\* worklist: incremental propagation loses nothing, and nothing is taken
\* from a store before its address is known that a strong update removes.
FlowSensitiveExact ==
    (tool = "wpa" /\ FSDone) =>
        LET exact == LeastSolution
        IN  /\ \A v \in Var : pts[v] = VarPts(exact, v)
            /\ \A s \in Store : \A o \in Obj : dfOut[<<s, o>>] = Pts(exact, <<s, o>>)

\* Both analyses come to an end: every candidate is answered
\* (DDAClient::answerQueries), cycles of the value flow and calls found on
\* the way notwithstanding, and the worklist gets empty.
AnalysesEnd == <>ToolDone
=============================================================================
