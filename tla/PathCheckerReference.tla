------------------------ MODULE PathCheckerReference ------------------------
(***************************************************************************)
(* What the path checker is measured against: the realizable paths of the  *)
(* value-flow graph, on which every return goes back to the call that was  *)
(* entered last, or out of the function the path began in.  Their call     *)
(* strings have no limit; their length is bounded by PathBound edges.      *)
(***************************************************************************)
EXTENDS PathChecker

CONSTANT PathBound

ASSUME PathBoundAssumption == PathBound \in Nat

\* The call strings after edge e: nothing is ever forgotten.
Exact(e, c) ==
    {d \in {c} : e.kind = "intra"} \cup
    {d \in {Append(c, e.cs)} : e.kind = "call"} \cup
    {d \in {PopContext(c)} : e.kind = "ret" /\ (c = <<>> \/ c[Len(c)] = e.cs)}

ExactNext(x) == UNION {{e.dst} \X Exact(e, x[2]) : e \in OutEdges(edges, x[1])}

\* One step on from items, or back to them.
Onward(X) == X \cup UNION {ExactNext(x) : x \in X}
Back(items, X) == X \cup {x \in items : ExactNext(x) \cap X # {}}

\* The items at the end of the realizable paths from a source.
Realizable ==
    LET reached[i \in 0 .. PathBound] == IF i = 0 THEN Sources ELSE Onward(reached[i - 1])
    IN  reached[PathBound]

\* Those of them from which a path leads on to a sink.
OnPath(items) ==
    LET leading[i \in 0 .. PathBound] ==
            IF i = 0 THEN {x \in items : x[1] \in sinks} ELSE Back(items, leading[i - 1])
    IN  leading[PathBound]

\* Nothing is lost: every node on a realizable path from a source to a sink
\* is reported, although call strings are cut, and nodes are not entered
\* twice (README: "finds all paths from Source to Sink").
PathsFound ==
    phase = "done" => NodesOf(OnPath(Realizable)) \subseteq backwardslice

\* Calls and returns are matched: without deep recursion the forward slice
\* holds no node that only unmatched calls and returns would reach.
ForwardSliceRealizable ==
    LET items == Realizable
    IN  phase = "done"
        /\ (\A x \in items : Len(x[2]) <= CxtLimit /\ ExactNext(x) \subseteq items)
        => forwardslice \subseteq NodesOf(items)
=============================================================================
