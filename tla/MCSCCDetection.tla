-------------------------- MODULE MCSCCDetection ----------------------------
(***************************************************************************)
(* SCCDetection on every graph over a small set of nodes with at most one  *)
(* self loop, up to renaming of the nodes, visited as a whole (find) or    *)
(* from a single candidate (find(candidates)).                             *)
(***************************************************************************)
EXTENDS SCCDetection, TLC

SmallGraphs ==
    LET links == {e \in N \X N : e[1] # e[2]}
    IN  {g \cup s : g \in SUBSET links, s \in {{}} \cup {{<<n, n>>} : n \in N}}

WholeOrOne == {N} \cup {{n} : n \in N}

NodeSymmetry == Permutations(N)
=============================================================================
