----------------------------- MODULE MCPointsTo -----------------------------
(* Every sequence of at most MaxCalls calls on two pointers and three      *)
(* targets; ids run out after MaxId.                                       *)
EXTENDS PersistentDiffPTData, TLC

CONSTANT MaxCalls

VARIABLE calls

MCInit == Init /\ calls = 0

MCNext ==
    \/ /\ calls < MaxCalls
       /\ Next
       /\ calls' = calls + 1
    \/ calls = MaxCalls /\ UNCHANGED <<vars, calls>>

MCSpec == MCInit /\ [][MCNext]_<<vars, calls>>

Symmetry == Permutations(Key) \cup Permutations(Data)
=============================================================================
