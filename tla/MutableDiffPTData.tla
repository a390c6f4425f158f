------------------------- MODULE MutableDiffPTData --------------------------
(***************************************************************************)
(* Points-to data held as plain sets (option -ptd=mutable):                *)
(* MutablePTData and MutableDiffPTData of MemoryModel/MutablePointsToDS.h, *)
(* with reverse points-to maps.  It says what points-to data is, whatever  *)
(* holds it; PersistentDiffPTData implements it.                           *)
(* Operations no analysis calls (clear, remapAllPts) are left out.         *)
(***************************************************************************)
CONSTANTS Key,  \* pointers
          Data  \* targets

VARIABLES ptsMap, revPtsMap, diffPtsMap, propaPtsMap,
          answer  \* what the last operation returned; FALSE when it returns nothing

vars == <<ptsMap, revPtsMap, diffPtsMap, propaPtsMap, answer>>

TypeOK ==
    /\ ptsMap \in [Key -> SUBSET Data]
    /\ revPtsMap \in [Data -> SUBSET Key]
    /\ diffPtsMap \in [Key -> SUBSET Data]
    /\ propaPtsMap \in [Key -> SUBSET Data]
    /\ answer \in BOOLEAN

Init ==
    /\ ptsMap = [k \in Key |-> {}]
    /\ revPtsMap = [d \in Data |-> {}]
    /\ diffPtsMap = [k \in Key |-> {}]
    /\ propaPtsMap = [k \in Key |-> {}]
    /\ answer = FALSE

Add(k, S) ==
    /\ revPtsMap' = [d \in Data |-> IF d \in S THEN revPtsMap[d] \cup {k} ELSE revPtsMap[d]]
    /\ ptsMap' = [ptsMap EXCEPT ![k] = @ \cup S]
    /\ answer' = ~(S \subseteq ptsMap[k])
    /\ UNCHANGED <<diffPtsMap, propaPtsMap>>

AddPts(k, d) == Add(k, {d})

UnionKey(dst, src) == Add(dst, ptsMap[src])

UnionData(dst, S) == Add(dst, S)

Remove(k, S) ==
    /\ revPtsMap' = [d \in Data |-> IF d \in S THEN revPtsMap[d] \ {k} ELSE revPtsMap[d]]
    /\ ptsMap' = [ptsMap EXCEPT ![k] = @ \ S]
    /\ answer' = FALSE
    /\ UNCHANGED <<diffPtsMap, propaPtsMap>>

ClearPts(k, d) == Remove(k, {d})

ClearFullPts(k) == Remove(k, ptsMap[k])

\* computeDiffPts, called with the whole set of the pointer (Andersen.h:279).
ComputeDiffPts(k) ==
    LET diff == ptsMap[k] \ propaPtsMap[k] IN
    /\ diffPtsMap' = [diffPtsMap EXCEPT ![k] = diff]
    /\ propaPtsMap' = [propaPtsMap EXCEPT ![k] = ptsMap[k]]
    /\ answer' = (diff # {})
    /\ UNCHANGED <<ptsMap, revPtsMap>>

UpdatePropaPtsMap(src, dst) ==
    /\ propaPtsMap' = [propaPtsMap EXCEPT ![dst] = @ \cap propaPtsMap[src]]
    /\ answer' = FALSE
    /\ UNCHANGED <<ptsMap, revPtsMap, diffPtsMap>>

ClearPropaPts(k) ==
    /\ propaPtsMap' = [propaPtsMap EXCEPT ![k] = {}]
    /\ answer' = FALSE
    /\ UNCHANGED <<ptsMap, revPtsMap, diffPtsMap>>

Next ==
    \E k \in Key :
        \/ \E d \in Data : AddPts(k, d) \/ ClearPts(k, d)
        \/ \E src \in Key : UnionKey(k, src) \/ UpdatePropaPtsMap(src, k)
        \/ \E S \in SUBSET Data : UnionData(k, S)
        \/ ClearFullPts(k)
        \/ ComputeDiffPts(k)
        \/ ClearPropaPts(k)

Spec == Init /\ [][Next]_vars
=============================================================================
