------------------------ MODULE PersistentDiffPTData ------------------------
(***************************************************************************)
(* PersistentPTData and PersistentDiffPTData of                            *)
(* MemoryModel/PersistentPointsToDS.h (option -ptd=persistent): the maps   *)
(* hold ids of the PersistentPointsToCache of the analysis.                *)
(***************************************************************************)
EXTENDS PersistentPointsToCache

CONSTANT Key

VARIABLES cache,
          ptsMap, diffPtsMap, propaPtsMap,  \* from pointers to ids
          revPtsMap, answer,
          aborted  \* the assertion of newPointsToId failed

maps == <<ptsMap, revPtsMap, diffPtsMap, propaPtsMap>>

vars == <<cache, ptsMap, revPtsMap, diffPtsMap, propaPtsMap, answer, aborted>>

getActualPts(id) == cache.idToPts[id]

TypeOK ==
    /\ ptsMap \in [Key -> Ids(cache)]
    /\ diffPtsMap \in [Key -> Ids(cache)]
    /\ propaPtsMap \in [Key -> Ids(cache)]
    /\ revPtsMap \in [Data -> SUBSET Key]
    /\ answer \in BOOLEAN
    /\ aborted \in BOOLEAN

Init ==
    /\ cache = EmptyCache
    /\ ptsMap = [k \in Key |-> emptyPointsToId]
    /\ diffPtsMap = [k \in Key |-> emptyPointsToId]
    /\ propaPtsMap = [k \in Key |-> emptyPointsToId]
    /\ revPtsMap = [d \in Data |-> {}]
    /\ answer = FALSE
    /\ aborted = FALSE

\* The program stops in the call that ran out of ids.
Abort(c) ==
    /\ c.exhausted
    /\ aborted' = TRUE
    /\ UNCHANGED <<cache, maps, answer>>

\* The call ends, leaving cache c.
Return(c, a) ==
    /\ ~c.exhausted
    /\ cache' = c
    /\ answer' = a
    /\ UNCHANGED aborted

\* unionPtsFromId on the id of set S once the cache is c, S standing in c
\* under id src.
UnionPtsFromId(c, dst, src) ==
    LET new == UnionPts(c, ptsMap[dst], src)
        changed == new.id # ptsMap[dst]
    IN  \/ Abort(new.cache)
        \/ /\ Return(new.cache, changed)
           /\ ptsMap' = [ptsMap EXCEPT ![dst] = new.id]
           /\ revPtsMap' = [d \in Data |-> IF changed /\ d \in c.idToPts[src]
                                           THEN revPtsMap[d] \cup {dst} ELSE revPtsMap[d]]
           /\ UNCHANGED <<diffPtsMap, propaPtsMap>>

UnionData(dst, S) ==
    LET src == EmplacePts(cache, S) IN
    IF src.cache.exhausted THEN Abort(src.cache) ELSE UnionPtsFromId(src.cache, dst, src.id)

AddPts(k, d) == UnionData(k, {d})

UnionKey(dst, src) == UnionPtsFromId(cache, dst, ptsMap[src])

\* Fault: the reverse map is left alone.
ClearPtsForward(k, d) ==
    LET e == EmplacePts(cache, {d})
        new == ComplementPts(e.cache, ptsMap[k], e.id)
    IN  IF e.cache.exhausted THEN Abort(e.cache)
        ELSE \/ Abort(new.cache)
             \/ /\ Return(new.cache, FALSE)
                /\ ptsMap' = [ptsMap EXCEPT ![k] = new.id]
                /\ UNCHANGED <<revPtsMap, diffPtsMap, propaPtsMap>>

ClearPts(k, d) ==
    LET e == EmplacePts(cache, {d})
        new == ComplementPts(e.cache, ptsMap[k], e.id)
    IN  IF e.cache.exhausted THEN Abort(e.cache)
        ELSE \/ Abort(new.cache)
             \/ /\ Return(new.cache, FALSE)
                /\ ptsMap' = [ptsMap EXCEPT ![k] = new.id]
                /\ revPtsMap' = IF new.id # ptsMap[k] THEN [revPtsMap EXCEPT ![d] = @ \ {k}]
                                ELSE revPtsMap
                /\ UNCHANGED <<diffPtsMap, propaPtsMap>>

ClearFullPts(k) ==
    /\ revPtsMap' = [d \in Data |-> IF d \in getActualPts(ptsMap[k])
                                    THEN revPtsMap[d] \ {k} ELSE revPtsMap[d]]
    /\ ptsMap' = [ptsMap EXCEPT ![k] = emptyPointsToId]
    /\ Return(cache, FALSE)
    /\ UNCHANGED <<diffPtsMap, propaPtsMap>>

\* computeDiffPts(k, getPts(k)).
ComputeDiffPts(k) ==
    LET all == EmplacePts(cache, getActualPts(ptsMap[k]))
        new == ComplementPts(all.cache, all.id, propaPtsMap[k])
    IN  \/ Abort(new.cache)
        \/ /\ Return(new.cache, new.id # emptyPointsToId)
           /\ diffPtsMap' = [diffPtsMap EXCEPT ![k] = new.id]
           /\ propaPtsMap' = [propaPtsMap EXCEPT ![k] = all.id]
           /\ UNCHANGED <<ptsMap, revPtsMap>>

UpdatePropaPtsMap(src, dst) ==
    LET new == IntersectPts(cache, propaPtsMap[dst], propaPtsMap[src]) IN
    \/ Abort(new.cache)
    \/ /\ Return(new.cache, FALSE)
       /\ propaPtsMap' = [propaPtsMap EXCEPT ![dst] = new.id]
       /\ UNCHANGED <<ptsMap, revPtsMap, diffPtsMap>>

ClearPropaPts(k) ==
    /\ propaPtsMap' = [propaPtsMap EXCEPT ![k] = emptyPointsToId]
    /\ Return(cache, FALSE)
    /\ UNCHANGED <<ptsMap, revPtsMap, diffPtsMap>>

Step ==
    \E k \in Key :
        \/ \E d \in Data : AddPts(k, d) \/ ClearPts(k, d)
        \/ \E src \in Key : UnionKey(k, src) \/ UpdatePropaPtsMap(src, k)
        \/ \E S \in SUBSET Data : UnionData(k, S)
        \/ ClearFullPts(k)
        \/ ComputeDiffPts(k)
        \/ ClearPropaPts(k)

Next == (~aborted /\ Step) \/ (aborted /\ UNCHANGED vars)

Spec == Init /\ [][Next]_vars
-----------------------------------------------------------------------------
Sets(f) == [k \in Key |-> getActualPts(f[k])]

Mutable == INSTANCE MutableDiffPTData WITH
    ptsMap <- Sets(ptsMap), diffPtsMap <- Sets(diffPtsMap), propaPtsMap <- Sets(propaPtsMap)

\* Whatever the operations, what users see of the persistent data (the sets,
\* the reverse sets, whether something changed) is what they would see of plain
\* sets, until ids run out: -ptd=persistent and -ptd=mutable are interchangeable.
ImplementsMutable == Mutable!Spec

\* No derived entry of the operation caches is wrong, no two ids stand for
\* the same set (the operations compare ids to know whether a set changed).
CacheExact == Exact(cache)

\* The reverse map is the inverse of the points-to map; collapsing an object
\* visits exactly the pointers to it.  The persistent map is written only when
\* an id changes.
RevPtsInverse == \A d \in Data : revPtsMap[d] = {k \in Key : d \in getActualPts(ptsMap[k])}
=============================================================================
