---------------------- MODULE PersistentPointsToCache -----------------------
(***************************************************************************)
(* MemoryModel/PersistentPointsToCache.h: points-to sets are interned, and *)
(* users hold ids.  An operation on ids is looked up before it is          *)
(* performed; performing one also stores results that follow from it by    *)
(* set algebra.  The operations are operators from a cache to a cache and  *)
(* an id.                                                                  *)
(***************************************************************************)
EXTENDS Naturals

CONSTANTS Data,
          MaxId  \* the largest id of PointsToID

ASSUME MaxIdAssumption == MaxId \in Nat \ {0}

emptyPointsToId == 0

EmptyMap == [x \in {} |-> emptyPointsToId]

Put(f, x, v) == [y \in DOMAIN f \cup {x} |-> IF y = x THEN v ELSE f[y]]

\* The cache; exhausted: an id was asked for after the last one was given out.
EmptyCache ==
    [idToPts |-> [i \in {emptyPointsToId} |-> {}],
     ptsToId |-> [S \in {{}} |-> emptyPointsToId],
     idCounter |-> 1,
     exhausted |-> FALSE,
     union |-> EmptyMap, complement |-> EmptyMap, intersection |-> EmptyMap]

\* emplacePts with newPointsToId: the id counter wraps around to 0, which the
\* next call asserts it has not.
EmplacePts(c, S) ==
    IF S \in DOMAIN c.ptsToId THEN [cache |-> c, id |-> c.ptsToId[S]]
    ELSE IF c.idCounter = 0
    THEN [cache |-> [c EXCEPT !.exhausted = TRUE], id |-> emptyPointsToId]
    ELSE [cache |-> [c EXCEPT !.idToPts = Put(@, c.idCounter, S),
                              !.ptsToId = Put(@, S, c.idCounter),
                              !.idCounter = (@ + 1) % (MaxId + 1)],
          id |-> c.idCounter]

\* std::minmax
Ordered(l, r) == IF l <= r THEN <<l, r>> ELSE <<r, l>>

\* Overlay p |-> v when b holds.
PutIf(b, f, p, v) == IF b THEN Put(f, p, v) ELSE f

\* unionPts: x U y = z gives x U z = z and y U z = z.
UnionPts(c, lhs, rhs) ==
    LET ops == Ordered(lhs, rhs)
        new == EmplacePts(c, c.idToPts[lhs] \cup c.idToPts[rhs])
        z == new.id
    IN  IF ops[1] = emptyPointsToId THEN [cache |-> c, id |-> ops[2]]
        ELSE IF lhs = rhs THEN [cache |-> c, id |-> lhs]
        ELSE IF ops \in DOMAIN c.union THEN [cache |-> c, id |-> c.union[ops]]
        ELSE [cache |-> [new.cache EXCEPT !.union =
                            PutIf(rhs # z, PutIf(lhs # z, Put(@, ops, z), Ordered(lhs, z), z),
                                  Ordered(rhs, z), z)],
              id |-> z]

\* Fault: x - y = z is taken to give z & x = {} in place of z & y = {}.
ComplementPtsSwapped(c, lhs, rhs) ==
    LET new == EmplacePts(c, c.idToPts[lhs] \ c.idToPts[rhs])
        z == new.id
        n == new.cache
    IN  IF lhs = rhs \/ lhs = emptyPointsToId THEN [cache |-> c, id |-> emptyPointsToId]
        ELSE IF rhs = emptyPointsToId THEN [cache |-> c, id |-> lhs]
        ELSE IF <<lhs, rhs>> \in DOMAIN c.complement
        THEN [cache |-> c, id |-> c.complement[<<lhs, rhs>>]]
        ELSE [cache |-> [n EXCEPT
                            !.complement = PutIf(z # 0, Put(@, <<lhs, rhs>>, z), <<z, rhs>>, z),
                            !.intersection = PutIf(z # 0, PutIf(z # 0, @, Ordered(z, rhs), z),
                                                   Ordered(z, lhs), emptyPointsToId)],
              id |-> z]

\* complementPts: x - y = z gives z & y = {}, z & x = z and z - y = z.
ComplementPts(c, lhs, rhs) ==
    LET new == EmplacePts(c, c.idToPts[lhs] \ c.idToPts[rhs])
        z == new.id
        n == new.cache
    IN  IF lhs = rhs \/ lhs = emptyPointsToId THEN [cache |-> c, id |-> emptyPointsToId]
        ELSE IF rhs = emptyPointsToId THEN [cache |-> c, id |-> lhs]
        ELSE IF <<lhs, rhs>> \in DOMAIN c.complement
        THEN [cache |-> c, id |-> c.complement[<<lhs, rhs>>]]
        ELSE [cache |-> [n EXCEPT
                            !.complement = PutIf(z # 0, Put(@, <<lhs, rhs>>, z), <<z, rhs>>, z),
                            !.intersection = PutIf(z # 0, PutIf(z # 0, @, Ordered(z, rhs), emptyPointsToId),
                                                   Ordered(z, lhs), z)],
              id |-> z]

\* intersectPts: x & y = z # {} gives z & y = z, z & x = z, z U x = x, z U y = y.
IntersectPts(c, lhs, rhs) ==
    LET ops == Ordered(lhs, rhs)
        new == EmplacePts(c, c.idToPts[lhs] \cap c.idToPts[rhs])
        z == new.id
        n == new.cache
    IN  IF ops[1] = emptyPointsToId THEN [cache |-> c, id |-> emptyPointsToId]
        ELSE IF lhs = rhs THEN [cache |-> c, id |-> lhs]
        ELSE IF ops \in DOMAIN c.intersection THEN [cache |-> c, id |-> c.intersection[ops]]
        ELSE [cache |-> [n EXCEPT
                            !.intersection = PutIf(z # 0 /\ z # lhs,
                                                PutIf(z # 0 /\ z # rhs, Put(@, ops, z), Ordered(z, rhs), z),
                                                Ordered(z, lhs), z),
                            !.union = PutIf(z # 0 /\ z # rhs,
                                         PutIf(z # 0 /\ z # lhs, @, Ordered(lhs, z), lhs),
                                         Ordered(rhs, z), rhs)],
              id |-> z]
-----------------------------------------------------------------------------
Ids(c) == DOMAIN c.idToPts

\* The ids are numbered without a gap, the counter is the next one (or 0 after
\* the last), and idToPts and ptsToId are inverse: no set has two ids.
Interned(c) ==
    /\ Ids(c) = IF c.idCounter = 0 THEN 0..MaxId ELSE 0..(c.idCounter - 1)
    /\ c.idCounter \in 0..MaxId
    /\ c.idToPts \in [Ids(c) -> SUBSET Data]
    /\ c.idToPts[emptyPointsToId] = {}
    /\ DOMAIN c.ptsToId = {c.idToPts[i] : i \in Ids(c)}
    /\ \A i \in Ids(c) : c.ptsToId[c.idToPts[i]] = i

UnionsExact(c) ==
    /\ DOMAIN c.union \subseteq Ids(c) \X Ids(c)
    /\ \A p \in DOMAIN c.union :
          c.union[p] \in Ids(c) /\ c.idToPts[c.union[p]] = c.idToPts[p[1]] \cup c.idToPts[p[2]]

ComplementsExact(c) ==
    /\ DOMAIN c.complement \subseteq Ids(c) \X Ids(c)
    /\ \A p \in DOMAIN c.complement :
          /\ c.complement[p] \in Ids(c)
          /\ c.idToPts[c.complement[p]] = c.idToPts[p[1]] \ c.idToPts[p[2]]

IntersectionsExact(c) ==
    /\ DOMAIN c.intersection \subseteq Ids(c) \X Ids(c)
    /\ \A p \in DOMAIN c.intersection :
          /\ c.intersection[p] \in Ids(c)
          /\ c.idToPts[c.intersection[p]] = c.idToPts[p[1]] \cap c.idToPts[p[2]]

\* Every id stands for one set, and every cached operation, performed or
\* derived, gives the id of the set plain set algebra gives.
Exact(c) == Interned(c) /\ UnionsExact(c) /\ ComplementsExact(c) /\ IntersectionsExact(c)
=============================================================================
