-------------------- MODULE PersistentDiffPTData_proofs ---------------------
(***************************************************************************)
(* Proofs about the persistent points-to data, for any pointers, targets   *)
(* and number of ids: the operation caches are exact, the reverse map is   *)
(* the inverse, and the persistent data implements the mutable data.       *)
(*                                                                         *)
(* The inductive invariant is TypeOK /\ CacheInv(cache) /\ RevPtsInverse:  *)
(* the cache never forgets or changes the set of an id, so the ids in the  *)
(* maps keep their meaning while operations add others.                    *)
(***************************************************************************)
EXTENDS PersistentDiffPTData, TLAPS

IsCache(c) ==
    c = [idToPts |-> c.idToPts, ptsToId |-> c.ptsToId, idCounter |-> c.idCounter,
         exhausted |-> c.exhausted, union |-> c.union, complement |-> c.complement,
         intersection |-> c.intersection]

CacheInv(c) == IsCache(c) /\ c.exhausted = FALSE /\ Exact(c)

\* Cache d answers as cache c about the ids of c.
Grows(c, d) == Ids(c) \subseteq Ids(d) /\ \A i \in Ids(c) : d.idToPts[i] = c.idToPts[i]

\* The id and the cache in x are those of set S after c.
Answers(c, x, S) ==
    CacheInv(x.cache) /\ Grows(c, x.cache) /\ x.id \in Ids(x.cache) /\ x.cache.idToPts[x.id] = S

\* Two ids with the same set are the same: users compare ids.
LEMMA IdsUnique ==
    ASSUME NEW c, CacheInv(c), NEW i \in Ids(c), NEW j \in Ids(c), c.idToPts[i] = c.idToPts[j]
    PROVE  i = j
BY DEF CacheInv, Exact, Interned

LEMMA EmptyId == ASSUME NEW c, CacheInv(c) PROVE emptyPointsToId \in Ids(c) /\ c.idToPts[emptyPointsToId] = {}
BY MaxIdAssumption DEF CacheInv, Exact, Interned, Ids, emptyPointsToId

LEMMA IdsInRange == ASSUME NEW c, CacheInv(c) PROVE Ids(c) \subseteq 0 .. MaxId
BY MaxIdAssumption DEF CacheInv, Exact, Interned, Ids

\* Interning a set keeps the cache exact and the operation caches as they are.
LEMMA Emplaced ==
    ASSUME NEW c, CacheInv(c), NEW S \in SUBSET Data, ~EmplacePts(c, S).cache.exhausted
    PROVE  /\ Answers(c, EmplacePts(c, S), S)
           /\ EmplacePts(c, S).cache.union = c.union
           /\ EmplacePts(c, S).cache.complement = c.complement
           /\ EmplacePts(c, S).cache.intersection = c.intersection
<1> DEFINE e == EmplacePts(c, S)
           d == e.cache
<1>1. CASE S \in DOMAIN c.ptsToId
  <2>1. e = [cache |-> c, id |-> c.ptsToId[S]]
    BY <1>1 DEF EmplacePts
  <2>2. PICK i \in Ids(c) : c.idToPts[i] = S
    BY <1>1 DEF CacheInv, Exact, Interned
  <2>3. c.ptsToId[S] = i
    BY <2>2 DEF CacheInv, Exact, Interned
  <2> QED BY <2>1, <2>2, <2>3 DEF Answers, Grows
<1>2. CASE S \notin DOMAIN c.ptsToId
  <2>1. c.idCounter # 0
    BY <1>2 DEF EmplacePts, CacheInv, IsCache
  <2>2. /\ c.idCounter \in 1 .. MaxId
        /\ Ids(c) = 0 .. (c.idCounter - 1)
    BY <2>1, MaxIdAssumption DEF CacheInv, Exact, Interned
  <2>3. /\ e.id = c.idCounter
        /\ d = [c EXCEPT !.idToPts = Put(@, c.idCounter, S),
                         !.ptsToId = Put(@, S, c.idCounter),
                         !.idCounter = (@ + 1) % (MaxId + 1)]
    BY <1>2, <2>1 DEF EmplacePts
  <2>4. /\ IsCache(d)
        /\ d.idToPts = Put(c.idToPts, c.idCounter, S)
        /\ d.ptsToId = Put(c.ptsToId, S, c.idCounter)
        /\ d.idCounter = (c.idCounter + 1) % (MaxId + 1)
        /\ d.exhausted = FALSE
        /\ d.union = c.union /\ d.complement = c.complement /\ d.intersection = c.intersection
    BY <2>3 DEF CacheInv, IsCache
  <2>5. /\ Ids(d) = Ids(c) \cup {c.idCounter}
        /\ d.idToPts[c.idCounter] = S
        /\ \A i \in Ids(c) : d.idToPts[i] = c.idToPts[i]
        /\ d.idToPts = [i \in Ids(d) |-> d.idToPts[i]]
    BY <2>2, <2>4 DEF Ids, Put
  <2>6. /\ DOMAIN d.ptsToId = DOMAIN c.ptsToId \cup {S}
        /\ d.ptsToId[S] = c.idCounter
        /\ \A T \in DOMAIN c.ptsToId : d.ptsToId[T] = c.ptsToId[T]
    BY <1>2, <2>4 DEF Put
  <2>7. Interned(d)
    <3>1. IF c.idCounter = MaxId THEN d.idCounter = 0 ELSE d.idCounter = c.idCounter + 1
      BY <2>2, <2>4, MaxIdAssumption
    <3>2. /\ d.idCounter \in 0 .. MaxId
          /\ Ids(d) = IF d.idCounter = 0 THEN 0 .. MaxId ELSE 0 .. (d.idCounter - 1)
      BY <2>2, <2>5, <3>1, MaxIdAssumption
    <3>3. \A i \in Ids(c) : c.idToPts[i] \in SUBSET Data
      BY DEF CacheInv, Exact, Interned
    <3>4. d.idToPts \in [Ids(d) -> SUBSET Data]
      BY <2>5, <3>3
    <3>5. d.idToPts[emptyPointsToId] = {}
      BY <2>5, EmptyId
    <3>6. DOMAIN c.ptsToId = {c.idToPts[i] : i \in Ids(c)}
      BY DEF CacheInv, Exact, Interned
    <3>7. DOMAIN d.ptsToId = {d.idToPts[i] : i \in Ids(d)}
      BY <2>5, <2>6, <3>6
    <3>8. \A i \in Ids(d) : d.ptsToId[d.idToPts[i]] = i
      <4> SUFFICES ASSUME NEW i \in Ids(d) PROVE d.ptsToId[d.idToPts[i]] = i
        OBVIOUS
      <4>1. CASE i = c.idCounter
        BY <4>1, <2>5, <2>6
      <4>2. CASE i \in Ids(c)
        BY <4>2, <2>5, <2>6, <3>6 DEF CacheInv, Exact, Interned
      <4> QED BY <4>1, <4>2, <2>5
    <3> QED BY <3>2, <3>4, <3>5, <3>7, <3>8 DEF Interned
  <2>8. UnionsExact(d) /\ ComplementsExact(d) /\ IntersectionsExact(d)
    <3>1. UnionsExact(d)
      BY <2>4, <2>5 DEF CacheInv, Exact, UnionsExact
    <3>2. ComplementsExact(d)
      BY <2>4, <2>5 DEF CacheInv, Exact, ComplementsExact
    <3>3. IntersectionsExact(d)
      BY <2>4, <2>5 DEF CacheInv, Exact, IntersectionsExact
    <3> QED BY <3>1, <3>2, <3>3
  <2> QED BY <2>3, <2>4, <2>5, <2>7, <2>8 DEF Answers, Grows, CacheInv, Exact
<1> QED BY <1>1, <1>2
-----------------------------------------------------------------------------
\* The sets the operations on ids are to give.
Pairs(c) == Ids(c) \X Ids(c)
Unions(c) == [p \in Pairs(c) |-> c.idToPts[p[1]] \cup c.idToPts[p[2]]]
Complements(c) == [p \in Pairs(c) |-> c.idToPts[p[1]] \ c.idToPts[p[2]]]
Intersections(c) == [p \in Pairs(c) |-> c.idToPts[p[1]] \cap c.idToPts[p[2]]]

\* Table T gives the ids of the sets F gives.
TableExact(c, T, F) ==
    /\ DOMAIN T \subseteq Pairs(c)
    /\ \A p \in DOMAIN T : T[p] \in Ids(c) /\ c.idToPts[T[p]] = F[p]

\* A new entry keeps a table exact if it is right itself.
LEMMA PutExact ==
    ASSUME NEW c, NEW T, NEW F, TableExact(c, T, F),
           NEW b \in BOOLEAN, NEW p, NEW z, b => p \in Pairs(c) /\ z \in Ids(c) /\ c.idToPts[z] = F[p]
    PROVE  TableExact(c, PutIf(b, T, p, z), F)
<1>1. CASE b
  <2>1. /\ DOMAIN PutIf(b, T, p, z) = DOMAIN T \cup {p}
        /\ \A q \in DOMAIN T \cup {p} : PutIf(b, T, p, z)[q] = IF q = p THEN z ELSE T[q]
    BY <1>1 DEF PutIf, Put
  <2> QED BY <1>1, <2>1 DEF TableExact
<1>2. CASE ~b
  BY <1>2 DEF PutIf
<1> QED BY <1>1, <1>2

LEMMA TablesExact ==
    ASSUME NEW c
    PROVE  /\ UnionsExact(c) <=> TableExact(c, c.union, Unions(c))
           /\ ComplementsExact(c) <=> TableExact(c, c.complement, Complements(c))
           /\ IntersectionsExact(c) <=> TableExact(c, c.intersection, Intersections(c))
<1>1. UnionsExact(c) <=> TableExact(c, c.union, Unions(c))
  BY DEF UnionsExact, TableExact, Unions, Pairs
<1>2. ComplementsExact(c) <=> TableExact(c, c.complement, Complements(c))
  BY DEF ComplementsExact, TableExact, Complements, Pairs
<1>3. IntersectionsExact(c) <=> TableExact(c, c.intersection, Intersections(c))
  BY DEF IntersectionsExact, TableExact, Intersections, Pairs
<1> QED BY <1>1, <1>2, <1>3

\* Exact tables may take the place of those of a cache.
LEMMA TablesReplaced ==
    ASSUME NEW n, CacheInv(n), NEW d, IsCache(d), d.exhausted = FALSE,
           d.idToPts = n.idToPts, d.ptsToId = n.ptsToId, d.idCounter = n.idCounter,
           TableExact(n, d.union, Unions(n)), TableExact(n, d.complement, Complements(n)),
           TableExact(n, d.intersection, Intersections(n))
    PROVE  CacheInv(d) /\ Grows(n, d)
<1>1. Ids(d) = Ids(n)
  BY DEF Ids
<1>2. Interned(d)
  BY <1>1 DEF CacheInv, Exact, Interned
<1>3. Pairs(d) = Pairs(n) /\ Unions(d) = Unions(n) /\ Complements(d) = Complements(n)
      /\ Intersections(d) = Intersections(n)
  BY <1>1 DEF Pairs, Unions, Complements, Intersections
<1>4. /\ TableExact(d, d.union, Unions(d)) /\ TableExact(d, d.complement, Complements(d))
      /\ TableExact(d, d.intersection, Intersections(d))
  BY <1>1, <1>3 DEF TableExact
<1> QED BY <1>1, <1>2, <1>4, TablesExact DEF CacheInv, Exact, Grows

\* Interning leaves a record of the same fields.
LEMMA EmplacedIsCache ==
    ASSUME NEW c, CacheInv(c), NEW S
    PROVE  IsCache(EmplacePts(c, S).cache) /\ EmplacePts(c, S).cache.exhausted \in BOOLEAN
<1>1. CASE S \in DOMAIN c.ptsToId
  BY <1>1 DEF EmplacePts, CacheInv
<1>2. CASE S \notin DOMAIN c.ptsToId /\ c.idCounter = 0
  BY <1>2 DEF EmplacePts, CacheInv, IsCache
<1>3. CASE S \notin DOMAIN c.ptsToId /\ c.idCounter # 0
  BY <1>3 DEF EmplacePts, CacheInv, IsCache
<1> QED BY <1>1, <1>2, <1>3

\* Commutative operations look either order of two ids up as the same pair.
LEMMA OrderedPair ==
    ASSUME NEW c, NEW l \in Ids(c), NEW r \in Ids(c)
    PROVE  /\ Ordered(l, r) \in Pairs(c)
           /\ Unions(c)[Ordered(l, r)] = c.idToPts[l] \cup c.idToPts[r]
           /\ Intersections(c)[Ordered(l, r)] = c.idToPts[l] \cap c.idToPts[r]
           /\ Ordered(l, r) \in {<<l, r>>, <<r, l>>}
<1>1. Ordered(l, r) \in {<<l, r>>, <<r, l>>}
  BY DEF Ordered
<1>2. Ordered(l, r) \in Pairs(c)
  BY <1>1 DEF Pairs
<1>3. Unions(c)[Ordered(l, r)] = c.idToPts[l] \cup c.idToPts[r]
  BY <1>1, <1>2 DEF Unions
<1>4. Intersections(c)[Ordered(l, r)] = c.idToPts[l] \cap c.idToPts[r]
  BY <1>1, <1>2 DEF Intersections
<1> QED BY <1>1, <1>2, <1>3, <1>4

\* New entries of the three tables, in the order the code files them.
LEMMA PutUnion ==
    ASSUME NEW n, NEW T, TableExact(n, T, Unions(n)), NEW i \in Ids(n), NEW j \in Ids(n),
           NEW b \in BOOLEAN, NEW z \in Ids(n),
           b => n.idToPts[z] = n.idToPts[i] \cup n.idToPts[j]
    PROVE  TableExact(n, PutIf(b, T, Ordered(i, j), z), Unions(n))
<1>1. Ordered(i, j) \in Pairs(n)
  BY OrderedPair
<1>2. Unions(n)[Ordered(i, j)] = n.idToPts[i] \cup n.idToPts[j]
  BY OrderedPair
<1>3. b => Ordered(i, j) \in Pairs(n) /\ z \in Ids(n) /\ n.idToPts[z] = Unions(n)[Ordered(i, j)]
  BY <1>1, <1>2
<1> QED BY <1>3, PutExact

LEMMA PutIntersection ==
    ASSUME NEW n, NEW T, TableExact(n, T, Intersections(n)), NEW i \in Ids(n), NEW j \in Ids(n),
           NEW b \in BOOLEAN, NEW z \in Ids(n),
           b => n.idToPts[z] = n.idToPts[i] \cap n.idToPts[j]
    PROVE  TableExact(n, PutIf(b, T, Ordered(i, j), z), Intersections(n))
<1>1. Ordered(i, j) \in Pairs(n)
  BY OrderedPair
<1>2. Intersections(n)[Ordered(i, j)] = n.idToPts[i] \cap n.idToPts[j]
  BY OrderedPair
<1>3. b => Ordered(i, j) \in Pairs(n) /\ z \in Ids(n) /\ n.idToPts[z] = Intersections(n)[Ordered(i, j)]
  BY <1>1, <1>2
<1> QED BY <1>3, PutExact

LEMMA PutComplement ==
    ASSUME NEW n, NEW T, TableExact(n, T, Complements(n)), NEW i \in Ids(n), NEW j \in Ids(n),
           NEW b \in BOOLEAN, NEW z \in Ids(n),
           b => n.idToPts[z] = n.idToPts[i] \ n.idToPts[j]
    PROVE  TableExact(n, PutIf(b, T, <<i, j>>, z), Complements(n))
<1>1. <<i, j>> \in Pairs(n)
  BY DEF Pairs
<1>2. Complements(n)[<<i, j>>] = n.idToPts[i] \ n.idToPts[j]
  BY <1>1 DEF Complements
<1>3. b => <<i, j>> \in Pairs(n) /\ z \in Ids(n) /\ n.idToPts[z] = Complements(n)[<<i, j>>]
  BY <1>1, <1>2
<1> QED BY <1>3, PutExact

\* A cached entry, or an id there was before, answers without a change.
LEMMA Unchanged ==
    ASSUME NEW c, CacheInv(c), NEW i \in Ids(c), NEW S, c.idToPts[i] = S
    PROVE  Answers(c, [cache |-> c, id |-> i], S)
BY DEF Answers, Grows

\* What is known in cache n once set S was interned in it under id z.
After(c, S, n, z) ==
    /\ CacheInv(n) /\ Grows(c, n)
    /\ TableExact(n, n.union, Unions(n))
    /\ TableExact(n, n.complement, Complements(n))
    /\ TableExact(n, n.intersection, Intersections(n))
    /\ z \in Ids(n) /\ n.idToPts[z] = S
    /\ S = {} <=> z = emptyPointsToId
    /\ emptyPointsToId \in Ids(n) /\ n.idToPts[emptyPointsToId] = {}

LEMMA AfterInterning ==
    ASSUME NEW c, CacheInv(c), NEW S \in SUBSET Data, ~EmplacePts(c, S).cache.exhausted
    PROVE  After(c, S, EmplacePts(c, S).cache, EmplacePts(c, S).id)
<1> DEFINE n == EmplacePts(c, S).cache
           z == EmplacePts(c, S).id
<1>1. Answers(c, EmplacePts(c, S), S)
  BY Emplaced
<1>2. CacheInv(n) /\ Grows(c, n) /\ z \in Ids(n) /\ n.idToPts[z] = S
  BY <1>1 DEF Answers
<1> HIDE DEF n, z
<1>3. emptyPointsToId \in Ids(n) /\ n.idToPts[emptyPointsToId] = {}
  BY <1>2, EmptyId
<1>4. S = {} <=> z = emptyPointsToId
  BY <1>2, <1>3, IdsUnique
<1>5. After(c, S, n, z)
  BY <1>2, <1>3, <1>4, TablesExact DEF CacheInv, Exact, After
<1> QED BY <1>5 DEF n, z

\* An operation that is performed: if the tables it leaves are exact in the
\* cache after interning, its answer is the interned set.
LEMMA Performed ==
    ASSUME NEW c, NEW n, CacheInv(n), Grows(c, n), NEW z \in Ids(n), NEW U, NEW C, NEW I,
           TableExact(n, U, Unions(n)), TableExact(n, C, Complements(n)),
           TableExact(n, I, Intersections(n)),
           NEW d, d = [n EXCEPT !.union = U, !.complement = C, !.intersection = I]
    PROVE  Answers(c, [cache |-> d, id |-> z], n.idToPts[z])
<1>1. /\ IsCache(d) /\ d.exhausted = FALSE
      /\ d.idToPts = n.idToPts /\ d.ptsToId = n.ptsToId /\ d.idCounter = n.idCounter
      /\ d.union = U /\ d.complement = C /\ d.intersection = I
  BY DEF CacheInv, IsCache
<1>2. CacheInv(d) /\ Grows(n, d)
  BY <1>1, TablesReplaced
<1> QED BY <1>1, <1>2 DEF Answers, Grows
-----------------------------------------------------------------------------
\* unionPts returns the id of the union and adds only true entries.
LEMMA UnionAnswers ==
    ASSUME NEW c, CacheInv(c), NEW l \in Ids(c), NEW r \in Ids(c), ~UnionPts(c, l, r).cache.exhausted
    PROVE  Answers(c, UnionPts(c, l, r), c.idToPts[l] \cup c.idToPts[r])
<1> DEFINE ops == Ordered(l, r)
           S == c.idToPts[l] \cup c.idToPts[r]
           n == EmplacePts(c, S).cache
           z == EmplacePts(c, S).id
           first == PutIf(TRUE, n.union, ops, z)
           second == PutIf(l # z, first, Ordered(l, z), z)
           third == PutIf(r # z, second, Ordered(r, z), z)
<1> HIDE DEF ops, S, n, z, first, second, third
<1>1. /\ ops \in Pairs(c) /\ ops \in {<<l, r>>, <<r, l>>}
      /\ S \in SUBSET Data /\ S = Unions(c)[ops]
  <2>1. S \in SUBSET Data
    BY DEF CacheInv, Exact, Interned, S
  <2> QED BY <2>1, OrderedPair DEF ops, S
<1>2. CASE ops[1] = emptyPointsToId
  <2>1. UnionPts(c, l, r) = [cache |-> c, id |-> ops[2]]
    BY <1>2 DEF UnionPts, ops
  <2>2. ops[2] \in Ids(c) /\ c.idToPts[ops[2]] = S
    BY <1>1, <1>2, EmptyId DEF S
  <2> QED BY <2>1, <2>2, Unchanged DEF S
<1>3. CASE ops[1] # emptyPointsToId /\ l = r
  <2>1. UnionPts(c, l, r) = [cache |-> c, id |-> l]
    BY <1>3 DEF UnionPts, ops
  <2> QED BY <1>3, <2>1, Unchanged
<1>4. CASE ops[1] # emptyPointsToId /\ l # r /\ ops \in DOMAIN c.union
  <2>1. UnionPts(c, l, r) = [cache |-> c, id |-> c.union[ops]]
    BY <1>4 DEF UnionPts, ops
  <2>2. c.union[ops] \in Ids(c) /\ c.idToPts[c.union[ops]] = S
    BY <1>1, <1>4, TablesExact DEF CacheInv, Exact, TableExact
  <2> QED BY <2>1, <2>2, Unchanged DEF S
<1>5. CASE ops[1] # emptyPointsToId /\ l # r /\ ops \notin DOMAIN c.union
  <2>1. PICK d : d = [n EXCEPT !.union = third]
    OBVIOUS
  <2>2. UnionPts(c, l, r) = [cache |-> d, id |-> z]
    BY <1>5, <2>1 DEF UnionPts, ops, n, z, S, first, second, third, PutIf
  <2>3. IsCache(n)
    BY EmplacedIsCache DEF n
  <2>4. /\ d = [n EXCEPT !.union = third, !.complement = n.complement, !.intersection = n.intersection]
        /\ d.exhausted = n.exhausted
    BY <2>1, <2>3 DEF IsCache
  <2>5. n.exhausted = FALSE
    <3>1. n.exhausted \in BOOLEAN
      BY EmplacedIsCache DEF n
    <3>2. UnionPts(c, l, r).cache = d
      BY <2>2
    <3> QED BY <2>4, <3>1, <3>2
  <2>6. /\ CacheInv(n) /\ Grows(c, n)
        /\ TableExact(n, n.union, Unions(n)) /\ TableExact(n, n.complement, Complements(n))
        /\ TableExact(n, n.intersection, Intersections(n))
        /\ z \in Ids(n) /\ n.idToPts[z] = S
    <3>1. After(c, S, n, z)
      BY <1>1, <2>5, AfterInterning DEF n, z
    <3> QED BY <3>1 DEF After
  <2>7. /\ l \in Ids(n) /\ n.idToPts[l] = c.idToPts[l]
        /\ r \in Ids(n) /\ n.idToPts[r] = c.idToPts[r]
    BY <2>6 DEF Grows
  <2>8. TableExact(n, first, Unions(n))
    BY <2>6, <2>7, PutUnion DEF first, ops, S
  <2>9. TableExact(n, second, Unions(n))
    BY <2>6, <2>7, <2>8, PutUnion DEF second, S
  <2>10. TableExact(n, third, Unions(n))
    BY <2>6, <2>7, <2>9, PutUnion DEF third, S
  <2>11. Answers(c, [cache |-> d, id |-> z], n.idToPts[z])
    BY <2>4, <2>6, <2>10, Performed
  <2> QED BY <2>2, <2>6, <2>11 DEF S
<1> QED BY <1>2, <1>3, <1>4, <1>5

\* complementPts returns the id of the difference and adds only true entries.
LEMMA ComplementAnswers ==
    ASSUME NEW c, CacheInv(c), NEW l \in Ids(c), NEW r \in Ids(c), ~ComplementPts(c, l, r).cache.exhausted
    PROVE  Answers(c, ComplementPts(c, l, r), c.idToPts[l] \ c.idToPts[r])
<1> DEFINE S == c.idToPts[l] \ c.idToPts[r]
           n == EmplacePts(c, S).cache
           z == EmplacePts(c, S).id
           first == PutIf(TRUE, n.complement, <<l, r>>, z)
           second == PutIf(z # 0, first, <<z, r>>, z)
           third == PutIf(z # 0, n.intersection, Ordered(z, r), emptyPointsToId)
           fourth == PutIf(z # 0, third, Ordered(z, l), z)
<1> HIDE DEF S, n, z, first, second, third, fourth
<1>1. S \in SUBSET Data
  BY DEF CacheInv, Exact, Interned, S
<1>2. CASE l = r \/ l = emptyPointsToId
  <2>1. ComplementPts(c, l, r) = [cache |-> c, id |-> emptyPointsToId]
    BY <1>2 DEF ComplementPts
  <2>2. emptyPointsToId \in Ids(c) /\ c.idToPts[emptyPointsToId] = {}
    BY EmptyId
  <2>3. S = {}
    BY <1>2, <2>2 DEF S
  <2> QED BY <2>1, <2>2, <2>3, Unchanged DEF S
<1>3. CASE ~(l = r \/ l = emptyPointsToId) /\ r = emptyPointsToId
  <2>1. ComplementPts(c, l, r) = [cache |-> c, id |-> l]
    BY <1>3 DEF ComplementPts
  <2>2. c.idToPts[l] = S
    BY <1>3, EmptyId DEF S
  <2> QED BY <2>1, <2>2, Unchanged DEF S
<1>4. CASE /\ ~(l = r \/ l = emptyPointsToId) /\ r # emptyPointsToId
           /\ <<l, r>> \in DOMAIN c.complement
  <2>1. ComplementPts(c, l, r) = [cache |-> c, id |-> c.complement[<<l, r>>]]
    BY <1>4 DEF ComplementPts
  <2>2. c.complement[<<l, r>>] \in Ids(c) /\ c.idToPts[c.complement[<<l, r>>]] = S
    BY <1>4 DEF CacheInv, Exact, ComplementsExact, S
  <2> QED BY <2>1, <2>2, Unchanged DEF S
<1>5. CASE /\ ~(l = r \/ l = emptyPointsToId) /\ r # emptyPointsToId
           /\ <<l, r>> \notin DOMAIN c.complement
  <2>1. PICK d : d = [n EXCEPT !.complement = second, !.intersection = fourth]
    OBVIOUS
  <2>2. ComplementPts(c, l, r) = [cache |-> d, id |-> z]
    BY <1>5, <2>1 DEF ComplementPts, n, z, S, first, second, third, fourth, PutIf
  <2>3. IsCache(n) /\ n.exhausted \in BOOLEAN
    BY EmplacedIsCache DEF n
  <2>4. /\ d = [n EXCEPT !.union = n.union, !.complement = second, !.intersection = fourth]
        /\ d.exhausted = n.exhausted
    BY <2>1, <2>3 DEF IsCache
  <2>5. n.exhausted = FALSE
    <3>1. ComplementPts(c, l, r).cache = d
      BY <2>2
    <3> QED BY <2>3, <2>4, <3>1
  <2>6. /\ CacheInv(n) /\ Grows(c, n)
        /\ TableExact(n, n.union, Unions(n)) /\ TableExact(n, n.complement, Complements(n))
        /\ TableExact(n, n.intersection, Intersections(n))
        /\ z \in Ids(n) /\ n.idToPts[z] = S
        /\ emptyPointsToId \in Ids(n) /\ n.idToPts[emptyPointsToId] = {}
    <3>1. After(c, S, n, z)
      BY <1>1, <2>5, AfterInterning DEF n, z
    <3> QED BY <3>1 DEF After
  <2>7. /\ l \in Ids(n) /\ n.idToPts[l] = c.idToPts[l]
        /\ r \in Ids(n) /\ n.idToPts[r] = c.idToPts[r]
    BY <2>6 DEF Grows
  <2>8. TableExact(n, first, Complements(n))
    BY <2>6, <2>7, PutComplement DEF first, S
  <2>9. TableExact(n, second, Complements(n))
    <3>1. n.idToPts[z] = n.idToPts[z] \ n.idToPts[r]
      BY <2>6, <2>7 DEF S
    <3> QED BY <2>6, <2>7, <2>8, <3>1, PutComplement DEF second
  <2>10. TableExact(n, third, Intersections(n))
    <3>1. n.idToPts[emptyPointsToId] = n.idToPts[z] \cap n.idToPts[r]
      BY <2>6, <2>7 DEF S
    <3> QED BY <2>6, <2>7, <3>1, PutIntersection DEF third
  <2>11. TableExact(n, fourth, Intersections(n))
    <3>1. n.idToPts[z] = n.idToPts[z] \cap n.idToPts[l]
      BY <2>6, <2>7 DEF S
    <3> QED BY <2>6, <2>7, <2>10, <3>1, PutIntersection DEF fourth
  <2>12. Answers(c, [cache |-> d, id |-> z], n.idToPts[z])
    BY <2>4, <2>6, <2>9, <2>11, Performed
  <2> QED BY <2>2, <2>6, <2>12 DEF S
<1> QED BY <1>2, <1>3, <1>4, <1>5

\* intersectPts returns the id of the intersection and adds only true entries.
LEMMA IntersectionAnswers ==
    ASSUME NEW c, CacheInv(c), NEW l \in Ids(c), NEW r \in Ids(c), ~IntersectPts(c, l, r).cache.exhausted
    PROVE  Answers(c, IntersectPts(c, l, r), c.idToPts[l] \cap c.idToPts[r])
<1> DEFINE ops == Ordered(l, r)
           S == c.idToPts[l] \cap c.idToPts[r]
           n == EmplacePts(c, S).cache
           z == EmplacePts(c, S).id
           first == PutIf(TRUE, n.intersection, ops, z)
           second == PutIf(z # 0 /\ z # r, first, Ordered(z, r), z)
           third == PutIf(z # 0 /\ z # l, second, Ordered(z, l), z)
           fourth == PutIf(z # 0 /\ z # l, n.union, Ordered(l, z), l)
           fifth == PutIf(z # 0 /\ z # r, fourth, Ordered(r, z), r)
<1> HIDE DEF ops, S, n, z, first, second, third, fourth, fifth
<1>1. /\ ops \in Pairs(c) /\ ops \in {<<l, r>>, <<r, l>>}
      /\ S \in SUBSET Data /\ S = Intersections(c)[ops]
  <2>1. S \in SUBSET Data
    BY DEF CacheInv, Exact, Interned, S
  <2> QED BY <2>1, OrderedPair DEF ops, S
<1>2. CASE ops[1] = emptyPointsToId
  <2>1. IntersectPts(c, l, r) = [cache |-> c, id |-> emptyPointsToId]
    BY <1>2 DEF IntersectPts, ops
  <2>2. emptyPointsToId \in Ids(c) /\ c.idToPts[emptyPointsToId] = {}
    BY EmptyId
  <2>3. S = {}
    BY <1>1, <1>2, <2>2 DEF S
  <2> QED BY <2>1, <2>2, <2>3, Unchanged DEF S
<1>3. CASE ops[1] # emptyPointsToId /\ l = r
  <2>1. IntersectPts(c, l, r) = [cache |-> c, id |-> l]
    BY <1>3 DEF IntersectPts, ops
  <2> QED BY <1>3, <2>1, Unchanged
<1>4. CASE ops[1] # emptyPointsToId /\ l # r /\ ops \in DOMAIN c.intersection
  <2>1. IntersectPts(c, l, r) = [cache |-> c, id |-> c.intersection[ops]]
    BY <1>4 DEF IntersectPts, ops
  <2>2. c.intersection[ops] \in Ids(c) /\ c.idToPts[c.intersection[ops]] = S
    BY <1>1, <1>4, TablesExact DEF CacheInv, Exact, TableExact
  <2> QED BY <2>1, <2>2, Unchanged DEF S
<1>5. CASE ops[1] # emptyPointsToId /\ l # r /\ ops \notin DOMAIN c.intersection
  <2>1. PICK d : d = [n EXCEPT !.intersection = third, !.union = fifth]
    OBVIOUS
  <2>2. IntersectPts(c, l, r) = [cache |-> d, id |-> z]
    BY <1>5, <2>1 DEF IntersectPts, ops, n, z, S, first, second, third, fourth, fifth, PutIf
  <2>3. IsCache(n) /\ n.exhausted \in BOOLEAN
    BY EmplacedIsCache DEF n
  <2>4. /\ d = [n EXCEPT !.union = fifth, !.complement = n.complement, !.intersection = third]
        /\ d.exhausted = n.exhausted
    BY <2>1, <2>3 DEF IsCache
  <2>5. n.exhausted = FALSE
    <3>1. IntersectPts(c, l, r).cache = d
      BY <2>2
    <3> QED BY <2>3, <2>4, <3>1
  <2>6. /\ CacheInv(n) /\ Grows(c, n)
        /\ TableExact(n, n.union, Unions(n)) /\ TableExact(n, n.complement, Complements(n))
        /\ TableExact(n, n.intersection, Intersections(n))
        /\ z \in Ids(n) /\ n.idToPts[z] = S
    <3>1. After(c, S, n, z)
      BY <1>1, <2>5, AfterInterning DEF n, z
    <3> QED BY <3>1 DEF After
  <2>7. /\ l \in Ids(n) /\ n.idToPts[l] = c.idToPts[l]
        /\ r \in Ids(n) /\ n.idToPts[r] = c.idToPts[r]
    BY <2>6 DEF Grows
  <2>8. TableExact(n, first, Intersections(n))
    BY <2>6, <2>7, PutIntersection DEF first, ops, S
  <2>9. TableExact(n, second, Intersections(n))
    <3>1. n.idToPts[z] = n.idToPts[z] \cap n.idToPts[r]
      BY <2>6, <2>7 DEF S
    <3> QED BY <2>6, <2>7, <2>8, <3>1, PutIntersection DEF second
  <2>10. TableExact(n, third, Intersections(n))
    <3>1. n.idToPts[z] = n.idToPts[z] \cap n.idToPts[l]
      BY <2>6, <2>7 DEF S
    <3> QED BY <2>6, <2>7, <2>9, <3>1, PutIntersection DEF third
  <2>11. TableExact(n, fourth, Unions(n))
    <3>1. n.idToPts[l] = n.idToPts[l] \cup n.idToPts[z]
      BY <2>6, <2>7 DEF S
    <3> QED BY <2>6, <2>7, <3>1, PutUnion DEF fourth
  <2>12. TableExact(n, fifth, Unions(n))
    <3>1. n.idToPts[r] = n.idToPts[r] \cup n.idToPts[z]
      BY <2>6, <2>7 DEF S
    <3> QED BY <2>6, <2>7, <2>11, <3>1, PutUnion DEF fifth
  <2>13. Answers(c, [cache |-> d, id |-> z], n.idToPts[z])
    BY <2>4, <2>6, <2>10, <2>12, Performed
  <2> QED BY <2>2, <2>6, <2>13 DEF S
<1> QED BY <1>2, <1>3, <1>4, <1>5
-----------------------------------------------------------------------------
Inv == TypeOK /\ CacheInv(cache) /\ RevPtsInverse

\* The sets the ids of a map stand for in cache c.
At(c, f) == [k \in Key |-> c.idToPts[f[k]]]

LEMMA GrowsFurther ==
    ASSUME NEW b, NEW c, NEW d, Grows(b, c), Grows(c, d)
    PROVE  Grows(b, d)
BY DEF Grows

\* A map an operation leaves alone keeps its sets, and one it writes at a
\* single pointer changes them there.
LEMMA MapKept ==
    ASSUME NEW c, NEW d, Grows(c, d), NEW f \in [Key -> Ids(c)]
    PROVE  At(d, f) = At(c, f) /\ f \in [Key -> Ids(d)]
BY DEF At, Grows

LEMMA MapWritten ==
    ASSUME NEW c, NEW d, Grows(c, d), NEW f \in [Key -> Ids(c)], NEW k \in Key, NEW i \in Ids(d)
    PROVE  /\ At(d, [f EXCEPT ![k] = i]) = [At(c, f) EXCEPT ![k] = d.idToPts[i]]
           /\ [f EXCEPT ![k] = i] \in [Key -> Ids(d)]
BY DEF At, Grows

LEMMA SetsAt ==
    /\ Sets(ptsMap) = At(cache, ptsMap)
    /\ Sets(diffPtsMap) = At(cache, diffPtsMap)
    /\ Sets(propaPtsMap) = At(cache, propaPtsMap)
BY DEF Sets, getActualPts, At

\* The same in the next state.
LEMMA SetsAtNext ==
    /\ Sets(ptsMap)' = At(cache', ptsMap')
    /\ Sets(diffPtsMap)' = At(cache', diffPtsMap')
    /\ Sets(propaPtsMap)' = At(cache', propaPtsMap')
BY DEF Sets, getActualPts, At

LEMMA AbortStep ==
    ASSUME Inv, NEW c, Abort(c)
    PROVE  Inv' /\ UNCHANGED Mutable!vars
BY DEF Inv, Abort, TypeOK, maps, RevPtsInverse, getActualPts, Mutable!vars, Sets

\* unionPtsFromId adds the set of src to the set of dst.
LEMMA UnionStep ==
    ASSUME Inv, NEW c, CacheInv(c), Grows(cache, c), NEW dst \in Key, NEW src \in Ids(c),
           UnionPtsFromId(c, dst, src)
    PROVE  Inv' /\ (Mutable!Add(dst, c.idToPts[src]) \/ UNCHANGED Mutable!vars)
<1> DEFINE new == UnionPts(c, ptsMap[dst], src)
           d == new.cache
           S == c.idToPts[src]
<1>1. CASE Abort(d)
  BY <1>1, AbortStep
<1>2. CASE ~Abort(d)
  <2>1. /\ Return(d, new.id # ptsMap[dst])
        /\ ptsMap' = [ptsMap EXCEPT ![dst] = new.id]
        /\ revPtsMap' = [x \in Data |-> IF new.id # ptsMap[dst] /\ x \in S
                                        THEN revPtsMap[x] \cup {dst} ELSE revPtsMap[x]]
        /\ diffPtsMap' = diffPtsMap /\ propaPtsMap' = propaPtsMap
    BY <1>2 DEF UnionPtsFromId
  <2>2. /\ ~d.exhausted /\ cache' = d /\ answer' = (new.id # ptsMap[dst]) /\ aborted' = aborted
    BY <2>1 DEF Return
  <2>3. /\ ptsMap \in [Key -> Ids(cache)] /\ diffPtsMap \in [Key -> Ids(cache)]
        /\ propaPtsMap \in [Key -> Ids(cache)] /\ revPtsMap \in [Data -> SUBSET Key]
        /\ answer \in BOOLEAN /\ aborted \in BOOLEAN
    BY DEF Inv, TypeOK
  <2>4. ptsMap[dst] \in Ids(c) /\ c.idToPts[ptsMap[dst]] = At(cache, ptsMap)[dst]
    BY <2>3 DEF Grows, At
  <2>5. Answers(c, new, At(cache, ptsMap)[dst] \cup S)
    BY <2>2, <2>4, UnionAnswers
  <2> HIDE DEF new, d, S
  <2>6. /\ CacheInv(d) /\ Grows(cache, d) /\ new.id \in Ids(d)
        /\ d.idToPts[new.id] = At(cache, ptsMap)[dst] \cup S
    BY <2>5, GrowsFurther DEF Answers, d
  <2>7. ptsMap[dst] \in Ids(d) /\ d.idToPts[ptsMap[dst]] = At(cache, ptsMap)[dst]
    BY <2>3, <2>6 DEF Grows, At
  <2>8. new.id = ptsMap[dst] <=> S \subseteq At(cache, ptsMap)[dst]
    <3>1. new.id = ptsMap[dst] <=> d.idToPts[new.id] = d.idToPts[ptsMap[dst]]
      BY <2>6, <2>7, IdsUnique
    <3> QED BY <2>6, <2>7, <3>1
  <2>9. /\ At(cache', ptsMap') = [At(cache, ptsMap) EXCEPT ![dst] = At(cache, ptsMap)[dst] \cup S]
        /\ ptsMap' \in [Key -> Ids(cache')]
    <3>1. /\ At(d, [ptsMap EXCEPT ![dst] = new.id])
                 = [At(cache, ptsMap) EXCEPT ![dst] = d.idToPts[new.id]]
          /\ [ptsMap EXCEPT ![dst] = new.id] \in [Key -> Ids(d)]
      BY <2>3, <2>6, MapWritten
    <3> QED BY <2>1, <2>2, <2>6, <3>1
  <2>10. /\ At(cache', diffPtsMap') = At(cache, diffPtsMap) /\ diffPtsMap' \in [Key -> Ids(cache')]
         /\ At(cache', propaPtsMap') = At(cache, propaPtsMap) /\ propaPtsMap' \in [Key -> Ids(cache')]
    BY <2>1, <2>2, <2>3, <2>6, MapKept
  <2>11. \A x \in Data : revPtsMap[x] = {k \in Key : x \in At(cache, ptsMap)[k]}
    BY DEF Inv, RevPtsInverse, getActualPts, At
  <2>12. revPtsMap' = [x \in Data |-> IF x \in S THEN revPtsMap[x] \cup {dst} ELSE revPtsMap[x]]
    BY <2>1, <2>8, <2>11
  <2>13. \A x \in Data : revPtsMap'[x] = {k \in Key : x \in At(cache', ptsMap')[k]}
    <3>1. \A k \in Key : At(cache', ptsMap')[k] = IF k = dst THEN At(cache, ptsMap)[dst] \cup S
                                                  ELSE At(cache, ptsMap)[k]
      BY <2>9 DEF At
    <3> QED BY <2>11, <2>12, <3>1
  <2>14. Inv'
    <3>1. revPtsMap' \in [Data -> SUBSET Key]
      BY <2>3, <2>12
    <3>2. TypeOK'
      BY <2>2, <2>3, <2>9, <2>10, <3>1 DEF TypeOK
    <3>3. RevPtsInverse'
      BY <2>13 DEF RevPtsInverse, getActualPts, At
    <3> QED BY <2>2, <2>6, <3>2, <3>3 DEF Inv
  <2>15. Mutable!Add(dst, S)
    BY <2>2, <2>8, <2>9, <2>10, <2>12, SetsAt, SetsAtNext DEF Mutable!Add
  <2> QED BY <2>14, <2>15 DEF S
<1> QED BY <1>1, <1>2

LEMMA InvTypes ==
    ASSUME Inv
    PROVE  /\ ptsMap \in [Key -> Ids(cache)] /\ diffPtsMap \in [Key -> Ids(cache)]
           /\ propaPtsMap \in [Key -> Ids(cache)] /\ revPtsMap \in [Data -> SUBSET Key]
           /\ answer \in BOOLEAN /\ aborted \in BOOLEAN /\ CacheInv(cache)
           /\ \A x \in Data : revPtsMap[x] = {k \in Key : x \in At(cache, ptsMap)[k]}
           /\ \A k \in Key : cache.idToPts[ptsMap[k]] \in SUBSET Data
<1>1. \A k \in Key : cache.idToPts[ptsMap[k]] \in SUBSET Data
  BY DEF Inv, TypeOK, CacheInv, Exact, Interned
<1> QED BY <1>1 DEF Inv, TypeOK, RevPtsInverse, getActualPts, At

LEMMA UnionDataStep ==
    ASSUME Inv, NEW dst \in Key, NEW S \in SUBSET Data, UnionData(dst, S)
    PROVE  Inv' /\ (Mutable!UnionData(dst, S) \/ UNCHANGED Mutable!vars)
<1> DEFINE src == EmplacePts(cache, S)
<1>1. CASE src.cache.exhausted
  BY <1>1, AbortStep DEF UnionData
<1>2. CASE ~src.cache.exhausted
  <2>1. UnionPtsFromId(src.cache, dst, src.id)
    BY <1>2 DEF UnionData
  <2>2. Answers(cache, src, S)
    BY <1>2, InvTypes, Emplaced
  <2> HIDE DEF src
  <2>3. CacheInv(src.cache) /\ Grows(cache, src.cache) /\ src.id \in Ids(src.cache)
        /\ src.cache.idToPts[src.id] = S
    BY <2>2 DEF Answers
  <2>4. Inv' /\ (Mutable!Add(dst, src.cache.idToPts[src.id]) \/ UNCHANGED Mutable!vars)
    BY <2>1, <2>3, UnionStep
  <2> QED BY <2>3, <2>4 DEF Mutable!UnionData
<1> QED BY <1>1, <1>2

LEMMA AddPtsStep ==
    ASSUME Inv, NEW k \in Key, NEW d \in Data, AddPts(k, d)
    PROVE  Inv' /\ (Mutable!AddPts(k, d) \/ UNCHANGED Mutable!vars)
<1>1. UnionData(k, {d})
  BY DEF AddPts
<1>2. Inv' /\ (Mutable!UnionData(k, {d}) \/ UNCHANGED Mutable!vars)
  BY <1>1, UnionDataStep
<1> QED BY <1>2 DEF Mutable!UnionData, Mutable!AddPts

LEMMA UnionKeyStep ==
    ASSUME Inv, NEW dst \in Key, NEW src \in Key, UnionKey(dst, src)
    PROVE  Inv' /\ (Mutable!UnionKey(dst, src) \/ UNCHANGED Mutable!vars)
<1>1. CacheInv(cache) /\ Grows(cache, cache) /\ ptsMap[src] \in Ids(cache)
  BY InvTypes DEF Grows
<1>2. Inv' /\ (Mutable!Add(dst, cache.idToPts[ptsMap[src]]) \/ UNCHANGED Mutable!vars)
  BY <1>1, UnionStep DEF UnionKey
<1>3. Sets(ptsMap)[src] = cache.idToPts[ptsMap[src]]
  BY DEF Sets, getActualPts
<1> QED BY <1>2, <1>3 DEF Mutable!UnionKey

\* A write of a new id to one of the difference maps, or of the differences
\* and the propagated sets at once.
LEMMA DiffMapsWritten ==
    ASSUME Inv, NEW c, CacheInv(c), Grows(cache, c), cache' = c, UNCHANGED <<ptsMap, revPtsMap, aborted>>,
           answer' \in BOOLEAN, diffPtsMap' \in [Key -> Ids(c)], propaPtsMap' \in [Key -> Ids(c)]
    PROVE  Inv' /\ Sets(ptsMap)' = Sets(ptsMap)
<1>1. At(c, ptsMap) = At(cache, ptsMap) /\ ptsMap \in [Key -> Ids(c)]
  BY InvTypes, MapKept
<1>2. TypeOK'
  BY <1>1, InvTypes DEF TypeOK
<1>3. RevPtsInverse'
  BY <1>1, InvTypes DEF RevPtsInverse, getActualPts, At
<1> QED BY <1>1, <1>2, <1>3, SetsAt, SetsAtNext DEF Inv

LEMMA UpdatePropaStep ==
    ASSUME Inv, NEW src \in Key, NEW dst \in Key, UpdatePropaPtsMap(src, dst)
    PROVE  Inv' /\ (Mutable!UpdatePropaPtsMap(src, dst) \/ UNCHANGED Mutable!vars)
<1> DEFINE new == IntersectPts(cache, propaPtsMap[dst], propaPtsMap[src])
           d == new.cache
           S == At(cache, propaPtsMap)[dst] \cap At(cache, propaPtsMap)[src]
<1>1. CASE Abort(d)
  BY <1>1, AbortStep
<1>2. CASE ~Abort(d)
  <2>1. /\ Return(d, FALSE)
        /\ propaPtsMap' = [propaPtsMap EXCEPT ![dst] = new.id]
        /\ UNCHANGED <<ptsMap, revPtsMap, diffPtsMap>>
    BY <1>2 DEF UpdatePropaPtsMap
  <2>2. Answers(cache, new, S)
    BY <2>1, InvTypes, IntersectionAnswers DEF Return, At
  <2> HIDE DEF new, d, S
  <2>3. CacheInv(d) /\ Grows(cache, d) /\ new.id \in Ids(d) /\ d.idToPts[new.id] = S
    BY <2>2 DEF Answers, d
  <2>4. At(d, propaPtsMap') = [At(cache, propaPtsMap) EXCEPT ![dst] = S] /\ propaPtsMap' \in [Key -> Ids(d)]
    <3>1. /\ At(d, [propaPtsMap EXCEPT ![dst] = new.id])
                = [At(cache, propaPtsMap) EXCEPT ![dst] = d.idToPts[new.id]]
          /\ [propaPtsMap EXCEPT ![dst] = new.id] \in [Key -> Ids(d)]
      BY <2>3, InvTypes, MapWritten
    <3> QED BY <2>1, <2>3, <3>1
  <2>5. At(d, diffPtsMap) = At(cache, diffPtsMap) /\ diffPtsMap \in [Key -> Ids(d)]
    BY <2>3, InvTypes, MapKept
  <2>6. cache' = d /\ answer' = FALSE /\ aborted' = aborted
    BY <2>1 DEF Return
  <2>7. Inv' /\ Sets(ptsMap)' = Sets(ptsMap)
    BY <2>1, <2>3, <2>4, <2>5, <2>6, DiffMapsWritten
  <2>8. Mutable!UpdatePropaPtsMap(src, dst)
    BY <2>1, <2>4, <2>5, <2>6, <2>7, SetsAt, SetsAtNext DEF Mutable!UpdatePropaPtsMap, S
  <2> QED BY <2>7, <2>8
<1> QED BY <1>1, <1>2

LEMMA ClearPropaStep ==
    ASSUME Inv, NEW k \in Key, ClearPropaPts(k)
    PROVE  Inv' /\ (Mutable!ClearPropaPts(k) \/ UNCHANGED Mutable!vars)
<1>1. /\ cache' = cache /\ answer' = FALSE /\ aborted' = aborted
      /\ propaPtsMap' = [propaPtsMap EXCEPT ![k] = emptyPointsToId]
      /\ UNCHANGED <<ptsMap, revPtsMap, diffPtsMap>>
  BY DEF ClearPropaPts, Return
<1>2. emptyPointsToId \in Ids(cache) /\ cache.idToPts[emptyPointsToId] = {}
  BY InvTypes, EmptyId
<1>3. Grows(cache, cache)
  BY DEF Grows
<1>4. At(cache, propaPtsMap') = [At(cache, propaPtsMap) EXCEPT ![k] = {}] /\ propaPtsMap' \in [Key -> Ids(cache)]
  <2>1. /\ At(cache, [propaPtsMap EXCEPT ![k] = emptyPointsToId])
              = [At(cache, propaPtsMap) EXCEPT ![k] = cache.idToPts[emptyPointsToId]]
        /\ [propaPtsMap EXCEPT ![k] = emptyPointsToId] \in [Key -> Ids(cache)]
    BY <1>2, InvTypes DEF At
  <2> QED BY <1>1, <1>2, <2>1
<1>5. Inv' /\ Sets(ptsMap)' = Sets(ptsMap)
  BY <1>1, <1>3, <1>4, InvTypes, DiffMapsWritten
<1>6. Mutable!ClearPropaPts(k)
  BY <1>1, <1>4, <1>5, SetsAt, SetsAtNext DEF Mutable!ClearPropaPts
<1> QED BY <1>5, <1>6

LEMMA ComputeDiffStep ==
    ASSUME Inv, NEW k \in Key, ComputeDiffPts(k)
    PROVE  Inv' /\ (Mutable!ComputeDiffPts(k) \/ UNCHANGED Mutable!vars)
<1> DEFINE all == EmplacePts(cache, getActualPts(ptsMap[k]))
           new == ComplementPts(cache, ptsMap[k], propaPtsMap[k])
           d == new.cache
           S == At(cache, ptsMap)[k] \ At(cache, propaPtsMap)[k]
<1>1. all = [cache |-> cache, id |-> ptsMap[k]]
  <2>1. ptsMap[k] \in Ids(cache)
    BY InvTypes
  <2>2. /\ getActualPts(ptsMap[k]) \in DOMAIN cache.ptsToId
        /\ cache.ptsToId[getActualPts(ptsMap[k])] = ptsMap[k]
    BY <2>1, InvTypes DEF CacheInv, Exact, Interned, getActualPts
  <2> QED BY <2>2 DEF EmplacePts
<1>2. CASE Abort(d)
  BY <1>2, AbortStep
<1>3. CASE ~Abort(d)
  <2>1. /\ Return(d, new.id # emptyPointsToId)
        /\ diffPtsMap' = [diffPtsMap EXCEPT ![k] = new.id]
        /\ propaPtsMap' = [propaPtsMap EXCEPT ![k] = ptsMap[k]]
        /\ UNCHANGED <<ptsMap, revPtsMap>>
    BY <1>1, <1>3 DEF ComputeDiffPts
  <2>2. Answers(cache, new, S)
    BY <2>1, InvTypes, ComplementAnswers DEF Return, At
  <2> HIDE DEF new, d, S
  <2>3. CacheInv(d) /\ Grows(cache, d) /\ new.id \in Ids(d) /\ d.idToPts[new.id] = S
    BY <2>2 DEF Answers, d
  <2>4. At(d, diffPtsMap') = [At(cache, diffPtsMap) EXCEPT ![k] = S] /\ diffPtsMap' \in [Key -> Ids(d)]
    <3>1. /\ At(d, [diffPtsMap EXCEPT ![k] = new.id])
                = [At(cache, diffPtsMap) EXCEPT ![k] = d.idToPts[new.id]]
          /\ [diffPtsMap EXCEPT ![k] = new.id] \in [Key -> Ids(d)]
      BY <2>3, InvTypes, MapWritten
    <3> QED BY <2>1, <2>3, <3>1
  <2>5. ptsMap[k] \in Ids(d) /\ d.idToPts[ptsMap[k]] = At(cache, ptsMap)[k]
    BY <2>3, InvTypes DEF Grows, At
  <2>6. /\ At(d, propaPtsMap') = [At(cache, propaPtsMap) EXCEPT ![k] = At(cache, ptsMap)[k]]
        /\ propaPtsMap' \in [Key -> Ids(d)]
    <3>1. /\ At(d, [propaPtsMap EXCEPT ![k] = ptsMap[k]])
                = [At(cache, propaPtsMap) EXCEPT ![k] = d.idToPts[ptsMap[k]]]
          /\ [propaPtsMap EXCEPT ![k] = ptsMap[k]] \in [Key -> Ids(d)]
      BY <2>3, <2>5, InvTypes, MapWritten
    <3> QED BY <2>1, <2>5, <3>1
  <2>7. cache' = d /\ answer' = (new.id # emptyPointsToId) /\ aborted' = aborted
    BY <2>1 DEF Return
  <2>8. Inv' /\ Sets(ptsMap)' = Sets(ptsMap)
    BY <2>1, <2>3, <2>4, <2>6, <2>7, DiffMapsWritten
  <2>9. new.id # emptyPointsToId <=> S # {}
    <3>1. emptyPointsToId \in Ids(d) /\ d.idToPts[emptyPointsToId] = {}
      BY <2>3, EmptyId
    <3>2. new.id = emptyPointsToId <=> d.idToPts[new.id] = d.idToPts[emptyPointsToId]
      BY <2>3, <3>1, IdsUnique
    <3> QED BY <2>3, <3>1, <3>2
  <2>10. Mutable!ComputeDiffPts(k)
    BY <2>1, <2>4, <2>6, <2>7, <2>8, <2>9, SetsAt, SetsAtNext DEF Mutable!ComputeDiffPts, S
  <2> QED BY <2>8, <2>10
<1> QED BY <1>2, <1>3

\* Removing targets from one pointer, with the reverse map.
LEMMA PtsRemoved ==
    ASSUME Inv, NEW c, CacheInv(c), Grows(cache, c), NEW k \in Key, NEW i \in Ids(c), NEW S,
           c.idToPts[i] = At(cache, ptsMap)[k] \ S,
           cache' = c, ptsMap' = [ptsMap EXCEPT ![k] = i],
           revPtsMap' = [x \in Data |-> IF x \in S THEN revPtsMap[x] \ {k} ELSE revPtsMap[x]],
           answer' = FALSE, UNCHANGED <<diffPtsMap, propaPtsMap, aborted>>
    PROVE  Inv' /\ Mutable!Remove(k, S)
<1>1. /\ At(c, [ptsMap EXCEPT ![k] = i]) = [At(cache, ptsMap) EXCEPT ![k] = c.idToPts[i]]
      /\ [ptsMap EXCEPT ![k] = i] \in [Key -> Ids(c)]
  BY InvTypes, MapWritten
<1>2. At(cache', ptsMap') = [At(cache, ptsMap) EXCEPT ![k] = At(cache, ptsMap)[k] \ S]
  BY <1>1
<1>3. /\ At(cache', diffPtsMap') = At(cache, diffPtsMap) /\ diffPtsMap' \in [Key -> Ids(c)]
      /\ At(cache', propaPtsMap') = At(cache, propaPtsMap) /\ propaPtsMap' \in [Key -> Ids(c)]
  BY InvTypes, MapKept
<1>4. revPtsMap' \in [Data -> SUBSET Key]
  BY InvTypes
<1>5. TypeOK'
  BY <1>1, <1>3, <1>4, InvTypes DEF TypeOK
<1>6. \A x \in Data : revPtsMap'[x] = {j \in Key : x \in At(cache', ptsMap')[j]}
  <2>1. \A j \in Key : At(cache', ptsMap')[j] = IF j = k THEN At(cache, ptsMap)[k] \ S
                                                ELSE At(cache, ptsMap)[j]
    BY <1>2 DEF At
  <2>2. \A x \in Data : revPtsMap[x] = {j \in Key : x \in At(cache, ptsMap)[j]}
    BY InvTypes
  <2> QED BY <2>1, <2>2
<1>7. RevPtsInverse'
  BY <1>6 DEF RevPtsInverse, getActualPts, At
<1>8. Mutable!Remove(k, S)
  BY <1>2, <1>3, SetsAt, SetsAtNext DEF Mutable!Remove
<1> QED BY <1>5, <1>7, <1>8 DEF Inv

LEMMA ClearFullStep ==
    ASSUME Inv, NEW k \in Key, ClearFullPts(k)
    PROVE  Inv' /\ (Mutable!ClearFullPts(k) \/ UNCHANGED Mutable!vars)
<1> DEFINE S == Sets(ptsMap)[k]
<1>1. /\ cache' = cache /\ ptsMap' = [ptsMap EXCEPT ![k] = emptyPointsToId]
      /\ revPtsMap' = [x \in Data |-> IF x \in S THEN revPtsMap[x] \ {k} ELSE revPtsMap[x]]
      /\ answer' = FALSE /\ UNCHANGED <<diffPtsMap, propaPtsMap, aborted>>
  BY DEF ClearFullPts, Return, Sets
<1>2. CacheInv(cache) /\ Grows(cache, cache) /\ emptyPointsToId \in Ids(cache)
      /\ cache.idToPts[emptyPointsToId] = At(cache, ptsMap)[k] \ S
  BY InvTypes, EmptyId, SetsAt DEF Grows
<1> HIDE DEF S
<1>3. Inv' /\ Mutable!Remove(k, S)
  BY <1>1, <1>2, PtsRemoved
<1> QED BY <1>3 DEF Mutable!ClearFullPts, S

LEMMA ClearPtsStep ==
    ASSUME Inv, NEW k \in Key, NEW x \in Data, ClearPts(k, x)
    PROVE  Inv' /\ (Mutable!ClearPts(k, x) \/ UNCHANGED Mutable!vars)
<1> DEFINE e == EmplacePts(cache, {x})
           new == ComplementPts(e.cache, ptsMap[k], e.id)
           d == new.cache
           P == At(cache, ptsMap)[k]
<1>1. CASE e.cache.exhausted \/ Abort(d)
  BY <1>1, AbortStep DEF ClearPts
<1>2. CASE ~e.cache.exhausted /\ ~Abort(d)
  <2>1. /\ Return(d, FALSE)
        /\ ptsMap' = [ptsMap EXCEPT ![k] = new.id]
        /\ revPtsMap' = IF new.id # ptsMap[k] THEN [revPtsMap EXCEPT ![x] = @ \ {k}] ELSE revPtsMap
        /\ UNCHANGED <<diffPtsMap, propaPtsMap>>
    BY <1>2 DEF ClearPts
  <2>2. Answers(cache, e, {x})
    BY <1>2, InvTypes, Emplaced
  <2>3. CacheInv(e.cache) /\ Grows(cache, e.cache) /\ e.id \in Ids(e.cache) /\ e.cache.idToPts[e.id] = {x}
    BY <2>2 DEF Answers
  <2>4. ptsMap[k] \in Ids(e.cache) /\ e.cache.idToPts[ptsMap[k]] = P
    BY <2>3, InvTypes DEF Grows, At
  <2>5. Answers(e.cache, new, P \ {x})
    <3>1. ~d.exhausted
      BY <2>1 DEF Return
    <3>2. Answers(e.cache, new, e.cache.idToPts[ptsMap[k]] \ e.cache.idToPts[e.id])
      BY <2>3, <2>4, <3>1, ComplementAnswers
    <3> QED BY <2>3, <2>4, <3>2
  <2> HIDE DEF e, new, d, P
  <2>6. CacheInv(d) /\ Grows(cache, d) /\ new.id \in Ids(d) /\ d.idToPts[new.id] = P \ {x}
    BY <2>3, <2>5, GrowsFurther DEF Answers, d
  <2>7. ptsMap[k] \in Ids(d) /\ d.idToPts[ptsMap[k]] = P
    BY <2>6, InvTypes DEF Grows, At, P
  <2>8. new.id = ptsMap[k] <=> x \notin P
    <3>1. new.id = ptsMap[k] <=> d.idToPts[new.id] = d.idToPts[ptsMap[k]]
      BY <2>6, <2>7, IdsUnique
    <3> QED BY <2>6, <2>7, <3>1
  <2>9. revPtsMap' = [y \in Data |-> IF y \in {x} THEN revPtsMap[y] \ {k} ELSE revPtsMap[y]]
    <3>1. x \notin P => k \notin revPtsMap[x]
      BY InvTypes DEF P
    <3>2. CASE new.id # ptsMap[k]
      BY <2>1, <3>2, InvTypes
    <3>3. CASE new.id = ptsMap[k]
      BY <2>1, <2>8, <3>1, <3>3, InvTypes
    <3> QED BY <3>2, <3>3
  <2>10. cache' = d /\ answer' = FALSE /\ aborted' = aborted
    BY <2>1 DEF Return
  <2>11. Inv' /\ Mutable!Remove(k, {x})
    BY <2>1, <2>6, <2>9, <2>10, PtsRemoved DEF P
  <2> QED BY <2>11 DEF Mutable!ClearPts
<1> QED BY <1>1, <1>2
-----------------------------------------------------------------------------
LEMMA InitInv == Init => Inv /\ Mutable!Init
<1> SUFFICES ASSUME Init PROVE Inv /\ Mutable!Init
  OBVIOUS
<1>1. /\ cache.idToPts = [i \in {0} |-> {}] /\ cache.ptsToId = [S \in {{}} |-> 0]
      /\ cache.idCounter = 1 /\ cache.exhausted = FALSE /\ IsCache(cache)
      /\ cache.union = EmptyMap /\ cache.complement = EmptyMap /\ cache.intersection = EmptyMap
  BY DEF Init, EmptyCache, IsCache, emptyPointsToId
<1>2. Ids(cache) = {0} /\ 0 .. (cache.idCounter - 1) = {0}
  BY <1>1 DEF Ids
<1>3. Interned(cache)
  BY <1>1, <1>2, MaxIdAssumption DEF Interned, emptyPointsToId
<1>4. CacheInv(cache)
  BY <1>1, <1>3 DEF CacheInv, Exact, UnionsExact, ComplementsExact, IntersectionsExact, EmptyMap
<1>5. TypeOK
  BY <1>2 DEF Init, TypeOK, emptyPointsToId
<1>6. \A k \in Key : getActualPts(ptsMap[k]) = {}
  BY <1>1 DEF Init, getActualPts, emptyPointsToId
<1>7. RevPtsInverse
  BY <1>6 DEF Init, RevPtsInverse
<1>8. Mutable!Init
  BY <1>1 DEF Init, Mutable!Init, Sets, getActualPts, emptyPointsToId
<1> QED BY <1>4, <1>5, <1>7, <1>8 DEF Inv

\* Every step keeps the invariant and is a step of the mutable data, or none.
LEMMA NextInv == Inv /\ [Next]_vars => Inv' /\ [Mutable!Next]_(Mutable!vars)
<1> SUFFICES ASSUME Inv, [Next]_vars PROVE Inv' /\ [Mutable!Next]_(Mutable!vars)
  OBVIOUS
<1>1. CASE UNCHANGED vars
  BY <1>1 DEF Inv, vars, TypeOK, RevPtsInverse, getActualPts, Mutable!vars, Sets
<1>2. ASSUME NEW k \in Key, NEW d \in Data, AddPts(k, d)
      PROVE  Inv' /\ [Mutable!Next]_(Mutable!vars)
  BY <1>2, AddPtsStep DEF Mutable!Next
<1>3. ASSUME NEW k \in Key, NEW d \in Data, ClearPts(k, d)
      PROVE  Inv' /\ [Mutable!Next]_(Mutable!vars)
  BY <1>3, ClearPtsStep DEF Mutable!Next
<1>4. ASSUME NEW k \in Key, NEW src \in Key, UnionKey(k, src)
      PROVE  Inv' /\ [Mutable!Next]_(Mutable!vars)
  BY <1>4, UnionKeyStep DEF Mutable!Next
<1>5. ASSUME NEW k \in Key, NEW src \in Key, UpdatePropaPtsMap(src, k)
      PROVE  Inv' /\ [Mutable!Next]_(Mutable!vars)
  BY <1>5, UpdatePropaStep DEF Mutable!Next
<1>6. ASSUME NEW k \in Key, NEW S \in SUBSET Data, UnionData(k, S)
      PROVE  Inv' /\ [Mutable!Next]_(Mutable!vars)
  BY <1>6, UnionDataStep DEF Mutable!Next
<1>7. ASSUME NEW k \in Key, ClearFullPts(k)
      PROVE  Inv' /\ [Mutable!Next]_(Mutable!vars)
  BY <1>7, ClearFullStep DEF Mutable!Next
<1>8. ASSUME NEW k \in Key, ComputeDiffPts(k)
      PROVE  Inv' /\ [Mutable!Next]_(Mutable!vars)
  BY <1>8, ComputeDiffStep DEF Mutable!Next
<1>9. ASSUME NEW k \in Key, ClearPropaPts(k)
      PROVE  Inv' /\ [Mutable!Next]_(Mutable!vars)
  BY <1>9, ClearPropaStep DEF Mutable!Next
<1> QED BY <1>1, <1>2, <1>3, <1>4, <1>5, <1>6, <1>7, <1>8, <1>9 DEF Next, Step

\* The operation caches hold no wrong entry and no set has two ids, whatever
\* is derived when an operation is performed (PersistentPointsToCache.h:104).
THEOREM CacheStaysExact == Spec => []CacheExact
<1>1. Inv => CacheExact
  BY DEF Inv, CacheInv, CacheExact
<1> QED BY <1>1, InitInv, NextInv, PTL DEF Spec

\* The reverse map is the inverse of the points-to map
\* (PersistentPointsToDS.h:146).
THEOREM ReverseMapIsInverse == Spec => []RevPtsInverse
<1>1. Inv => RevPtsInverse
  BY DEF Inv
<1> QED BY <1>1, InitInv, NextInv, PTL DEF Spec

\* The persistent points-to data implements the mutable points-to data.
THEOREM PersistentImplementsMutable == Spec => ImplementsMutable
BY InitInv, NextInv, PTL DEF Spec, ImplementsMutable, Mutable!Spec
=============================================================================
