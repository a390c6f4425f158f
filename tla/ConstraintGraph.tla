-------------------------- MODULE ConstraintGraph --------------------------
(***************************************************************************)
(* The constraint graph of the inclusion-based pointer analyses            *)
(* (include/Graphs/ConsG.h, lib/Graphs/ConsG.cpp) and the part of the PAG  *)
(* that names memory objects (lib/Graphs/PAG.cpp).                         *)
(*                                                                         *)
(* A node is a pointer variable or an object.  An object is a pair         *)
(* <<b, k>>: field k of the allocation site b.  Field 0 shares the node of *)
(* the base (option FirstFieldEqBase), which is also the                   *)
(* field-insensitive node of b.                                            *)
(*                                                                         *)
(* A definition introduced by the word Fault is a wrong variant of the     *)
(* definition it precedes: the model does not use it, a mutation test of   *)
(* the properties does.                                                    *)
(***************************************************************************)
EXTENDS Naturals, FiniteSets, StrongComponents

CONSTANTS Ptr,        \* top-level pointers
          Base,       \* allocation sites: globals, stack and heap objects, functions
          MaxField,   \* limit on the fields of an object (option MaxFieldLimit)
          Opaque,     \* the black hole and constant objects: they have no fields
          NoDeref     \* constant and non-pointer objects: nothing is loaded or stored

Obj  == Base \X (0 .. MaxField - 1)
Node == Ptr \cup Obj

ASSUME MaxFieldAssumption == MaxField \in Nat \ {0}
ASSUME OpaqueAssumption   == Opaque \subseteq Base /\ NoDeref \subseteq Base
ASSUME NodeAssumption     == Ptr \cap Obj = {}

(***************************************************************************)
(* Objects and fields.                                                     *)
(***************************************************************************)
FIObjNode(o) == <<o[1], 0>>

\* The field at offset k of object o, when the sites in fi are
\* field-insensitive: offsets are taken modulo the field limit.
GepObjNode(o, k, fi) ==
    IF o[1] \in fi THEN FIObjNode(o) ELSE <<o[1], (o[2] + k) % MaxField>>

\* The targets of a gep edge with offset k, and of a gep whose offset is
\* unknown, for the objects in S.
NormalGepTargets(S, k, fi) ==
    {o \in S : o[1] \in Opaque} \cup
    {GepObjNode(o, k, fi) : o \in {p \in S : p[1] \notin Opaque}}

VariantGepTargets(S) ==
    {o \in S : o[1] \in Opaque} \cup
    {FIObjNode(o) : o \in {p \in S : p[1] \notin Opaque}}

\* The sites a traversal of S makes field-insensitive.
Collapsible(S, fi) ==
    {b \in Base \ (fi \cup Opaque) : \E o \in S : o[1] = b}

(***************************************************************************)
(* Edges.  Copy, variant gep, load and store edges are pairs; a normal gep *)
(* edge is <<src, dst, k>>, and there is at most one between two nodes     *)
(* because an edge is identified by kind, source and destination only.     *)
(***************************************************************************)
Pair == Node \X Node
Gep  == Node \X Node \X (0 .. MaxField - 1)

HasGep(E, s, d) == \E e \in E : e[1] = s /\ e[2] = d

GepPairs(E) == {<<e[1], e[2]>> : e \in E}

\* addCopyCGEdge: an existing edge and a self loop are refused.
CanAddCopy(E, s, d) == s # d /\ <<s, d>> \notin E

(***************************************************************************)
(* Moving the edges of node n to node r when n is merged into r.           *)
(***************************************************************************)
Sub(x, n, r) == IF x = n THEN r ELSE x

MovePairs(E, n, r) == {<<Sub(e[1], n, r), Sub(e[2], n, r)>> : e \in E}

\* Fault: only the incoming edges are retargeted.
MoveCopyIn(E, n, r) == {e \in {<<e[1], Sub(e[2], n, r)>> : e \in E} : e[1] # e[2]}

\* Copy edges between n and r disappear, the others are retargeted.
MoveCopy(E, n, r) == {e \in MovePairs(E, n, r) : e[1] # e[2]}

\* Gep edges between n and r disappear too; those of r with itself stay.
MoveVariantGep(E, n, r) ==
    {e \in MovePairs(E, n, r) : e # <<r, r>>} \cup (E \cap {<<r, r>>})

Touches(e, n) == e[1] = n \/ e[2] = n

\* Fault: only the incoming edges are retargeted.
MoveNormalGepIn(E, n, r) ==
    {e \in {<<e[1], Sub(e[2], n, r), e[3]>> : e \in E} : ~(e[1] = r /\ e[2] = r)}

\* A retargeted normal gep is dropped when its new end points are already
\* linked by one, whatever the offsets of the two.
MoveNormalGep(E, n, r) ==
    LET kept  == {e \in E : ~Touches(e, n)}
        moved == {<<Sub(e[1], n, r), Sub(e[2], n, r), e[3]>> : e \in E \ kept}
    IN  kept \cup {e \in moved : ~(e[1] = r /\ e[2] = r) /\ ~HasGep(kept, e[1], e[2])}

\* Whether a gep edge with a possibly non-zero offset lies between n and r:
\* the merged node is then on a positive weight cycle.
GepInside(ngep, vgep, n, r) ==
    \/ \E e \in ngep : e[3] # 0 /\ {e[1], e[2]} = {n, r}
    \/ \E e \in vgep : {e[1], e[2]} = {n, r}
=============================================================================
