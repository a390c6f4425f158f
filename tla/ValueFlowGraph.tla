-------------------------- MODULE ValueFlowGraph ----------------------------
(***************************************************************************)
(* The sparse value-flow graph (lib/Graphs/SVFG.cpp, lib/Graphs/VFG.cpp)   *)
(* as the flow-sensitive analyses see it: the statements at its nodes,     *)
(* direct edges from the definition of a variable to its uses, indirect    *)
(* edges that carry the contents of objects, and the edges that a resolved *)
(* indirect call adds.                                                     *)
(***************************************************************************)
EXTENDS Naturals

CONSTANTS Var,    \* top-level pointers; each names the node that defines it
          Obj,    \* address-taken objects and functions
          Store,  \* store nodes
          MemRef, \* MRSVFGNodes: memory phis, formal and actual ins and outs
          Programs

Node == Var \cup Store \cup MemRef

\* A LocDPItem: a node and what is asked of it, its variable or an object.
Item == {<<v, v>> : v \in Var} \cup ((Store \cup MemRef) \X Obj)

IndirectEdges == [src : Store \cup MemRef, dst : Var \cup Store \cup MemRef, guard : SUBSET Obj]

\* An indirect call: its function pointer, its nodes that receive results,
\* and for every function the edges connectCallerAndCallee adds.
CallSites ==
    [funPtr : Var, rets : SUBSET Node,
     direct : [Obj -> SUBSET (Var \X Var)], indirect : [Obj -> SUBSET IndirectEdges]]

\* A value-flow graph with the statements of its nodes, objects no strong
\* update is made of, entry nodes of functions, what Andersen's analysis
\* says, the budget, and the variables asked about.
ProgramType ==
    [addr : SUBSET (Obj \X Var), copy : SUBSET (Var \X Var), load : SUBSET (Var \X Var),
     storeDst : [Store -> Var], storeSrc : [Store -> Var], indirect : SUBSET IndirectEdges,
     weak : SUBSET Obj, calls : SUBSET CallSites, entries : [Obj -> SUBSET Node],
     ander : [Var -> SUBSET Obj], anderObj : [Obj -> SUBSET Obj], budget : Nat, queries : SUBSET Var]

\* A call adds edges to the entries of the callee and to the results at the
\* call site only, and Andersen's analysis solves the same statements without
\* regard to their order, its call graph included.
WellFormed(P) ==
    /\ P \in ProgramType
    /\ \A c \in P.calls : \A f \in P.ander[c.funPtr] :
          /\ {e[2] : e \in c.direct[f]} \cup {e.dst : e \in c.indirect[f]} \subseteq c.rets \cup P.entries[f]
          /\ \A e \in c.direct[f] : P.ander[e[1]] \subseteq P.ander[e[2]]
          /\ \A e \in c.indirect[f] : e.dst \in MemRef
    /\ \A e \in P.addr : e[1] \in P.ander[e[2]]
    /\ \A e \in P.copy : P.ander[e[1]] \subseteq P.ander[e[2]]
    /\ \A e \in P.load : \A o \in P.ander[e[1]] : P.anderObj[o] \subseteq P.ander[e[2]]
    /\ \A s \in Store : \A o \in P.ander[P.storeDst[s]] : P.ander[P.storeSrc[s]] \subseteq P.anderObj[o]

ASSUME ProgramsAssumption == \A P \in Programs : WellFormed(P)
ASSUME NodeAssumption ==
    Var \cap Store = {} /\ Var \cap MemRef = {} /\ Store \cap MemRef = {}

VARIABLES prog,
          callees   \* of indirect calls, as far as resolved

VarItem(v) == <<v, v>>

Direct == prog.copy \cup UNION {c[1].direct[c[2]] : c \in callees}
Indirect == prog.indirect \cup UNION {c[1].indirect[c[2]] : c \in callees}

IsLoad(n) == \E e \in prog.load : e[2] = n

\* One object is stored to, which is not on the heap, an array or field
\* insensitive, nor a local of a recursive function.
IsStrongUpdate(targets) == \E o \in Obj \ prog.weak : targets = {o}
=============================================================================
