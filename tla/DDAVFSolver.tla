---------------------------- MODULE DDAVFSolver -----------------------------
(***************************************************************************)
(* The demand-driven, flow-sensitive pointer analysis                      *)
(* (include/DDA/DDAVFSolver.h, lib/DDA/FlowDDA.cpp, include/DDA/FlowDDA.h):*)
(* a query walks the value-flow graph backward from the definition of a    *)
(* variable, by the recursive function findPT, with results cached from    *)
(* query to query.  Where a result changes that was used before (in a      *)
(* cycle, or by a call found on the way), its users are computed again,    *)
(* from within the walk.  A query has a budget of steps.                   *)
(***************************************************************************)
EXTENDS ValueFlowGraph, Sequences

CONSTANT NoItem

ASSUME NoItemAssumption == NoItem \notin Item

VARIABLES queries,          \* not asked yet
          query,            \* the item asked for, or NoItem
          phase,            \* of computeDDAPts
          backwardVisited,
          cached,           \* points-to sets of variables, and dpmToADCPtSetMap
          locToDpm,         \* the items of locToDpmSetMap
          numOfStep, outOfBudgetQuery, outOfBudgetDpms,
          stack             \* the calls of findPT in progress, the innermost first

searchVars == <<backwardVisited, locToDpm, numOfStep, outOfBudgetQuery>>

vars == <<prog, queries, query, phase, searchVars, cached, outOfBudgetDpms, callees, stack>>

Init ==
    /\ prog \in Programs
    /\ queries = prog.queries /\ query = NoItem /\ phase = "rest"
    /\ backwardVisited = {} /\ locToDpm = {} /\ numOfStep = 0
    /\ outOfBudgetQuery = FALSE /\ outOfBudgetDpms = {}
    /\ cached = [d \in Item |-> {}]
    /\ callees = {} /\ stack = <<>>
-----------------------------------------------------------------------------
(* The value-flow graph.                                                   *)

\* What holds the address a load or a store dereferences.
Address(d) ==
    {VarItem(e[1]) : e \in {l \in prog.load : l[2] = d[1]}}
    \cup {VarItem(prog.storeDst[s]) : s \in Store \cap {d[1]}}

\* Fault: a load is traced to its address as well, as a copy would be.
AlongAnyDirect(n) == {VarItem(e[1]) : e \in {c \in Direct \cup prog.load : c[2] = n}}

\* backtraceAlongDirectVF and backtraceAlongIndirectVF.
AlongDirect(n) == {VarItem(e[1]) : e \in {c \in Direct : c[2] = n}}

AlongIndirect(n, o) == {<<e.src, o>> : e \in {i \in Indirect : i.dst = n /\ o \in i.guard}}

\* handleSingleStatement on a store: the value stored if the store may be to
\* the object asked for, what the object held before unless it surely is.
BacktraceStore(s, o, targets) ==
    {VarItem(prog.storeSrc[s]) : x \in targets \cap {o}}
    \cup {d \in AlongIndirect(s, o) : targets \ {o} # {} \/ (targets # {} /\ ~IsStrongUpdate(targets))}

\* The items handleSingleStatement traces back to, once targets are what the
\* address dereferenced points to.
Backtrace(d, targets) ==
    IF d[1] \in Store THEN BacktraceStore(d[1], d[2], targets)
    ELSE IF d[1] \in MemRef THEN AlongIndirect(d[1], d[2])
    ELSE AlongDirect(d[1]) \cup UNION {AlongIndirect(d[1], o) : o \in {x \in targets : IsLoad(d[1])}}

\* handleAddr.
AddressTaken(d) == {e[1] : e \in {a \in prog.addr : a[2] = d[1]}}

\* The function pointers resolveFunPtr asks for first.
FunPtrs(n) ==
    {VarItem(c.funPtr) : c \in {x \in prog.calls :
        n \in x.rets \/ \E f \in prog.ander[x.funPtr] : n \in prog.entries[f]}}
-----------------------------------------------------------------------------
(* findPT.                                                                 *)

\* A call of findPT: what it has collected, the calls it still has to make,
\* and the edges of reComputeForEdges it still has to look at.
Frame ==
    [item : Item, step : {"funptr", "address", "backtrace", "newcalls", "recompute"},
     targets : SUBSET Obj, pts : SUBSET Obj, todo : SUBSET Item,
     edges : SUBSET [dst : Node, all : BOOLEAN]]

Top == stack[1]
Below == Tail(stack)
NewFrame(d, step) == [item |-> d, step |-> step, targets |-> {}, pts |-> {}, todo |-> {}, edges |-> {}]

\* Frame fr of a caller after findPT(d) returned with cache map.
Absorb(fr, d, map) ==
    [fr EXCEPT !.todo = @ \ {d},
               !.targets = IF fr.step = "address" THEN @ \cup map[d] ELSE @,
               !.pts = IF fr.step = "backtrace" THEN @ \cup map[d] ELSE @]

AbsorbTop(d) == <<Absorb(Top, d, cached)>> \o Below

Resolving(d) == [NewFrame(d, "funptr") EXCEPT !.todo = FunPtrs(d[1])]

\* findPT up to handleSingleStatement, where visited holds the marks; the
\* stack is rest if the call returns at once, else it grows.
FindPT(d, visited, rest) ==
    IF d \in visited
    THEN /\ backwardVisited' = visited /\ stack' = rest
         /\ UNCHANGED <<locToDpm, numOfStep, outOfBudgetQuery>>
    ELSE /\ backwardVisited' = visited \cup {d}
         /\ locToDpm' = locToDpm \cup {d}
         /\ numOfStep' = IF outOfBudgetQuery THEN numOfStep ELSE numOfStep + 1
         /\ outOfBudgetQuery' = (outOfBudgetQuery \/ numOfStep + 1 > prog.budget)
         /\ stack' = IF outOfBudgetQuery' \/ d \in outOfBudgetDpms THEN rest
                     ELSE <<Resolving(d)>> \o stack

\* The top frame calls findPT on d, in reComputeForEdges after clearbkVisited.
Call(d) ==
    /\ stack # <<>> /\ d \in Top.todo
    /\ FindPT(d, IF Top.step \in {"newcalls", "recompute"} THEN backwardVisited \ {d}
                 ELSE backwardVisited, AbsorbTop(d))
    /\ UNCHANGED <<prog, queries, query, phase, cached, outOfBudgetDpms, callees>>

Replace(fr) == stack' = <<fr>> \o Below

\* handleSingleStatement goes on when the calls it made have returned.
Proceed ==
    /\ stack # <<>> /\ Top.todo = {}
    /\ \/ /\ Top.step = "funptr"
          /\ Replace([Top EXCEPT !.step = "address", !.todo = Address(Top.item)])
       \/ /\ Top.step = "address"
          /\ Replace([Top EXCEPT !.step = "backtrace", !.todo = Backtrace(Top.item, Top.targets),
                                 !.pts = AddressTaken(Top.item)])
    /\ UNCHANGED <<prog, queries, query, phase, searchVars, cached, outOfBudgetDpms, callees>>
-----------------------------------------------------------------------------
(* Recomputation.                                                          *)

\* resolveIndCalls for the calls through the variable of d, with targets S.
NewCallees(d, S) == {c \in prog.calls \X S : VarItem(c[1].funPtr) = d} \ callees

\* A node to recompute with its items, all of them or those of one object.
Edge(n, all) == [dst |-> n, all |-> all]

CallEdges(calls) ==
    UNION {{Edge(e[2], TRUE) : e \in c[1].direct[c[2]]} \cup
           {Edge(e.dst, TRUE) : e \in c[1].indirect[c[2]]} : c \in calls}

\* The edges out of node n.
OutEdges(n) ==
    {Edge(e[2], TRUE) : e \in {c \in Direct \cup prog.load : c[1] = n}}
    \cup {Edge(s, TRUE) : s \in {x \in Store : n \in {prog.storeDst[x], prog.storeSrc[x]}}}
    \cup {Edge(e.dst, IsLoad(e.dst)) : e \in {i \in Indirect : i.src = n}}

\* Fault: a load is recomputed for the object it asked for only.
AffectedSameObject(e, d) ==
    {x \in locToDpm : x[1] = e.dst /\ (x[2] = d[2] \/ (e.all /\ ~IsLoad(e.dst)))}

\* reComputeForEdges: the items of this query at the other end of e.
Affected(e, d) == {x \in locToDpm : x[1] = e.dst /\ (e.all \/ x[2] = d[2])}

\* updateCachedPointsTo with pts, and reCompute up to its first edge, in a
\* frame that replaces the top of the stack, above rest.
BeginReCompute(d, pts, rest) ==
    LET map == [cached EXCEPT ![d] = @ \cup pts]
        new == NewCallees(d, map[d])
    IN  /\ cached' = map
        /\ callees' = callees \cup new
        /\ stack' = <<[NewFrame(d, "newcalls") EXCEPT !.edges = CallEdges(new)]>> \o rest

\* The call of findPT for d returns to the frame below, if any.
Return(d, rest) ==
    stack' = IF rest = <<>> THEN <<>> ELSE <<Absorb(Head(rest), d, cached)>> \o Tail(rest)

Update ==
    /\ stack # <<>> /\ Top.step = "backtrace" /\ Top.todo = {}
    /\ IF Top.pts \subseteq cached[Top.item]
       THEN Return(Top.item, Below) /\ UNCHANGED <<cached, callees>>
       ELSE BeginReCompute(Top.item, Top.pts, Below)
    /\ UNCHANGED <<prog, queries, query, phase, searchVars, outOfBudgetDpms>>

\* The loops of reComputeForEdges, over new call edges and then all others.
NextEdge ==
    /\ stack # <<>> /\ Top.todo = {} /\ Top.step \in {"newcalls", "recompute"}
    /\ \/ \E e \in Top.edges :
             Replace([Top EXCEPT !.todo = Affected(e, Top.item), !.edges = @ \ {e}])
       \/ /\ Top.edges = {} /\ Top.step = "newcalls"
          /\ Replace([Top EXCEPT !.step = "recompute", !.edges = OutEdges(Top.item[1])])
       \/ /\ Top.edges = {} /\ Top.step = "recompute"
          /\ Return(Top.item, Below)
    /\ UNCHANGED <<prog, queries, query, phase, searchVars, cached, outOfBudgetDpms, callees>>
-----------------------------------------------------------------------------
(* computeDDAPts.                                                          *)

\* Fault: a query that ran out of budget leaves its marks behind.
VisitedKept == backwardVisited

\* What OOBResetVisited leaves of the marks: after a query that ran out of
\* budget, none of its own but those of downgraded items.
VisitedAfterReset ==
    IF outOfBudgetQuery THEN backwardVisited \ (locToDpm \ outOfBudgetDpms) ELSE backwardVisited

\* resetQuery.
ResetQuery(v) ==
    /\ phase = "rest" /\ v \in queries
    /\ queries' = queries \ {v} /\ query' = VarItem(v) /\ phase' = "start"
    /\ backwardVisited' = VisitedAfterReset
    /\ locToDpm' = {} /\ numOfStep' = 0 /\ outOfBudgetQuery' = FALSE
    /\ UNCHANGED <<prog, cached, outOfBudgetDpms, callees, stack>>

StartQuery ==
    /\ phase = "start"
    /\ phase' = "search"
    /\ FindPT(query, backwardVisited, <<>>)
    /\ UNCHANGED <<prog, queries, query, cached, outOfBudgetDpms, callees>>

\* The query's findPT returned within the budget.
Answer ==
    /\ phase = "search" /\ stack = <<>> /\ ~outOfBudgetQuery
    /\ query' = NoItem /\ phase' = "rest"
    /\ UNCHANGED <<prog, queries, searchVars, cached, outOfBudgetDpms, callees, stack>>

\* handleOutOfBudgetDpm up to the return of updateCachedPointsTo, and then.
Downgrade ==
    /\ phase = "search" /\ stack = <<>> /\ outOfBudgetQuery
    /\ phase' = "downgraded"
    /\ IF prog.ander[query[1]] \subseteq cached[query] THEN UNCHANGED <<cached, callees, stack>>
       ELSE BeginReCompute(query, prog.ander[query[1]], <<>>)
    /\ UNCHANGED <<prog, queries, query, searchVars, outOfBudgetDpms>>

\* addOutOfBudgetDpm, and the end of the query.
AnswerDowngraded ==
    /\ phase = "downgraded" /\ stack = <<>>
    /\ outOfBudgetDpms' = outOfBudgetDpms \cup {query}
    /\ query' = NoItem /\ phase' = "rest"
    /\ UNCHANGED <<prog, queries, searchVars, cached, callees, stack>>

Done == phase = "rest" /\ queries = {}

Step ==
    \/ \E v \in queries : ResetQuery(v)
    \/ StartQuery
    \/ \E d \in Item : Call(d)
    \/ Proceed \/ Update \/ NextEdge
    \/ Answer \/ Downgrade \/ AnswerDowngraded

Next == Step \/ (Done /\ UNCHANGED vars)

Spec == Init /\ [][Next]_vars /\ WF_vars(Step)
-----------------------------------------------------------------------------
TypeOK ==
    /\ WellFormed(prog)
    /\ queries \subseteq Var /\ query \in {VarItem(v) : v \in Var} \cup {NoItem}
    /\ phase \in {"rest", "start", "search", "downgraded"} /\ (query = NoItem) = (phase = "rest")
    /\ backwardVisited \subseteq Item /\ locToDpm \subseteq Item /\ outOfBudgetDpms \subseteq Item
    /\ numOfStep \in Nat /\ outOfBudgetQuery \in BOOLEAN
    /\ cached \in [Item -> SUBSET Obj]
    /\ callees \subseteq prog.calls \X Obj
    /\ stack \in Seq(Frame)

\* What Andersen's analysis says of an item.
Ander(d) == IF d[1] \in Var THEN prog.ander[d[1]] ELSE prog.anderObj[d[2]]

\* The walk is never coarser than the analysis it falls back to: whatever is
\* cached, in the middle of a recomputation or after a downgrade, Andersen's
\* analysis says too, so that the downgrade of a query only adds to it.
WithinAndersen == \A d \in Item : cached[d] \subseteq Ander(d)

\* What one evaluation of item d makes of the points-to sets map.
Evaluated(d, map) ==
    LET targets == UNION {map[a] : a \in Address(d)}
    IN  AddressTaken(d) \cup UNION {map[x] : x \in Backtrace(d, targets)}

\* Between two queries, an item with a mark is taken as final by the next one
\* (findPT returns what is cached), and it is: evaluating it again, or
\* resolving the calls through it, adds nothing, and it rests on marked
\* items only.  Items downgraded to Andersen's analysis excepted.
VisitedComplete ==
    phase = "rest" =>
        \A d \in VisitedAfterReset \ outOfBudgetDpms :
            LET targets == UNION {cached[a] : a \in Address(d)}
            IN  /\ Evaluated(d, cached) \subseteq cached[d]
                /\ Address(d) \cup Backtrace(d, targets) \cup FunPtrs(d[1]) \subseteq VisitedAfterReset
                /\ NewCallees(d, cached[d]) = {}
=============================================================================
