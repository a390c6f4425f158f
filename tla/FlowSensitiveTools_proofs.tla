---------------------- MODULE FlowSensitiveTools_proofs ---------------------
(***************************************************************************)
(* The demand-driven walk stays within Andersen's sets, for every graph    *)
(* and every budget, at every point of the recursion.  What the calls in   *)
(* progress have collected must be bounded too, and each of them must be   *)
(* waited for by the call below it, to whose result it adds.  What it has  *)
(* marked between two queries is final, and what it answers is exact.      *)
(* The whole-program analysis ends with the least solution, for every      *)
(* graph and every order of its worklist.                                  *)
(***************************************************************************)
EXTENDS FlowSensitiveTools, Iteration_proofs, SequenceTheorems

\* The targets an address may have.
TargetsWithin(d, T) == \A o \in T : \E a \in Address(d) : o \in Ander(a)

FrameWithin(fr) ==
    /\ fr.step = "funptr" => fr.targets = {}
    /\ fr.step = "address" => fr.todo \subseteq Address(fr.item) /\ TargetsWithin(fr.item, fr.targets)
    /\ fr.step = "backtrace" =>
          fr.pts \subseteq Ander(fr.item) /\ \A x \in fr.todo : Ander(x) \subseteq Ander(fr.item)

StackWithin(s) ==
    /\ s \in Seq(Frame)
    /\ \A i \in 1 .. Len(s) : FrameWithin(s[i])
    /\ \A i \in 1 .. Len(s) : i + 1 \in 1 .. Len(s) => s[i].item \in s[i + 1].todo

CalleesWithin == \A c \in callees : c[2] \in prog.ander[c[1].funPtr]

Inv ==
    /\ TypeOK /\ WithinAndersen /\ CalleesWithin /\ StackWithin(stack)
    /\ phase \in {"rest", "start"} => stack = <<>>

-----------------------------------------------------------------------------
(* Stacks. *)

LEMMA Push ==
  ASSUME NEW s, StackWithin(s), NEW fr \in Frame, FrameWithin(fr),
         s # <<>> => fr.item \in s[1].todo
  PROVE  StackWithin(<<fr>> \o s)
<1> DEFINE t == <<fr>> \o s
<1>1. s \in Seq(Frame) /\ <<fr>> \in Seq(Frame) /\ Len(<<fr>>) = 1 /\ <<fr>>[1] = fr
  BY DEF StackWithin
<1>2. /\ t \in Seq(Frame) /\ Len(t) = Len(s) + 1 /\ Len(s) \in Nat
      /\ t[1] = fr /\ \A i \in 1 .. Len(t) : i # 1 => i - 1 \in 1 .. Len(s) /\ t[i] = s[i - 1]
  BY <1>1, ConcatProperties
<1>3. \A i \in 1 .. Len(t) : FrameWithin(t[i])
  BY <1>2 DEF StackWithin
<1>4. ASSUME NEW i \in 1 .. Len(t), i + 1 \in 1 .. Len(t)
      PROVE  t[i].item \in t[i + 1].todo
  <2>1. CASE i = 1
    <3>1. t[i + 1] = s[1] /\ Len(s) # 0
      BY <1>2, <1>4, <2>1
    <3> QED
      BY <1>1, <1>2, <2>1, <3>1
  <2>2. CASE i # 1
    <3>1. i - 1 \in 1 .. Len(s) /\ (i - 1) + 1 \in 1 .. Len(s) /\ t[i] = s[i - 1] /\ t[i + 1] = s[(i - 1) + 1]
      BY <1>2, <1>4, <2>2
    <3> QED
      BY <3>1 DEF StackWithin
  <2> QED
    BY <2>1, <2>2
<1> QED
  BY <1>2, <1>3, <1>4 DEF StackWithin

LEMMA Pop ==
  ASSUME NEW s, StackWithin(s), s # <<>>
  PROVE  /\ s[1] \in Frame /\ FrameWithin(s[1]) /\ Head(s) = s[1]
         /\ StackWithin(Tail(s))
         /\ Tail(s) # <<>> => s[1].item \in Tail(s)[1].todo
<1>1. s \in Seq(Frame) /\ Len(s) \in Nat \ {0}
  BY EmptySeq DEF StackWithin
<1>2. /\ Tail(s) \in Seq(Frame) /\ Len(Tail(s)) = Len(s) - 1
      /\ \A i \in 1 .. Len(Tail(s)) : i + 1 \in 1 .. Len(s) /\ Tail(s)[i] = s[i + 1]
  BY <1>1, HeadTailProperties
<1>3. s[1] \in Frame /\ FrameWithin(s[1]) /\ Head(s) = s[1]
  BY <1>1, ElementOfSeq, HeadTailProperties DEF StackWithin
<1>4. \A i \in 1 .. Len(Tail(s)) : FrameWithin(Tail(s)[i])
  BY <1>2 DEF StackWithin
<1>5. \A i \in 1 .. Len(Tail(s)) : i + 1 \in 1 .. Len(Tail(s)) => Tail(s)[i].item \in Tail(s)[i + 1].todo
  BY <1>1, <1>2 DEF StackWithin
<1>6. Tail(s) # <<>> => s[1].item \in Tail(s)[1].todo
  <2>1. Tail(s) # <<>> => Len(Tail(s)) # 0
    BY <1>2
  <2>2. Len(Tail(s)) # 0 => 1 \in 1 .. Len(s) /\ 1 + 1 \in 1 .. Len(s) /\ Tail(s)[1] = s[1 + 1]
    BY <1>1, <1>2
  <2> QED
    BY <2>1, <2>2 DEF StackWithin
<1> QED
  BY <1>2, <1>3, <1>4, <1>5, <1>6 DEF StackWithin

LEMMA EmptyWithin == StackWithin(<<>>)
  BY EmptySeq DEF StackWithin

\* A result that is absorbed is within the item that waits for it.
LEMMA AbsorbWithin ==
  ASSUME NEW fr \in Frame, FrameWithin(fr), NEW d \in fr.todo, cached \in [Item -> SUBSET Obj],
         cached[d] \subseteq Ander(d)
  PROVE  /\ Absorb(fr, d, cached) \in Frame /\ FrameWithin(Absorb(fr, d, cached))
         /\ Absorb(fr, d, cached).item = fr.item
<1> DEFINE g == Absorb(fr, d, cached)
<1>1. d \in Item /\ cached[d] \subseteq Obj
  BY DEF Frame
<1>2. /\ g \in Frame /\ g.item = fr.item /\ g.step = fr.step /\ g.todo = fr.todo \ {d}
      /\ g.targets = IF fr.step = "address" THEN fr.targets \cup cached[d] ELSE fr.targets
      /\ g.pts = IF fr.step = "backtrace" THEN fr.pts \cup cached[d] ELSE fr.pts
  BY <1>1 DEF Absorb, Frame
<1>3. fr.step = "address" => g.todo \subseteq Address(g.item) /\ TargetsWithin(g.item, g.targets)
  BY <1>2 DEF FrameWithin, TargetsWithin
<1>4. fr.step = "backtrace" => g.pts \subseteq Ander(g.item) /\ \A x \in g.todo : Ander(x) \subseteq Ander(g.item)
  BY <1>2 DEF FrameWithin
<1>5. fr.step = "funptr" => g.targets = {}
  BY <1>2 DEF FrameWithin
<1> QED
  BY <1>2, <1>3, <1>4, <1>5 DEF FrameWithin

-----------------------------------------------------------------------------
(* The value-flow graph. *)

\* The fields of a program.
LEMMA ProgramFields ==
  ASSUME WellFormed(prog)
  PROVE  /\ prog.addr \subseteq Obj \X Var /\ prog.copy \subseteq Var \X Var /\ prog.load \subseteq Var \X Var
         /\ prog.storeDst \in [Store -> Var] /\ prog.storeSrc \in [Store -> Var]
         /\ prog.indirect \subseteq IndirectEdges /\ prog.calls \subseteq CallSites
         /\ prog.ander \in [Var -> SUBSET Obj] /\ prog.anderObj \in [Obj -> SUBSET Obj]
         /\ prog.budget \in Nat /\ prog.queries \subseteq Var
  BY DEF WellFormed, ProgramType

LEMMA CallFields ==
  ASSUME NEW c \in CallSites
  PROVE  /\ c.funPtr \in Var
         /\ c.direct \in [Obj -> SUBSET (Var \X Var)] /\ c.indirect \in [Obj -> SUBSET IndirectEdges]
  BY DEF CallSites

\* The two kinds of items.
LEMMA Items ==
  ASSUME NEW d \in Item
  PROVE  \/ d[1] \in Var /\ d = VarItem(d[1])
         \/ d[1] \in Store \cup MemRef /\ d[1] \notin Var /\ d[2] \in Obj /\ d = <<d[1], d[2]>>
  BY NodeAssumption DEF Item, VarItem

LEMMA ItemsMade ==
  /\ \A v \in Var : VarItem(v) \in Item /\ VarItem(v)[1] = v
  /\ \A n \in Store \cup MemRef : \A o \in Obj : <<n, o>> \in Item
  BY DEF Item, VarItem

LEMMA AnderOf ==
  /\ \A v \in Var : Ander(VarItem(v)) = prog.ander[v]
  /\ \A n \in Store \cup MemRef : \A o \in Obj : Ander(<<n, o>>) = prog.anderObj[o]
  BY NodeAssumption DEF Ander, VarItem

LEMMA AnderType ==
  ASSUME WellFormed(prog), NEW d \in Item
  PROVE  Ander(d) \subseteq Obj
  BY ProgramFields, Items DEF Ander

\* Every direct edge, those of resolved calls included, respects the sets.
LEMMA DirectWithin ==
  ASSUME WellFormed(prog), callees \subseteq prog.calls \X Obj, CalleesWithin, NEW e \in Direct
  PROVE  e[1] \in Var /\ e[2] \in Var /\ prog.ander[e[1]] \subseteq prog.ander[e[2]]
<1>1. CASE e \in prog.copy
  BY <1>1, ProgramFields DEF WellFormed
<1>2. CASE \E c \in callees : e \in c[1].direct[c[2]]
  <2>1. PICK c \in callees : e \in c[1].direct[c[2]]
    BY <1>2
  <2>2. c[1] \in prog.calls /\ c[1] \in CallSites /\ c[2] \in Obj /\ c[2] \in prog.ander[c[1].funPtr]
    BY ProgramFields DEF CalleesWithin
  <2>3. e \in Var \X Var
    BY <2>1, <2>2, CallFields
  <2> QED
    BY <2>1, <2>2, <2>3 DEF WellFormed
<1> QED
  BY <1>1, <1>2 DEF Direct

LEMMA IndirectType ==
  ASSUME WellFormed(prog), callees \subseteq prog.calls \X Obj, NEW e \in Indirect
  PROVE  e \in IndirectEdges /\ e.src \in Store \cup MemRef /\ e.dst \in Node /\ e.guard \subseteq Obj
<1>1. \A c \in callees : c[1].indirect[c[2]] \subseteq IndirectEdges
  BY ProgramFields, CallFields
<1>2. e \in IndirectEdges
  BY <1>1, ProgramFields DEF Indirect
<1> QED
  BY <1>2 DEF IndirectEdges, Node

LEMMA AlongDirectWithin ==
  ASSUME WellFormed(prog), callees \subseteq prog.calls \X Obj, CalleesWithin,
         NEW n \in Var, NEW x \in AlongDirect(n)
  PROVE  x \in Item /\ Ander(x) \subseteq prog.ander[n]
<1>1. PICK e \in Direct : e[2] = n /\ x = VarItem(e[1])
  BY DEF AlongDirect
<1> QED
  BY <1>1, DirectWithin, ItemsMade, AnderOf

LEMMA AlongIndirectWithin ==
  ASSUME WellFormed(prog), callees \subseteq prog.calls \X Obj, NEW n \in Node, NEW o \in Obj,
         NEW x \in AlongIndirect(n, o)
  PROVE  x \in Item /\ Ander(x) = prog.anderObj[o]
<1>1. PICK e \in Indirect : x = <<e.src, o>>
  BY DEF AlongIndirect
<1> QED
  BY <1>1, IndirectType, ItemsMade, AnderOf

LEMMA AddressType ==
  ASSUME WellFormed(prog), NEW d \in Item
  PROVE  Address(d) \subseteq Item
<1>1. \A l \in prog.load : VarItem(l[1]) \in Item
  BY ProgramFields, ItemsMade
<1>2. \A s \in Store : VarItem(prog.storeDst[s]) \in Item
  BY ProgramFields, ItemsMade
<1> QED
  BY <1>1, <1>2 DEF Address

LEMMA AddressTakenWithin ==
  ASSUME WellFormed(prog), NEW d \in Item
  PROVE  AddressTaken(d) \subseteq Ander(d)
<1>1. ASSUME NEW e \in prog.addr, e[2] = d[1] PROVE e[1] \in Ander(d)
  <2>1. d[1] \in Var
    BY <1>1, ProgramFields
  <2> QED
    BY <1>1, <2>1 DEF WellFormed, Ander
<1> QED
  BY <1>1 DEF AddressTaken

\* The targets of a load or a store are within those of the one variable it
\* dereferences.
LEMMA StoreTargets ==
  ASSUME WellFormed(prog), NEW d \in Item, d[1] \in Store, NEW T, TargetsWithin(d, T)
  PROVE  T \subseteq prog.ander[prog.storeDst[d[1]]]
<1>1. ASSUME NEW a \in Address(d) PROVE a = VarItem(prog.storeDst[d[1]])
  <2>1. d[1] \notin Var
    BY NodeAssumption
  <2> QED
    BY <2>1, ProgramFields DEF Address
<1>2. prog.storeDst[d[1]] \in Var
  BY ProgramFields
<1> QED
  BY <1>1, <1>2, AnderOf DEF TargetsWithin

LEMMA LoadTargets ==
  ASSUME WellFormed(prog), NEW d \in Item, d[1] \in Var, NEW T, TargetsWithin(d, T), NEW o \in T,
         T \subseteq Obj
  PROVE  prog.anderObj[o] \subseteq prog.ander[d[1]]
<1>1. PICK a \in Address(d) : o \in Ander(a)
  BY DEF TargetsWithin
<1>2. PICK l \in prog.load : l[2] = d[1] /\ a = VarItem(l[1])
  BY NodeAssumption DEF Address
<1>3. l[1] \in Var /\ o \in prog.ander[l[1]]
  BY <1>1, <1>2, ProgramFields, AnderOf
<1> QED
  BY <1>2, <1>3 DEF WellFormed

\* What an item is traced back to is within it.
LEMMA BacktraceWithin ==
  ASSUME WellFormed(prog), callees \subseteq prog.calls \X Obj, CalleesWithin,
         NEW d \in Item, NEW T \in SUBSET Obj, TargetsWithin(d, T), NEW x \in Backtrace(d, T)
  PROVE  x \in Item /\ Ander(x) \subseteq Ander(d)
<1>1. CASE d[1] \in Store
  <2>1. d[2] \in Obj /\ Ander(d) = prog.anderObj[d[2]] /\ d[1] \in Node
    BY <1>1, Items, NodeAssumption DEF Ander, Node
  <2>2. CASE x \in AlongIndirect(d[1], d[2])
    BY <2>1, <2>2, AlongIndirectWithin
  <2>3. CASE x = VarItem(prog.storeSrc[d[1]]) /\ d[2] \in T
    <3>1. d[2] \in prog.ander[prog.storeDst[d[1]]]
      BY <1>1, <2>3, StoreTargets
    <3>2. prog.storeSrc[d[1]] \in Var /\ prog.ander[prog.storeSrc[d[1]]] \subseteq prog.anderObj[d[2]]
      BY <1>1, <3>1, ProgramFields DEF WellFormed
    <3> QED
      BY <2>1, <2>3, <3>2, ItemsMade, AnderOf
  <2> QED
    BY <1>1, <2>2, <2>3 DEF Backtrace, BacktraceStore
<1>2. CASE d[1] \in MemRef
  <2>1. d[2] \in Obj /\ Ander(d) = prog.anderObj[d[2]] /\ d[1] \in Node /\ d[1] \notin Store
    BY <1>2, Items, NodeAssumption DEF Ander, Node
  <2>2. x \in AlongIndirect(d[1], d[2])
    BY <1>2, <2>1 DEF Backtrace
  <2> QED
    BY <2>1, <2>2, AlongIndirectWithin
<1>3. CASE d[1] \in Var
  <2>1. Ander(d) = prog.ander[d[1]] /\ d[1] \in Node /\ d[1] \notin Store /\ d[1] \notin MemRef
    BY <1>3, NodeAssumption DEF Ander, Node
  <2>2. CASE x \in AlongDirect(d[1])
    BY <1>3, <2>1, <2>2, AlongDirectWithin
  <2>3. ASSUME NEW o \in T, x \in AlongIndirect(d[1], o) PROVE x \in Item /\ Ander(x) \subseteq Ander(d)
    <3>1. x \in Item /\ Ander(x) = prog.anderObj[o]
      BY <2>1, <2>3, AlongIndirectWithin
    <3>2. prog.anderObj[o] \subseteq prog.ander[d[1]]
      BY <1>3, LoadTargets
    <3> QED
      BY <2>1, <3>1, <3>2
  <2> QED
    BY <2>1, <2>2, <2>3 DEF Backtrace
<1> QED
  BY <1>1, <1>2, <1>3, Items

LEMMA FunPtrsType ==
  ASSUME WellFormed(prog), NEW n
  PROVE  FunPtrs(n) \subseteq Item
  BY ProgramFields, CallFields, ItemsMade DEF FunPtrs

\* Calls are resolved as Andersen's analysis resolves them, at most.
LEMMA NewCalleesWithin ==
  ASSUME WellFormed(prog), NEW d \in Item, NEW S, S \subseteq Ander(d), NEW c \in NewCallees(d, S)
  PROVE  c \in prog.calls \X Obj /\ c[2] \in prog.ander[c[1].funPtr]
<1>1. c[1] \in prog.calls /\ c[2] \in S /\ c = <<c[1], c[2]>> /\ VarItem(c[1].funPtr) = d
  BY DEF NewCallees
<1>2. c[1].funPtr \in Var
  BY <1>1, ProgramFields, CallFields
<1>3. Ander(d) = prog.ander[c[1].funPtr]
  BY <1>1, <1>2, AnderOf
<1> QED
  BY <1>1, <1>3, AnderType

EdgeType == [dst : Node, all : BOOLEAN]

LEMMA EdgeMade ==
  ASSUME NEW n \in Node, NEW b \in BOOLEAN
  PROVE  Edge(n, b) \in EdgeType
  BY DEF Edge, EdgeType

LEMMA CallEdgesType ==
  ASSUME WellFormed(prog), NEW calls \in SUBSET (prog.calls \X Obj)
  PROVE  CallEdges(calls) \subseteq EdgeType
<1>1. ASSUME NEW c \in calls
      PROVE  /\ {Edge(e[2], TRUE) : e \in c[1].direct[c[2]]} \subseteq EdgeType
             /\ {Edge(e.dst, TRUE) : e \in c[1].indirect[c[2]]} \subseteq EdgeType
  <2>1. c[1] \in CallSites /\ c[2] \in Obj
    BY ProgramFields
  <2>2. c[1].direct[c[2]] \subseteq Var \X Var /\ c[1].indirect[c[2]] \subseteq IndirectEdges
    BY <2>1, CallFields
  <2>3. \A e \in c[1].direct[c[2]] : e[2] \in Node
    BY <2>2 DEF Node
  <2>4. \A e \in c[1].indirect[c[2]] : e.dst \in Node
    BY <2>2 DEF IndirectEdges, Node
  <2> QED
    BY <2>3, <2>4, EdgeMade
<1> QED
  BY <1>1 DEF CallEdges

LEMMA OutEdgesType ==
  ASSUME WellFormed(prog), callees \subseteq prog.calls \X Obj, CalleesWithin, NEW n
  PROVE  OutEdges(n) \subseteq EdgeType
<1>1. \A c \in Direct \cup prog.load : c[2] \in Node
  BY DirectWithin, ProgramFields DEF Node
<1>2. \A e \in Indirect : e.dst \in Node /\ IsLoad(e.dst) \in BOOLEAN
  BY IndirectType DEF IsLoad
<1>3. \A s \in Store : s \in Node
  BY DEF Node
<1> QED
  BY <1>1, <1>2, <1>3, EdgeMade DEF OutEdges

-----------------------------------------------------------------------------
(* The parts of the steps. *)

LEMMA FramesMade ==
  ASSUME NEW d \in Item
  PROVE  /\ \A k \in {"funptr", "newcalls"} : NewFrame(d, k) \in Frame
         /\ \A E \in SUBSET EdgeType : [NewFrame(d, "newcalls") EXCEPT !.edges = E] \in Frame
         /\ \A E : /\ FrameWithin([NewFrame(d, "newcalls") EXCEPT !.edges = E])
                   /\ [NewFrame(d, "newcalls") EXCEPT !.edges = E].item = d
         /\ WellFormed(prog) => Resolving(d) \in Frame
         /\ FrameWithin(Resolving(d)) /\ Resolving(d).item = d
<1>1. WellFormed(prog) => FunPtrs(d[1]) \in SUBSET Item
  BY FunPtrsType
<1> QED
  BY <1>1 DEF NewFrame, Frame, EdgeType, FrameWithin, Resolving

\* StackWithin only depends on the program beside the stack.
LEMMA WithinStable ==
  ASSUME prog' = prog
  PROVE  /\ StackWithin(stack)' <=> StackWithin(stack')
         /\ \A d : Ander(d)' = Ander(d)
<1>1. \A d : Ander(d)' = Ander(d)
  BY DEF Ander
<1>2. \A d : Address(d)' = Address(d)
  BY DEF Address
<1>3. \A fr : FrameWithin(fr)' <=> FrameWithin(fr)
  BY <1>1, <1>2 DEF FrameWithin, TargetsWithin
<1> QED
  BY <1>1, <1>3 DEF StackWithin

LEMMA FindPTWithin ==
  ASSUME TypeOK, StackWithin(stack), NEW d \in Item, NEW visited \in SUBSET Item,
         NEW rest, StackWithin(rest), FindPT(d, visited, rest),
         stack # <<>> => d \in stack[1].todo
  PROVE  /\ StackWithin(stack') /\ backwardVisited' \subseteq Item /\ locToDpm' \subseteq Item
         /\ numOfStep' \in Nat /\ outOfBudgetQuery' \in BOOLEAN
<1>1. StackWithin(<<Resolving(d)>> \o stack)
  BY FramesMade, Push DEF TypeOK
<1>2. stack' = rest \/ stack' = <<Resolving(d)>> \o stack
  BY DEF FindPT
<1>3. /\ backwardVisited \subseteq Item /\ locToDpm \subseteq Item
      /\ numOfStep \in Nat /\ outOfBudgetQuery \in BOOLEAN
  BY DEF TypeOK
<1>4. backwardVisited' \subseteq Item /\ locToDpm' \subseteq Item
  BY <1>3 DEF FindPT
<1>5. numOfStep' \in Nat
  BY <1>3 DEF FindPT
<1>6. outOfBudgetQuery' = outOfBudgetQuery \/ outOfBudgetQuery' = (outOfBudgetQuery \/ numOfStep + 1 > prog.budget)
  BY DEF FindPT
<1>7. outOfBudgetQuery' \in BOOLEAN
  BY ONLY <1>3, <1>6, Zenon
<1> QED
  BY <1>1, <1>2, <1>4, <1>5, <1>7

LEMMA AbsorbBelow ==
  ASSUME TypeOK, WithinAndersen, NEW rest, StackWithin(rest), rest # <<>>, NEW d \in rest[1].todo
  PROVE  StackWithin(<<Absorb(rest[1], d, cached)>> \o Tail(rest))
<1>1. rest[1] \in Frame /\ FrameWithin(rest[1]) /\ StackWithin(Tail(rest))
      /\ (Tail(rest) # <<>> => rest[1].item \in Tail(rest)[1].todo)
  BY Pop
<1>2. d \in Item /\ cached[d] \subseteq Ander(d)
  BY <1>1 DEF Frame, WithinAndersen
<1>3. cached \in [Item -> SUBSET Obj]
  BY DEF TypeOK
<1>4. /\ Absorb(rest[1], d, cached) \in Frame /\ FrameWithin(Absorb(rest[1], d, cached))
      /\ Absorb(rest[1], d, cached).item = rest[1].item
  BY <1>1, <1>2, <1>3, AbsorbWithin
<1> QED
  BY <1>1, <1>4, Push

LEMMA ReturnWithin ==
  ASSUME TypeOK, WithinAndersen, NEW rest, StackWithin(rest), NEW d,
         rest # <<>> => d \in rest[1].todo, Return(d, rest)
  PROVE  StackWithin(stack')
<1>1. CASE rest = <<>>
  BY <1>1, EmptyWithin DEF Return
<1>2. CASE rest # <<>>
  <2>1. Head(rest) = rest[1]
    BY <1>2, Pop
  <2> QED
    BY <1>2, <2>1, AbsorbBelow DEF Return
<1> QED
  BY <1>1, <1>2

LEMMA ReComputeWithin ==
  ASSUME TypeOK, WithinAndersen, CalleesWithin, NEW d \in Item, NEW own, own \subseteq Ander(d),
         NEW rest, StackWithin(rest), rest # <<>> => d \in rest[1].todo, BeginReCompute(d, own, rest)
  PROVE  /\ StackWithin(stack')
         /\ cached' \in [Item -> SUBSET Obj] /\ \A x \in Item : cached'[x] \subseteq Ander(x)
         /\ callees' \subseteq prog.calls \X Obj /\ \A c \in callees' : c[2] \in prog.ander[c[1].funPtr]
<1> DEFINE map == [cached EXCEPT ![d] = @ \cup own]
           new == NewCallees(d, map[d])
<1>1. cached \in [Item -> SUBSET Obj] /\ WellFormed(prog) /\ callees \subseteq prog.calls \X Obj
  BY DEF TypeOK
<1>2. map \in [Item -> SUBSET Obj] /\ \A x \in Item : map[x] \subseteq Ander(x)
  BY <1>1, AnderType DEF WithinAndersen
<1>3. new \subseteq prog.calls \X Obj /\ \A c \in new : c[2] \in prog.ander[c[1].funPtr]
  BY <1>1, <1>2, NewCalleesWithin
<1>4. /\ cached' = map /\ callees' = callees \cup new
      /\ stack' = <<[NewFrame(d, "newcalls") EXCEPT !.edges = CallEdges(new)]>> \o rest
  BY DEF BeginReCompute
<1>5. CallEdges(new) \in SUBSET EdgeType
  BY <1>1, <1>3, CallEdgesType
<1>6. StackWithin(stack')
  <2> DEFINE fr == [NewFrame(d, "newcalls") EXCEPT !.edges = CallEdges(new)]
  <2>1. fr \in Frame /\ FrameWithin(fr) /\ fr.item = d
    BY <1>5, FramesMade
  <2> HIDE DEF fr
  <2>2. StackWithin(<<fr>> \o rest)
    BY <2>1, Push
  <2> QED
    BY <1>4, <2>2 DEF fr
<1> QED
  BY <1>1, <1>2, <1>3, <1>4, <1>6 DEF CalleesWithin

-----------------------------------------------------------------------------
(* The steps. *)

SearchType ==
    /\ backwardVisited \subseteq Item /\ locToDpm \subseteq Item
    /\ numOfStep \in Nat /\ outOfBudgetQuery \in BOOLEAN

QueryType ==
    /\ queries \subseteq Var /\ query \in {VarItem(v) : v \in Var} \cup {NoItem}
    /\ phase \in {"rest", "start", "search", "downgraded"} /\ (query = NoItem) = (phase = "rest")
    /\ outOfBudgetDpms \subseteq Item
    /\ phase \in {"rest", "start"} => stack = <<>>

ResultsWithin(map, calls) ==
    /\ map \in [Item -> SUBSET Obj] /\ \A x \in Item : map[x] \subseteq Ander(x)
    /\ calls \subseteq prog.calls \X Obj /\ \A c \in calls : c[2] \in prog.ander[c[1].funPtr]

LEMMA Parts ==
  ASSUME Inv
  PROVE  WellFormed(prog) /\ SearchType /\ QueryType /\ ResultsWithin(cached, callees) /\ StackWithin(stack)
  BY DEF Inv, TypeOK, WithinAndersen, CalleesWithin, SearchType, QueryType, ResultsWithin

LEMMA Whole ==
  ASSUME WellFormed(prog), prog' = prog, SearchType', QueryType', ResultsWithin(cached', callees'),
         StackWithin(stack')
  PROVE  Inv'
<1>1. TypeOK'
  BY DEF TypeOK, SearchType, QueryType, ResultsWithin, StackWithin
<1>2. WithinAndersen' /\ CalleesWithin'
  BY WithinStable DEF WithinAndersen, CalleesWithin, ResultsWithin
<1>3. StackWithin(stack)' /\ (phase' \in {"rest", "start"} => stack' = <<>>)
  BY WithinStable DEF QueryType
<1> QED
  BY <1>1, <1>2, <1>3 DEF Inv

\* Steps that only replace the top of the stack.
LEMMA ReplaceWithin ==
  ASSUME StackWithin(stack), stack # <<>>, NEW fr \in Frame, FrameWithin(fr), fr.item = Top.item,
         Replace(fr)
  PROVE  StackWithin(stack')
<1>1. StackWithin(Tail(stack)) /\ (Tail(stack) # <<>> => fr.item \in Tail(stack)[1].todo)
  BY Pop DEF Top
<1> QED
  BY <1>1, Push DEF Replace, Below

LEMMA CallStep ==
  ASSUME Inv, NEW d \in Item, Call(d)
  PROVE  Inv'
<1> DEFINE visited == IF Top.step \in {"newcalls", "recompute"} THEN backwardVisited \ {d}
                      ELSE backwardVisited
<1>1. d \in stack[1].todo /\ stack # <<>> /\ FindPT(d, visited, AbsorbTop(d))
  BY DEF Call, Top
<1>2. visited \in SUBSET Item
  BY DEF Inv, TypeOK
<1>3. StackWithin(AbsorbTop(d))
  BY <1>1, AbsorbBelow DEF Inv, AbsorbTop, Top, Below
<1>4. /\ StackWithin(stack') /\ backwardVisited' \subseteq Item /\ locToDpm' \subseteq Item
      /\ numOfStep' \in Nat /\ outOfBudgetQuery' \in BOOLEAN
  <2> HIDE DEF visited
  <2> QED
    BY <1>1, <1>2, <1>3, FindPTWithin DEF Inv
<1>5. UNCHANGED <<prog, queries, query, phase, cached, outOfBudgetDpms, callees>>
  BY DEF Call
<1>6. phase \notin {"rest", "start"}
  BY <1>1 DEF Inv
<1>7. SearchType' /\ QueryType'
  BY <1>4, <1>5, <1>6, Parts DEF SearchType, QueryType
<1> QED
  BY <1>4, <1>5, <1>7, Parts, Whole

LEMMA ProceedStep ==
  ASSUME Inv, Proceed
  PROVE  Inv'
<1>1. stack # <<>> /\ Top \in Frame /\ FrameWithin(Top) /\ Top.item \in Item
  <2>1. stack # <<>> /\ Top \in Frame /\ FrameWithin(Top)
    BY Pop DEF Inv, Proceed, Top
  <2> QED
    BY <2>1 DEF Frame
<1>2. UNCHANGED <<prog, queries, query, phase, searchVars, cached, outOfBudgetDpms, callees>>
  BY DEF Proceed
<1>3. WellFormed(prog) /\ callees \subseteq prog.calls \X Obj /\ CalleesWithin
  BY DEF Inv, TypeOK
<1>4. StackWithin(stack')
  <2>1. CASE /\ Top.step = "funptr"
             /\ Replace([Top EXCEPT !.step = "address", !.todo = Address(Top.item)])
    <3> DEFINE fr == [Top EXCEPT !.step = "address", !.todo = Address(Top.item)]
    <3>1. fr \in Frame /\ fr.item = Top.item /\ fr.step = "address" /\ fr.todo = Address(Top.item)
          /\ fr.targets = Top.targets
      BY <1>1, <1>3, AddressType DEF Frame
    <3>2. FrameWithin(fr)
      BY <1>1, <2>1, <3>1 DEF FrameWithin, TargetsWithin
    <3> QED
      BY <1>1, <2>1, <3>1, <3>2, ReplaceWithin DEF Inv
  <2>2. CASE /\ Top.step = "address"
             /\ Replace([Top EXCEPT !.step = "backtrace", !.todo = Backtrace(Top.item, Top.targets),
                                    !.pts = AddressTaken(Top.item)])
    <3> DEFINE fr == [Top EXCEPT !.step = "backtrace", !.todo = Backtrace(Top.item, Top.targets),
                                 !.pts = AddressTaken(Top.item)]
    <3>1. TargetsWithin(Top.item, Top.targets) /\ Top.targets \in SUBSET Obj
      BY <1>1, <2>2 DEF FrameWithin, Frame
    <3>2. \A x \in Backtrace(Top.item, Top.targets) : x \in Item /\ Ander(x) \subseteq Ander(Top.item)
      BY <1>1, <1>3, <3>1, BacktraceWithin
    <3>3. AddressTaken(Top.item) \subseteq Ander(Top.item) /\ Ander(Top.item) \subseteq Obj
      BY <1>1, <1>3, AddressTakenWithin, AnderType
    <3>4. /\ fr \in Frame /\ fr.item = Top.item /\ fr.step = "backtrace"
          /\ fr.todo = Backtrace(Top.item, Top.targets) /\ fr.pts = AddressTaken(Top.item)
      BY <1>1, <3>2, <3>3 DEF Frame
    <3>5. FrameWithin(fr)
      BY <3>2, <3>3, <3>4 DEF FrameWithin
    <3> QED
      BY <1>1, <2>2, <3>4, <3>5, ReplaceWithin DEF Inv
  <2> QED
    BY <2>1, <2>2 DEF Proceed
<1>5. SearchType' /\ QueryType'
  <2>1. phase \notin {"rest", "start"}
    BY <1>1 DEF Inv
  <2> QED
    BY <1>2, <2>1, Parts DEF SearchType, QueryType, searchVars
<1> QED
  BY <1>2, <1>4, <1>5, Parts, Whole

\* The top frame and what waits for it.
LEMMA TopFrame ==
  ASSUME Inv, stack # <<>>
  PROVE  /\ Top \in Frame /\ FrameWithin(Top) /\ Top.item \in Item
         /\ StackWithin(Below) /\ (Below # <<>> => Top.item \in Below[1].todo)
         /\ phase \notin {"rest", "start"}
<1>1. /\ Top \in Frame /\ FrameWithin(Top)
      /\ StackWithin(Below) /\ (Below # <<>> => Top.item \in Below[1].todo)
  BY Pop DEF Inv, Top, Below
<1>2. Top.item \in Item
  BY <1>1 DEF Frame
<1> QED
  BY <1>1, <1>2 DEF Inv

LEMMA UpdateStep ==
  ASSUME Inv, Update
  PROVE  Inv'
<1>1. /\ stack # <<>> /\ Top.step = "backtrace"
      /\ UNCHANGED <<prog, queries, query, phase, searchVars, outOfBudgetDpms>>
  BY DEF Update
<1>2. Top.pts \subseteq Ander(Top.item)
  BY <1>1, TopFrame DEF FrameWithin
<1>3. StackWithin(stack') /\ ResultsWithin(cached', callees')
  <2>1. CASE Return(Top.item, Below) /\ UNCHANGED <<cached, callees>>
    <3>1. StackWithin(stack')
      BY <1>1, <2>1, TopFrame, ReturnWithin DEF Inv
    <3> QED
      BY <2>1, <3>1, Parts
  <2>2. CASE BeginReCompute(Top.item, Top.pts, Below)
    <3>1. /\ StackWithin(stack')
          /\ cached' \in [Item -> SUBSET Obj] /\ \A x \in Item : cached'[x] \subseteq Ander(x)
          /\ callees' \subseteq prog.calls \X Obj /\ \A c \in callees' : c[2] \in prog.ander[c[1].funPtr]
      BY <1>1, <1>2, <2>2, TopFrame, ReComputeWithin DEF Inv
    <3> QED
      BY <3>1 DEF ResultsWithin
  <2> QED
    BY <2>1, <2>2 DEF Update
<1>4. SearchType' /\ QueryType'
  BY <1>1, TopFrame, Parts DEF SearchType, QueryType, searchVars
<1> QED
  BY <1>1, <1>3, <1>4, Parts, Whole

\* Frames of a recomputation are bound by nothing.
LEMMA ReComputeFrame ==
  ASSUME NEW fr \in Frame, fr.step \in {"newcalls", "recompute"}
  PROVE  FrameWithin(fr)
  BY DEF FrameWithin

LEMMA NextEdgeStep ==
  ASSUME Inv, NextEdge
  PROVE  Inv'
<1>1. /\ stack # <<>> /\ Top.step \in {"newcalls", "recompute"}
      /\ UNCHANGED <<prog, queries, query, phase, searchVars, cached, outOfBudgetDpms, callees>>
  BY DEF NextEdge
<1>2. Top \in Frame /\ Top.item \in Item /\ locToDpm \subseteq Item
  BY <1>1, TopFrame, Parts DEF SearchType
<1>3. StackWithin(stack')
  <2>1. ASSUME NEW e \in Top.edges,
               Replace([Top EXCEPT !.todo = Affected(e, Top.item), !.edges = @ \ {e}])
        PROVE  StackWithin(stack')
    <3> DEFINE fr == [Top EXCEPT !.todo = Affected(e, Top.item), !.edges = @ \ {e}]
    <3>1. Affected(e, Top.item) \in SUBSET Item
      BY <1>2 DEF Affected
    <3>2. fr \in Frame /\ fr.item = Top.item /\ fr.step = Top.step
      BY <1>2, <3>1 DEF Frame
    <3> QED
      BY <1>1, <2>1, <3>2, ReComputeFrame, ReplaceWithin DEF Inv
  <2>2. CASE Replace([Top EXCEPT !.step = "recompute", !.edges = OutEdges(Top.item[1])])
    <3> DEFINE fr == [Top EXCEPT !.step = "recompute", !.edges = OutEdges(Top.item[1])]
    <3>1. OutEdges(Top.item[1]) \in SUBSET EdgeType
      BY OutEdgesType DEF Inv, TypeOK
    <3>2. fr \in Frame /\ fr.item = Top.item /\ fr.step = "recompute"
      BY <1>2, <3>1 DEF Frame, EdgeType
    <3> QED
      BY <1>1, <2>2, <3>2, ReComputeFrame, ReplaceWithin DEF Inv
  <2>3. CASE Return(Top.item, Below)
    BY <1>1, <2>3, TopFrame, ReturnWithin DEF Inv
  <2> QED
    BY <2>1, <2>2, <2>3 DEF NextEdge
<1>4. SearchType' /\ QueryType'
  BY <1>1, TopFrame, Parts DEF SearchType, QueryType, searchVars
<1> QED
  BY <1>1, <1>3, <1>4, Parts, Whole

LEMMA QueryItem ==
  ASSUME Inv, phase # "rest"
  PROVE  query \in Item /\ query[1] \in Var /\ query = VarItem(query[1])
<1>1. query \in {VarItem(v) : v \in Var}
  BY Parts DEF QueryType
<1> QED
  BY <1>1, ItemsMade

LEMMA ResetStep ==
  ASSUME Inv, NEW v \in queries, ResetQuery(v)
  PROVE  Inv'
<1>1. v \in Var /\ queries \subseteq Var /\ phase = "rest" /\ stack = <<>>
  BY Parts DEF ResetQuery, QueryType
<1>2. VarItem(v) # NoItem
  BY <1>1, ItemsMade, NoItemAssumption
<1>3. SearchType'
  <2>1. VisitedAfterReset \subseteq Item
    BY Parts DEF VisitedAfterReset, SearchType
  <2> QED
    BY <2>1 DEF ResetQuery, SearchType
<1>4. QueryType'
  BY <1>1, <1>2, Parts DEF QueryType, ResetQuery
<1>5. UNCHANGED <<prog, cached, callees, stack>>
  BY DEF ResetQuery
<1> QED
  BY <1>3, <1>4, <1>5, Parts, Whole

LEMMA StartStep ==
  ASSUME Inv, StartQuery
  PROVE  Inv'
<1>1. /\ phase = "start" /\ phase' = "search" /\ stack = <<>> /\ FindPT(query, backwardVisited, <<>>)
      /\ UNCHANGED <<prog, queries, query, cached, outOfBudgetDpms, callees>>
  BY Parts DEF StartQuery, QueryType
<1>2. query \in Item /\ backwardVisited \in SUBSET Item
  BY <1>1, QueryItem, Parts DEF SearchType
<1>3. /\ StackWithin(stack') /\ backwardVisited' \subseteq Item /\ locToDpm' \subseteq Item
      /\ numOfStep' \in Nat /\ outOfBudgetQuery' \in BOOLEAN
  BY <1>1, <1>2, EmptyWithin, FindPTWithin DEF Inv
<1>4. SearchType' /\ QueryType'
  BY <1>1, <1>3, Parts DEF SearchType, QueryType
<1> QED
  BY <1>1, <1>3, <1>4, Parts, Whole

LEMMA AnswerStep ==
  ASSUME Inv, Answer \/ AnswerDowngraded
  PROVE  Inv'
<1>1. /\ stack = <<>> /\ query' = NoItem /\ phase' = "rest" /\ phase # "rest"
      /\ UNCHANGED <<prog, queries, searchVars, cached, callees, stack>>
      /\ outOfBudgetDpms' \in {outOfBudgetDpms, outOfBudgetDpms \cup {query}}
  BY DEF Answer, AnswerDowngraded
<1>2. query \in Item
  BY <1>1, QueryItem
<1>3. SearchType' /\ QueryType'
  BY <1>1, <1>2, Parts DEF SearchType, QueryType, searchVars
<1> QED
  BY <1>1, <1>3, Parts, Whole

LEMMA DowngradeStep ==
  ASSUME Inv, Downgrade
  PROVE  Inv'
<1>1. /\ phase = "search" /\ phase' = "downgraded" /\ stack = <<>>
      /\ UNCHANGED <<prog, queries, query, searchVars, outOfBudgetDpms>>
  BY DEF Downgrade
<1>2. query \in Item /\ prog.ander[query[1]] \subseteq Ander(query)
  BY <1>1, QueryItem DEF Ander
<1>3. StackWithin(stack') /\ ResultsWithin(cached', callees')
  <2>1. CASE UNCHANGED <<cached, callees, stack>>
    BY <1>1, <2>1, EmptyWithin, Parts
  <2>2. CASE BeginReCompute(query, prog.ander[query[1]], <<>>)
    BY <1>2, <2>2, EmptyWithin, ReComputeWithin DEF Inv, ResultsWithin
  <2> QED
    BY <2>1, <2>2 DEF Downgrade
<1>4. SearchType' /\ QueryType'
  BY <1>1, Parts DEF SearchType, QueryType, searchVars
<1> QED
  BY <1>1, <1>3, <1>4, Parts, Whole

LEMMA InitInv == Init => Inv
<1> SUFFICES ASSUME Init PROVE Inv
  OBVIOUS
<1>1. WellFormed(prog)
  BY ProgramsAssumption DEF Init
<1>2. SearchType /\ QueryType
  BY <1>1, ProgramFields DEF Init, SearchType, QueryType
<1>3. TypeOK
  BY <1>1, <1>2, EmptySeq DEF Init, TypeOK, SearchType, QueryType
<1>4. WithinAndersen /\ CalleesWithin
  BY DEF Init, WithinAndersen, CalleesWithin
<1> QED
  BY <1>3, <1>4, EmptyWithin DEF Inv, Init

LEMMA NextInv == Inv /\ [Next]_vars => Inv'
<1> SUFFICES ASSUME Inv, [Next]_vars PROVE Inv'
  OBVIOUS
<1>1. CASE Step
  BY <1>1, ResetStep, StartStep, CallStep, ProceedStep, UpdateStep, NextEdgeStep,
     AnswerStep, DowngradeStep DEF Step
<1>2. CASE UNCHANGED vars
  <2>1. /\ UNCHANGED <<prog, queries, query, phase, cached, outOfBudgetDpms, callees, stack>>
        /\ UNCHANGED searchVars
    BY <1>2 DEF vars
  <2>2. SearchType' /\ QueryType'
    BY <2>1, Parts DEF SearchType, QueryType, searchVars
  <2> QED
    BY <2>1, <2>2, Parts, Whole
<1> QED
  BY <1>1, <1>2 DEF Next

-----------------------------------------------------------------------------
(* The whole-program analysis settles every node it takes off its worklist *)
(* and ends with the least solution, for every value-flow graph and every  *)
(* order of the worklist.  What makes that inductive is what a missing     *)
(* flag says: the node has passed that IN set on.                          *)

Flags ==
    /\ \A v \in Var : \A o \in Obj : <<v, o>> \notin inUpdated => dfIn[<<v, o>>] \subseteq pts[v]
    /\ \A s \in Store : \A o \in Obj : <<s, o>> \notin inUpdated => dfIn[<<s, o>>] \subseteq dfOut[<<s, o>>]
    /\ \A n \in MemRef : \A o \in Obj : <<n, o>> \notin inUpdated => dfIn[<<n, o>>] = {}

CalleesResolved == callees \subseteq Resolved(pts)

FSInv == FSTypeOK /\ FSSettled /\ Flags /\ CalleesResolved

InSets == [Node \X Obj -> SUBSET Obj]
OutSets == [Store \X Obj -> SUBSET Obj]
-----------------------------------------------------------------------------
(* The graph. *)

LEMMA GraphEdges ==
  ASSUME FSTypeOK
  PROVE  /\ Direct \subseteq Var \X Var /\ Indirect \subseteq IndirectEdges
         /\ prog.load \subseteq Var \X Var /\ prog.addr \subseteq Obj \X Var
         /\ prog.storeDst \in [Store -> Var] /\ prog.storeSrc \in [Store -> Var]
         /\ NewFlows \subseteq IndirectEdges
<1>1. prog \in ProgramType
  BY DEF FSTypeOK, WellFormed
<1>2. \A c \in prog.calls \X Obj :
          c[1].direct[c[2]] \subseteq Var \X Var /\ c[1].indirect[c[2]] \subseteq IndirectEdges
  BY <1>1 DEF ProgramType, CallSites
<1>3. callees \subseteq prog.calls \X Obj /\ FSNewCallees \subseteq prog.calls \X Obj
  BY DEF FSTypeOK, FSNewCallees
<1>4. prog.copy \subseteq Var \X Var /\ prog.indirect \subseteq IndirectEdges
  BY <1>1 DEF ProgramType
<1>5. Direct \subseteq Var \X Var /\ Indirect \subseteq IndirectEdges
  BY <1>2, <1>3, <1>4 DEF Direct, Indirect
<1>6. NewFlows \subseteq IndirectEdges
  BY <1>2, <1>3 DEF NewFlows
<1> QED
  BY <1>1, <1>5, <1>6 DEF ProgramType

LEMMA CarriedSets ==
  ASSUME FSTypeOK, NEW edges, edges \subseteq IndirectEdges, NEW sent, NEW out \in OutSets
  PROVE  LET in == Carried(edges, sent, out)
         IN  /\ in \in InSets
             /\ \A l \in Node \X Obj : dfIn[l] \subseteq in[l]
             /\ \A e \in edges : \A o \in e.guard :
                    <<e.src, o>> \in sent => Passed(e.src, o, out) \subseteq in[<<e.dst, o>>]
             /\ \A l \in Node \X Obj : \A x \in in[l] :
                    x \in dfIn[l] \/ \E e \in edges : /\ e.dst = l[1] /\ l[2] \in e.guard
                                                      /\ <<e.src, l[2]>> \in sent
                                                      /\ x \in Passed(e.src, l[2], out)
<1> DEFINE in == Carried(edges, sent, out)
           Into(l) == {i \in edges : i.dst = l[1] /\ l[2] \in i.guard /\ <<i.src, l[2]>> \in sent}
<1>1. \A e \in edges : \A o \in e.guard :
          /\ e.src \in Node /\ e.dst \in Node /\ o \in Obj
          /\ Passed(e.src, o, out) \subseteq Obj
  BY DEF FSTypeOK, IndirectEdges, Node, Passed, InSets, OutSets
<1>2. \A l \in Node \X Obj : in[l] = dfIn[l] \cup UNION {Passed(e.src, l[2], out) : e \in Into(l)}
  BY DEF Carried
<1>3. \A l \in Node \X Obj : dfIn[l] \subseteq Obj
  BY DEF FSTypeOK
<1>4. ASSUME NEW l \in Node \X Obj PROVE in[l] \subseteq Obj
  <2>1. \A e \in Into(l) : Passed(e.src, l[2], out) \subseteq Obj
    BY <1>1
  <2> HIDE DEF Into
  <2>2. in[l] = dfIn[l] \cup UNION {Passed(e.src, l[2], out) : e \in Into(l)}
    BY <1>2
  <2> QED
    BY <1>3, <2>1, <2>2
<1>5. in \in InSets
  BY <1>4 DEF Carried, InSets
<1>6. ASSUME NEW e \in edges, NEW o \in e.guard, <<e.src, o>> \in sent
      PROVE  Passed(e.src, o, out) \subseteq in[<<e.dst, o>>]
  <2>1. <<e.dst, o>> \in Node \X Obj /\ e \in Into(<<e.dst, o>>)
    BY <1>1, <1>6
  <2> QED
    BY <1>2, <2>1
<1> QED
  BY <1>2, <1>5, <1>6
-----------------------------------------------------------------------------
(* Types. *)

LEMMA PropagateTypes ==
  ASSUME FSTypeOK, NEW edges, edges \subseteq IndirectEdges, NEW sent, NEW out \in OutSets,
         NEW flags, flags \subseteq Node \X Obj, NEW rest, rest \subseteq Node,
         Propagate(edges, sent, out, flags, rest)
  PROVE  dfIn' \in InSets /\ inUpdated' \subseteq Node \X Obj /\ worklist' \subseteq Node
<1>1. dfIn' \in InSets
  BY CarriedSets DEF Propagate
<1> QED
  BY <1>1 DEF Propagate

LEMMA StoredTypes ==
  ASSUME FSTypeOK, NEW s \in Store, NEW targets \in SUBSET Obj
  PROVE  Stored(s, targets) \in OutSets
<1>1. prog.storeSrc[s] \in Var /\ pts[prog.storeSrc[s]] \subseteq Obj
  BY GraphEdges DEF FSTypeOK
<1>2. \A l \in Store \X Obj : l \in Node \X Obj /\ dfIn[l] \subseteq Obj /\ dfOut[l] \subseteq Obj
  BY DEF FSTypeOK, Node
<1> QED
  BY <1>1, <1>2 DEF Stored, OutSets

LEMMA ValueTypes ==
  ASSUME FSTypeOK, NEW v \in Var
  PROVE  Value(v) \subseteq Obj /\ Fresh(v) \subseteq Obj
<1>1. \A e \in Direct : e[1] \in Var /\ pts[e[1]] \subseteq Obj
  BY GraphEdges DEF FSTypeOK
<1>2. \A e \in prog.addr : e[1] \in Obj
  BY GraphEdges
<1>3. \A e \in prog.load : e[1] \in Var /\ pts[e[1]] \subseteq Obj
  BY GraphEdges DEF FSTypeOK
<1>4. Targets(v) \subseteq Obj
  BY <1>3 DEF Targets
<1>5. \A o \in Obj : dfIn[<<v, o>>] \subseteq Obj
  BY DEF FSTypeOK, Node
<1>6. Fresh(v) \subseteq Obj
  BY <1>4 DEF Fresh
<1>7. UNION {dfIn[<<v, o>>] : o \in Fresh(v)} \subseteq Obj
  BY <1>5, <1>6
<1>8. UNION {pts[e[1]] : e \in {c \in Direct : c[2] = v}} \subseteq Obj
  BY <1>1
<1>9. {e[1] : e \in {c \in prog.addr : c[2] = v}} \subseteq Obj
  BY <1>2
<1> QED
  BY <1>6, <1>7, <1>8, <1>9 DEF Value

LEMMA TypePreserved ==
  ASSUME FSTypeOK, [FSNext]_<<prog, callees, fsVars>>
  PROVE  FSTypeOK'
<1>1. CASE UNCHANGED <<prog, callees, fsVars>>
  BY <1>1 DEF fsVars, FSTypeOK
<1>2. ASSUME NEW v \in Var, ProcessVar(v), UNCHANGED <<prog, callees, fsPhase>>
      PROVE  FSTypeOK'
  <2>1. pts' \in [Var -> SUBSET Obj]
    BY <1>2, ValueTypes DEF ProcessVar, FSTypeOK
  <2>2. Uses(v) \subseteq Node
    BY GraphEdges DEF Uses, Node
  <2> QED
    BY <1>2, <2>1, <2>2 DEF ProcessVar, Pushed, FSTypeOK
<1>3. ASSUME NEW s \in Store, ProcessStore(s), UNCHANGED <<prog, callees, fsPhase>>
      PROVE  FSTypeOK'
  <2> DEFINE targets == pts[prog.storeDst[s]]
             out == Stored(s, targets)
  <2>1. targets \in SUBSET Obj
    BY GraphEdges DEF FSTypeOK
  <2>2. out \in OutSets
    BY <2>1, StoredTypes
  <2>3. dfIn' \in InSets /\ inUpdated' \subseteq Node \X Obj /\ worklist' \subseteq Node
    <3> HIDE DEF out, targets
    <3>1. IndirectFrom(s) \subseteq IndirectEdges
      BY GraphEdges DEF IndirectFrom
    <3>2. inUpdated \ Used(s, targets) \subseteq Node \X Obj /\ worklist \ {s} \subseteq Node
      BY DEF FSTypeOK
    <3>3. Propagate(IndirectFrom(s), {l \in Store \X Obj : out[l] # dfOut[l]}, out,
                    inUpdated \ Used(s, targets), worklist \ {s})
      BY <1>3 DEF ProcessStore, out, targets
    <3> QED
      BY <2>2, <3>1, <3>2, <3>3, PropagateTypes
  <2>4. dfOut' \in OutSets
    BY <1>3, <2>2 DEF ProcessStore
  <2> QED
    BY <1>3, <2>3, <2>4 DEF ProcessStore, FSTypeOK, InSets, OutSets
<1>4. ASSUME NEW n \in MemRef, ProcessMemRef(n), UNCHANGED <<prog, callees, fsPhase>>
      PROVE  FSTypeOK'
  <2>1. IndirectFrom(n) \subseteq IndirectEdges
    BY GraphEdges DEF IndirectFrom
  <2>2. dfOut \in OutSets /\ inUpdated \subseteq Node \X Obj /\ worklist \ {n} \subseteq Node
    BY DEF FSTypeOK, OutSets
  <2>3. dfIn' \in InSets /\ inUpdated' \subseteq Node \X Obj /\ worklist' \subseteq Node
    BY <1>4, <2>1, <2>2, PropagateTypes DEF ProcessMemRef
  <2> QED
    BY <1>4, <2>3 DEF ProcessMemRef, FSTypeOK, InSets
<1>5. CASE UpdateCallGraph
  <2>1. callees' \subseteq prog.calls \X Obj
    BY <1>5 DEF UpdateCallGraph, FSNewCallees, FSTypeOK
  <2>2. CASE FSNewCallees = {}
    BY <1>5, <2>1, <2>2 DEF UpdateCallGraph, FSTypeOK
  <2>3. CASE FSNewCallees # {}
    <3>1. dfIn' \in InSets /\ inUpdated' \subseteq Node \X Obj /\ worklist' \subseteq Node
      BY <1>5, <2>3, GraphEdges, PropagateTypes DEF UpdateCallGraph, FSTypeOK, OutSets
    <3> QED
      BY <1>5, <2>1, <2>3, <3>1 DEF UpdateCallGraph, FSTypeOK, InSets
  <2> QED
    BY <2>2, <2>3
<1> QED
  BY <1>1, <1>2, <1>3, <1>4, <1>5 DEF FSNext, FSStep, ProcessNode

\* Every state is well typed, for every graph.
THEOREM FSTypeCorrect == FSSpec => []FSTypeOK
<1>1. FSInit => FSTypeOK
  <2>1. \A P \in Programs : WellFormed(P)
    BY ProgramsAssumption
  <2> QED
    BY <2>1 DEF FSInit, FSTypeOK
<1>2. FSTypeOK /\ [FSNext]_<<prog, callees, fsVars>> => FSTypeOK'
  BY TypePreserved
<1> QED
  BY <1>1, <1>2, PTL DEF FSSpec
-----------------------------------------------------------------------------
(* What propagation, a store and a variable's node achieve. *)

\* What holds after Propagate of the edges it carried along and of those of
\* before: every node whose IN set grew is on the worklist, with a flag.
LEMMA Propagated ==
  ASSUME FSTypeOK, NEW edges, edges \subseteq IndirectEdges, NEW sent, NEW out \in OutSets,
         NEW flags, NEW rest, Propagate(edges, sent, out, flags, rest)
  PROVE  /\ \A l \in Node \X Obj : dfIn[l] \subseteq dfIn'[l]
         /\ \A l \in Node \X Obj : dfIn'[l] # dfIn[l] => l \in inUpdated' /\ l[1] \in worklist'
         /\ flags \subseteq inUpdated' /\ rest \subseteq worklist'
         /\ \A e \in edges : \A o \in e.guard :
                <<e.src, o>> \in sent => Passed(e.src, o, out) \subseteq dfIn'[<<e.dst, o>>]
<1> DEFINE new == {l \in Node \X Obj : ~(dfIn'[l] \subseteq dfIn[l])}
<1>1. dfIn' = Carried(edges, sent, out)
  BY DEF Propagate
<1>2. inUpdated' = flags \cup new /\ worklist' = rest \cup {l[1] : l \in new}
  BY DEF Propagate
<1>3. \A l \in Node \X Obj : dfIn[l] \subseteq dfIn'[l]
  BY <1>1, CarriedSets
<1>4. \A l \in Node \X Obj : dfIn'[l] # dfIn[l] => l \in new
  BY <1>3
<1>5. \A e \in edges : \A o \in e.guard :
         <<e.src, o>> \in sent => Passed(e.src, o, out) \subseteq dfIn'[<<e.dst, o>>]
  BY <1>1, CarriedSets
<1> QED
  BY <1>2, <1>3, <1>4, <1>5

LEMMA StoredIs ==
  ASSUME FSTypeOK, NEW s \in Store, NEW targets, NEW l \in Store \X Obj
  PROVE  /\ l[1] # s => Stored(s, targets)[l] = dfOut[l]
         /\ dfOut[l] \subseteq Stored(s, targets)[l]
         /\ l[1] = s /\ l[2] \in targets => pts[prog.storeSrc[s]] \subseteq Stored(s, targets)[l]
         /\ l[1] = s /\ l \in inUpdated /\ PassesBy(targets, l[2]) => dfIn[l] \subseteq Stored(s, targets)[l]
         /\ \A x \in Stored(s, targets)[l] :
               \/ x \in dfOut[l]
               \/ l[1] = s /\ l[2] \in targets /\ x \in pts[prog.storeSrc[s]]
               \/ l[1] = s /\ PassesBy(targets, l[2]) /\ x \in dfIn[l]
  BY DEF Stored

\* Where nothing a node's constraint reads has changed, it still holds.
LEMMA VarUnchanged ==
  ASSUME NEW v \in Var, VarSolved(v), UNCHANGED <<prog, callees>>, pts[v] \subseteq pts'[v], FSTypeOK,
         \A e \in Direct \cup prog.load : e[2] = v => pts'[e[1]] = pts[e[1]],
         \A o \in Obj : dfIn'[<<v, o>>] = dfIn[<<v, o>>]
  PROVE  VarSolved(v)'
<1>1. Direct' = Direct /\ prog' = prog
  BY DEF Direct
<1>2. \A e \in prog.load : \A o \in pts[e[1]] : o \in Obj
  BY GraphEdges DEF FSTypeOK
<1> QED
  BY <1>1, <1>2 DEF VarSolved

LEMMA StoreUnchanged ==
  ASSUME NEW s \in Store, StoreSolved(s), UNCHANGED prog,
         pts'[prog.storeDst[s]] = pts[prog.storeDst[s]], pts'[prog.storeSrc[s]] = pts[prog.storeSrc[s]],
         \A o \in Obj : dfIn'[<<s, o>>] = dfIn[<<s, o>>] /\ dfOut[<<s, o>>] \subseteq dfOut'[<<s, o>>]
  PROVE  StoreSolved(s)'
<1> DEFINE targets == pts[prog.storeDst[s]]
<1>1. \A o \in Obj : PassesBy(targets, o)' <=> PassesBy(targets, o)
  BY DEF PassesBy, IsStrongUpdate
<1> QED
  BY <1>1 DEF StoreSolved
-----------------------------------------------------------------------------
(* One node after the other. *)

LEMMA VarStep ==
  ASSUME FSInv, NEW v \in Var, v \in worklist, ProcessVar(v), UNCHANGED <<prog, callees, fsPhase>>,
         fsPhase = "solve"
  PROVE  FSSettled' /\ Flags' /\ CalleesResolved'
<1> USE DEF FSInv
<1>1. /\ pts' = [pts EXCEPT ![v] = @ \cup Value(v)]
      /\ inUpdated' = inUpdated \ {<<v, o>> : o \in Fresh(v)}
      /\ worklist' = (worklist \ {v}) \cup Pushed(v)
      /\ UNCHANGED <<dfIn, dfOut>>
  BY DEF ProcessVar
<1>2. pts'[v] = pts[v] \cup Value(v) /\ \A u \in Var : pts[u] \subseteq pts'[u] /\ (u # v => pts'[u] = pts[u])
  BY <1>1 DEF FSTypeOK
<1>3. Value(v) \subseteq pts[v] => pts' = pts
  BY <1>2, <1>1 DEF FSTypeOK
<1>4. pts' # pts => Pushed(v) = Uses(v)
  BY <1>3 DEF Pushed
<1>5. \A n \in Node \ worklist' : n = v \/ n \notin worklist
  BY <1>1
<1>6. ASSUME NEW u \in Var \ worklist', u # v PROVE VarSolved(u)'
  <2>1. VarSolved(u)
    BY <1>5, <1>6 DEF FSSettled, Node
  <2>2. ASSUME NEW e \in Direct \cup prog.load, e[2] = u PROVE pts'[e[1]] = pts[e[1]]
    <3>1. pts' # pts => e[1] # v
      BY <1>1, <1>4, <2>2, <1>6 DEF Uses
    <3> QED
      BY <1>2, <3>1, <2>2, GraphEdges
  <2> QED
    BY <1>1, <1>2, <2>1, <2>2, VarUnchanged
<1>7. v \in worklist' \/ VarSolved(v)'
  <2>1. ASSUME v \notin worklist', NEW e \in Direct \cup prog.load, e[2] = v
        PROVE  pts'[e[1]] = pts[e[1]] /\ e[1] \in Var
    <3>1. pts' # pts => e[1] # v
      BY <1>1, <1>4, <2>1 DEF Uses
    <3> QED
      BY <1>2, <3>1, <2>1, GraphEdges
  <2>2. SUFFICES ASSUME v \notin worklist' PROVE VarSolved(v)'
    OBVIOUS
  <2>3. Direct' = Direct /\ prog' = prog
    BY DEF Direct
  <2>4. \A e \in prog.addr : e[2] = v => e[1] \in pts'[v]
    BY <1>2 DEF Value
  <2>5. \A e \in Direct : e[2] = v => pts'[e[1]] \subseteq pts'[v]
    BY <1>2, <2>1, <2>2 DEF Value
  <2>6. ASSUME NEW e \in prog.load, e[2] = v, NEW o \in pts'[e[1]] PROVE dfIn[<<v, o>>] \subseteq pts'[v]
    <3>1. o \in Obj /\ o \in Targets(v)
      BY <2>1, <2>2, <2>6 DEF FSTypeOK, Targets
    <3>2. CASE <<v, o>> \in inUpdated
      BY <1>2, <3>1, <3>2 DEF Fresh, Value
    <3>3. CASE <<v, o>> \notin inUpdated
      BY <1>2, <3>1, <3>3 DEF Flags
    <3> QED
      BY <3>2, <3>3
  <2> QED
    BY <1>1, <2>3, <2>4, <2>5, <2>6 DEF VarSolved
<1>8. ASSUME NEW s \in Store \ worklist' PROVE StoreSolved(s)'
  <2>1. StoreSolved(s)
    BY <1>5, NodeAssumption DEF FSSettled, Node
  <2>2. prog.storeDst[s] \in Var /\ prog.storeSrc[s] \in Var
    BY GraphEdges
  <2>3. pts' # pts => prog.storeDst[s] # v /\ prog.storeSrc[s] # v
    BY <1>1, <1>4 DEF Uses
  <2> QED
    BY <1>1, <1>2, <2>1, <2>2, <2>3, StoreUnchanged
<1>9. ASSUME NEW e \in Indirect', e.src \in Store \/ e.src \notin worklist' PROVE FlowSolved(e)'
  <2>1. e \in Indirect /\ e.src \in Store \cup MemRef
    BY GraphEdges DEF Indirect, IndirectEdges
  <2>2. e.src \in Store \/ e.src \notin worklist
    BY <1>5, <1>9, <2>1, NodeAssumption DEF Node
  <2> QED
    BY <1>1, <2>1, <2>2 DEF FSSettled, FlowSolved, Passed
<1>10. Flags'
  <2>1. ASSUME NEW u \in Var, NEW o \in Obj, <<u, o>> \notin inUpdated' PROVE dfIn[<<u, o>>] \subseteq pts'[u]
    <3>1. CASE <<u, o>> \notin inUpdated
      BY <1>2, <3>1 DEF Flags
    <3>2. CASE u = v /\ o \in Fresh(v)
      BY <1>2, <3>2 DEF Value
    <3> QED
      BY <1>1, <2>1, <3>1, <3>2
  <2>2. \A n \in Store \cup MemRef : \A o \in Obj : <<n, o>> \notin inUpdated' => <<n, o>> \notin inUpdated
    BY <1>1, NodeAssumption
  <2> QED
    BY <1>1, <2>1, <2>2 DEF Flags
<1>11. CalleesResolved'
  <2>1. \A c \in Resolved(pts) : c[1].funPtr \in Var
    BY DEF Resolved, FSTypeOK, WellFormed, ProgramType, CallSites
  <2> QED
    BY <1>2, <2>1 DEF CalleesResolved, Resolved
<1>12. FSSettled'
  BY <1>6, <1>7, <1>8, <1>9 DEF FSSettled, FSDone
<1> QED
  BY <1>10, <1>11, <1>12

\* The constraints of the variables, and of the edges of other nodes, after
\* a node has only sent contents of objects along its edges.
LEMMA SentOnly ==
  ASSUME FSInv, NEW n \in Store \cup MemRef, NEW sent, NEW out \in OutSets, NEW flags,
         Propagate(IndirectFrom(n), sent, out, flags, worklist \ {n}),
         UNCHANGED <<prog, callees, fsPhase, pts>>, fsPhase = "solve",
         \A l \in Store \X Obj : dfOut[l] \subseteq dfOut'[l] /\ (l[1] # n => dfOut'[l] = dfOut[l])
  PROVE  /\ \A v \in Var \ worklist' : VarSolved(v)'
         /\ \A s \in Store \ worklist' : s # n => StoreSolved(s)'
         /\ \A e \in Indirect' : e.src # n /\ (e.src \in Store \/ e.src \notin worklist') => FlowSolved(e)'
         /\ CalleesResolved'
<1> USE DEF FSInv
<1>1. IndirectFrom(n) \subseteq IndirectEdges
  BY GraphEdges DEF IndirectFrom
<1>2. /\ \A l \in Node \X Obj : dfIn[l] \subseteq dfIn'[l]
      /\ \A l \in Node \X Obj : dfIn'[l] # dfIn[l] => l[1] \in worklist'
      /\ worklist \ {n} \subseteq worklist'
  BY <1>1, Propagated
<1>3. \A k \in Node \ worklist' : \A o \in Obj : dfIn'[<<k, o>>] = dfIn[<<k, o>>]
  BY <1>2
<1>4. ASSUME NEW v \in Var \ worklist' PROVE VarSolved(v)'
  <2>1. v # n /\ v \in Node
    BY NodeAssumption DEF Node
  <2>2. VarSolved(v)
    BY <1>2, <2>1 DEF FSSettled
  <2> QED
    BY <1>3, <2>1, <2>2, VarUnchanged
<1>5. ASSUME NEW s \in Store \ worklist', s # n PROVE StoreSolved(s)'
  <2>1. StoreSolved(s) /\ s \in Node
    BY <1>2, <1>5 DEF FSSettled, Node
  <2>2. \A o \in Obj : dfIn'[<<s, o>>] = dfIn[<<s, o>>] /\ dfOut[<<s, o>>] \subseteq dfOut'[<<s, o>>]
    BY <1>3, <2>1
  <2> QED
    BY <2>1, <2>2, StoreUnchanged
<1>6. ASSUME NEW e \in Indirect', e.src # n, e.src \in Store \/ e.src \notin worklist' PROVE FlowSolved(e)'
  <2>1. e \in Indirect /\ e.src \in Store \cup MemRef /\ e.dst \in Node /\ e.guard \subseteq Obj
    BY GraphEdges DEF Indirect, IndirectEdges, Node
  <2>2. FlowSolved(e)
    BY <1>2, <1>6, <2>1 DEF FSSettled
  <2>3. ASSUME NEW o \in e.guard PROVE Passed(e.src, o, dfOut)' = Passed(e.src, o, dfOut)
    <3>1. CASE e.src \in Store
      BY <1>6, <2>1, <3>1 DEF Passed
    <3>2. CASE e.src \notin Store
      BY <1>3, <1>6, <2>1, <3>2 DEF Passed, Node
    <3> QED
      BY <3>1, <3>2
  <2>4. \A o \in e.guard : dfIn[<<e.dst, o>>] \subseteq dfIn'[<<e.dst, o>>]
    BY <1>2, <2>1
  <2> QED
    BY <2>2, <2>3, <2>4 DEF FlowSolved
<1>7. CalleesResolved'
  BY DEF CalleesResolved, Resolved
<1> QED
  BY <1>4, <1>5, <1>6, <1>7

LEMMA MemRefStep ==
  ASSUME FSInv, NEW n \in MemRef, ProcessMemRef(n), UNCHANGED <<prog, callees, fsPhase>>, fsPhase = "solve"
  PROVE  FSSettled' /\ Flags' /\ CalleesResolved'
<1> USE DEF FSInv
<1>1. /\ Propagate(IndirectFrom(n), inUpdated, dfOut, inUpdated, worklist \ {n})
      /\ UNCHANGED <<pts, dfOut>>
  BY DEF ProcessMemRef
<1>2. IndirectFrom(n) \subseteq IndirectEdges /\ dfOut \in OutSets /\ n \notin Store
  BY GraphEdges, NodeAssumption DEF IndirectFrom, OutSets, FSTypeOK
<1>3. /\ \A l \in Node \X Obj : dfIn[l] \subseteq dfIn'[l]
      /\ \A l \in Node \X Obj : dfIn'[l] # dfIn[l] => l \in inUpdated' /\ l[1] \in worklist'
      /\ inUpdated \subseteq inUpdated'
      /\ \A e \in IndirectFrom(n) : \A o \in e.guard :
             <<e.src, o>> \in inUpdated => Passed(e.src, o, dfOut) \subseteq dfIn'[<<e.dst, o>>]
  <2> DEFINE E == IndirectFrom(n)
             rest == worklist \ {n}
  <2>1. E \subseteq IndirectEdges /\ dfOut \in OutSets /\ FSTypeOK
        /\ Propagate(E, inUpdated, dfOut, inUpdated, rest)
    BY <1>1, <1>2
  <2> HIDE DEF E, rest, FSInv
  <2>2. /\ \A l \in Node \X Obj : dfIn[l] \subseteq dfIn'[l]
        /\ \A l \in Node \X Obj : dfIn'[l] # dfIn[l] => l \in inUpdated' /\ l[1] \in worklist'
        /\ inUpdated \subseteq inUpdated'
    BY <2>1, Propagated
  <2>3. \A e \in E : \A o \in e.guard :
             <<e.src, o>> \in inUpdated => Passed(e.src, o, dfOut) \subseteq dfIn'[<<e.dst, o>>]
    BY <2>1, Propagated
  <2> QED
    BY <2>2, <2>3 DEF E
<1>4. /\ \A v \in Var \ worklist' : VarSolved(v)'
      /\ \A s \in Store \ worklist' : StoreSolved(s)'
      /\ \A e \in Indirect' : e.src # n /\ (e.src \in Store \/ e.src \notin worklist') => FlowSolved(e)'
      /\ CalleesResolved'
  BY <1>1, <1>2, SentOnly
<1>5. ASSUME NEW e \in Indirect', e.src = n, n \notin worklist' PROVE FlowSolved(e)'
  <2>1. e \in IndirectFrom(n) /\ e.guard \subseteq Obj
    BY <1>5, GraphEdges DEF Indirect, IndirectFrom, IndirectEdges
  <2>2. ASSUME NEW o \in e.guard PROVE dfIn'[<<n, o>>] \subseteq dfIn'[<<e.dst, o>>]
    <3>1. dfIn'[<<n, o>>] = dfIn[<<n, o>>]
      BY <1>3, <1>5, <2>1 DEF Node
    <3>2. CASE <<n, o>> \in inUpdated
      BY <1>2, <1>3, <1>5, <2>1, <3>1, <3>2 DEF Passed
    <3>3. CASE <<n, o>> \notin inUpdated
      BY <2>1, <3>1, <3>3 DEF Flags
    <3> QED
      BY <3>2, <3>3
  <2> QED
    BY <1>2, <1>5, <2>2 DEF FlowSolved, Passed
<1>6. Flags'
  <2>1. \A l \in Node \X Obj : l \notin inUpdated' => l \notin inUpdated /\ dfIn'[l] = dfIn[l]
    BY <1>3
  <2> QED
    BY <1>1, <2>1 DEF Flags, Node
<1>7. \A e \in Indirect' : e.src \in Store \/ e.src \notin worklist' => FlowSolved(e)'
  <2>1. SUFFICES ASSUME NEW e \in Indirect', e.src \in Store \/ e.src \notin worklist' PROVE FlowSolved(e)'
    OBVIOUS
  <2>2. CASE e.src = n
    BY <1>2, <1>5, <2>1, <2>2
  <2>3. CASE e.src # n
    BY <1>4, <2>1, <2>3
  <2> QED
    BY <2>2, <2>3
<1>8. FSSettled'
  BY <1>4, <1>7 DEF FSSettled, FSDone
<1> QED
  BY <1>4, <1>6, <1>8

LEMMA StoreStep ==
  ASSUME FSInv, NEW s \in Store, ProcessStore(s), UNCHANGED <<prog, callees, fsPhase>>, fsPhase = "solve"
  PROVE  FSSettled' /\ Flags' /\ CalleesResolved'
<1> USE DEF FSInv
<1> DEFINE targets == pts[prog.storeDst[s]]
           out == Stored(s, targets)
           sent == {l \in Store \X Obj : out[l] # dfOut[l]}
           flags == inUpdated \ Used(s, targets)
<1>1. /\ dfOut' = out /\ UNCHANGED pts
      /\ Propagate(IndirectFrom(s), sent, out, flags, worklist \ {s})
  BY DEF ProcessStore
<1>2. targets \in SUBSET Obj /\ IndirectFrom(s) \subseteq IndirectEdges
  BY GraphEdges DEF IndirectFrom, FSTypeOK
<1>3. out \in OutSets
  BY <1>2, StoredTypes
<1>4. \A l \in Store \X Obj : l \in Node \X Obj /\ dfOut[l] \subseteq dfOut'[l] /\ (l[1] # s => dfOut'[l] = dfOut[l])
  BY <1>1, StoredIs DEF Node
<1>5. ASSUME NEW o \in Obj
      PROVE  /\ o \in targets => pts[prog.storeSrc[s]] \subseteq dfOut'[<<s, o>>]
             /\ PassesBy(targets, o) => dfIn[<<s, o>>] \subseteq dfOut'[<<s, o>>]
  <2>1. <<s, o>> \in Store \X Obj
    OBVIOUS
  <2>2. /\ dfOut[<<s, o>>] \subseteq out[<<s, o>>]
        /\ o \in targets => pts[prog.storeSrc[s]] \subseteq out[<<s, o>>]
        /\ <<s, o>> \in inUpdated /\ PassesBy(targets, o) => dfIn[<<s, o>>] \subseteq out[<<s, o>>]
    BY <2>1, StoredIs
  <2>3. <<s, o>> \notin inUpdated => dfIn[<<s, o>>] \subseteq dfOut[<<s, o>>]
    BY DEF Flags
  <2> QED
    BY <1>1, <2>2, <2>3
<1> HIDE DEF out, targets, flags
<1>6. /\ \A l \in Node \X Obj : dfIn'[l] # dfIn[l] => l \in inUpdated' /\ l[1] \in worklist'
      /\ flags \subseteq inUpdated'
      /\ \A e \in IndirectFrom(s) : \A o \in e.guard :
             <<e.src, o>> \in sent => Passed(e.src, o, out) \subseteq dfIn'[<<e.dst, o>>]
      /\ \A l \in Node \X Obj : dfIn[l] \subseteq dfIn'[l]
  <2> DEFINE E == IndirectFrom(s)
             rest == worklist \ {s}
  <2>1. E \subseteq IndirectEdges /\ out \in OutSets /\ FSTypeOK /\ Propagate(E, sent, out, flags, rest)
    BY <1>1, <1>2, <1>3
  <2> HIDE DEF E, rest, sent, FSInv
  <2>2. /\ \A l \in Node \X Obj : dfIn[l] \subseteq dfIn'[l]
        /\ \A l \in Node \X Obj : dfIn'[l] # dfIn[l] => l \in inUpdated' /\ l[1] \in worklist'
        /\ flags \subseteq inUpdated'
    BY <2>1, Propagated
  <2>3. \A e \in E : \A o \in e.guard :
             <<e.src, o>> \in sent => Passed(e.src, o, out) \subseteq dfIn'[<<e.dst, o>>]
    BY <2>1, Propagated
  <2> QED
    BY <2>2, <2>3 DEF E
<1>7. /\ \A v \in Var \ worklist' : VarSolved(v)'
      /\ \A k \in Store \ worklist' : k # s => StoreSolved(k)'
      /\ \A e \in Indirect' : e.src # s /\ (e.src \in Store \/ e.src \notin worklist') => FlowSolved(e)'
      /\ CalleesResolved'
  BY <1>1, <1>3, <1>4, SentOnly
<1>8. s \notin worklist' => StoreSolved(s)'
  <2>1. s \notin worklist' => \A o \in Obj : dfIn'[<<s, o>>] = dfIn[<<s, o>>]
    BY <1>6 DEF Node
  <2>2. \A o \in Obj : PassesBy(targets, o)' <=> PassesBy(targets, o)
    BY <1>1 DEF PassesBy, IsStrongUpdate, targets
  <2> QED
    BY <1>1, <1>5, <2>1, <2>2 DEF StoreSolved, targets
<1>9. ASSUME NEW e \in Indirect', e.src = s PROVE FlowSolved(e)'
  <2>1. e \in Indirect /\ e \in IndirectFrom(s) /\ e.guard \subseteq Obj /\ e.dst \in Node
    BY <1>9, GraphEdges DEF Indirect, IndirectFrom, IndirectEdges, Node
  <2>2. \A o \in e.guard : dfOut[<<s, o>>] \subseteq dfIn[<<e.dst, o>>]
    BY <1>9, <2>1 DEF FSSettled, FlowSolved, Passed
  <2>3. ASSUME NEW o \in e.guard PROVE out[<<s, o>>] \subseteq dfIn'[<<e.dst, o>>]
    <3>1. CASE out[<<s, o>>] = dfOut[<<s, o>>]
      BY <1>6, <2>1, <2>2, <3>1
    <3>2. CASE out[<<s, o>>] # dfOut[<<s, o>>]
      BY <1>6, <1>9, <2>1, <3>2 DEF Passed
    <3> QED
      BY <3>1, <3>2
  <2> QED
    BY <1>1, <1>9, <2>3 DEF FlowSolved, Passed
<1>10. Flags'
  <2>1. \A l \in Node \X Obj : l \notin inUpdated' =>
            dfIn'[l] = dfIn[l] /\ (l \notin inUpdated \/ l \in Used(s, targets))
    BY <1>6 DEF flags
  <2>2. \A n \in Var \cup MemRef : \A o \in Obj : <<n, o>> \notin Used(s, targets) /\ <<n, o>> \in Node \X Obj
    BY NodeAssumption DEF Used, Node
  <2>3. ASSUME NEW k \in Store, NEW o \in Obj, <<k, o>> \notin inUpdated'
        PROVE  dfIn'[<<k, o>>] \subseteq dfOut'[<<k, o>>]
    <3>1. dfIn'[<<k, o>>] = dfIn[<<k, o>>] /\ dfOut[<<k, o>>] \subseteq dfOut'[<<k, o>>]
      BY <1>4, <2>1, <2>3
    <3>2. CASE <<k, o>> \notin inUpdated
      BY <3>1, <3>2 DEF Flags
    <3>3. CASE <<k, o>> \in Used(s, targets)
      BY <1>5, <3>1, <3>3 DEF Used
    <3> QED
      BY <1>4, <2>1, <2>3, <3>2, <3>3
  <2> QED
    BY <1>1, <2>1, <2>2, <2>3 DEF Flags
<1>11. FSSettled'
  BY <1>7, <1>8, <1>9 DEF FSSettled, FSDone
<1> QED
  BY <1>7, <1>10, <1>11

LEMMA CallGraphStep ==
  ASSUME FSInv, UpdateCallGraph
  PROVE  FSSettled' /\ Flags' /\ CalleesResolved'
<1> USE DEF FSInv
<1>1. /\ callees' = callees \cup FSNewCallees /\ UNCHANGED <<prog, pts, dfOut>> /\ worklist = {}
      /\ fsPhase = "solve"
  BY DEF UpdateCallGraph
<1>2. CalleesResolved'
  BY <1>1 DEF CalleesResolved, Resolved, FSNewCallees
<1>3. CASE FSNewCallees = {}
  <2>1. UNCHANGED <<callees, dfIn, inUpdated, worklist>>
    BY <1>1, <1>3 DEF UpdateCallGraph
  <2>2. Flags' /\ FSNewCallees' = FSNewCallees
    BY <1>1, <2>1 DEF Flags, FSNewCallees
  <2>3. /\ \A v \in Var : VarSolved(v)' <=> VarSolved(v)
        /\ \A s \in Store : StoreSolved(s)' <=> StoreSolved(s)
        /\ Indirect' = Indirect /\ \A e \in Indirect : FlowSolved(e)' <=> FlowSolved(e)
    BY <1>1, <2>1 DEF VarSolved, StoreSolved, FlowSolved, Passed, Direct, Indirect, PassesBy, IsStrongUpdate
  <2> QED
    BY <1>1, <1>2, <1>3, <2>1, <2>2, <2>3 DEF FSSettled
<1>4. CASE FSNewCallees # {}
  <2>1. Propagate(NewFlows, SentAtOnce, dfOut, inUpdated, Node) /\ fsPhase' = "solve"
    BY <1>1, <1>4 DEF UpdateCallGraph
  <2> HIDE DEF FSInv
  <2>a. FSTypeOK /\ dfOut \in OutSets /\ NewFlows \subseteq IndirectEdges
    BY GraphEdges DEF FSInv, FSTypeOK, OutSets
  <2>2. /\ \A l \in Node \X Obj : dfIn[l] \subseteq dfIn'[l]
        /\ \A l \in Node \X Obj : dfIn'[l] # dfIn[l] => l \in inUpdated'
        /\ inUpdated \subseteq inUpdated' /\ Node \subseteq worklist'
        /\ \A e \in NewFlows : \A o \in e.guard :
               <<e.src, o>> \in SentAtOnce => Passed(e.src, o, dfOut) \subseteq dfIn'[<<e.dst, o>>]
    BY <2>1, <2>a, Propagated
  <2> USE DEF FSInv
  <2>3. Flags'
    <3>1. \A l \in Node \X Obj : l \notin inUpdated' => l \notin inUpdated /\ dfIn'[l] = dfIn[l]
      BY <2>2
    <3> QED
      BY <1>1, <3>1 DEF Flags, Node
  <2>4. Indirect' = Indirect \cup NewFlows
    BY <1>1 DEF Indirect, NewFlows
  <2>5. ASSUME NEW e \in Indirect', e.src \in Store \/ e.src \notin worklist' PROVE FlowSolved(e)'
    <3>1. e \in IndirectEdges
      BY <2>4, <2>5, GraphEdges
    <3>2. e.src \in Store /\ e.dst \in Node /\ e.guard \subseteq Obj
      BY <2>2, <2>5, <3>1 DEF IndirectEdges, Node
    <3>3. CASE e \in Indirect
      BY <1>1, <2>2, <3>2, <3>3 DEF FSSettled, FlowSolved, Passed
    <3>4. CASE e \in NewFlows
      BY <1>1, <2>2, <3>2, <3>4 DEF FlowSolved, Passed, SentAtOnce, Node
    <3> QED
      BY <2>4, <3>3, <3>4
  <2>6. FSSettled'
    BY <2>1, <2>2, <2>5 DEF FSSettled, FSDone, Node
  <2> QED
    BY <1>2, <2>3, <2>6
<1> QED
  BY <1>3, <1>4
LEMMA InvInit ==
  ASSUME FSInit
  PROVE  FSInv
<1>1. FSTypeOK
  BY ProgramsAssumption DEF FSInit, FSTypeOK
<1>2. Flags /\ CalleesResolved
  BY DEF FSInit, Flags, CalleesResolved, Node
<1>3. FSSettled
  BY <1>1, GraphEdges DEF FSInit, FSSettled, FSDone, Node, FlowSolved, Passed, IndirectEdges
<1> QED
  BY <1>1, <1>2, <1>3 DEF FSInv

LEMMA InvPreserved ==
  ASSUME FSInv, [FSNext]_<<prog, callees, fsVars>>
  PROVE  FSInv'
<1>1. FSTypeOK'
  BY TypePreserved DEF FSInv
<1>2. CASE UNCHANGED <<prog, callees, fsVars>>
  <2>1. /\ \A v \in Var : VarSolved(v)' <=> VarSolved(v)
        /\ \A s \in Store : StoreSolved(s)' <=> StoreSolved(s)
        /\ Indirect' = Indirect /\ \A e \in Indirect : FlowSolved(e)' <=> FlowSolved(e)
    BY <1>2 DEF fsVars, VarSolved, StoreSolved, FlowSolved, Passed, Direct, Indirect, PassesBy, IsStrongUpdate
  <2>2. FSNewCallees' = FSNewCallees /\ Flags' /\ CalleesResolved'
    BY <1>2 DEF fsVars, FSInv, FSNewCallees, Flags, CalleesResolved, Resolved
  <2>3. FSSettled'
    BY <1>2, <2>1, <2>2 DEF fsVars, FSInv, FSSettled, FSDone
  <2> QED
    BY <1>1, <2>2, <2>3 DEF FSInv
<1>3. ASSUME NEW n \in Node, ProcessNode(n) PROVE FSInv'
  BY <1>1, <1>3, VarStep, StoreStep, MemRefStep DEF ProcessNode, FSInv
<1>4. CASE UpdateCallGraph
  BY <1>1, <1>4, CallGraphStep DEF FSInv
<1> QED
  BY <1>2, <1>3, <1>4 DEF FSNext, FSStep
-----------------------------------------------------------------------------
(* Nothing but what the constraints demand. *)

Bounded(P, I, O) ==
    /\ \A v \in Var : pts[v] \subseteq P[v]
    /\ \A l \in Node \X Obj : dfIn[l] \subseteq I[l]
    /\ \A l \in Store \X Obj : dfOut[l] \subseteq O[l]

\* What the edges in F demand of I and O.
ClosedFlows(F, I, O) ==
    \A e \in F : \A o \in e.guard :
        (IF e.src \in Store THEN O[<<e.src, o>>] ELSE I[<<e.src, o>>]) \subseteq I[<<e.dst, o>>]

\* A store lets pass no less when its address has more targets.
LEMMA PassesByMonotone ==
  ASSUME NEW S, NEW T, S \subseteq T, NEW o, PassesBy(S, o)
  PROVE  PassesBy(T, o)
  BY DEF PassesBy, IsStrongUpdate

LEMMA ClosedEdges ==
  ASSUME FSInv, NEW P, NEW I, NEW O, Closed(P, I, O), Bounded(P, I, O)
  PROVE  /\ \A e \in Direct : P[e[1]] \subseteq P[e[2]]
         /\ ClosedFlows(Indirect, I, O) /\ ClosedFlows(NewFlows, I, O)
<1>1. \A c \in prog.calls \X Obj : c[1].funPtr \in Var
  BY DEF FSInv, FSTypeOK, WellFormed, ProgramType, CallSites
<1>2. Resolved(pts) \subseteq Resolved(P)
  BY <1>1 DEF Resolved, Bounded
<1>3. callees \cup FSNewCallees \subseteq Resolved(P)
  BY <1>2 DEF FSInv, CalleesResolved, FSNewCallees, Resolved
<1>4. \A c \in callees \cup FSNewCallees : ClosedAlong(P, I, O, c[1].direct[c[2]], c[1].indirect[c[2]])
  BY <1>3 DEF Closed
<1>5. ClosedAlong(P, I, O, prog.copy, prog.indirect)
  BY DEF Closed
<1>6. \A e \in Direct : P[e[1]] \subseteq P[e[2]]
  BY <1>4, <1>5 DEF Direct, ClosedAlong
<1>7. ClosedFlows(Indirect, I, O)
  BY <1>4, <1>5 DEF Indirect, ClosedAlong, ClosedFlows
<1>8. ClosedFlows(NewFlows, I, O)
  BY <1>4 DEF NewFlows, ClosedAlong, ClosedFlows
<1> QED
  BY <1>6, <1>7, <1>8

LEMMA CarriedBounded ==
  ASSUME FSTypeOK, NEW edges, edges \subseteq IndirectEdges, NEW sent, NEW out \in OutSets,
         NEW I, NEW O, ClosedFlows(edges, I, O),
         \A l \in Node \X Obj : dfIn[l] \subseteq I[l],
         \A l \in Store \X Obj : out[l] \subseteq O[l],
         NEW l \in Node \X Obj
  PROVE  Carried(edges, sent, out)[l] \subseteq I[l]
<1> SUFFICES ASSUME NEW x \in Carried(edges, sent, out)[l], x \notin dfIn[l] PROVE x \in I[l]
  OBVIOUS
<1>1. PICK e \in edges : e.dst = l[1] /\ l[2] \in e.guard /\ x \in Passed(e.src, l[2], out)
  BY CarriedSets
<1>2. l = <<l[1], l[2]>> /\ l[2] \in Obj /\ e.src \in Store \cup MemRef
  BY DEF IndirectEdges
<1>3. CASE e.src \in Store
  <2>1. x \in out[<<e.src, l[2]>>] /\ <<e.src, l[2]>> \in Store \X Obj
    BY <1>1, <1>2, <1>3 DEF Passed
  <2>2. x \in O[<<e.src, l[2]>>]
    BY <2>1
  <2> QED
    BY <1>1, <1>2, <1>3, <2>2 DEF ClosedFlows
<1>4. CASE e.src \notin Store
  <2>1. x \in dfIn[<<e.src, l[2]>>] /\ <<e.src, l[2]>> \in Node \X Obj
    BY <1>1, <1>2, <1>4 DEF Passed, Node
  <2>2. x \in I[<<e.src, l[2]>>]
    BY <2>1
  <2> QED
    BY <1>1, <1>2, <1>4, <2>2 DEF ClosedFlows
<1> QED
  BY <1>3, <1>4

LEMMA VarBounded ==
  ASSUME FSInv, NEW P, NEW I, NEW O, Closed(P, I, O), Bounded(P, I, O), NEW v \in Var, ProcessVar(v)
  PROVE  Bounded(P, I, O)'
<1>1. pts' = [pts EXCEPT ![v] = @ \cup Value(v)] /\ UNCHANGED <<dfIn, dfOut>>
  BY DEF ProcessVar
<1>2. ASSUME NEW x \in Value(v) PROVE x \in P[v]
  <2>1. CASE \E e \in prog.addr : e[2] = v /\ x = e[1]
    BY <2>1 DEF Closed, ClosedAt
  <2>2. CASE \E e \in Direct : e[2] = v /\ x \in pts[e[1]]
    <3>1. PICK e \in Direct : e[2] = v /\ x \in pts[e[1]]
      BY <2>2
    <3>2. e[1] \in Var /\ P[e[1]] \subseteq P[e[2]]
      BY ClosedEdges, GraphEdges DEF FSInv
    <3> QED
      BY <3>1, <3>2 DEF Bounded
  <2>3. CASE \E o \in Fresh(v) : x \in dfIn[<<v, o>>]
    <3>1. PICK o \in Fresh(v) : x \in dfIn[<<v, o>>]
      BY <2>3
    <3>2. PICK e \in prog.load : e[2] = v /\ o \in pts[e[1]]
      BY DEF Fresh, Targets
    <3>3. e[1] \in Var /\ o \in Obj /\ <<v, o>> \in Node \X Obj
      BY ValueTypes, GraphEdges DEF FSInv, Node
    <3>4. o \in P[e[1]] /\ x \in I[<<v, o>>]
      BY <3>1, <3>2, <3>3 DEF Bounded
    <3> QED
      BY <3>2, <3>4 DEF Closed, ClosedAt
  <2>4. \/ \E e \in prog.addr : e[2] = v /\ x = e[1]
        \/ \E e \in Direct : e[2] = v /\ x \in pts[e[1]]
        \/ \E o \in Fresh(v) : x \in dfIn[<<v, o>>]
    BY DEF Value
  <2> QED
    BY <2>1, <2>2, <2>3, <2>4
<1>3. \A u \in Var : pts'[u] = IF u = v THEN pts[v] \cup Value(v) ELSE pts[u]
  BY <1>1 DEF FSInv, FSTypeOK
<1> QED
  BY <1>1, <1>2, <1>3 DEF Bounded

LEMMA StoreBounded ==
  ASSUME FSInv, NEW P, NEW I, NEW O, Closed(P, I, O), Bounded(P, I, O), NEW s \in Store, ProcessStore(s)
  PROVE  Bounded(P, I, O)'
<1> DEFINE targets == pts[prog.storeDst[s]]
           out == Stored(s, targets)
           sent == {l \in Store \X Obj : out[l] # dfOut[l]}
<1>1. /\ dfOut' = out /\ UNCHANGED pts
      /\ dfIn' = Carried(IndirectFrom(s), sent, out)
  BY DEF ProcessStore, Propagate
<1>2. /\ targets \in SUBSET Obj /\ IndirectFrom(s) \subseteq IndirectEdges /\ FSTypeOK
      /\ prog.storeDst[s] \in Var /\ prog.storeSrc[s] \in Var
  BY GraphEdges DEF IndirectFrom, FSInv, FSTypeOK
<1>3. out \in OutSets
  BY <1>2, StoredTypes
<1>4. ASSUME NEW l \in Store \X Obj, NEW x \in out[l] PROVE x \in O[l]
  <2>1. CASE x \in dfOut[l]
    BY <2>1 DEF Bounded
  <2>2. CASE l[1] = s /\ l[2] \in targets /\ x \in pts[prog.storeSrc[s]]
    <3>1. l[2] \in P[prog.storeDst[s]] /\ x \in P[prog.storeSrc[s]] /\ l = <<s, l[2]>> /\ l[2] \in Obj
      BY <1>2, <2>2 DEF Bounded
    <3> QED
      BY <3>1 DEF Closed, ClosedAt
  <2>3. CASE l[1] = s /\ PassesBy(targets, l[2]) /\ x \in dfIn[l]
    <3>1. PassesBy(P[prog.storeDst[s]], l[2])
      BY <1>2, <2>3, PassesByMonotone DEF Bounded
    <3>2. x \in I[l] /\ l = <<s, l[2]>> /\ l[2] \in Obj
      BY <2>3 DEF Bounded, Node
    <3> QED
      BY <3>1, <3>2 DEF Closed, ClosedAt
  <2> QED
    BY <1>2, <2>1, <2>2, <2>3, StoredIs
<1> HIDE DEF out
<1>5. ClosedFlows(IndirectFrom(s), I, O)
  BY ClosedEdges DEF ClosedFlows, IndirectFrom
<1>6. \A l \in Node \X Obj : dfIn[l] \subseteq I[l]
  BY DEF Bounded
<1>7. \A l \in Store \X Obj : out[l] \subseteq O[l]
  BY <1>4
<1>8. \A l \in Node \X Obj : dfIn'[l] \subseteq I[l]
  BY <1>1, <1>2, <1>3, <1>5, <1>6, <1>7, CarriedBounded
<1> QED
  BY <1>1, <1>7, <1>8 DEF Bounded

LEMMA CarryBounded ==
  ASSUME FSInv, NEW P, NEW I, NEW O, Closed(P, I, O), Bounded(P, I, O),
         NEW edges, edges \subseteq IndirectEdges, ClosedFlows(edges, I, O),
         NEW sent, dfIn' = Carried(edges, sent, dfOut), UNCHANGED <<pts, dfOut>>
  PROVE  Bounded(P, I, O)'
<1>1. FSTypeOK /\ dfOut \in OutSets
  BY DEF FSInv, FSTypeOK, OutSets
<1>2. /\ \A l \in Node \X Obj : dfIn[l] \subseteq I[l]
      /\ \A l \in Store \X Obj : dfOut[l] \subseteq O[l]
  BY DEF Bounded
<1>3. \A l \in Node \X Obj : dfIn'[l] \subseteq I[l]
  BY <1>1, <1>2, CarriedBounded
<1> QED
  BY <1>3 DEF Bounded

LEMMA StepBounded ==
  ASSUME FSInv, NEW P, NEW I, NEW O, Closed(P, I, O), Bounded(P, I, O), [FSNext]_<<prog, callees, fsVars>>
  PROVE  Bounded(P, I, O)'
<1>1. ASSUME NEW n \in Node, ProcessNode(n) PROVE Bounded(P, I, O)'
  <2>1. ASSUME NEW m \in MemRef, ProcessMemRef(m) PROVE Bounded(P, I, O)'
    <3>1. dfIn' = Carried(IndirectFrom(m), inUpdated, dfOut) /\ UNCHANGED <<pts, dfOut>>
      BY <2>1 DEF ProcessMemRef, Propagate
    <3>2. IndirectFrom(m) \subseteq IndirectEdges
      BY GraphEdges DEF IndirectFrom, FSInv
    <3>3. ClosedFlows(IndirectFrom(m), I, O)
      BY ClosedEdges DEF ClosedFlows, IndirectFrom
    <3> QED
      BY <3>1, <3>2, <3>3, CarryBounded
  <2> QED
    BY <1>1, <2>1, VarBounded, StoreBounded DEF ProcessNode
<1>2. CASE UpdateCallGraph
  <2>1. CASE FSNewCallees = {}
    BY <1>2, <2>1 DEF UpdateCallGraph, Bounded
  <2>2. CASE FSNewCallees # {}
    <3>1. dfIn' = Carried(NewFlows, SentAtOnce, dfOut) /\ UNCHANGED <<pts, dfOut>>
      BY <1>2, <2>2 DEF UpdateCallGraph, Propagate
    <3>2. NewFlows \subseteq IndirectEdges /\ ClosedFlows(NewFlows, I, O)
      BY ClosedEdges, GraphEdges DEF FSInv
    <3> QED
      BY <3>1, <3>2, CarryBounded
  <2> QED
    BY <2>1, <2>2
<1>3. CASE UNCHANGED <<prog, callees, fsVars>>
  BY <1>3 DEF fsVars, Bounded
<1> QED
  BY <1>1, <1>2, <1>3 DEF FSNext, FSStep

LeastInv == FSInv /\ WithinClosed

LEMMA LeastInit == FSInit => LeastInv
BY InvInit DEF FSInit, WithinClosed, Node, LeastInv

LEMMA LeastStep == LeastInv /\ [FSNext]_<<prog, callees, fsVars>> => LeastInv'
<1> SUFFICES ASSUME FSInv, WithinClosed, [FSNext]_<<prog, callees, fsVars>> PROVE FSInv' /\ WithinClosed'
  BY DEF LeastInv
<1>1. ASSUME NEW P \in [Var -> SUBSET Obj], NEW I \in InSets, NEW O \in OutSets, Closed(P, I, O)'
      PROVE  Bounded(P, I, O)'
  <2>1. prog' = prog
    BY DEF FSNext, FSStep, ProcessNode, UpdateCallGraph, fsVars
  <2>2. Closed(P, I, O)
    BY <1>1, <2>1 DEF Closed, ClosedAt, ClosedAlong, Resolved, PassesBy, IsStrongUpdate
  <2>3. Bounded(P, I, O)
    BY <2>2 DEF WithinClosed, Bounded, InSets, OutSets
  <2> QED
    BY <2>2, <2>3, StepBounded
<1>2. WithinClosed'
  BY <1>1 DEF WithinClosed, Bounded, InSets, OutSets
<1> QED
  BY <1>2, InvPreserved

LEMMA ClosedAtEnd == ASSUME LeastInv, FSDone PROVE Closed(pts, dfIn, dfOut)
<1> USE DEF LeastInv
<1>1. worklist = {} /\ FSNewCallees = {} /\ Resolved(pts) \subseteq callees
  BY DEF FSInv, FSSettled, FSNewCallees, Resolved
<1>2. /\ \A v \in Var : VarSolved(v)
      /\ \A s \in Store : StoreSolved(s)
      /\ \A e \in Indirect : FlowSolved(e)
  BY <1>1 DEF FSInv, FSSettled
<1>3. /\ prog.addr \subseteq Obj \X Var /\ prog.load \subseteq Var \X Var /\ Direct \subseteq Var \X Var
  BY GraphEdges DEF FSInv
<1>4. ClosedAt(pts, dfIn, dfOut)
  BY <1>2, <1>3 DEF ClosedAt, VarSolved, StoreSolved
<1>5. ClosedAlong(pts, dfIn, dfOut, Direct, Indirect)
  BY <1>2, <1>3 DEF ClosedAlong, VarSolved, FlowSolved, Passed
<1>6. /\ prog.copy \subseteq Direct /\ prog.indirect \subseteq Indirect
      /\ \A c \in callees : c[1].direct[c[2]] \subseteq Direct /\ c[1].indirect[c[2]] \subseteq Indirect
  BY DEF Direct, Indirect
<1>7. ClosedAlong(pts, dfIn, dfOut, prog.copy, prog.indirect)
  BY <1>5, <1>6 DEF ClosedAlong
<1>8. \A c \in Resolved(pts) : ClosedAlong(pts, dfIn, dfOut, c[1].direct[c[2]], c[1].indirect[c[2]])
  BY <1>1, <1>5, <1>6 DEF ClosedAlong
<1> QED
  BY <1>4, <1>7, <1>8 DEF Closed
-----------------------------------------------------------------------------
(* The reference: the least solution computed forward.                     *)

Pairs == Item \X Obj

\* What the sets of S demand is within the sets P, I and O.
SolutionWithin(S, P, I, O) ==
    /\ \A v \in Var : VarPts(S, v) \subseteq P[v]
    /\ \A l \in Store \X Obj : Pts(S, l) \subseteq O[l]
    /\ \A l \in MemRef \X Obj : Pts(S, l) \subseteq I[l]

VarOf(S) == [v \in Var |-> VarPts(S, v)]
InOf(S) == [l \in Node \X Obj |-> Incoming(S, l[1], l[2])]
OutOf(S) == [l \in Store \X Obj |-> Pts(S, l)]

\* The pairs at an item are those its statement makes.
LEMMA AdvanceIs ==
  ASSUME NEW S
  PROVE  /\ \A v \in Var : \A o : <<VarItem(v), o>> \in Advance(S) <=> o \in Values(S, v)
         /\ \A s \in Store : \A k \in Obj : \A o :
               <<<<s, k>>, o>> \in Advance(S) <=> o \in Contents(S, s, k)
         /\ \A m \in MemRef : \A k \in Obj : \A o :
               <<<<m, k>>, o>> \in Advance(S) <=> o \in Incoming(S, m, k)
<1> DEFINE Made(d) == IF d[1] \in Var THEN Values(S, d[1])
                      ELSE IF d[1] \in Store THEN Contents(S, d[1], d[2])
                      ELSE Incoming(S, d[1], d[2])
<1>1. \A d, o : <<d, o>> \in Advance(S) <=> d \in Item /\ o \in Made(d)
  BY DEF Advance
<1>2. \A v \in Var : VarItem(v) \in Item /\ Made(VarItem(v)) = Values(S, v)
  BY DEF VarItem, Item
<1>3. \A s \in Store, k \in Obj : <<s, k>> \in Item /\ Made(<<s, k>>) = Contents(S, s, k)
  BY NodeAssumption DEF Item
<1>4. \A m \in MemRef, k \in Obj : <<m, k>> \in Item /\ Made(<<m, k>>) = Incoming(S, m, k)
  BY NodeAssumption DEF Item
<1> HIDE DEF Made
<1> QED
  BY <1>1, <1>2, <1>3, <1>4

LEMMA ValuesAre ==
  ASSUME NEW S, NEW v
  PROVE  \A x : x \in Values(S, v) <=>
             \/ \E e \in prog.addr : e[2] = v /\ x = e[1]
             \/ \E e \in ResolvedCopies(S) : e[2] = v /\ x \in VarPts(S, e[1])
             \/ \E e \in prog.load : e[2] = v /\ \E o \in VarPts(S, e[1]) : x \in Incoming(S, v, o)
<1> DEFINE Read(e) == UNION {Incoming(S, v, o) : o \in VarPts(S, e[1])}
<1>1. \A e, x : x \in Read(e) <=> \E o \in VarPts(S, e[1]) : x \in Incoming(S, v, o)
  OBVIOUS
<1>2. Values(S, v) = {e[1] : e \in {i \in prog.addr : i[2] = v}}
                     \cup (UNION {VarPts(S, e[1]) : e \in {i \in ResolvedCopies(S) : i[2] = v}})
                     \cup UNION {Read(e) : e \in {i \in prog.load : i[2] = v}}
  BY DEF Values
<1> HIDE DEF Read
<1>3. \A x : x \in {e[1] : e \in {i \in prog.addr : i[2] = v}}
             <=> \E e \in prog.addr : e[2] = v /\ x = e[1]
  OBVIOUS
<1>4. \A x : x \in UNION {VarPts(S, e[1]) : e \in {i \in ResolvedCopies(S) : i[2] = v}}
             <=> \E e \in ResolvedCopies(S) : e[2] = v /\ x \in VarPts(S, e[1])
  OBVIOUS
<1>5. \A x : x \in UNION {Read(e) : e \in {i \in prog.load : i[2] = v}}
             <=> \E e \in prog.load : e[2] = v /\ x \in Read(e)
  OBVIOUS
<1> DEFINE A == {e[1] : e \in {i \in prog.addr : i[2] = v}}
           B == UNION {VarPts(S, e[1]) : e \in {i \in ResolvedCopies(S) : i[2] = v}}
           C == UNION {Read(e) : e \in {i \in prog.load : i[2] = v}}
<1>6. Values(S, v) = A \cup B \cup C
  BY <1>2
<1>7. /\ \A x : x \in A <=> \E e \in prog.addr : e[2] = v /\ x = e[1]
      /\ \A x : x \in B <=> \E e \in ResolvedCopies(S) : e[2] = v /\ x \in VarPts(S, e[1])
      /\ \A x : x \in C <=> \E e \in prog.load : e[2] = v /\ \E o \in VarPts(S, e[1]) : x \in Incoming(S, v, o)
  BY <1>1, <1>3, <1>4, <1>5
<1> HIDE DEF A, B, C
<1> QED
  BY <1>6, <1>7

LEMMA ContentsAre ==
  ASSUME NEW S, NEW s, NEW o, NEW T, T = VarPts(S, prog.storeDst[s])
  PROVE  \A x : x \in Contents(S, s, o) <=>
             \/ o \in T /\ x \in VarPts(S, prog.storeSrc[s])
             \/ x \in Incoming(S, s, o) /\ \E k \in T : T # {o} \/ o \in prog.weak
<1> DEFINE V == VarPts(S, prog.storeSrc[s])
           N == Incoming(S, s, o)
           L == {k \in T : T # {o} \/ o \in prog.weak}
<1>1. Contents(S, s, o) = (UNION {V : t \in T \cap {o}}) \cup UNION {N : t \in L}
  BY DEF Contents
<1> HIDE DEF V, N
<1>2. \A x : x \in UNION {V : t \in T \cap {o}} <=> o \in T /\ x \in V
  OBVIOUS
<1>3. \A x : x \in UNION {N : t \in L} <=> x \in N /\ \E k \in T : T # {o} \/ o \in prog.weak
  OBVIOUS
<1> DEFINE A == UNION {V : t \in T \cap {o}}
           B == UNION {N : t \in L}
<1>4. /\ Contents(S, s, o) = A \cup B /\ \A x : x \in A <=> o \in T /\ x \in V
      /\ \A x : x \in B <=> x \in N /\ \E k \in T : T # {o} \/ o \in prog.weak
  BY <1>1, <1>2, <1>3
<1> HIDE DEF A, B, L
<1> QED
  BY <1>4 DEF V, N

LEMMA AdvanceType ==
  ASSUME WellFormed(prog), NEW S PROVE Advance(S) \in SUBSET Pairs
<1>1. \A n, o : Incoming(S, n, o) \subseteq Obj
  BY DEF Incoming, Pts
<1>2. \A v : Values(S, v) \subseteq Obj
  <2>1. prog.addr \subseteq Obj \X Var
    BY DEF WellFormed, ProgramType
  <2>2. \A v : VarPts(S, v) \subseteq Obj
    BY DEF VarPts, Pts
  <2> QED
    BY <1>1, <2>1, <2>2, ValuesAre
<1>3. \A s, o : Contents(S, s, o) \subseteq Obj
  <2>1. \A v : VarPts(S, v) \subseteq Obj
    BY DEF VarPts, Pts
  <2> QED
    BY <1>1, <2>1, ContentsAre
<1> QED
  BY <1>1, <1>2, <1>3 DEF Advance, Pairs

\* More pairs demand no fewer.
LEMMA IncomingMonotone ==
  ASSUME NEW S, NEW T, S \subseteq T, NEW n, NEW o
  PROVE  Incoming(S, n, o) \subseteq Incoming(T, n, o)
<1>1. \A d : Pts(S, d) \subseteq Pts(T, d)
  BY DEF Pts
<1>2. ResolvedFlows(S) \subseteq ResolvedFlows(T)
  BY <1>1 DEF ResolvedFlows, VarPts
<1> QED
  BY <1>1, <1>2 DEF Incoming

LEMMA AdvanceMonotone ==
  ASSUME NEW S, NEW T, S \subseteq T PROVE Advance(S) \subseteq Advance(T)
<1>1. \A d : Pts(S, d) \subseteq Pts(T, d)
  BY DEF Pts
<1>2. \A v : VarPts(S, v) \subseteq VarPts(T, v)
  BY <1>1 DEF VarPts
<1>3. \A n, o : Incoming(S, n, o) \subseteq Incoming(T, n, o)
  BY IncomingMonotone
<1>4. \A v : Values(S, v) \subseteq Values(T, v)
  <2>1. ResolvedCopies(S) \subseteq ResolvedCopies(T)
    BY <1>2 DEF ResolvedCopies
  <2> SUFFICES ASSUME NEW v, NEW x \in Values(S, v) PROVE x \in Values(T, v)
    OBVIOUS
  <2> QED
    BY <1>2, <1>3, <2>1, ValuesAre
<1>5. \A s, o : Contents(S, s, o) \subseteq Contents(T, s, o)
  <2> SUFFICES ASSUME NEW s, NEW o, NEW x \in Contents(S, s, o) PROVE x \in Contents(T, s, o)
    OBVIOUS
  <2> DEFINE A == VarPts(S, prog.storeDst[s])
             B == VarPts(T, prog.storeDst[s])
  <2>1. A \subseteq B
    BY <1>2
  <2>2. CASE o \in A /\ x \in VarPts(S, prog.storeSrc[s])
    BY <1>2, <2>1, <2>2, ContentsAre
  <2>3. CASE x \in Incoming(S, s, o) /\ \E k \in A : A # {o} \/ o \in prog.weak
    <3>1. \E k \in B : B # {o} \/ o \in prog.weak
      BY <2>1, <2>3
    <3> QED
      BY <1>3, <2>3, <3>1, ContentsAre
  <2> QED
    BY <2>2, <2>3, ContentsAre
<1> QED
  BY <1>3, <1>4, <1>5 DEF Advance

\* As many rounds as there are pairs are enough, and what holds of the empty
\* set and is kept by the rules holds of the solution.
LEMMA SolutionStable ==
  ASSUME WellFormed(prog)
  PROVE  /\ LeastSolution \in SUBSET Pairs /\ Advance(LeastSolution) = LeastSolution
         /\ \A Q : {} \in Q /\ (\A X \in Q : Advance(X) \in Q) => LeastSolution \in Q
<1> DEFINE F == [X \in SUBSET Pairs |-> X \cup Advance(X)]
           G == [X \in SUBSET Pairs |-> Advance(X)]
           round[i \in 0 .. Rounds] == IF i = 0 THEN {} ELSE Advance(round[i - 1])
<1>1. Rounds \in Nat /\ IsFiniteSet(Pairs) /\ Cardinality(Pairs) <= Rounds
  BY RoundsAssumption DEF Pairs
<1>2. \A X \in SUBSET Pairs : Advance(X) \in SUBSET Pairs
  BY AdvanceType
<1>3. LeastSolution = round[Rounds]
  BY DEF LeastSolution
<1>4. /\ F \in [SUBSET Pairs -> SUBSET Pairs] /\ \A X \in SUBSET Pairs : F[X] = X \cup Advance(X)
      /\ G \in [SUBSET Pairs -> SUBSET Pairs] /\ \A X \in SUBSET Pairs : G[X] = Advance(X)
      /\ {} \in SUBSET Pairs
  BY <1>2
<1> HIDE DEF F, G
<1>5. PICK r \in [0 .. Rounds -> SUBSET Pairs] : Iterates(r, {}, G, Rounds)
  BY <1>1, <1>4, Iteration
<1>6. r = [i \in 0 .. Rounds |-> IF i = 0 THEN {} ELSE Advance(r[i - 1])]
  <2>1. ASSUME NEW i \in 0 .. Rounds, i # 0 PROVE r[i] = Advance(r[i - 1])
    <3>1. i - 1 \in 0 .. Rounds /\ i \in 1 .. Rounds
      BY <1>1, <2>1
    <3> QED
      BY <1>4, <1>5, <3>1 DEF Iterates
  <2> QED
    BY <1>5, <2>1 DEF Iterates
<1>7. round = [i \in 0 .. Rounds |-> IF i = 0 THEN {} ELSE Advance(round[i - 1])]
  BY <1>6 DEF round
<1> HIDE DEF round
<1>8. round[0] = {} /\ \A i \in 1 .. Rounds : round[i] = Advance(round[i - 1])
  <2>1. \A i \in 0 .. Rounds : round[i] = IF i = 0 THEN {} ELSE Advance(round[i - 1])
    BY <1>7
  <2> QED
    BY <1>1, <2>1
<1> DEFINE P == {X \in SUBSET Pairs : X \subseteq Advance(X)}
<1>9. \A i \in 0 .. Rounds : round[i] \in P
  <2>1. \A X \in P : Advance(X) \in P
    BY <1>2, AdvanceMonotone
  <2>2. round[0] \in P /\ \A i \in 1 .. Rounds : round[i - 1] \in P => round[i] \in P
    BY <1>8, <2>1
  <2> HIDE DEF P
  <2> QED
    BY <1>1, <2>2, StaysIn
<1>10. Climbs(round, {}, F, Rounds, Pairs)
  <2>1. ASSUME NEW i \in 1 .. Rounds PROVE round[i] = F[round[i - 1]]
    <3>1. i - 1 \in 0 .. Rounds
      BY <1>1
    <3>2. round[i - 1] \in SUBSET Pairs /\ round[i - 1] \subseteq Advance(round[i - 1])
      BY <1>9, <3>1
    <3> QED
      BY <1>4, <1>8, <3>2
  <2> QED
    BY <2>1, <1>4, <1>8 DEF Climbs, Iterates
<1>11. round[Rounds] \in SUBSET Pairs /\ F[round[Rounds]] = round[Rounds]
  BY <1>1, <1>10, Stable
<1>12. Rounds \in 0 .. Rounds
  BY <1>1
<1>13. ASSUME NEW Q, {} \in Q, \A X \in Q : Advance(X) \in Q PROVE LeastSolution \in Q
  <2>1. round[0] \in Q /\ \A i \in 1 .. Rounds : round[i - 1] \in Q => round[i] \in Q
    BY <1>8, <1>13
  <2>2. \A i \in 0 .. Rounds : round[i] \in Q
    BY <1>1, <2>1, StaysIn
  <2> QED
    BY <1>3, <1>12, <2>2
<1> QED
  BY <1>3, <1>4, <1>9, <1>11, <1>12, <1>13

\* The reference is closed in the sense of the constraints.
LEMMA SolutionClosed ==
  ASSUME WellFormed(prog), NEW S \in SUBSET Pairs, Advance(S) = S
  PROVE  /\ Closed(VarOf(S), InOf(S), OutOf(S))
         /\ VarOf(S) \in [Var -> SUBSET Obj] /\ InOf(S) \in InSets /\ OutOf(S) \in OutSets
<1>1. /\ \A v \in Var : VarPts(S, v) = Values(S, v)
      /\ \A s \in Store, k \in Obj : Pts(S, <<s, k>>) = Contents(S, s, k)
      /\ \A m \in MemRef, k \in Obj : Pts(S, <<m, k>>) = Incoming(S, m, k)
  <2>1. \A d, o : <<d, o>> \in S => o \in Obj
    BY DEF Pairs
  <2>2. \A d, o : o \in Pts(S, d) <=> <<d, o>> \in Advance(S)
    BY <2>1 DEF Pts
  <2>3. ASSUME NEW v \in Var PROVE VarPts(S, v) = Values(S, v)
    <3>1. \A o : o \in Pts(S, VarItem(v)) <=> o \in Values(S, v)
      BY <2>2, AdvanceIs, Zenon
    <3> QED
      BY <3>1 DEF VarPts
  <2>4. ASSUME NEW s \in Store, NEW k \in Obj PROVE Pts(S, <<s, k>>) = Contents(S, s, k)
    <3>1. \A o : o \in Pts(S, <<s, k>>) <=> o \in Contents(S, s, k)
      BY <2>2, AdvanceIs, Zenon
    <3> QED
      BY <3>1
  <2>5. ASSUME NEW m \in MemRef, NEW k \in Obj PROVE Pts(S, <<m, k>>) = Incoming(S, m, k)
    <3>1. \A o : o \in Pts(S, <<m, k>>) <=> o \in Incoming(S, m, k)
      BY <2>2, AdvanceIs, Zenon
    <3> QED
      BY <3>1
  <2> QED
    BY <2>3, <2>4, <2>5
<1>2. /\ \A v \in Var : VarOf(S)[v] = VarPts(S, v)
      /\ \A n \in Node, o \in Obj : InOf(S)[<<n, o>>] = Incoming(S, n, o)
      /\ \A s \in Store, o \in Obj : OutOf(S)[<<s, o>>] = Pts(S, <<s, o>>)
  BY DEF VarOf, InOf, OutOf
<1>3. /\ prog.addr \subseteq Obj \X Var /\ prog.load \subseteq Var \X Var
      /\ prog.storeDst \in [Store -> Var] /\ prog.storeSrc \in [Store -> Var]
      /\ prog.copy \subseteq Var \X Var /\ prog.indirect \subseteq IndirectEdges
      /\ prog.calls \subseteq CallSites
  BY DEF WellFormed, ProgramType
<1>4. \A v \in Var : VarPts(S, v) \subseteq Obj
  BY DEF VarPts, Pts
<1>5. ASSUME NEW e \in prog.addr PROVE e[1] \in VarOf(S)[e[2]]
  BY <1>1, <1>2, <1>3, ValuesAre
<1>6. ASSUME NEW e \in prog.load, NEW o \in VarOf(S)[e[1]]
      PROVE  InOf(S)[<<e[2], o>>] \subseteq VarOf(S)[e[2]]
  <2>1. e[1] \in Var /\ e[2] \in Var /\ o \in VarPts(S, e[1]) /\ o \in Obj /\ e[2] \in Node
    BY <1>2, <1>3, <1>4 DEF Node
  <2>2. Incoming(S, e[2], o) \subseteq Values(S, e[2])
    BY <2>1, ValuesAre
  <2> QED
    BY <1>1, <1>2, <2>1, <2>2
<1>7. ASSUME NEW s \in Store, NEW o \in Obj
      PROVE  /\ o \in VarOf(S)[prog.storeDst[s]] => VarOf(S)[prog.storeSrc[s]] \subseteq OutOf(S)[<<s, o>>]
             /\ PassesBy(VarOf(S)[prog.storeDst[s]], o) => InOf(S)[<<s, o>>] \subseteq OutOf(S)[<<s, o>>]
  <2> DEFINE T == VarPts(S, prog.storeDst[s])
  <2>1. /\ VarOf(S)[prog.storeDst[s]] = T /\ VarOf(S)[prog.storeSrc[s]] = VarPts(S, prog.storeSrc[s])
        /\ OutOf(S)[<<s, o>>] = Contents(S, s, o) /\ InOf(S)[<<s, o>>] = Incoming(S, s, o)
    BY <1>1, <1>2, <1>3 DEF Node
  <2>2. o \in T => VarPts(S, prog.storeSrc[s]) \subseteq Contents(S, s, o)
    BY ContentsAre
  <2>3. ASSUME PassesBy(T, o) PROVE Incoming(S, s, o) \subseteq Contents(S, s, o)
    <3>1. \E k \in T : T # {o} \/ o \in prog.weak
      BY <2>3 DEF PassesBy, IsStrongUpdate
    <3> QED
      BY <3>1, ContentsAre
  <2> HIDE DEF T
  <2> QED
    BY <2>1, <2>2, <2>3
<1>8. ASSUME NEW e \in ResolvedCopies(S), e \in Var \X Var
      PROVE  VarOf(S)[e[1]] \subseteq VarOf(S)[e[2]]
  <2>1. VarPts(S, e[1]) \subseteq Values(S, e[2])
    BY ValuesAre
  <2> QED
    BY <1>1, <1>2, <1>8, <2>1
<1>9. ASSUME NEW e \in ResolvedFlows(S), e \in IndirectEdges, NEW o \in e.guard
      PROVE  (IF e.src \in Store THEN OutOf(S)[<<e.src, o>>] ELSE InOf(S)[<<e.src, o>>])
                 \subseteq InOf(S)[<<e.dst, o>>]
  <2>1. e.src \in Store \cup MemRef /\ e.src \in Node /\ e.dst \in Node /\ o \in Obj
    BY <1>9 DEF IndirectEdges, Node
  <2>2. Pts(S, <<e.src, o>>) \subseteq Incoming(S, e.dst, o)
    BY DEF Incoming
  <2>3. CASE e.src \in Store
    BY <1>2, <2>1, <2>2, <2>3
  <2>4. CASE e.src \notin Store
    BY <1>1, <1>2, <2>1, <2>2, <2>4
  <2> QED
    BY <2>3, <2>4
<1>10. /\ prog.copy \subseteq ResolvedCopies(S) /\ prog.indirect \subseteq ResolvedFlows(S)
       /\ \A c \in Resolved(VarOf(S)) :
             /\ c[1].direct[c[2]] \subseteq ResolvedCopies(S) /\ c[1].direct[c[2]] \subseteq Var \X Var
             /\ c[1].indirect[c[2]] \subseteq ResolvedFlows(S) /\ c[1].indirect[c[2]] \subseteq IndirectEdges
  <2>1. prog.copy \subseteq ResolvedCopies(S) /\ prog.indirect \subseteq ResolvedFlows(S)
    BY DEF ResolvedCopies, ResolvedFlows
  <2>2. ASSUME NEW c \in Resolved(VarOf(S))
        PROVE  /\ c[1] \in prog.calls /\ c[1] \in CallSites /\ c[2] \in Obj
               /\ c[2] \in VarPts(S, c[1].funPtr)
    BY <1>2, <1>3 DEF Resolved, CallSites
  <2>3. ASSUME NEW c \in Resolved(VarOf(S))
        PROVE  /\ c[1].direct[c[2]] \subseteq Var \X Var
               /\ c[1].indirect[c[2]] \subseteq IndirectEdges
    BY <2>2 DEF CallSites
  <2>4. ASSUME NEW c \in Resolved(VarOf(S))
        PROVE  /\ c[1].direct[c[2]] \subseteq ResolvedCopies(S)
               /\ c[1].indirect[c[2]] \subseteq ResolvedFlows(S)
    BY <2>2 DEF ResolvedCopies, ResolvedFlows
  <2> QED
    BY <2>1, <2>3, <2>4
<1>11. ClosedAt(VarOf(S), InOf(S), OutOf(S))
  BY <1>5, <1>6, <1>7 DEF ClosedAt
<1>12. ClosedAlong(VarOf(S), InOf(S), OutOf(S), prog.copy, prog.indirect)
  BY <1>3, <1>8, <1>9, <1>10 DEF ClosedAlong
<1>13. \A c \in Resolved(VarOf(S)) :
          ClosedAlong(VarOf(S), InOf(S), OutOf(S), c[1].direct[c[2]], c[1].indirect[c[2]])
  BY <1>8, <1>9, <1>10 DEF ClosedAlong
<1>14. VarOf(S) \in [Var -> SUBSET Obj] /\ InOf(S) \in InSets /\ OutOf(S) \in OutSets
  BY DEF VarOf, InOf, OutOf, InSets, OutSets, VarPts, Pts, Incoming
<1> QED
  BY <1>11, <1>12, <1>13, <1>14 DEF Closed

\* Closed sets within Andersen's hold everything the rules derive.
LEMMA ClosedHolds ==
  ASSUME WellFormed(prog), NEW P, NEW I, NEW O, Closed(P, I, O),
         \A v \in Var : P[v] \subseteq prog.ander[v],
         NEW S \in SUBSET Pairs, SolutionWithin(S, P, I, O)
  PROVE  SolutionWithin(Advance(S), P, I, O)
<1>1. /\ prog.addr \subseteq Obj \X Var /\ prog.load \subseteq Var \X Var
      /\ prog.storeDst \in [Store -> Var] /\ prog.storeSrc \in [Store -> Var]
      /\ prog.copy \subseteq Var \X Var /\ prog.indirect \subseteq IndirectEdges
      /\ prog.calls \subseteq CallSites
  BY DEF WellFormed, ProgramType
<1>2. \A v \in Var : VarPts(S, v) \subseteq P[v] /\ VarPts(S, v) \subseteq Obj
  BY DEF SolutionWithin, VarPts, Pts
<1>3. \A c \in prog.calls : \A f \in VarPts(S, c.funPtr) :
         ClosedAlong(P, I, O, c.direct[f], c.indirect[f]) /\ c.indirect[f] \subseteq IndirectEdges
         /\ c.direct[f] \subseteq Var \X Var
  <2> SUFFICES ASSUME NEW c \in prog.calls, NEW f \in VarPts(S, c.funPtr)
               PROVE  /\ ClosedAlong(P, I, O, c.direct[f], c.indirect[f])
                      /\ c.indirect[f] \subseteq IndirectEdges /\ c.direct[f] \subseteq Var \X Var
    OBVIOUS
  <2>1. c \in CallSites /\ c.funPtr \in Var
    BY <1>1 DEF CallSites
  <2>2. f \in Obj /\ f \in P[c.funPtr] \cap prog.ander[c.funPtr]
    BY <1>2, <2>1
  <2>3. <<c, f>> \in Resolved(P)
    BY <2>2 DEF Resolved
  <2>4. ClosedAlong(P, I, O, c.direct[f], c.indirect[f])
    BY <2>3 DEF Closed
  <2> QED
    BY <2>1, <2>2, <2>4 DEF CallSites
<1>4. \A e \in ResolvedCopies(S) : e \in Var \X Var /\ P[e[1]] \subseteq P[e[2]]
  BY <1>1, <1>3 DEF Closed, ClosedAlong, ResolvedCopies
<1>5. \A e \in ResolvedFlows(S) : e \in IndirectEdges /\ \A o \in e.guard :
          (IF e.src \in Store THEN O[<<e.src, o>>] ELSE I[<<e.src, o>>]) \subseteq I[<<e.dst, o>>]
  BY <1>1, <1>3 DEF Closed, ClosedAlong, ResolvedFlows
<1>6. ASSUME NEW n, NEW o \in Obj PROVE Incoming(S, n, o) \subseteq I[<<n, o>>]
  <2> SUFFICES ASSUME NEW e \in ResolvedFlows(S), e.dst = n, o \in e.guard
               PROVE  Pts(S, <<e.src, o>>) \subseteq I[<<n, o>>]
    BY DEF Incoming
  <2>1. e.src \in Store \cup MemRef
    BY <1>5 DEF IndirectEdges
  <2>2. CASE e.src \in Store
    BY <1>5, <2>2 DEF SolutionWithin
  <2>3. CASE e.src \notin Store
    BY <1>5, <2>1, <2>3 DEF SolutionWithin
  <2> QED
    BY <2>2, <2>3
<1>7. ASSUME NEW v \in Var PROVE Values(S, v) \subseteq P[v]
  <2> SUFFICES ASSUME NEW x \in Values(S, v) PROVE x \in P[v]
    OBVIOUS
  <2>1. CASE \E e \in prog.addr : e[2] = v /\ x = e[1]
    BY <2>1 DEF Closed, ClosedAt
  <2>2. CASE \E e \in ResolvedCopies(S) : e[2] = v /\ x \in VarPts(S, e[1])
    BY <1>2, <1>4, <2>2
  <2>3. CASE \E e \in prog.load : e[2] = v /\ \E o \in VarPts(S, e[1]) : x \in Incoming(S, v, o)
    <3>1. PICK e \in prog.load : e[2] = v /\ \E o \in VarPts(S, e[1]) : x \in Incoming(S, v, o)
      BY <2>3
    <3>2. PICK o \in VarPts(S, e[1]) : x \in Incoming(S, v, o)
      BY <3>1
    <3>3. e[1] \in Var /\ o \in P[e[1]] /\ o \in Obj
      BY <1>1, <1>2
    <3>4. x \in I[<<v, o>>]
      BY <1>6, <3>2, <3>3
    <3> QED
      BY <3>1, <3>3, <3>4 DEF Closed, ClosedAt
  <2> QED
    BY <2>1, <2>2, <2>3, ValuesAre
<1>8. ASSUME NEW s \in Store, NEW o \in Obj PROVE Contents(S, s, o) \subseteq O[<<s, o>>]
  <2> DEFINE T == VarPts(S, prog.storeDst[s])
  <2>1. T \subseteq P[prog.storeDst[s]] /\ VarPts(S, prog.storeSrc[s]) \subseteq P[prog.storeSrc[s]]
    BY <1>1, <1>2
  <2> SUFFICES ASSUME NEW x \in Contents(S, s, o) PROVE x \in O[<<s, o>>]
    OBVIOUS
  <2>2. CASE o \in T /\ x \in VarPts(S, prog.storeSrc[s])
    BY <2>1, <2>2 DEF Closed, ClosedAt
  <2>3. CASE x \in Incoming(S, s, o) /\ \E k \in T : T # {o} \/ o \in prog.weak
    <3>1. PassesBy(T, o)
      BY <2>3 DEF PassesBy, IsStrongUpdate
    <3>2. PassesBy(P[prog.storeDst[s]], o)
      BY <2>1, <3>1, PassesByMonotone
    <3> QED
      BY <1>6, <2>3, <3>2 DEF Closed, ClosedAt
  <2> QED
    BY <2>2, <2>3, ContentsAre
<1> QED
  <2>1. \A d, o : o \in Pts(Advance(S), d) => <<d, o>> \in Advance(S)
    BY DEF Pts
  <2>2. \A v \in Var : VarPts(Advance(S), v) \subseteq P[v]
    BY <1>7, <2>1, AdvanceIs DEF VarPts
  <2>3. \A s \in Store, k \in Obj : Pts(Advance(S), <<s, k>>) \subseteq O[<<s, k>>]
    BY <1>8, <2>1, AdvanceIs
  <2>4. \A m \in MemRef, k \in Obj : Pts(Advance(S), <<m, k>>) \subseteq I[<<m, k>>]
    BY <1>6, <2>1, AdvanceIs
  <2> QED
    BY <2>2, <2>3, <2>4 DEF SolutionWithin

\* Andersen's sets are closed.
PreIn == [l \in Node \X Obj |-> prog.anderObj[l[2]]]
PreOut == [l \in Store \X Obj |-> prog.anderObj[l[2]]]

LEMMA PreAnalysisClosed ==
  ASSUME WellFormed(prog)
  PROVE  /\ Closed(prog.ander, PreIn, PreOut)
         /\ prog.ander \in [Var -> SUBSET Obj] /\ PreIn \in InSets /\ PreOut \in OutSets
         /\ \A n \in Node, o \in Obj : PreIn[<<n, o>>] = prog.anderObj[o]
         /\ \A s \in Store, o \in Obj : PreOut[<<s, o>>] = prog.anderObj[o]
<1> DEFINE P == prog.ander
           I == [l \in Node \X Obj |-> prog.anderObj[l[2]]]
           O == [l \in Store \X Obj |-> prog.anderObj[l[2]]]
<1>1. prog \in ProgramType
  BY DEF WellFormed
<1>2. /\ P \in [Var -> SUBSET Obj] /\ prog.anderObj \in [Obj -> SUBSET Obj]
      /\ I \in InSets /\ O \in OutSets
  BY <1>1 DEF ProgramType, InSets, OutSets
<1>3. /\ \A n \in Node, o \in Obj : I[<<n, o>>] = prog.anderObj[o]
      /\ \A s \in Store, o \in Obj : O[<<s, o>>] = prog.anderObj[o]
  OBVIOUS
<1> HIDE DEF I, O
<1>4. ClosedAt(P, I, O)
  <2>1. \A e \in prog.addr : e[1] \in P[e[2]]
    BY <1>1 DEF WellFormed
  <2>2. ASSUME NEW e \in prog.load, NEW o \in P[e[1]] PROVE I[<<e[2], o>>] \subseteq P[e[2]]
    <3>1. e[1] \in Var /\ e[2] \in Node /\ o \in Obj
      BY <1>1, <1>2 DEF ProgramType, Node
    <3> QED
      BY <1>1, <1>3, <3>1 DEF WellFormed
  <2>3. ASSUME NEW s \in Store, NEW o \in Obj
        PROVE  /\ o \in P[prog.storeDst[s]] => P[prog.storeSrc[s]] \subseteq O[<<s, o>>]
               /\ I[<<s, o>>] \subseteq O[<<s, o>>]
    BY <1>1, <1>3 DEF WellFormed, Node
  <2> QED
    BY <2>1, <2>2, <2>3 DEF ClosedAt
<1>5. ASSUME NEW F, F \subseteq IndirectEdges, NEW D, \A e \in D : P[e[1]] \subseteq P[e[2]]
      PROVE  ClosedAlong(P, I, O, D, F)
  <2>1. ASSUME NEW e \in F, NEW o \in e.guard
        PROVE  (IF e.src \in Store THEN O[<<e.src, o>>] ELSE I[<<e.src, o>>]) \subseteq I[<<e.dst, o>>]
    <3>1. e.src \in Node /\ e.dst \in Node /\ o \in Obj
      BY <1>5 DEF IndirectEdges, Node
    <3> QED
      BY <1>3, <3>1
  <2> QED
    BY <1>5, <2>1 DEF ClosedAlong
<1>6. ClosedAlong(P, I, O, prog.copy, prog.indirect)
  BY <1>1, <1>5 DEF WellFormed, ProgramType
<1>7. ASSUME NEW c \in Resolved(P) PROVE ClosedAlong(P, I, O, c[1].direct[c[2]], c[1].indirect[c[2]])
  <2>1. /\ c[1] \in prog.calls /\ c[1] \in CallSites /\ c[2] \in Obj
        /\ c[2] \in prog.ander[c[1].funPtr]
    BY <1>1 DEF Resolved, ProgramType
  <2>2. c[1].indirect[c[2]] \subseteq IndirectEdges
    BY <2>1 DEF CallSites
  <2>3. \A e \in c[1].direct[c[2]] : P[e[1]] \subseteq P[e[2]]
    BY <1>1, <2>1 DEF WellFormed
  <2> QED
    BY <1>5, <2>2, <2>3
<1>8. Closed(P, I, O)
  BY <1>4, <1>6, <1>7 DEF Closed
<1> QED
  BY <1>2, <1>3, <1>8 DEF PreIn, PreOut, I, O

\* Nothing ever leaves them.
LEMMA WithinPreAnalysis ==
  ASSUME LeastInv PROVE \A v \in Var : pts[v] \subseteq prog.ander[v]
<1>1. WellFormed(prog)
  BY DEF LeastInv, FSInv, FSTypeOK
<1> QED
  BY <1>1, PreAnalysisClosed DEF LeastInv, WithinClosed, InSets, OutSets

\* The result is the reference, of variables and of what stores leave.
LEMMA ResultExact ==
  ASSUME LeastInv, FSDone
  PROVE  /\ \A v \in Var : pts[v] = VarPts(LeastSolution, v)
         /\ \A s \in Store, o \in Obj : dfOut[<<s, o>>] = Pts(LeastSolution, <<s, o>>)
<1> DEFINE S == LeastSolution
           Q == {X \in SUBSET Pairs : SolutionWithin(X, pts, dfIn, dfOut)}
<1>1. WellFormed(prog)
  BY DEF LeastInv, FSInv, FSTypeOK
<1>2. S \in SUBSET Pairs /\ Advance(S) = S
  BY <1>1, SolutionStable
<1>3. S \in Q
  <2>1. {} \in Q
    BY DEF SolutionWithin, VarPts, Pts
  <2>2. ASSUME NEW X \in Q PROVE Advance(X) \in Q
    <3>1. Closed(pts, dfIn, dfOut) /\ \A v \in Var : pts[v] \subseteq prog.ander[v]
      BY ClosedAtEnd, WithinPreAnalysis
    <3> QED
      BY <1>1, <3>1, ClosedHolds, AdvanceType
  <2> HIDE DEF Q
  <2> QED
    BY <1>1, <2>1, <2>2, SolutionStable
<1> HIDE DEF S
<1>4. /\ \A v \in Var : VarPts(S, v) \subseteq pts[v]
      /\ \A s \in Store, o \in Obj : Pts(S, <<s, o>>) \subseteq dfOut[<<s, o>>]
  BY <1>3 DEF SolutionWithin
<1>5. /\ Closed(VarOf(S), InOf(S), OutOf(S))
      /\ VarOf(S) \in [Var -> SUBSET Obj] /\ InOf(S) \in InSets /\ OutOf(S) \in OutSets
  BY <1>1, <1>2, SolutionClosed
<1>6. /\ \A v \in Var : pts[v] \subseteq VarOf(S)[v]
      /\ \A l \in Store \X Obj : dfOut[l] \subseteq OutOf(S)[l]
  BY <1>5 DEF LeastInv, WithinClosed, InSets, OutSets
<1>7. /\ \A v \in Var : pts[v] \subseteq VarPts(S, v)
      /\ \A s \in Store, o \in Obj : dfOut[<<s, o>>] \subseteq Pts(S, <<s, o>>)
  BY <1>6 DEF VarOf, OutOf
<1>8. /\ \A v \in Var : pts[v] = VarPts(S, v)
      /\ \A s \in Store, o \in Obj : dfOut[<<s, o>>] = Pts(S, <<s, o>>)
  BY <1>4, <1>7
<1> QED
  BY <1>8 DEF S

-----------------------------------------------------------------------------
(* The theorems. *)

\* Whatever incremental propagation skips, a node that is off the worklist
\* has its constraint satisfied and its contents received, for every graph
\* and every order of the worklist (FlowSensitive::processNode, propagate,
\* updateCallGraph).
THEOREM AlwaysSettled == FSSpec => []FSSettled
<1>1. FSInit => FSInv
  BY InvInit
<1>2. FSInv /\ [FSNext]_<<prog, callees, fsVars>> => FSInv'
  BY InvPreserved
<1>3. FSInv => FSSettled
  BY DEF FSInv
<1> QED
  BY <1>1, <1>2, <1>3, PTL DEF FSSpec

\* At the end the sets satisfy all constraints, the calls resolved, and no
\* other sets that satisfy them are smaller anywhere: the result is that of
\* the equations, whatever strong updates and calls were found in which
\* order (FlowSensitive::processStore, updateCallGraph).
THEOREM ResultIsLeast == FSSpec => []ResultLeast
<1>1. LeastInv => ResultLeast
  BY ClosedAtEnd DEF ResultLeast, LeastInv
<1> QED
  BY <1>1, LeastInit, LeastStep, PTL DEF FSSpec

-----------------------------------------------------------------------------
(* The marks of the walk are final and its answers exact, for every graph, *)
(* budget and order of queries.  Inductive is this: an item of the query   *)
(* in progress is complete, or one of the calls on the stack has evaluated *)
(* it so far, or it is among what a recomputation on the stack is to       *)
(* evaluate again; and items of earlier queries rest only on each other.   *)

TargetsIn(d, map) == UNION {map[a] : a \in Address(d)}

\* Another evaluation of d adds nothing to map, and rests on V only.
Complete(d, map, V) ==
    /\ AddressTaken(d) \subseteq map[d] /\ Address(d) \cup FunPtrs(d[1]) \subseteq V
    /\ \A T : T = TargetsIn(d, map) => \A x \in Backtrace(d, T) : x \in V /\ map[x] \subseteq map[d]

\* The frame evaluates d, and what it has used is as it was.
Working(fr, d, map, V) ==
    /\ fr.item = d
    /\ \/ fr.step = "funptr" /\ FunPtrs(d[1]) \ fr.todo \subseteq V
       \/ /\ fr.step = "address" /\ FunPtrs(d[1]) \subseteq V
          /\ \A a \in Address(d) \ fr.todo : a \in V /\ map[a] \subseteq fr.targets
       \/ /\ fr.step = "backtrace" /\ FunPtrs(d[1]) \subseteq V
          /\ \A a \in Address(d) : a \in V /\ map[a] \subseteq fr.targets
          /\ \A x \in Backtrace(d, fr.targets) \ fr.todo : x \in V /\ map[x] \subseteq fr.pts
          /\ AddressTaken(d) \subseteq fr.pts

\* d is at the end of e, in a recomputation for g.
Meets(e, g, d) == d[1] = e.dst /\ (e.all \/ d[2] = g[2])

\* The frame is to evaluate d again, by one of the calls in open or later.
Again(fr, open, d) ==
    /\ fr.step \in {"newcalls", "recompute"}
    /\ \/ d \in open
       \/ \E e \in fr.edges : Meets(e, fr.item, d)
       \/ fr.step = "newcalls" /\ \E e \in OutEdges(fr.item[1]) : Meets(e, fr.item, d)

\* One of the frames does; open are the calls the innermost has not begun,
\* the others have begun one.
InWork(s, open, d, map, V) ==
    \E j \in 1 .. Len(s) :
        \/ Working(s[j], d, map, V)
        \/ Again(s[j], IF j = 1 THEN open ELSE s[j].todo \ {s[j - 1].item}, d)

\* What earlier queries marked.
Kept == backwardVisited \ locToDpm

KeptComplete ==
    \A map, V : map = cached /\ V = Kept => \A d \in V \ outOfBudgetDpms : Complete(d, map, V)

\* Within the budget, every item of the query is complete, under way, or
\* about to be evaluated again.
AllInWork ==
    ~outOfBudgetQuery =>
        \A s, map, V : s = stack /\ map = cached /\ V = backwardVisited =>
            \A d \in locToDpm : Complete(d, map, V) \/ InWork(s, s[1].todo, d, map, V)

CallsResolved == \A d \in Item : NewCallees(d, cached[d]) = {}

FrameOfQuery(fr, L) == fr.item \in L /\ (fr.step \in {"newcalls", "recompute"} => fr.todo \subseteq L)

StackOfQuery(s, L) == \A j \in 1 .. Len(s) : FrameOfQuery(s[j], L)

OfQuery ==
    /\ locToDpm \subseteq backwardVisited /\ outOfBudgetDpms \subseteq backwardVisited
    /\ phase # "rest" => locToDpm \cap outOfBudgetDpms = {}
    /\ StackOfQuery(stack, locToDpm)
    /\ phase # "rest" /\ (outOfBudgetQuery \/ locToDpm # {}) => query \in locToDpm
    /\ phase = "start" => locToDpm = {} /\ ~outOfBudgetQuery
    /\ phase = "downgraded" => outOfBudgetQuery

VisitedInv == OfQuery /\ CallsResolved /\ KeptComplete /\ AllInWork
-----------------------------------------------------------------------------
(* The rules of evaluation. *)

\* With more targets more is traced back to.
LEMMA BacktraceMonotone ==
  ASSUME NEW d, NEW T, NEW U, T \subseteq U
  PROVE  Backtrace(d, T) \subseteq Backtrace(d, U)
<1>1. IF T \ {d[2]} # {} THEN U \ {d[2]} # {} ELSE TRUE
  OBVIOUS
<1>2. T # {} /\ ~IsStrongUpdate(T) => U \ {d[2]} # {} \/ (U # {} /\ ~IsStrongUpdate(U))
  BY DEF IsStrongUpdate
<1>3. BacktraceStore(d[1], d[2], T) \subseteq BacktraceStore(d[1], d[2], U)
  BY <1>1, <1>2 DEF BacktraceStore
<1>4. UNION {AlongIndirect(d[1], o) : o \in {x \in T : IsLoad(d[1])}}
        \subseteq UNION {AlongIndirect(d[1], o) : o \in {x \in U : IsLoad(d[1])}}
  OBVIOUS
<1> QED
  BY <1>3, <1>4 DEF Backtrace

\* A frame that has made all its calls, and found nothing new, has evaluated
\* its item.
LEMMA Evaluates ==
  ASSUME NEW fr, NEW d, NEW map, NEW V, Working(fr, d, map, V),
         fr.step = "backtrace", fr.todo = {}, fr.pts \subseteq map[d]
  PROVE  Complete(d, map, V)
<1>1. /\ FunPtrs(d[1]) \subseteq V
      /\ \A a \in Address(d) : a \in V /\ map[a] \subseteq fr.targets
      /\ \A x \in Backtrace(d, fr.targets) : x \in V /\ map[x] \subseteq fr.pts
      /\ AddressTaken(d) \subseteq fr.pts
  BY DEF Working
<1>2. TargetsIn(d, map) \subseteq fr.targets
  BY <1>1 DEF TargetsIn
<1>3. Backtrace(d, TargetsIn(d, map)) \subseteq Backtrace(d, fr.targets)
  BY <1>2, BacktraceMonotone
<1> QED
  BY <1>1, <1>3 DEF Complete

\* Where nothing an item rests on changes.
LEMMA CompleteStays ==
  ASSUME NEW d, NEW map, NEW map2, NEW V, NEW W, Complete(d, map, V), V \subseteq W,
         \A x \in Address(d) \cup Backtrace(d, TargetsIn(d, map)) : map2[x] = map[x],
         map[d] \subseteq map2[d]
  PROVE  Complete(d, map2, W)
<1>1. TargetsIn(d, map2) = TargetsIn(d, map)
  BY DEF TargetsIn
<1> QED
  BY <1>1 DEF Complete

LEMMA WorkingStays ==
  ASSUME NEW fr, NEW d, NEW map, NEW map2, NEW V, NEW W, Working(fr, d, map, V), V \subseteq W,
         \A x \in Address(d) \cup Backtrace(d, fr.targets) : map2[x] = map[x]
  PROVE  Working(fr, d, map2, W)
  BY DEF Working

\* The users of an item are at the end of edges from its node.
LEMMA Users ==
  ASSUME TypeOK, NEW x \in Item, NEW T, NEW g \in Address(x) \cup Backtrace(x, T)
  PROVE  \E e \in OutEdges(g[1]) : Meets(e, g, x)
<1> DEFINE Met(e) == e \in OutEdges(g[1]) /\ Meets(e, g, x)
<1>1. \A k \in BOOLEAN : \A n : Edge(n, k).dst = n /\ Edge(n, k).all = k
  BY DEF Edge
<1>2. ASSUME NEW e \in Direct \cup prog.load, e[2] = x[1], g = VarItem(e[1])
      PROVE  Met(Edge(x[1], TRUE))
  BY <1>1, <1>2 DEF OutEdges, Meets, VarItem
<1>3. ASSUME NEW s \in Store, s = x[1], g = VarItem(prog.storeDst[s]) \/ g = VarItem(prog.storeSrc[s])
      PROVE  Met(Edge(x[1], TRUE))
  <2>1. g[1] \in {prog.storeDst[s], prog.storeSrc[s]}
    BY <1>3 DEF VarItem
  <2>2. Edge(s, TRUE) \in OutEdges(g[1])
    BY <2>1 DEF OutEdges
  <2> QED
    BY <1>1, <1>3, <2>2 DEF Meets
<1>4. ASSUME NEW o, g \in AlongIndirect(x[1], o), o = x[2] \/ IsLoad(x[1])
      PROVE  Met(Edge(x[1], IsLoad(x[1])))
  <2>1. PICK e \in Indirect : e.dst = x[1] /\ g = <<e.src, o>>
    BY <1>4 DEF AlongIndirect
  <2>2. Edge(x[1], IsLoad(x[1])) \in OutEdges(g[1])
    BY <2>1 DEF OutEdges
  <2>3. IsLoad(x[1]) \in BOOLEAN
    BY DEF IsLoad
  <2>4. Edge(x[1], IsLoad(x[1])).dst = x[1] /\ Edge(x[1], IsLoad(x[1])).all = IsLoad(x[1])
    BY <1>1, <2>3
  <2> QED
    BY <1>4, <2>1, <2>2, <2>4 DEF Meets
<1>5. CASE g \in Address(x)
  BY <1>2, <1>3, <1>5 DEF Address
<1>6. CASE g \in Backtrace(x, T)
  <2>1. CASE x[1] \in Store
    BY <1>3, <1>4, <1>6, <2>1 DEF Backtrace, BacktraceStore
  <2>2. CASE x[1] \notin Store /\ x[1] \in MemRef
    BY <1>4, <1>6, <2>2 DEF Backtrace
  <2>3. CASE x[1] \notin Store /\ x[1] \notin MemRef
    BY <1>2, <1>4, <1>6, <2>3 DEF Backtrace, AlongDirect
  <2> QED
    BY <2>1, <2>2, <2>3
<1> QED
  BY <1>5, <1>6

\* Calls found on the way change what an item is traced back to only at the
\* ends of their edges, which wait for the function pointer.
LEMMA EdgesOfCalls ==
  ASSUME NEW new, prog' = prog, callees' = callees \cup new, NEW x,
         \A e \in CallEdges(new) : e.dst # x[1]
  PROVE  \A T : Backtrace(x, T)' = Backtrace(x, T)
<1>0. \A n : Edge(n, TRUE).dst = n
  BY DEF Edge
<1>1. ASSUME NEW c \in new
      PROVE  /\ \A e \in c[1].direct[c[2]] : e[2] # x[1]
             /\ \A e \in c[1].indirect[c[2]] : e.dst # x[1]
  <2> DEFINE D(k) == {Edge(e[2], TRUE) : e \in k[1].direct[k[2]]}
             I(k) == {Edge(e.dst, TRUE) : e \in k[1].indirect[k[2]]}
  <2>1. D(c) \cup I(c) \subseteq CallEdges(new)
    <3>1. CallEdges(new) = UNION {D(k) \cup I(k) : k \in new}
      BY DEF CallEdges
    <3> HIDE DEF D, I
    <3> QED
      BY <3>1
  <2>2. \A e \in D(c) \cup I(c) : e.dst # x[1]
    BY <2>1
  <2> QED
    BY <1>0, <2>2
<1>3. AlongDirect(x[1])' = AlongDirect(x[1])
  BY <1>1 DEF AlongDirect, Direct
<1>4. \A o : AlongIndirect(x[1], o)' = AlongIndirect(x[1], o)
  BY <1>1 DEF AlongIndirect, Indirect
<1>5. IsLoad(x[1])' = IsLoad(x[1]) /\ \A T : IsStrongUpdate(T)' = IsStrongUpdate(T)
  BY DEF IsLoad, IsStrongUpdate
<1>6. \A o, T : BacktraceStore(x[1], o, T)' = BacktraceStore(x[1], o, T)
  BY <1>4, <1>5 DEF BacktraceStore
<1> QED
  BY <1>3, <1>4, <1>5, <1>6 DEF Backtrace

LEMMA SameProgram ==
  ASSUME prog' = prog
  PROVE  /\ \A x : Address(x)' = Address(x) /\ AddressTaken(x)' = AddressTaken(x)
         /\ \A n : FunPtrs(n)' = FunPtrs(n)
  BY DEF Address, AddressTaken, FunPtrs

LEMMA WaitForPointer ==
  ASSUME TypeOK, NEW g \in Item, NEW S, S \subseteq Ander(g), NEW new, new \subseteq NewCallees(g, S),
         NEW e \in CallEdges(new)
  PROVE  g \in FunPtrs(e.dst)
<1>1. PICK c \in new : e \in {Edge(d[2], TRUE) : d \in c[1].direct[c[2]]}
                             \cup {Edge(d.dst, TRUE) : d \in c[1].indirect[c[2]]}
  BY DEF CallEdges
<1>2. c[1] \in prog.calls /\ VarItem(c[1].funPtr) = g /\ c[2] \in prog.ander[c[1].funPtr]
  BY NewCalleesWithin DEF TypeOK, NewCallees
<1>3. e.dst \in {d[2] : d \in c[1].direct[c[2]]} \cup {d.dst : d \in c[1].indirect[c[2]]}
  BY <1>1 DEF Edge
<1>4. e.dst \in c[1].rets \cup prog.entries[c[2]]
  BY <1>2, <1>3 DEF TypeOK, WellFormed
<1> QED
  BY <1>2, <1>4 DEF FunPtrs
-----------------------------------------------------------------------------
(* Stacks. *)

LEMMA Cons ==
  ASSUME NEW fr \in Frame, NEW r \in Seq(Frame)
  PROVE  /\ <<fr>> \o r \in Seq(Frame) /\ Len(<<fr>> \o r) = Len(r) + 1 /\ Len(r) \in Nat
         /\ (<<fr>> \o r)[1] = fr
         /\ \A i \in 1 .. Len(r) + 1 : i # 1 => i - 1 \in 1 .. Len(r) /\ (<<fr>> \o r)[i] = r[i - 1]
<1>1. <<fr>> \in Seq(Frame) /\ Len(<<fr>>) = 1 /\ <<fr>>[1] = fr
  OBVIOUS
<1> QED
  BY <1>1, ConcatProperties

LEMMA ConsOf ==
  ASSUME NEW r \in Seq(Frame), r # <<>>
  PROVE  r[1] \in Frame /\ Head(r) = r[1] /\ Tail(r) \in Seq(Frame) /\ <<r[1]>> \o Tail(r) = r
<1>1. r[1] \in Frame /\ Head(r) = r[1] /\ Tail(r) \in Seq(Frame)
  BY ElementOfSeq, EmptySeq, HeadTailProperties
<1>2. /\ Len(Tail(r)) = Len(r) - 1 /\ Len(r) \in Nat \ {0}
      /\ \A i \in 1 .. Len(Tail(r)) : Tail(r)[i] = r[i + 1]
  BY EmptySeq, HeadTailProperties
<1> DEFINE t == <<r[1]>> \o Tail(r)
<1>3. t \in Seq(Frame) /\ Len(t) = Len(r)
      /\ \A i \in 1 .. Len(t) : t[i] = r[i]
  BY <1>1, <1>2, Cons
<1> HIDE DEF t
<1>4. t = r
  BY <1>3, SeqEqual
<1> QED
  BY <1>1, <1>4 DEF t

LEMMA WorkParts ==
  ASSUME NEW fr \in Frame, NEW r \in Seq(Frame), NEW open, NEW d, NEW map, NEW V
  PROVE  InWork(<<fr>> \o r, open, d, map, V)
           <=> \/ Working(fr, d, map, V) \/ Again(fr, open, d)
               \/ InWork(r, r[1].todo \ {fr.item}, d, map, V)
<1> DEFINE s == <<fr>> \o r
           P(j) == Working(s[j], d, map, V) \/ Again(s[j], IF j = 1 THEN open ELSE s[j].todo \ {s[j - 1].item}, d)
           Q(j) == Working(r[j], d, map, V)
                   \/ Again(r[j], IF j = 1 THEN r[1].todo \ {fr.item} ELSE r[j].todo \ {r[j - 1].item}, d)
<1>1. /\ s \in Seq(Frame) /\ Len(s) = Len(r) + 1 /\ Len(r) \in Nat
      /\ s[1] = fr /\ \A i \in 1 .. Len(s) : i # 1 => i - 1 \in 1 .. Len(r) /\ s[i] = r[i - 1]
  BY Cons
<1> HIDE DEF s
<1>2. P(1) <=> Working(fr, d, map, V) \/ Again(fr, open, d)
  BY <1>1
<1>3. ASSUME NEW j \in 1 .. Len(r) PROVE P(j + 1) <=> Q(j)
  <2>1. j + 1 \in 1 .. Len(s) /\ j + 1 # 1 /\ s[j + 1] = r[j] /\ (j + 1) - 1 = j
    BY <1>1
  <2>2. j = 1 => s[j] = fr
    BY <1>1
  <2>3. j # 1 => s[j] = r[j - 1]
    BY <1>1
  <2> QED
    BY <2>1, <2>2, <2>3
<1>4. InWork(s, open, d, map, V) <=> \E j \in 1 .. Len(s) : P(j)
  BY DEF InWork
<1>5. InWork(r, r[1].todo \ {fr.item}, d, map, V) <=> \E j \in 1 .. Len(r) : Q(j)
  BY DEF InWork
<1> HIDE DEF P, Q
<1>6. (\E j \in 1 .. Len(s) : P(j)) <=> P(1) \/ \E j \in 1 .. Len(r) : Q(j)
  <2>1. ASSUME NEW j \in 1 .. Len(s), P(j), j # 1 PROVE Q(j - 1) /\ j - 1 \in 1 .. Len(r)
    <3>1. j - 1 \in 1 .. Len(r) /\ (j - 1) + 1 = j
      BY <1>1, <2>1
    <3>2. P((j - 1) + 1) <=> Q(j - 1)
      BY <1>3, <3>1
    <3> QED
      BY <2>1, <3>1, <3>2
  <2>2. \A j \in 1 .. Len(r) : j + 1 \in 1 .. Len(s)
    BY <1>1
  <2>3. 1 \in 1 .. Len(s)
    BY <1>1
  <2> QED
    BY <1>3, <2>1, <2>2, <2>3
<1> QED
  BY <1>2, <1>4, <1>5, <1>6 DEF s

\* The same of the frames of a stack that is there.
LEMMA WorkPartsOf ==
  ASSUME NEW r \in Seq(Frame), r # <<>>, NEW open, NEW d, NEW map, NEW V
  PROVE  InWork(r, open, d, map, V)
           <=> \/ Working(r[1], d, map, V) \/ Again(r[1], open, d)
               \/ InWork(Tail(r), Tail(r)[1].todo \ {r[1].item}, d, map, V)
<1> DEFINE f == r[1]
           t == Tail(r)
<1>1. f \in Frame /\ t \in Seq(Frame) /\ <<f>> \o t = r
  BY ConsOf
<1> HIDE DEF f, t
<1>2. InWork(<<f>> \o t, open, d, map, V)
        <=> \/ Working(f, d, map, V) \/ Again(f, open, d)
            \/ InWork(t, t[1].todo \ {f.item}, d, map, V)
  BY <1>1, WorkParts
<1> QED
  BY <1>1, <1>2 DEF f, t

LEMMA NoWork ==
  ASSUME NEW open, NEW d, NEW map, NEW V
  PROVE  ~InWork(<<>>, open, d, map, V)
  BY EmptySeq DEF InWork

\* Where frames go on with what they do.
LEMMA WorkStays ==
  ASSUME NEW s, NEW open, NEW open2, NEW d, NEW map, NEW map2, NEW V, NEW W,
         InWork(s, open, d, map, V), open \ open2 \subseteq {x \in open : x # d},
         \A fr : Working(fr, d, map, V) => Working(fr, d, map2, W)
  PROVE  InWork(s, open2, d, map2, W)
<1>1. \A fr : Again(fr, open, d) => Again(fr, open2, d)
  BY DEF Again
<1> QED
  BY <1>1 DEF InWork

LEMMA StackParts ==
  ASSUME NEW fr \in Frame, NEW r \in Seq(Frame), NEW L
  PROVE  StackOfQuery(<<fr>> \o r, L) <=> FrameOfQuery(fr, L) /\ StackOfQuery(r, L)
<1> DEFINE s == <<fr>> \o r
<1>1. /\ s \in Seq(Frame) /\ Len(s) = Len(r) + 1 /\ Len(r) \in Nat
      /\ s[1] = fr /\ \A i \in 1 .. Len(s) : i # 1 => i - 1 \in 1 .. Len(r) /\ s[i] = r[i - 1]
  BY Cons
<1> HIDE DEF s
<1>2. \A j \in 1 .. Len(r) : j + 1 \in 1 .. Len(s) /\ s[j + 1] = r[j]
  BY <1>1
<1>3. 1 \in 1 .. Len(s)
  BY <1>1
<1>4. ASSUME StackOfQuery(s, L) PROVE FrameOfQuery(fr, L) /\ StackOfQuery(r, L)
  <2>1. FrameOfQuery(fr, L)
    BY <1>1, <1>3, <1>4 DEF StackOfQuery
  <2>2. ASSUME NEW j \in 1 .. Len(r) PROVE FrameOfQuery(r[j], L)
    BY <1>2, <1>4, <2>2 DEF StackOfQuery
  <2> QED
    BY <2>1, <2>2 DEF StackOfQuery
<1>5. ASSUME FrameOfQuery(fr, L), StackOfQuery(r, L) PROVE StackOfQuery(s, L)
  <2>1. ASSUME NEW i \in 1 .. Len(s) PROVE FrameOfQuery(s[i], L)
    <3>1. CASE i = 1
      BY <1>1, <1>5, <3>1
    <3>2. CASE i # 1
      BY <1>1, <1>5, <3>2 DEF StackOfQuery
    <3> QED
      BY <3>1, <3>2
  <2> QED
    BY <2>1 DEF StackOfQuery
<1> QED
  BY <1>4, <1>5 DEF s

LEMMA StackPartsOf ==
  ASSUME NEW r \in Seq(Frame), r # <<>>, NEW L
  PROVE  StackOfQuery(r, L) <=> FrameOfQuery(r[1], L) /\ StackOfQuery(Tail(r), L)
<1>1. r[1] \in Frame /\ Tail(r) \in Seq(Frame) /\ <<r[1]>> \o Tail(r) = r
  BY ConsOf
<1>2. StackOfQuery(<<r[1]>> \o Tail(r), L) <=> FrameOfQuery(r[1], L) /\ StackOfQuery(Tail(r), L)
  BY <1>1, StackParts
<1> QED
  BY <1>1, <1>2

LEMMA StackGrows ==
  ASSUME NEW s, NEW L, NEW M, L \subseteq M, StackOfQuery(s, L)
  PROVE  StackOfQuery(s, M)
  BY DEF StackOfQuery, FrameOfQuery
-----------------------------------------------------------------------------
(* What does not change. *)

LEMMA SameRules ==
  ASSUME prog' = prog, callees' = callees
  PROVE  /\ \A x, T : Backtrace(x, T)' = Backtrace(x, T)
         /\ \A n : OutEdges(n)' = OutEdges(n)
<1>1. \A x, T : Backtrace(x, T)' = Backtrace(x, T)
  <2>1. \A n : AlongDirect(n)' = AlongDirect(n)
    BY DEF AlongDirect, Direct
  <2>2. \A n, o : AlongIndirect(n, o)' = AlongIndirect(n, o)
    BY DEF AlongIndirect, Indirect
  <2>3. (\A n : IsLoad(n)' = IsLoad(n)) /\ \A T : IsStrongUpdate(T)' = IsStrongUpdate(T)
    BY DEF IsLoad, IsStrongUpdate
  <2>4. \A s, o, T : BacktraceStore(s, o, T)' = BacktraceStore(s, o, T)
    BY <2>2, <2>3 DEF BacktraceStore
  <2> QED
    BY <2>1, <2>2, <2>3, <2>4 DEF Backtrace
<1>2. \A n : OutEdges(n)' = OutEdges(n)
  BY DEF OutEdges, Direct, Indirect, IsLoad
<1> QED
  BY <1>1, <1>2

LEMMA RulesAt ==
  ASSUME prog' = prog, NEW x, \A T : Backtrace(x, T)' = Backtrace(x, T)
  PROVE  /\ \A map, V : Complete(x, map, V)' <=> Complete(x, map, V)
         /\ \A fr, map, V : Working(fr, x, map, V)' <=> Working(fr, x, map, V)
<1>1. /\ Address(x)' = Address(x) /\ AddressTaken(x)' = AddressTaken(x)
      /\ FunPtrs(x[1])' = FunPtrs(x[1])
  BY SameProgram
<1>2. \A map : TargetsIn(x, map)' = TargetsIn(x, map)
  BY <1>1 DEF TargetsIn
<1>3. \A map, V : Complete(x, map, V)' <=> Complete(x, map, V)
  BY <1>1, <1>2 DEF Complete
<1>4. \A fr, map, V : Working(fr, x, map, V)' <=> Working(fr, x, map, V)
  BY <1>1 DEF Working
<1> QED
  BY <1>3, <1>4

LEMMA AgainStays ==
  ASSUME prog' = prog, callees \subseteq callees'
  PROVE  \A fr, open, x : Again(fr, open, x) => Again(fr, open, x)'
<1>1. Direct \subseteq Direct' /\ Indirect \subseteq Indirect'
  BY DEF Direct, Indirect
<1>2. \A n : IsLoad(n)' = IsLoad(n)
  BY DEF IsLoad
<1>3. \A n : OutEdges(n) \subseteq OutEdges(n)'
  BY <1>1, <1>2 DEF OutEdges
<1>4. \A e, g, x : Meets(e, g, x)' <=> Meets(e, g, x)
  BY DEF Meets
<1> SUFFICES ASSUME NEW fr, NEW open, NEW x, Again(fr, open, x) PROVE Again(fr, open, x)'
  OBVIOUS
<1>5. CASE x \in open
  BY <1>5 DEF Again
<1>6. CASE \E e \in fr.edges : Meets(e, fr.item, x)
  BY <1>4, <1>6 DEF Again
<1>7. CASE fr.step = "newcalls" /\ \E e \in OutEdges(fr.item[1]) : Meets(e, fr.item, x)
  <2>1. PICK e \in OutEdges(fr.item[1]) : Meets(e, fr.item, x)
    BY <1>7
  <2>2. e \in OutEdges(fr.item[1])' /\ Meets(e, fr.item, x)'
    BY <1>3, <1>4, <2>1
  <2> QED
    BY <1>7, <2>2 DEF Again
<1> QED
  BY <1>5, <1>6, <1>7 DEF Again

\* The parts of the invariant after a step that finds no calls.
LEMMA InWorkNext ==
  ASSUME prog' = prog, callees' = callees,
         ~outOfBudgetQuery' => \A d \in locToDpm' : \/ Complete(d, cached', backwardVisited')
                                                   \/ InWork(stack', stack'[1].todo, d, cached', backwardVisited')
  PROVE  AllInWork'
<1>1. /\ \A d, map, V : Complete(d, map, V)' <=> Complete(d, map, V)
      /\ \A d, fr, map, V : Working(fr, d, map, V)' <=> Working(fr, d, map, V)
  BY SameRules, RulesAt
<1>2. ASSUME NEW s, NEW open, NEW d, NEW map, NEW V, InWork(s, open, d, map, V)
      PROVE  InWork(s, open, d, map, V)'
  <2>1. \A fr, o, x : Again(fr, o, x) => Again(fr, o, x)'
    BY AgainStays
  <2>2. PICK j \in 1 .. Len(s) :
            \/ Working(s[j], d, map, V)
            \/ Again(s[j], IF j = 1 THEN open ELSE s[j].todo \ {s[j - 1].item}, d)
    BY <1>2 DEF InWork
  <2>3. \/ Working(s[j], d, map, V)'
        \/ Again(s[j], IF j = 1 THEN open ELSE s[j].todo \ {s[j - 1].item}, d)'
    BY <1>1, <2>1, <2>2
  <2> QED
    BY <2>3 DEF InWork
<1> SUFFICES ASSUME ~outOfBudgetQuery', NEW s, NEW map, NEW V, s = stack', map = cached', V = backwardVisited',
                    NEW d \in locToDpm'
             PROVE  Complete(d, map, V)' \/ InWork(s, s[1].todo, d, map, V)'
  BY DEF AllInWork
<1>3. Complete(d, map, V) \/ InWork(s, s[1].todo, d, map, V)
  OBVIOUS
<1> QED
  BY <1>1, <1>2, <1>3

LEMMA KeptNext ==
  ASSUME prog' = prog, callees' = callees, cached' = cached, Kept' = Kept,
         outOfBudgetDpms \subseteq outOfBudgetDpms', KeptComplete
  PROVE  KeptComplete'
<1>1. \A d, map, V : Complete(d, map, V)' <=> Complete(d, map, V)
  BY SameRules, RulesAt
<1> SUFFICES ASSUME NEW map, NEW V, map = cached', V = Kept', NEW d \in V \ outOfBudgetDpms'
             PROVE  Complete(d, map, V)'
  BY DEF KeptComplete
<1>2. Complete(d, map, V)
  BY DEF KeptComplete
<1> QED
  BY <1>1, <1>2

LEMMA ResolvedNext ==
  ASSUME prog' = prog, callees \subseteq callees', cached' = cached, CallsResolved
  PROVE  CallsResolved'
  BY DEF CallsResolved, NewCallees
-----------------------------------------------------------------------------
(* The steps keep what has been visited complete. *)

LEMMA AbsorbFields ==
  ASSUME NEW fr \in Frame, NEW d \in Item, cached \in [Item -> SUBSET Obj]
  PROVE  LET g == Absorb(fr, d, cached)
         IN  /\ g \in Frame /\ g.item = fr.item /\ g.step = fr.step /\ g.edges = fr.edges
             /\ g.todo = fr.todo \ {d}
             /\ g.targets = IF fr.step = "address" THEN fr.targets \cup cached[d] ELSE fr.targets
             /\ g.pts = IF fr.step = "backtrace" THEN fr.pts \cup cached[d] ELSE fr.pts
<1>1. cached[d] \in SUBSET Obj
  OBVIOUS
<1> QED
  BY <1>1 DEF Absorb, Frame

LEMMA AbsorbGoesOn ==
  ASSUME NEW fr \in Frame, NEW d \in Item, cached \in [Item -> SUBSET Obj], NEW V, d \in V
  PROVE  /\ \A x : Working(fr, x, cached, V) => Working(Absorb(fr, d, cached), x, cached, V)
         /\ \A open, x : Again(fr, open, x) => Again(Absorb(fr, d, cached), open, x)
         /\ \A L : FrameOfQuery(fr, L) => FrameOfQuery(Absorb(fr, d, cached), L)
<1> DEFINE g == Absorb(fr, d, cached)
<1>1. /\ g \in Frame /\ g.item = fr.item /\ g.step = fr.step /\ g.edges = fr.edges
      /\ g.todo = fr.todo \ {d}
      /\ g.targets = IF fr.step = "address" THEN fr.targets \cup cached[d] ELSE fr.targets
      /\ g.pts = IF fr.step = "backtrace" THEN fr.pts \cup cached[d] ELSE fr.pts
  BY AbsorbFields
<1> HIDE DEF g
<1>2. ASSUME NEW x, Working(fr, x, cached, V) PROVE Working(g, x, cached, V)
  <2>1. CASE fr.step = "funptr"
    BY <1>1, <1>2, <2>1 DEF Working
  <2>2. CASE fr.step = "address"
    BY <1>1, <1>2, <2>2 DEF Working
  <2>3. CASE fr.step = "backtrace"
    BY <1>1, <1>2, <2>3 DEF Working
  <2> QED
    BY <1>2, <2>1, <2>2, <2>3 DEF Working
<1>3. \A open, x : Again(fr, open, x) => Again(g, open, x)
  BY <1>1 DEF Again
<1>4. \A L : FrameOfQuery(fr, L) => FrameOfQuery(g, L)
  BY <1>1 DEF FrameOfQuery
<1> QED
  BY <1>2, <1>3, <1>4 DEF g

LEMMA ResolvingWorks ==
  ASSUME NEW d \in Item, WellFormed(prog)
  PROVE  /\ Resolving(d) \in Frame /\ Resolving(d).item = d
         /\ \A map, V : Working(Resolving(d), d, map, V)
         /\ \A L : d \in L => FrameOfQuery(Resolving(d), L)
<1>1. /\ Resolving(d) \in Frame /\ Resolving(d).item = d /\ Resolving(d).step = "funptr"
      /\ Resolving(d).todo = FunPtrs(d[1])
  BY FramesMade DEF Resolving, NewFrame
<1> QED
  BY <1>1 DEF Working, FrameOfQuery

\* The stack in parts.
LEMMA StackIs ==
  ASSUME Inv, stack # <<>>
  PROVE  /\ Top \in Frame /\ Top.item \in Item /\ Top.todo \subseteq Item
         /\ Below \in Seq(Frame) /\ stack \in Seq(Frame)
         /\ <<Top>> \o Below = stack /\ Top = stack[1] /\ phase \notin {"rest", "start"}
         /\ cached \in [Item -> SUBSET Obj] /\ WellFormed(prog)
<1>1. stack \in Seq(Frame)
  BY DEF Inv, TypeOK
<1>2. Top \in Frame /\ Below \in Seq(Frame) /\ <<Top>> \o Below = stack
  BY <1>1, ConsOf DEF Top, Below
<1>3. Top.item \in Item /\ Top.todo \subseteq Item
  BY <1>2 DEF Frame
<1> QED
  BY <1>1, <1>2, <1>3, TopFrame DEF Inv, TypeOK, Top

LEMMA CallParts ==
  ASSUME Inv, OfQuery, NEW d \in Item, Call(d)
  PROVE  /\ stack # <<>> /\ d \in Top.todo
         /\ UNCHANGED <<prog, queries, query, phase, cached, outOfBudgetDpms, callees>>
         /\ \/ /\ d \in backwardVisited /\ Top.step \notin {"newcalls", "recompute"}
               /\ UNCHANGED searchVars /\ stack' = AbsorbTop(d)
            \/ /\ backwardVisited' = backwardVisited \cup {d} /\ locToDpm' = locToDpm \cup {d}
               /\ Kept' = Kept /\ d \notin outOfBudgetDpms
               /\ outOfBudgetQuery => outOfBudgetQuery'
               /\ stack' = AbsorbTop(d) \/ stack' = <<Resolving(d)>> \o stack
               /\ ~outOfBudgetQuery' => stack' = <<Resolving(d)>> \o stack
<1>1. /\ stack # <<>> /\ d \in Top.todo
      /\ UNCHANGED <<prog, queries, query, phase, cached, outOfBudgetDpms, callees>>
  BY DEF Call
<1>2. /\ stack \in Seq(Frame) /\ FrameOfQuery(Top, locToDpm) /\ phase # "rest"
      /\ locToDpm \subseteq backwardVisited /\ outOfBudgetDpms \subseteq backwardVisited
      /\ locToDpm \cap outOfBudgetDpms = {}
  BY <1>1, StackIs, StackPartsOf DEF OfQuery
<1>3. CASE Top.step \in {"newcalls", "recompute"}
  <2>1. d \in locToDpm /\ d \in backwardVisited /\ d \notin outOfBudgetDpms
    BY <1>1, <1>2, <1>3 DEF FrameOfQuery
  <2>2. FindPT(d, backwardVisited \ {d}, AbsorbTop(d))
    BY <1>3 DEF Call
  <2>3. /\ backwardVisited' = backwardVisited \cup {d} /\ locToDpm' = locToDpm \cup {d}
        /\ outOfBudgetQuery => outOfBudgetQuery'
        /\ stack' = AbsorbTop(d) \/ stack' = <<Resolving(d)>> \o stack
        /\ ~outOfBudgetQuery' => stack' = <<Resolving(d)>> \o stack
    BY <2>1, <2>2 DEF FindPT
  <2>4. Kept' = Kept
    BY <1>2, <2>1, <2>3 DEF Kept
  <2> QED
    BY <1>1, <2>1, <2>3, <2>4
<1>4. CASE Top.step \notin {"newcalls", "recompute"}
  <2>1. FindPT(d, backwardVisited, AbsorbTop(d))
    BY <1>4 DEF Call
  <2>2. CASE d \in backwardVisited
    BY <1>1, <1>4, <2>1, <2>2 DEF FindPT, searchVars
  <2>3. CASE d \notin backwardVisited
    <3>1. d \notin outOfBudgetDpms
      BY <1>2, <2>3
    <3>2. /\ backwardVisited' = backwardVisited \cup {d} /\ locToDpm' = locToDpm \cup {d}
          /\ outOfBudgetQuery => outOfBudgetQuery'
          /\ stack' = AbsorbTop(d) \/ stack' = <<Resolving(d)>> \o stack
          /\ ~outOfBudgetQuery' => stack' = <<Resolving(d)>> \o stack
      BY <2>1, <2>3, <3>1 DEF FindPT
    <3>3. Kept' = Kept
      BY <2>3, <3>2 DEF Kept
    <3> QED
      BY <1>1, <3>1, <3>2, <3>3
  <2> QED
    BY <2>2, <2>3
<1> QED
  BY <1>3, <1>4

LEMMA StackNext ==
  ASSUME StackOfQuery(stack', locToDpm')
  PROVE  StackOfQuery(stack, locToDpm)'
  BY DEF StackOfQuery, FrameOfQuery

LEMMA AbsorbTopIs ==
  ASSUME Inv, stack # <<>>, NEW d \in Item
  PROVE  /\ Absorb(Top, d, cached) \in Frame /\ AbsorbTop(d) = <<Absorb(Top, d, cached)>> \o Below
         /\ Absorb(Top, d, cached).item = Top.item /\ Absorb(Top, d, cached).todo = Top.todo \ {d}
         /\ AbsorbTop(d)[1] = Absorb(Top, d, cached)
<1>1. /\ Absorb(Top, d, cached) \in Frame /\ Absorb(Top, d, cached).item = Top.item
      /\ Absorb(Top, d, cached).todo = Top.todo \ {d}
  BY StackIs, AbsorbFields
<1> QED
  BY <1>1, StackIs, Cons DEF AbsorbTop

LEMMA CallVisited ==
  ASSUME Inv, VisitedInv, NEW d \in Item, Call(d)
  PROVE  VisitedInv'
<1> DEFINE first == /\ d \in backwardVisited /\ Top.step \notin {"newcalls", "recompute"}
                    /\ UNCHANGED searchVars /\ stack' = AbsorbTop(d)
           second == /\ backwardVisited' = backwardVisited \cup {d} /\ locToDpm' = locToDpm \cup {d}
                     /\ Kept' = Kept /\ d \notin outOfBudgetDpms
                     /\ outOfBudgetQuery => outOfBudgetQuery'
                     /\ stack' = AbsorbTop(d) \/ stack' = <<Resolving(d)>> \o stack
                     /\ ~outOfBudgetQuery' => stack' = <<Resolving(d)>> \o stack
           ab == Absorb(Top, d, cached)
<1>1. /\ stack # <<>> /\ d \in Top.todo
      /\ UNCHANGED <<prog, queries, query, phase, cached, outOfBudgetDpms, callees>>
      /\ first \/ second
  BY CallParts DEF VisitedInv
<1>2. /\ Top \in Frame /\ Top.item \in Item /\ Below \in Seq(Frame) /\ stack \in Seq(Frame)
      /\ <<Top>> \o Below = stack /\ Top = stack[1] /\ phase \notin {"rest", "start"}
      /\ cached \in [Item -> SUBSET Obj] /\ WellFormed(prog)
  BY <1>1, StackIs
<1>3. /\ ab \in Frame /\ AbsorbTop(d) = <<ab>> \o Below /\ ab.item = Top.item /\ ab.todo = Top.todo \ {d}
      /\ AbsorbTop(d)[1] = ab
  BY <1>1, AbsorbTopIs
<1>4. /\ FrameOfQuery(Top, locToDpm) /\ StackOfQuery(Below, locToDpm) /\ StackOfQuery(stack, locToDpm)
  BY <1>2, StackParts DEF VisitedInv, OfQuery
<1>5. FrameOfQuery(ab, locToDpm)
  BY <1>3, <1>4, AbsorbFields, <1>2 DEF FrameOfQuery
<1> HIDE DEF ab
<1>6. locToDpm \subseteq locToDpm' /\ locToDpm' \subseteq backwardVisited'
      /\ backwardVisited \subseteq backwardVisited' /\ locToDpm' \cap outOfBudgetDpms = {}
      /\ (outOfBudgetQuery => outOfBudgetQuery') /\ Kept' = Kept
  BY <1>1, <1>2 DEF VisitedInv, OfQuery, searchVars, Kept
<1>7. StackOfQuery(stack', locToDpm')
  <2>1. StackOfQuery(AbsorbTop(d), locToDpm')
    <3>1. StackOfQuery(AbsorbTop(d), locToDpm)
      BY <1>2, <1>3, <1>4, <1>5, StackParts
    <3> QED
      BY <1>6, <3>1, StackGrows
  <2>2. CASE second /\ stack' = <<Resolving(d)>> \o stack
    <3>1. StackOfQuery(stack, locToDpm')
      BY <1>4, <1>6, StackGrows
    <3>2. Resolving(d) \in Frame /\ FrameOfQuery(Resolving(d), locToDpm')
      BY <1>2, <2>2, ResolvingWorks
    <3> QED
      BY <1>2, <2>2, <3>1, <3>2, StackParts
  <2> QED
    BY <1>1, <2>1, <2>2
<1>8. OfQuery'
  <2>1. query \in locToDpm
    BY <1>2, <1>4 DEF FrameOfQuery, VisitedInv, OfQuery
  <2> QED
    BY <1>1, <1>2, <1>6, <1>7, <2>1, StackNext DEF VisitedInv, OfQuery
<1>9. AllInWork'
  <2>1. ASSUME ~outOfBudgetQuery', NEW x \in locToDpm'
        PROVE  \/ Complete(x, cached, backwardVisited')
               \/ InWork(stack', stack'[1].todo, x, cached, backwardVisited')
    <3>1. x \in locToDpm => \/ Complete(x, cached, backwardVisited)
                            \/ InWork(stack, Top.todo, x, cached, backwardVisited)
      BY <1>2, <1>6, <2>1 DEF VisitedInv, AllInWork
    <3>2. Complete(x, cached, backwardVisited) => Complete(x, cached, backwardVisited')
      BY <1>6, CompleteStays
    <3>3. \A fr : Working(fr, x, cached, backwardVisited) => Working(fr, x, cached, backwardVisited')
      BY <1>6, WorkingStays
    <3>4. CASE first
      <4>1. backwardVisited' = backwardVisited /\ locToDpm' = locToDpm /\ d \in backwardVisited
        BY <3>4 DEF searchVars
      <4>2. ASSUME InWork(stack, Top.todo, x, cached, backwardVisited)
            PROVE  InWork(AbsorbTop(d), ab.todo, x, cached, backwardVisited)
        <5>1. \/ Working(Top, x, cached, backwardVisited) \/ Again(Top, Top.todo, x)
              \/ InWork(Below, Below[1].todo \ {Top.item}, x, cached, backwardVisited)
          BY <1>2, <4>2, WorkParts
        <5>2. ~Again(Top, Top.todo, x)
          BY <3>4 DEF Again
        <5>3. Working(Top, x, cached, backwardVisited) => Working(ab, x, cached, backwardVisited)
          BY <1>2, <4>1, AbsorbGoesOn DEF ab
        <5>4. \/ Working(ab, x, cached, backwardVisited) \/ Again(ab, ab.todo, x)
              \/ InWork(Below, Below[1].todo \ {ab.item}, x, cached, backwardVisited)
          BY <1>3, <5>1, <5>2, <5>3
        <5>5. InWork(<<ab>> \o Below, ab.todo, x, cached, backwardVisited)
          BY <1>2, <1>3, <5>4, WorkParts
        <5> QED
          BY <1>3, <5>5
      <4>3. stack' = AbsorbTop(d) /\ stack'[1] = ab
        BY <1>3, <3>4
      <4> QED
        BY <3>1, <4>1, <4>2, <4>3
    <3>5. CASE second
      <4>1. stack' = <<Resolving(d)>> \o stack
        BY <2>1, <3>5
      <4>2. Resolving(d) \in Frame /\ Resolving(d).item = d /\ Working(Resolving(d), d, cached, backwardVisited')
        BY <1>2, ResolvingWorks
      <4>3. stack' \in Seq(Frame) /\ stack'[1] = Resolving(d)
        BY <1>2, <4>1, <4>2, Cons
      <4>4. InWork(stack', stack'[1].todo, x, cached, backwardVisited')
              <=> \/ Working(Resolving(d), x, cached, backwardVisited') \/ Again(Resolving(d), stack'[1].todo, x)
                  \/ InWork(stack, Top.todo \ {d}, x, cached, backwardVisited')
        BY <1>2, <4>1, <4>2, WorkParts
      <4>5. CASE x = d
        BY <4>2, <4>4, <4>5
      <4>6. CASE x # d
        <5>1. x \in locToDpm
          BY <2>1, <3>5, <4>6
        <5>2. InWork(stack, Top.todo, x, cached, backwardVisited)
                => InWork(stack, Top.todo \ {d}, x, cached, backwardVisited')
          BY <3>3, <4>6, WorkStays
        <5> QED
          BY <3>1, <3>2, <4>4, <5>1, <5>2
      <4> QED
        BY <4>5, <4>6
    <3> QED
      BY <1>1, <3>4, <3>5
  <2> QED
    BY <1>1, <2>1, InWorkNext
<1>10. KeptComplete' /\ CallsResolved'
  BY <1>1, <1>6, KeptNext, ResolvedNext DEF VisitedInv
<1> QED
  BY <1>8, <1>9, <1>10 DEF VisitedInv

\* Steps that replace the top frame, or end its call, with nothing found.
LEMMA SameSearch ==
  ASSUME Inv, VisitedInv, stack # <<>>,
         UNCHANGED <<prog, queries, query, phase, searchVars, cached, outOfBudgetDpms, callees>>,
         StackOfQuery(stack', locToDpm),
         \A x \in locToDpm : \A V : V = backwardVisited /\ InWork(stack, Top.todo, x, cached, V) =>
             Complete(x, cached, V) \/ InWork(stack', stack'[1].todo, x, cached, V)
  PROVE  VisitedInv'
<1>1. locToDpm' = locToDpm /\ backwardVisited' = backwardVisited /\ outOfBudgetQuery' = outOfBudgetQuery
  BY DEF searchVars
<1>2. OfQuery'
  <2>1. StackOfQuery(stack, locToDpm)'
    BY <1>1, StackNext
  <2> QED
    BY <1>1, <2>1 DEF VisitedInv, OfQuery
<1>3. ASSUME ~outOfBudgetQuery', NEW x \in locToDpm'
      PROVE  \/ Complete(x, cached', backwardVisited')
             \/ InWork(stack', stack'[1].todo, x, cached', backwardVisited')
  <2>1. \/ Complete(x, cached, backwardVisited)
        \/ InWork(stack, Top.todo, x, cached, backwardVisited)
    BY <1>1, <1>3 DEF VisitedInv, AllInWork, Top
  <2> QED
    BY <1>1, <1>3, <2>1
<1>4. AllInWork'
  BY <1>3, InWorkNext
<1>5. KeptComplete' /\ CallsResolved'
  BY <1>1, KeptNext, ResolvedNext DEF VisitedInv, Kept
<1> QED
  BY <1>2, <1>4, <1>5 DEF VisitedInv

LEMMA ReplaceVisited ==
  ASSUME Inv, VisitedInv, stack # <<>>, NEW fr \in Frame, fr.item = Top.item, Replace(fr),
         UNCHANGED <<prog, queries, query, phase, searchVars, cached, outOfBudgetDpms, callees>>,
         FrameOfQuery(Top, locToDpm) => FrameOfQuery(fr, locToDpm),
         \A x \in locToDpm : \A V : V = backwardVisited /\ (Working(Top, x, cached, V) \/ Again(Top, Top.todo, x))
             => Working(fr, x, cached, V) \/ Again(fr, fr.todo, x)
  PROVE  VisitedInv'
<1>1. /\ Top \in Frame /\ Below \in Seq(Frame) /\ stack \in Seq(Frame) /\ <<Top>> \o Below = stack
  BY StackIs
<1>2. stack' = <<fr>> \o Below /\ stack'[1] = fr
  BY <1>1, Cons DEF Replace
<1>3. StackOfQuery(stack', locToDpm)
  BY <1>1, <1>2, StackParts DEF VisitedInv, OfQuery
<1>4. ASSUME NEW x \in locToDpm, NEW V, V = backwardVisited, InWork(stack, Top.todo, x, cached, V)
      PROVE  InWork(stack', stack'[1].todo, x, cached, V)
  <2>1. \/ Working(Top, x, cached, V) \/ Again(Top, Top.todo, x)
        \/ InWork(Below, Below[1].todo \ {Top.item}, x, cached, V)
    BY <1>1, <1>4, WorkParts
  <2>2. \/ Working(fr, x, cached, V) \/ Again(fr, fr.todo, x)
        \/ InWork(Below, Below[1].todo \ {fr.item}, x, cached, V)
    BY <1>4, <2>1
  <2>3. InWork(<<fr>> \o Below, fr.todo, x, cached, V)
    BY <1>1, <2>2, WorkParts
  <2> QED
    BY <1>2, <2>3
<1> QED
  BY <1>3, <1>4, SameSearch

LEMMA ProceedVisited ==
  ASSUME Inv, VisitedInv, Proceed
  PROVE  VisitedInv'
<1>1. /\ stack # <<>> /\ Top.todo = {}
      /\ UNCHANGED <<prog, queries, query, phase, searchVars, cached, outOfBudgetDpms, callees>>
  BY DEF Proceed
<1>2. Top \in Frame /\ Top.item \in Item /\ FrameWithin(Top)
  BY <1>1, TopFrame
<1>3. WellFormed(prog) /\ callees \subseteq prog.calls \X Obj /\ CalleesWithin
  BY DEF Inv, TypeOK
<1>4. CASE /\ Top.step = "funptr"
           /\ Replace([Top EXCEPT !.step = "address", !.todo = Address(Top.item)])
  <2> DEFINE fr == [Top EXCEPT !.step = "address", !.todo = Address(Top.item)]
  <2>1. fr \in Frame /\ fr.item = Top.item /\ fr.step = "address" /\ fr.todo = Address(Top.item)
    BY <1>2, <1>3, AddressType DEF Frame
  <2> HIDE DEF fr
  <2>2. FrameOfQuery(Top, locToDpm) => FrameOfQuery(fr, locToDpm)
    BY <2>1 DEF FrameOfQuery
  <2>3. ASSUME NEW x, NEW V, Working(Top, x, cached, V)
        PROVE  Working(fr, x, cached, V)
    BY <1>1, <1>4, <2>1, <2>3 DEF Working
  <2>4. \A x : ~Again(Top, Top.todo, x)
    BY <1>4 DEF Again
  <2>5. Replace(fr)
    BY <1>4 DEF fr
  <2> QED
    BY <1>1, <2>1, <2>2, <2>3, <2>4, <2>5, ReplaceVisited
<1>5. CASE /\ Top.step = "address"
           /\ Replace([Top EXCEPT !.step = "backtrace", !.todo = Backtrace(Top.item, Top.targets),
                                  !.pts = AddressTaken(Top.item)])
  <2> DEFINE fr == [Top EXCEPT !.step = "backtrace", !.todo = Backtrace(Top.item, Top.targets),
                               !.pts = AddressTaken(Top.item)]
  <2>1. TargetsWithin(Top.item, Top.targets) /\ Top.targets \in SUBSET Obj
    BY <1>2, <1>5 DEF FrameWithin, Frame
  <2>2. \A x \in Backtrace(Top.item, Top.targets) : x \in Item
    BY <1>2, <1>3, <2>1, BacktraceWithin
  <2>3. AddressTaken(Top.item) \subseteq Obj
    BY <1>2, <1>3, AddressTakenWithin, AnderType
  <2>4. /\ fr \in Frame /\ fr.item = Top.item /\ fr.step = "backtrace" /\ fr.targets = Top.targets
        /\ fr.todo = Backtrace(Top.item, Top.targets) /\ fr.pts = AddressTaken(Top.item)
    BY <1>2, <2>2, <2>3 DEF Frame
  <2> HIDE DEF fr
  <2>5. FrameOfQuery(Top, locToDpm) => FrameOfQuery(fr, locToDpm)
    BY <2>4 DEF FrameOfQuery
  <2>6. ASSUME NEW x, NEW V, Working(Top, x, cached, V)
        PROVE  Working(fr, x, cached, V)
    BY <1>1, <1>5, <2>4, <2>6 DEF Working
  <2>7. \A x : ~Again(Top, Top.todo, x)
    BY <1>5 DEF Again
  <2>8. Replace(fr)
    BY <1>5 DEF fr
  <2> QED
    BY <1>1, <2>4, <2>5, <2>6, <2>7, <2>8, ReplaceVisited
<1> QED
  BY <1>1, <1>4, <1>5 DEF Proceed

LEMMA ReturnVisited ==
  ASSUME Inv, VisitedInv, stack # <<>>, Return(Top.item, Below),
         UNCHANGED <<prog, queries, query, phase, searchVars, cached, outOfBudgetDpms, callees>>,
         \A x \in locToDpm : \A V : V = backwardVisited /\ (Working(Top, x, cached, V) \/ Again(Top, Top.todo, x))
             => Complete(x, cached, V)
  PROVE  VisitedInv'
<1> DEFINE r == Below
           g == Top.item
           ab == Absorb(r[1], g, cached)
<1>1. /\ Top \in Frame /\ g \in Item /\ r \in Seq(Frame) /\ stack \in Seq(Frame) /\ <<Top>> \o r = stack
      /\ cached \in [Item -> SUBSET Obj]
  BY StackIs
<1>2. FrameOfQuery(Top, locToDpm) /\ StackOfQuery(r, locToDpm) /\ g \in backwardVisited
  BY <1>1, StackParts DEF VisitedInv, OfQuery, FrameOfQuery
<1>3. stack' = IF r = <<>> THEN <<>> ELSE <<Absorb(Head(r), g, cached)>> \o Tail(r)
  BY DEF Return
<1>4. ASSUME NEW x \in locToDpm, NEW V, V = backwardVisited, InWork(stack, Top.todo, x, cached, V)
      PROVE  Complete(x, cached, V) \/ InWork(r, r[1].todo \ {g}, x, cached, V)
  <2>1. \/ Working(Top, x, cached, V) \/ Again(Top, Top.todo, x)
        \/ InWork(r, r[1].todo \ {g}, x, cached, V)
    BY <1>1, <1>4, WorkParts
  <2> QED
    BY <1>4, <2>1
<1> HIDE DEF r, g
<1>5. CASE r = <<>>
  <2>1. stack' = <<>>
    BY <1>3, <1>5
  <2>2. StackOfQuery(stack', locToDpm)
    BY <2>1, EmptySeq DEF StackOfQuery
  <2>3. \A x \in locToDpm : \A V : V = backwardVisited /\ InWork(stack, Top.todo, x, cached, V) => Complete(x, cached, V)
    BY <1>4, <1>5, NoWork
  <2> QED
    BY <2>2, <2>3, SameSearch
<1>6. CASE r # <<>>
  <2>1. r[1] \in Frame /\ Head(r) = r[1] /\ Tail(r) \in Seq(Frame)
    BY <1>1, <1>6, ConsOf
  <2>2. ab \in Frame /\ ab.item = r[1].item /\ ab.todo = r[1].todo \ {g}
    BY <1>1, <2>1, AbsorbFields
  <2>3. stack' = <<ab>> \o Tail(r)
    BY <1>3, <1>6, <2>1
  <2>4. stack'[1] = ab
    BY <2>1, <2>2, <2>3, Cons
  <2>5. /\ \A x : Working(r[1], x, cached, backwardVisited) => Working(ab, x, cached, backwardVisited)
        /\ \A open, x : Again(r[1], open, x) => Again(ab, open, x)
        /\ \A L : FrameOfQuery(r[1], L) => FrameOfQuery(ab, L)
    BY <1>1, <1>2, <2>1, AbsorbGoesOn
  <2> HIDE DEF ab
  <2>6. StackOfQuery(stack', locToDpm)
    <3>1. FrameOfQuery(r[1], locToDpm) /\ StackOfQuery(Tail(r), locToDpm)
      BY <1>1, <1>2, <1>6, StackPartsOf
    <3> QED
      BY <2>1, <2>2, <2>3, <2>5, <3>1, StackParts
  <2>7. ASSUME NEW x \in locToDpm, NEW V, V = backwardVisited, InWork(r, r[1].todo \ {g}, x, cached, V)
        PROVE  InWork(stack', stack'[1].todo, x, cached, V)
    <3>1. \/ Working(r[1], x, cached, V) \/ Again(r[1], r[1].todo \ {g}, x)
          \/ InWork(Tail(r), Tail(r)[1].todo \ {r[1].item}, x, cached, V)
      BY <1>1, <1>6, <2>7, WorkPartsOf
    <3>2. \/ Working(ab, x, cached, V) \/ Again(ab, ab.todo, x)
          \/ InWork(Tail(r), Tail(r)[1].todo \ {ab.item}, x, cached, V)
      BY <2>2, <2>5, <2>7, <3>1
    <3>3. InWork(<<ab>> \o Tail(r), ab.todo, x, cached, V)
      BY <2>1, <2>2, <3>2, WorkParts
    <3> QED
      BY <2>3, <2>4, <3>3
  <2>8. \A x \in locToDpm : \A V : V = backwardVisited /\ InWork(stack, Top.todo, x, cached, V)
            => Complete(x, cached, V) \/ InWork(stack', stack'[1].todo, x, cached, V)
    BY <1>4, <2>7
  <2> QED
    BY <2>6, <2>8, SameSearch
<1> QED
  BY <1>5, <1>6

LEMMA NextEdgeVisited ==
  ASSUME Inv, VisitedInv, NextEdge
  PROVE  VisitedInv'
<1>1. /\ stack # <<>> /\ Top.todo = {} /\ Top.step \in {"newcalls", "recompute"}
      /\ UNCHANGED <<prog, queries, query, phase, searchVars, cached, outOfBudgetDpms, callees>>
  BY DEF NextEdge
<1>2. Top \in Frame /\ Top.item \in Item /\ locToDpm \subseteq Item
  BY <1>1, TopFrame, Parts DEF SearchType
<1>3. \A x, V : ~Working(Top, x, cached, V)
  BY <1>1 DEF Working
<1>4. ASSUME NEW e \in Top.edges,
             Replace([Top EXCEPT !.todo = Affected(e, Top.item), !.edges = @ \ {e}])
      PROVE  VisitedInv'
  <2> DEFINE fr == [Top EXCEPT !.todo = Affected(e, Top.item), !.edges = @ \ {e}]
  <2>1. Affected(e, Top.item) \in SUBSET locToDpm
    BY DEF Affected
  <2>2. /\ fr \in Frame /\ fr.item = Top.item /\ fr.step = Top.step /\ fr.edges = Top.edges \ {e}
        /\ fr.todo = Affected(e, Top.item)
    BY <1>2, <2>1 DEF Frame
  <2> HIDE DEF fr
  <2>3. FrameOfQuery(Top, locToDpm) => FrameOfQuery(fr, locToDpm)
    BY <2>1, <2>2 DEF FrameOfQuery
  <2>4. ASSUME NEW x \in locToDpm, Again(Top, Top.todo, x) PROVE Again(fr, fr.todo, x)
    <3>1. Meets(e, Top.item, x) => x \in Affected(e, Top.item)
      BY DEF Meets, Affected
    <3> QED
      BY <1>1, <2>2, <2>4, <3>1 DEF Again
  <2>5. Replace(fr)
    BY <1>4 DEF fr
  <2> QED
    BY <1>1, <1>3, <2>2, <2>3, <2>4, <2>5, ReplaceVisited
<1>5. CASE /\ Top.edges = {} /\ Top.step = "newcalls"
           /\ Replace([Top EXCEPT !.step = "recompute", !.edges = OutEdges(Top.item[1])])
  <2> DEFINE fr == [Top EXCEPT !.step = "recompute", !.edges = OutEdges(Top.item[1])]
  <2>1. OutEdges(Top.item[1]) \in SUBSET EdgeType
    BY OutEdgesType DEF Inv, TypeOK
  <2>2. /\ fr \in Frame /\ fr.item = Top.item /\ fr.step = "recompute" /\ fr.edges = OutEdges(Top.item[1])
        /\ fr.todo = Top.todo
    BY <1>2, <2>1 DEF Frame, EdgeType
  <2> HIDE DEF fr
  <2>3. FrameOfQuery(Top, locToDpm) => FrameOfQuery(fr, locToDpm)
    BY <1>1, <2>2 DEF FrameOfQuery
  <2>4. ASSUME NEW x \in locToDpm, Again(Top, Top.todo, x) PROVE Again(fr, fr.todo, x)
    BY <1>1, <1>5, <2>2, <2>4 DEF Again
  <2>5. Replace(fr)
    BY <1>5 DEF fr
  <2> QED
    BY <1>1, <1>3, <2>2, <2>3, <2>4, <2>5, ReplaceVisited
<1>6. CASE Top.edges = {} /\ Top.step = "recompute" /\ Return(Top.item, Below)
  <2>1. \A x : ~Again(Top, Top.todo, x)
    BY <1>1, <1>6 DEF Again
  <2> QED
    BY <1>1, <1>3, <1>6, <2>1, ReturnVisited
<1> QED
  BY <1>1, <1>4, <1>5, <1>6 DEF NextEdge
-----------------------------------------------------------------------------
(* A result grows. *)

\* The frame of the recomputation is pushed on r.
Recomputes(fr, g, r, calls) ==
    /\ stack' = <<fr>> \o r
    /\ fr.item = g /\ fr.step = "newcalls" /\ fr.todo = {} /\ fr.edges = CallEdges(calls)

LEMMA GrowParts ==
  ASSUME Inv, NEW g \in Item, NEW own, own \subseteq Ander(g),
         NEW r \in Seq(Frame), BeginReCompute(g, own, r)
  PROVE  /\ cached \in [Item -> SUBSET Obj] /\ cached' \in [Item -> SUBSET Obj]
         /\ \A x \in Item : cached[x] \subseteq cached'[x] /\ (x # g => cached'[x] = cached[x])
         /\ cached'[g] = cached[g] \cup own /\ cached'[g] \subseteq Ander(g)
         /\ callees' = callees \cup NewCallees(g, cached'[g])
         /\ \E fr \in Frame : Recomputes(fr, g, r, NewCallees(g, cached'[g]))
<1>1. cached \in [Item -> SUBSET Obj] /\ WellFormed(prog) /\ callees \subseteq prog.calls \X Obj
  BY DEF Inv, TypeOK
<1>2. own \subseteq Obj /\ Ander(g) \subseteq Obj /\ cached[g] \subseteq Ander(g)
  BY <1>1, AnderType DEF Inv, WithinAndersen
<1>3. cached' = [cached EXCEPT ![g] = @ \cup own]
  BY DEF BeginReCompute
<1>4. /\ cached' \in [Item -> SUBSET Obj] /\ cached'[g] = cached[g] \cup own
      /\ \A x \in Item : cached[x] \subseteq cached'[x] /\ (x # g => cached'[x] = cached[x])
  BY <1>1, <1>2, <1>3
<1> DEFINE new == NewCallees(g, cached'[g])
           fr == [NewFrame(g, "newcalls") EXCEPT !.edges = CallEdges(new)]
<1>5. callees' = callees \cup new /\ stack' = <<fr>> \o r
  BY <1>3 DEF BeginReCompute
<1>6. new \subseteq prog.calls \X Obj
  BY <1>1, <1>2, <1>4 DEF NewCallees
<1>7. CallEdges(new) \in SUBSET EdgeType
  BY <1>1, <1>6, CallEdgesType
<1>8. fr \in Frame /\ fr.item = g /\ fr.step = "newcalls" /\ fr.todo = {} /\ fr.edges = CallEdges(new)
  <2> HIDE DEF new
  <2> QED
    BY <1>7, FramesMade DEF NewFrame
<1>9. fr \in Frame /\ Recomputes(fr, g, r, new)
  BY <1>5, <1>8 DEF Recomputes
<1> QED
  BY <1>1, <1>2, <1>4, <1>5, <1>9

\* Where the item does not wait for another evaluation it has not been
\* touched.
LEMMA Untouched ==
  ASSUME Inv, prog' = prog, NEW g \in Item, NEW S, NEW new, new \subseteq NewCallees(g, S),
         callees' = callees \cup new, NEW fr \in Frame, fr.item = g, fr.step = "newcalls",
         fr.edges = CallEdges(new), NEW x \in Item, NEW open, ~Again(fr, open, x)
  PROVE  /\ \A T : Backtrace(x, T)' = Backtrace(x, T) /\ g \notin Address(x) \cup Backtrace(x, T)
<1>1. \A e \in CallEdges(new) : e.all
  BY DEF CallEdges, Edge
<1>2. \A e \in CallEdges(new) : e.dst # x[1]
  BY <1>1 DEF Again, Meets
<1>3. \A T : Backtrace(x, T)' = Backtrace(x, T)
  BY <1>2, EdgesOfCalls
<1>4. \A T : g \notin Address(x) \cup Backtrace(x, T)
  BY Users DEF Again, Inv
<1> QED
  BY <1>3, <1>4

LEMMA ResolvedGrows ==
  ASSUME Inv, CallsResolved, prog' = prog, NEW g \in Item, NEW own, own \subseteq Ander(g),
         NEW r \in Seq(Frame), BeginReCompute(g, own, r)
  PROVE  CallsResolved'
<1>1. /\ \A x \in Item : cached[x] \subseteq cached'[x] /\ (x # g => cached'[x] = cached[x])
      /\ callees' = callees \cup NewCallees(g, cached'[g])
  BY GrowParts
<1>2. ASSUME NEW d \in Item PROVE {c \in prog.calls \X cached'[d] : VarItem(c[1].funPtr) = d} \ callees' = {}
  <2>1. CASE d = g
    BY <1>1, <2>1 DEF NewCallees
  <2>2. CASE d # g
    BY <1>1, <2>2 DEF CallsResolved, NewCallees
  <2> QED
    BY <2>1, <2>2
<1> QED
  BY <1>2 DEF CallsResolved, NewCallees

\* What earlier queries completed does not rest on an item of this one, nor
\* do calls found now come to it: their pointers would have been asked for.
LEMMA KeptGrows ==
  ASSUME Inv, KeptComplete, prog' = prog, outOfBudgetDpms' = outOfBudgetDpms, Kept' = Kept,
         NEW g \in Item, g \notin Kept, Kept \subseteq Item, NEW own, own \subseteq Ander(g),
         NEW r \in Seq(Frame), BeginReCompute(g, own, r)
  PROVE  KeptComplete'
<1> DEFINE new == NewCallees(g, cached'[g])
<1>1. /\ \A x \in Item : cached[x] \subseteq cached'[x] /\ (x # g => cached'[x] = cached[x])
      /\ callees' = callees \cup new /\ cached'[g] \subseteq Ander(g)
      /\ cached \in [Item -> SUBSET Obj]
  BY GrowParts
<1> SUFFICES ASSUME NEW map, NEW V, map = cached', V = Kept', NEW d \in V \ outOfBudgetDpms'
             PROVE  Complete(d, map, V)'
  BY DEF KeptComplete
<1>2. Complete(d, cached, V) /\ d \in Item
  BY DEF KeptComplete
<1>3. ASSUME NEW e \in CallEdges(new) PROVE e.dst # d[1]
  <2>1. g \in FunPtrs(e.dst)
    BY <1>1, WaitForPointer DEF Inv
  <2> QED
    BY <1>2, <2>1 DEF Complete
<1>4. \A T : Backtrace(d, T)' = Backtrace(d, T)
  <2> HIDE DEF new
  <2> QED
    BY <1>1, <1>3, EdgesOfCalls
<1>5. Complete(d, map, V)
  <2>1. \A x \in Address(d) \cup Backtrace(d, TargetsIn(d, cached)) : x \in V
    BY <1>2 DEF Complete
  <2>2. \A x \in Address(d) \cup Backtrace(d, TargetsIn(d, cached)) : map[x] = cached[x]
    BY <1>1, <2>1
  <2> QED
    BY <1>1, <1>2, <2>2, CompleteStays
<1> QED
  BY <1>4, <1>5, RulesAt

LEMMA UpdateVisited ==
  ASSUME Inv, VisitedInv, Update
  PROVE  VisitedInv'
<1>1. /\ stack # <<>> /\ Top.step = "backtrace" /\ Top.todo = {}
      /\ UNCHANGED <<prog, queries, query, phase, searchVars, outOfBudgetDpms>>
  BY DEF Update
<1>2. /\ Top \in Frame /\ Top.item \in Item /\ Below \in Seq(Frame) /\ stack \in Seq(Frame)
      /\ <<Top>> \o Below = stack /\ Top = stack[1] /\ phase \notin {"rest", "start"}
  BY <1>1, StackIs
<1>3. \A x : ~Again(Top, Top.todo, x)
  BY <1>1 DEF Again
<1>4. CASE Top.pts \subseteq cached[Top.item] /\ Return(Top.item, Below) /\ UNCHANGED <<cached, callees>>
  <2>1. ASSUME NEW x, NEW V, Working(Top, x, cached, V) PROVE Complete(x, cached, V)
    <3>1. x = Top.item
      BY <2>1 DEF Working
    <3> QED
      BY <1>1, <1>4, <2>1, <3>1, Evaluates
  <2> QED
    BY <1>1, <1>3, <1>4, <2>1, ReturnVisited
<1>5. CASE BeginReCompute(Top.item, Top.pts, Below)
  <2> DEFINE g == Top.item
             own == Top.pts
             r == Below
             new == NewCallees(g, cached'[g])
  <2>1. own \subseteq Ander(g)
    BY <1>1, TopFrame DEF FrameWithin
  <2>2. /\ cached \in [Item -> SUBSET Obj] /\ cached' \in [Item -> SUBSET Obj]
        /\ \A x \in Item : cached[x] \subseteq cached'[x] /\ (x # g => cached'[x] = cached[x])
        /\ cached'[g] = cached[g] \cup own
        /\ callees' = callees \cup new
    BY <1>2, <1>5, <2>1, GrowParts
  <2>3. PICK fr \in Frame : Recomputes(fr, g, r, new)
    <3>1. g \in Item /\ own \subseteq Ander(g) /\ r \in Seq(Frame) /\ BeginReCompute(g, own, r)
      BY <1>2, <1>5, <2>1
    <3> HIDE DEF g, own, r
    <3> QED
      BY <3>1, GrowParts
  <2>10. /\ stack' = <<fr>> \o r
         /\ fr.item = g /\ fr.step = "newcalls" /\ fr.todo = {}
         /\ fr.edges = CallEdges(new)
    BY <2>3 DEF Recomputes
  <2>4. g \in locToDpm /\ locToDpm \subseteq backwardVisited /\ StackOfQuery(r, locToDpm)
    BY <1>2, StackParts DEF VisitedInv, OfQuery, FrameOfQuery
  <2>5. locToDpm' = locToDpm /\ backwardVisited' = backwardVisited /\ outOfBudgetQuery' = outOfBudgetQuery
        /\ Kept' = Kept /\ g \notin Kept /\ Kept \subseteq Item
    BY <1>1, <2>4, Parts DEF searchVars, Kept, SearchType
  <2>6. CallsResolved' /\ KeptComplete'
    BY <1>1, <1>2, <1>5, <2>1, <2>5, ResolvedGrows, KeptGrows DEF VisitedInv
  <2> HIDE DEF new, r, own, g
  <2>7. stack'[1] = fr /\ stack' \in Seq(Frame) /\ 1 \in 1 .. Len(stack')
    BY <1>2, <2>10, Cons DEF r
  <2>8. OfQuery'
    <3>1. FrameOfQuery(fr, locToDpm)
      BY <2>10, <2>4 DEF FrameOfQuery
    <3>2. StackOfQuery(stack, locToDpm)'
      BY <1>2, <2>10, <2>4, <2>5, <3>1, StackParts, StackNext DEF r
    <3> QED
      BY <1>1, <2>4, <2>5, <3>2 DEF VisitedInv, OfQuery
  <2>9. AllInWork'
    <3> SUFFICES ASSUME ~outOfBudgetQuery', NEW s, NEW map, NEW V, s = stack', map = cached', V = backwardVisited',
                        NEW x \in locToDpm'
                 PROVE  Complete(x, map, V)' \/ InWork(s, s[1].todo, x, map, V)'
      BY DEF AllInWork
    <3>1. x \in Item /\ x \in locToDpm /\ V = backwardVisited
      BY <2>5, Parts DEF SearchType
    <3>2. Complete(x, cached, V) \/ InWork(stack, Top.todo, x, cached, V)
      BY <1>2, <2>5, <3>1 DEF VisitedInv, AllInWork
    <3>3. /\ prog' = prog /\ callees \subseteq callees'
      BY <1>1, <2>2
    <3>4. CASE Again(fr, fr.todo, x)
      <4>1. Again(fr, s[1].todo, x)'
        BY <2>7, <3>3, <3>4, AgainStays
      <4> QED
        BY <2>7, <4>1 DEF InWork
    <3>5. CASE ~Again(fr, fr.todo, x)
      <4>1. \A T : Backtrace(x, T)' = Backtrace(x, T) /\ g \notin Address(x) \cup Backtrace(x, T)
        <5>1. g \in Item /\ new \subseteq NewCallees(g, cached'[g])
          BY <1>2 DEF new, g
        <5>2. callees' = callees \cup new /\ fr.item = g /\ fr.step = "newcalls"
              /\ fr.edges = CallEdges(new)
          BY <2>2, <2>10
        <5>3. Inv /\ prog' = prog /\ x \in Item /\ fr \in Frame /\ ~Again(fr, fr.todo, x)
          BY <3>1, <3>3, <3>5
        <5> QED
          BY ONLY <5>1, <5>2, <5>3, Untouched
      <4>2. /\ \A y \in Address(x) \cup Backtrace(x, TargetsIn(x, cached)) : map[y] = cached[y]
            /\ \A T : \A y \in Address(x) \cup Backtrace(x, T) : map[y] = cached[y]
        <5>1. ASSUME NEW y, y # g PROVE cached'[y] = cached[y]
          <6>1. cached' = [cached EXCEPT ![g] = @ \cup own]
            BY <1>5 DEF BeginReCompute, g, own
          <6> QED
            BY <2>2, <5>1, <6>1
        <5> QED
          BY <4>1, <5>1
      <4>3. Complete(x, cached, V) => Complete(x, map, V)
        BY <2>2, <3>1, <4>2, CompleteStays
      <4>4. \A f : Working(f, x, cached, V) => Working(f, x, map, V)
        BY <4>2, WorkingStays
      <4>5. Complete(x, map, V) \/ InWork(s, s[1].todo, x, map, V)
        <5>1. CASE InWork(stack, Top.todo, x, cached, V)
          <6>1. \/ Working(Top, x, cached, V) \/ Again(Top, Top.todo, x)
                \/ InWork(r, r[1].todo \ {g}, x, cached, V)
            BY <1>2, <5>1, WorkParts DEF r, g
          <6>2. CASE Working(Top, x, cached, V)
            <7>1. Working(Top, x, map, V) /\ x = g
              BY <4>4, <6>2 DEF Working, g
            <7>2. Top.pts \subseteq map[x]
              BY <2>2, <7>1 DEF own
            <7> QED
              BY <1>1, <7>1, <7>2, Evaluates
          <6>3. CASE InWork(r, r[1].todo \ {g}, x, cached, V)
            <7>1. InWork(r, r[1].todo \ {fr.item}, x, map, V)
              BY <2>10, <4>4, <6>3, WorkStays
            <7>2. InWork(<<fr>> \o r, fr.todo, x, map, V)
              BY <1>2, <7>1, WorkParts DEF r
            <7> QED
              BY <2>10, <2>7, <7>2
          <6> QED
            BY <1>3, <6>1, <6>2, <6>3
        <5> QED
          BY <3>2, <4>3, <5>1
      <4>6. /\ Complete(x, map, V) => Complete(x, map, V)'
            /\ \A f : Working(f, x, map, V) => Working(f, x, map, V)'
        BY <3>3, <4>1, RulesAt
      <4>7. InWork(s, s[1].todo, x, map, V) => InWork(s, s[1].todo, x, map, V)'
        BY <3>3, <4>6, AgainStays DEF InWork
      <4> QED
        BY <4>5, <4>6, <4>7
    <3> QED
      BY <3>4, <3>5
  <2> QED
    BY <2>6, <2>8, <2>9 DEF VisitedInv
<1> QED
  BY <1>1, <1>4, <1>5 DEF Update
-----------------------------------------------------------------------------
(* A query begins and ends. *)

\* Evaluating an item that is complete adds nothing.
LEMMA RestComplete ==
  ASSUME Inv, VisitedInv, phase = "rest", NEW d \in VisitedAfterReset \ outOfBudgetDpms
  PROVE  Complete(d, cached, VisitedAfterReset)
<1>1. stack = <<>>
  BY DEF Inv
<1>2. KeptComplete /\ AllInWork /\ locToDpm \subseteq backwardVisited /\ outOfBudgetDpms \subseteq backwardVisited
  BY DEF VisitedInv, OfQuery
<1>3. d \in backwardVisited /\ Kept \subseteq VisitedAfterReset
  BY DEF VisitedAfterReset, Kept
<1>4. CASE d \in Kept
  <2>1. Complete(d, cached, Kept)
    BY <1>2, <1>4 DEF KeptComplete
  <2> QED
    BY <1>3, <2>1, CompleteStays
<1>5. CASE d \notin Kept
  <2>1. d \in locToDpm /\ ~outOfBudgetQuery /\ VisitedAfterReset = backwardVisited
    BY <1>3, <1>5 DEF Kept, VisitedAfterReset
  <2>2. Complete(d, cached, backwardVisited) \/ InWork(<<>>, stack[1].todo, d, cached, backwardVisited)
    BY <1>1, <1>2, <2>1 DEF AllInWork
  <2> QED
    BY <2>1, <2>2, NoWork
<1> QED
  BY <1>4, <1>5

LEMMA RestFinal ==
  ASSUME Inv, VisitedInv
  PROVE  VisitedComplete
<1> SUFFICES ASSUME phase = "rest", NEW d \in VisitedAfterReset \ outOfBudgetDpms
             PROVE  /\ Evaluated(d, cached) \subseteq cached[d]
                    /\ Address(d) \cup Backtrace(d, TargetsIn(d, cached)) \cup FunPtrs(d[1]) \subseteq VisitedAfterReset
                    /\ NewCallees(d, cached[d]) = {}
  BY DEF VisitedComplete, TargetsIn
<1>1. Complete(d, cached, VisitedAfterReset)
  BY RestComplete
<1>2. d \in Item
  BY Parts DEF VisitedAfterReset, SearchType
<1>3. Evaluated(d, cached) \subseteq cached[d]
  BY <1>1 DEF Complete, Evaluated, TargetsIn
<1>4. NewCallees(d, cached[d]) = {}
  BY <1>2 DEF VisitedInv, CallsResolved
<1> QED
  BY <1>1, <1>3, <1>4 DEF Complete

LEMMA ResetVisited ==
  ASSUME Inv, VisitedInv, NEW v \in queries, ResetQuery(v)
  PROVE  VisitedInv'
<1>1. /\ phase = "rest" /\ phase' = "start" /\ stack = <<>> /\ stack' = <<>>
      /\ backwardVisited' = VisitedAfterReset /\ locToDpm' = {} /\ outOfBudgetQuery' = FALSE
      /\ UNCHANGED <<prog, cached, outOfBudgetDpms, callees>>
  BY DEF ResetQuery, Inv
<1>2. OfQuery'
  <2>1. outOfBudgetDpms \subseteq VisitedAfterReset
    BY DEF VisitedAfterReset, VisitedInv, OfQuery
  <2>2. StackOfQuery(stack, locToDpm)'
    BY <1>1, EmptySeq DEF StackOfQuery
  <2> QED
    BY <1>1, <2>1, <2>2 DEF OfQuery
<1>3. KeptComplete'
  <2>1. \A d, map, V : Complete(d, map, V)' <=> Complete(d, map, V)
    BY <1>1, SameRules, RulesAt
  <2> SUFFICES ASSUME NEW map, NEW V, map = cached', V = Kept', NEW d \in V \ outOfBudgetDpms'
               PROVE  Complete(d, map, V)'
    BY DEF KeptComplete
  <2>2. V = VisitedAfterReset /\ map = cached
    BY <1>1 DEF Kept
  <2>3. Complete(d, map, V)
    BY <1>1, <2>2, RestComplete
  <2> QED
    BY <2>1, <2>3
<1>4. AllInWork'
  BY <1>1 DEF AllInWork
<1>5. CallsResolved'
  BY <1>1, ResolvedNext DEF VisitedInv
<1> QED
  BY <1>2, <1>3, <1>4, <1>5 DEF VisitedInv

LEMMA StartVisited ==
  ASSUME Inv, VisitedInv, StartQuery
  PROVE  VisitedInv'
<1>1. /\ phase = "start" /\ phase' = "search" /\ stack = <<>> /\ FindPT(query, backwardVisited, <<>>)
      /\ UNCHANGED <<prog, queries, query, cached, outOfBudgetDpms, callees>>
  BY DEF StartQuery, Inv
<1>2. /\ query \in Item /\ WellFormed(prog) /\ locToDpm = {} /\ ~outOfBudgetQuery
      /\ outOfBudgetDpms \subseteq backwardVisited
  BY <1>1, QueryItem, Parts DEF VisitedInv, OfQuery
<1>3. CASE query \in backwardVisited
  <2>1. UNCHANGED searchVars /\ stack' = <<>>
    BY <1>1, <1>3 DEF FindPT, searchVars
  <2>2. OfQuery'
    <3>1. StackOfQuery(stack, locToDpm)'
      BY <2>1, EmptySeq DEF StackOfQuery
    <3> QED
      BY <1>1, <1>2, <2>1, <3>1 DEF OfQuery, searchVars
  <2>3. AllInWork'
    BY <1>2, <2>1 DEF AllInWork, searchVars
  <2>4. KeptComplete' /\ CallsResolved'
    BY <1>1, <2>1, KeptNext, ResolvedNext DEF VisitedInv, Kept, searchVars
  <2> QED
    BY <2>2, <2>3, <2>4 DEF VisitedInv
<1>4. CASE query \notin backwardVisited
  <2>1. /\ backwardVisited' = backwardVisited \cup {query} /\ locToDpm' = {query}
        /\ query \notin outOfBudgetDpms
        /\ stack' = <<>> \/ stack' = <<Resolving(query)>> \o <<>>
        /\ ~outOfBudgetQuery' => stack' = <<Resolving(query)>> \o <<>>
    BY <1>1, <1>2, <1>4 DEF FindPT
  <2>2. /\ Resolving(query) \in Frame /\ Working(Resolving(query), query, cached', backwardVisited')
        /\ FrameOfQuery(Resolving(query), {query})
    BY <1>2, ResolvingWorks
  <2>3. <<>> \in Seq(Frame) /\ StackOfQuery(<<>>, {query})
    BY EmptySeq DEF StackOfQuery
  <2>4. StackOfQuery(stack', locToDpm')
    <3> DEFINE one == <<Resolving(query)>> \o <<>>
    <3>1. StackOfQuery(one, {query})
      BY <2>2, <2>3, StackParts
    <3> HIDE DEF one
    <3> QED
      BY ONLY <2>1, <2>3, <3>1 DEF one
  <2>5. OfQuery'
    BY <1>1, <1>2, <2>1, <2>4, StackNext DEF OfQuery
  <2>6. AllInWork'
    <3>1. ASSUME ~outOfBudgetQuery' PROVE InWork(stack', stack'[1].todo, query, cached', backwardVisited')
      <4> DEFINE fr == Resolving(query)
                 open == stack'[1].todo
      <4>1. fr \in Frame /\ Working(fr, query, cached', backwardVisited') /\ stack' = <<fr>> \o <<>>
        BY <2>1, <2>2, <3>1
      <4> HIDE DEF fr, open
      <4>2. InWork(<<fr>> \o <<>>, open, query, cached', backwardVisited')
        BY <2>3, <4>1, WorkParts
      <4> QED
        BY <4>1, <4>2 DEF open
    <3> QED
      BY <1>1, <2>1, <3>1, InWorkNext
  <2>7. Kept' = Kept
    BY <1>2, <1>4, <2>1 DEF Kept
  <2>8. KeptComplete' /\ CallsResolved'
    BY <1>1, <2>7, KeptNext, ResolvedNext DEF VisitedInv
  <2> QED
    BY <2>5, <2>6, <2>8 DEF VisitedInv
<1> QED
  BY <1>3, <1>4

LEMMA AnswerVisited ==
  ASSUME Inv, VisitedInv, Answer \/ AnswerDowngraded
  PROVE  VisitedInv'
<1>1. /\ stack = <<>> /\ stack' = <<>> /\ phase' = "rest" /\ phase # "rest"
      /\ UNCHANGED <<prog, queries, searchVars, cached, callees>>
      /\ \/ outOfBudgetDpms' = outOfBudgetDpms
         \/ outOfBudgetDpms' = outOfBudgetDpms \cup {query} /\ outOfBudgetQuery
  BY DEF Answer, AnswerDowngraded, VisitedInv, OfQuery
<1>2. /\ locToDpm' = locToDpm /\ backwardVisited' = backwardVisited
      /\ outOfBudgetQuery' = outOfBudgetQuery /\ Kept' = Kept
  BY <1>1 DEF searchVars, Kept
<1>3. OfQuery'
  <2>1. outOfBudgetDpms' \subseteq backwardVisited
    BY <1>1 DEF VisitedInv, OfQuery
  <2>2. StackOfQuery(stack, locToDpm)'
    BY <1>1, EmptySeq DEF StackOfQuery
  <2> QED
    BY <1>1, <1>2, <2>1, <2>2 DEF VisitedInv, OfQuery
<1>4. ASSUME ~outOfBudgetQuery', NEW x \in locToDpm'
      PROVE  Complete(x, cached', backwardVisited')
  <2>1. \/ Complete(x, cached, backwardVisited)
        \/ InWork(<<>>, stack[1].todo, x, cached, backwardVisited)
    BY <1>1, <1>2, <1>4 DEF VisitedInv, AllInWork
  <2> QED
    BY <1>1, <1>2, <2>1, NoWork
<1>5. AllInWork'
  BY <1>1, <1>4, InWorkNext
<1>6. KeptComplete' /\ CallsResolved'
  BY <1>1, <1>2, KeptNext, ResolvedNext DEF VisitedInv
<1> QED
  BY <1>3, <1>5, <1>6 DEF VisitedInv

LEMMA DowngradeVisited ==
  ASSUME Inv, VisitedInv, Downgrade
  PROVE  VisitedInv'
<1>1. /\ phase = "search" /\ phase' = "downgraded" /\ stack = <<>> /\ outOfBudgetQuery
      /\ UNCHANGED <<prog, queries, query, searchVars, outOfBudgetDpms>>
  BY DEF Downgrade
<1>2. /\ locToDpm' = locToDpm /\ backwardVisited' = backwardVisited
      /\ outOfBudgetQuery' = outOfBudgetQuery /\ Kept' = Kept
  BY <1>1 DEF searchVars, Kept
<1>3. query \in Item /\ query \in locToDpm /\ locToDpm \subseteq backwardVisited
  BY <1>1, QueryItem DEF VisitedInv, OfQuery
<1>4. query \notin Kept /\ Kept \subseteq Item
  BY <1>3, Parts DEF Kept, SearchType
<1>5. /\ StackOfQuery(stack', locToDpm) /\ KeptComplete' /\ CallsResolved'
  <2>1. <<>> \in Seq(Frame) /\ StackOfQuery(<<>>, locToDpm)
    BY EmptySeq DEF StackOfQuery
  <2>2. CASE UNCHANGED <<cached, callees, stack>>
    BY <1>1, <1>2, <2>1, <2>2, KeptNext, ResolvedNext DEF VisitedInv
  <2>3. CASE BeginReCompute(query, prog.ander[query[1]], <<>>)
    <3> DEFINE own == prog.ander[query[1]]
    <3>1. own \subseteq Ander(query) /\ BeginReCompute(query, own, <<>>)
      BY <1>1, <2>3, QueryItem DEF Ander
    <3> HIDE DEF own
    <3>2. PICK fr \in Frame : Recomputes(fr, query, <<>>, NewCallees(query, cached'[query]))
      BY <1>3, <2>1, <3>1, GrowParts
    <3>3. stack' = <<fr>> \o <<>> /\ FrameOfQuery(fr, locToDpm)
      BY <1>3, <3>2 DEF Recomputes, FrameOfQuery
    <3>4. StackOfQuery(stack', locToDpm)
      BY <2>1, <3>3, StackParts
    <3>5. KeptComplete' /\ CallsResolved'
      BY <1>1, <1>2, <1>3, <1>4, <2>1, <3>1, KeptGrows, ResolvedGrows DEF VisitedInv
    <3> QED
      BY <3>4, <3>5
  <2> QED
    BY <2>2, <2>3 DEF Downgrade
<1>6. OfQuery'
  BY <1>1, <1>2, <1>3, <1>5, StackNext DEF VisitedInv, OfQuery
<1>7. AllInWork'
  BY <1>1, <1>2 DEF AllInWork
<1> QED
  BY <1>5, <1>6, <1>7 DEF VisitedInv

LEMMA InitVisited == Init => VisitedInv
<1> SUFFICES ASSUME Init PROVE VisitedInv
  OBVIOUS
<1>1. StackOfQuery(stack, locToDpm)
  BY EmptySeq DEF Init, StackOfQuery
<1>2. OfQuery
  BY <1>1 DEF Init, OfQuery
<1>3. CallsResolved
  BY DEF Init, CallsResolved, NewCallees
<1> QED
  BY <1>2, <1>3 DEF Init, VisitedInv, KeptComplete, AllInWork, Kept

LEMMA StutterVisited ==
  ASSUME VisitedInv, UNCHANGED vars
  PROVE  VisitedInv'
<1>1. /\ UNCHANGED <<prog, queries, query, phase, cached, outOfBudgetDpms, callees, stack>>
      /\ locToDpm' = locToDpm /\ backwardVisited' = backwardVisited
      /\ outOfBudgetQuery' = outOfBudgetQuery /\ Kept' = Kept
  BY DEF vars, searchVars, Kept
<1>2. OfQuery'
  BY <1>1, StackNext DEF VisitedInv, OfQuery
<1>3. ASSUME ~outOfBudgetQuery', NEW x \in locToDpm'
      PROVE  \/ Complete(x, cached', backwardVisited')
             \/ InWork(stack', stack'[1].todo, x, cached', backwardVisited')
  <2>1. \/ Complete(x, cached, backwardVisited)
        \/ InWork(stack, stack[1].todo, x, cached, backwardVisited)
    BY <1>1, <1>3 DEF VisitedInv, AllInWork
  <2> QED
    BY <1>1, <2>1
<1>4. AllInWork'
  BY <1>1, <1>3, InWorkNext
<1>5. KeptComplete' /\ CallsResolved'
  BY <1>1, KeptNext, ResolvedNext DEF VisitedInv
<1> QED
  BY <1>2, <1>4, <1>5 DEF VisitedInv

LEMMA NextVisited == Inv /\ VisitedInv /\ [Next]_vars => VisitedInv'
<1> SUFFICES ASSUME Inv, VisitedInv, [Next]_vars PROVE VisitedInv'
  OBVIOUS
<1>1. CASE Step
  BY <1>1, ResetVisited, StartVisited, CallVisited, ProceedVisited, UpdateVisited, NextEdgeVisited,
     AnswerVisited, DowngradeVisited DEF Step
<1>2. CASE UNCHANGED vars
  BY <1>2, StutterVisited
<1> QED
  BY <1>1, <1>2 DEF Next
-----------------------------------------------------------------------------
(* Answers miss no target. *)

\* An answered item keeps its mark, and a downgraded one has all of
\* Andersen's targets.
AnsweredInv ==
    /\ \A d \in outOfBudgetDpms : Ander(d) \subseteq cached[d]
    /\ phase = "downgraded" => Ander(query) \subseteq cached[query]
    /\ phase = "search" => query \in backwardVisited
    /\ \A v \in prog.queries \ queries :
          VarItem(v) = query \/ VarItem(v) \in (IF phase = "rest" THEN VisitedAfterReset ELSE Kept)

\* Where the cache grows and the marks stay.
LEMMA AnsweredStays ==
  ASSUME Inv, AnsweredInv, UNCHANGED <<prog, queries, query, phase, outOfBudgetDpms>>,
         phase # "rest", Kept \subseteq Kept', backwardVisited \subseteq backwardVisited',
         \A x \in Item : cached[x] \subseteq cached'[x]
  PROVE  AnsweredInv'
<1>1. \A d : Ander(d)' = Ander(d)
  BY DEF Ander
<1>2. query \in Item /\ outOfBudgetDpms \subseteq Item
  BY QueryItem, Parts DEF QueryType
<1>3. \A v : VarItem(v)' = VarItem(v)
  BY DEF VarItem
<1> QED
  BY <1>1, <1>2, <1>3 DEF AnsweredInv

LEMMA AnsweredNext ==
  ASSUME Inv, VisitedInv, AnsweredInv, [Next]_vars
  PROVE  AnsweredInv'
<1>0. /\ \A d : prog' = prog => Ander(d)' = Ander(d)
      /\ \A v : VarItem(v)' = VarItem(v)
  BY DEF Ander, VarItem
<1>1. ASSUME NEW v \in queries, ResetQuery(v) PROVE AnsweredInv'
  <2>1. /\ Kept' = VisitedAfterReset /\ phase = "rest" /\ phase' = "start"
        /\ UNCHANGED <<prog, cached, outOfBudgetDpms>> /\ queries' = queries \ {v} /\ query' = VarItem(v)
    BY <1>1 DEF ResetQuery, Kept
  <2>2. ASSUME NEW u \in prog.queries, VarItem(u) = query PROVE FALSE
    <3>1. u \in Var /\ query = NoItem
      BY <2>1, <2>2, Parts, ProgramFields DEF QueryType
    <3> QED
      BY <2>2, <3>1, ItemsMade, NoItemAssumption
  <2> QED
    BY <1>0, <2>1, <2>2 DEF AnsweredInv
<1>2. CASE StartQuery
  <2>1. /\ phase = "start" /\ phase' = "search" /\ FindPT(query, backwardVisited, <<>>)
        /\ UNCHANGED <<prog, queries, query, cached, outOfBudgetDpms>>
    BY <1>2 DEF StartQuery
  <2>2. query \in backwardVisited' /\ Kept \subseteq Kept'
    BY <2>1 DEF FindPT, Kept
  <2> QED
    BY <1>0, <2>1, <2>2 DEF AnsweredInv
<1>3. ASSUME NEW d \in Item, Call(d) PROVE AnsweredInv'
  <2>1. /\ stack # <<>> /\ UNCHANGED <<prog, queries, query, phase, cached, outOfBudgetDpms, callees>>
        /\ Kept' = Kept /\ backwardVisited \subseteq backwardVisited'
    BY <1>3, CallParts DEF VisitedInv, Kept, searchVars
  <2> QED
    BY <2>1, StackIs, AnsweredStays
<1>4. CASE Proceed \/ NextEdge
  <2>1. stack # <<>> /\ UNCHANGED <<prog, queries, query, phase, searchVars, cached, outOfBudgetDpms, callees>>
    BY <1>4 DEF Proceed, NextEdge
  <2> QED
    BY <2>1, StackIs, AnsweredStays DEF searchVars, Kept
<1>5. CASE Update
  <2>1. /\ stack # <<>> /\ Top.step = "backtrace"
        /\ UNCHANGED <<prog, queries, query, phase, searchVars, outOfBudgetDpms>>
    BY <1>5 DEF Update
  <2>2. Top.item \in Item /\ Below \in Seq(Frame) /\ phase # "rest" /\ Top.pts \subseteq Ander(Top.item)
    BY <1>5, <2>1, StackIs, TopFrame DEF FrameWithin, Update
  <2>3. \A x \in Item : cached[x] \subseteq cached'[x]
    <3>1. CASE cached' = cached
      BY <3>1
    <3>2. CASE BeginReCompute(Top.item, Top.pts, Below)
      BY <2>2, <3>2, GrowParts
    <3> QED
      BY <1>5, <3>1, <3>2 DEF Update
  <2> QED
    BY <2>1, <2>2, <2>3, AnsweredStays DEF searchVars, Kept
<1>6. CASE Answer
  <2>1. /\ phase = "search" /\ ~outOfBudgetQuery /\ query' = NoItem /\ phase' = "rest"
        /\ UNCHANGED <<prog, queries, searchVars, cached, outOfBudgetDpms>>
    BY <1>6 DEF Answer
  <2>2. /\ VisitedAfterReset' = backwardVisited /\ Kept \subseteq backwardVisited
    BY <2>1 DEF VisitedAfterReset, Kept, searchVars
  <2> QED
    BY <1>0, <2>1, <2>2 DEF AnsweredInv
<1>7. CASE Downgrade
  <2>1. /\ phase = "search" /\ phase' = "downgraded"
        /\ UNCHANGED <<prog, queries, query, searchVars, outOfBudgetDpms>>
    BY <1>7 DEF Downgrade
  <2>2. query \in Item /\ Ander(query) = prog.ander[query[1]] /\ outOfBudgetDpms \subseteq Item
    BY <2>1, QueryItem, Parts DEF Ander, QueryType
  <2>3. Ander(query) \subseteq cached'[query] /\ \A x \in Item : cached[x] \subseteq cached'[x]
    <3>1. CASE prog.ander[query[1]] \subseteq cached[query] /\ cached' = cached
      BY <2>2, <3>1
    <3>2. CASE BeginReCompute(query, prog.ander[query[1]], <<>>)
      <4> DEFINE own == prog.ander[query[1]]
      <4>1. own \subseteq Ander(query) /\ BeginReCompute(query, own, <<>>) /\ own = Ander(query) /\ <<>> \in Seq(Frame)
        BY <2>2, <3>2, EmptySeq
      <4> HIDE DEF own
      <4>2. cached'[query] = cached[query] \cup own /\ \A x \in Item : cached[x] \subseteq cached'[x]
        BY <2>2, <4>1, GrowParts
      <4> QED
        BY <4>1, <4>2
    <3> QED
      BY <1>7, <3>1, <3>2 DEF Downgrade
  <2>4. Kept' = Kept
    BY <2>1 DEF searchVars, Kept
  <2> QED
    BY <1>0, <2>1, <2>2, <2>3, <2>4 DEF AnsweredInv
<1>8. CASE AnswerDowngraded
  <2>1. /\ phase = "downgraded" /\ outOfBudgetDpms' = outOfBudgetDpms \cup {query} /\ query' = NoItem
        /\ phase' = "rest" /\ UNCHANGED <<prog, queries, searchVars, cached>>
    BY <1>8 DEF AnswerDowngraded
  <2>2. outOfBudgetQuery /\ query \in backwardVisited
    BY <2>1 DEF VisitedInv, OfQuery
  <2>3. Kept \cup {query} \subseteq VisitedAfterReset'
    BY <2>1, <2>2 DEF VisitedAfterReset, Kept, searchVars
  <2> QED
    BY <1>0, <2>1, <2>3 DEF AnsweredInv
<1>9. CASE UNCHANGED vars
  BY <1>0, <1>9 DEF vars, searchVars, AnsweredInv, Kept, VisitedAfterReset
<1> QED
  BY <1>1, <1>2, <1>3, <1>4, <1>5, <1>6, <1>7, <1>8, <1>9 DEF Next, Step

LEMMA AnsweredInit == Init => AnsweredInv
  BY DEF Init, AnsweredInv

\* The rules derive nothing that Andersen's analysis does not.
LEMMA DerivedWithin ==
  ASSUME WellFormed(prog), NEW X \in SUBSET Pairs, \A d \in Item : Pts(X, d) \subseteq Ander(d)
  PROVE  \A d \in Item : Pts(Advance(X), d) \subseteq Ander(d)
<1>1. /\ \A v \in Var : VarItem(v) \in Item /\ Ander(VarItem(v)) = prog.ander[v]
      /\ \A n \in Store \cup MemRef, o \in Obj : <<n, o>> \in Item /\ Ander(<<n, o>>) = prog.anderObj[o]
  BY NodeAssumption DEF VarItem, Item, Ander
<1>2. /\ \A s \in Store, o \in Obj : PreOut[<<s, o>>] = prog.anderObj[o]
      /\ \A m \in MemRef, o \in Obj : PreIn[<<m, o>>] = prog.anderObj[o]
  BY PreAnalysisClosed DEF Node
<1>3. SolutionWithin(X, prog.ander, PreIn, PreOut)
  <2>1. \A v \in Var : VarPts(X, v) \subseteq prog.ander[v]
    BY <1>1 DEF VarPts
  <2>2. ASSUME NEW s \in Store, NEW o \in Obj PROVE Pts(X, <<s, o>>) \subseteq PreOut[<<s, o>>]
    <3>1. <<s, o>> \in Item /\ Ander(<<s, o>>) = PreOut[<<s, o>>]
      BY <1>1, <1>2
    <3> QED
      BY <3>1
  <2>3. ASSUME NEW m \in MemRef, NEW o \in Obj PROVE Pts(X, <<m, o>>) \subseteq PreIn[<<m, o>>]
    <3>1. <<m, o>> \in Item /\ Ander(<<m, o>>) = PreIn[<<m, o>>]
      BY <1>1, <1>2
    <3> QED
      BY <3>1
  <2> QED
    BY <2>1, <2>2, <2>3 DEF SolutionWithin
<1>4. SolutionWithin(Advance(X), prog.ander, PreIn, PreOut)
  BY <1>3, PreAnalysisClosed, ClosedHolds
<1> SUFFICES ASSUME NEW d \in Item PROVE Pts(Advance(X), d) \subseteq Ander(d)
  OBVIOUS
<1>5. CASE \E v \in Var : d = VarItem(v)
  BY <1>1, <1>4, <1>5 DEF SolutionWithin, VarPts
<1>6. CASE \E s \in Store, o \in Obj : d = <<s, o>>
  BY <1>1, <1>2, <1>4, <1>6 DEF SolutionWithin
<1>7. CASE \E m \in MemRef, o \in Obj : d = <<m, o>>
  BY <1>1, <1>2, <1>4, <1>7 DEF SolutionWithin
<1> QED
  BY <1>5, <1>6, <1>7 DEF Item, VarItem

\* The edges that the rules see at a complete item have been found.
LEMMA EdgesFound ==
  ASSUME Inv, CallsResolved, NEW X \in SUBSET Pairs, NEW V, NEW d \in Item,
         \A x \in Item : Pts(X, x) \subseteq Ander(x),
         \A x \in V \cap Item : Pts(X, x) \subseteq cached[x], FunPtrs(d[1]) \subseteq V
  PROVE  /\ \A e \in ResolvedCopies(X) : e[2] = d[1] => e \in Direct
         /\ \A e \in ResolvedFlows(X) : e.dst = d[1] => e \in Indirect
<1>1. ASSUME NEW c \in prog.calls, NEW f \in VarPts(X, c.funPtr),
             d[1] \in {e[2] : e \in c.direct[f]} \cup {e.dst : e \in c.indirect[f]}
      PROVE  <<c, f>> \in callees
  <2>1. c \in CallSites /\ c.funPtr \in Var
    BY Parts, ProgramFields DEF CallSites
  <2>2. VarItem(c.funPtr) \in Item /\ Ander(VarItem(c.funPtr)) = prog.ander[c.funPtr]
    BY <2>1 DEF VarItem, Item, Ander
  <2>3. f \in prog.ander[c.funPtr]
    BY <2>2 DEF VarPts
  <2>4. d[1] \in c.rets \cup prog.entries[f]
    BY <1>1, <2>3, Parts DEF WellFormed
  <2>5. VarItem(c.funPtr) \in V
    BY <2>3, <2>4 DEF FunPtrs
  <2>6. f \in cached[VarItem(c.funPtr)]
    BY <2>2, <2>5 DEF VarPts
  <2> QED
    BY <2>2, <2>6 DEF CallsResolved, NewCallees
<1>2. \A e \in ResolvedCopies(X) : e[2] = d[1] => e \in Direct
  <2> SUFFICES ASSUME NEW c \in prog.calls, NEW f \in VarPts(X, c.funPtr), NEW e \in c.direct[f], e[2] = d[1]
               PROVE  e \in Direct
    BY DEF ResolvedCopies, Direct
  <2>1. <<c, f>> \in callees
    BY <1>1
  <2> QED
    BY <2>1 DEF Direct
<1>3. \A e \in ResolvedFlows(X) : e.dst = d[1] => e \in Indirect
  <2> SUFFICES ASSUME NEW c \in prog.calls, NEW f \in VarPts(X, c.funPtr), NEW e \in c.indirect[f], e.dst = d[1]
               PROVE  e \in Indirect
    BY DEF ResolvedFlows, Indirect
  <2>1. <<c, f>> \in callees
    BY <1>1
  <2> QED
    BY <2>1 DEF Indirect
<1> QED
  BY <1>2, <1>3

\* Nor does another round of the rules add to a complete item.
LEMMA CompleteHolds ==
  ASSUME Inv, CallsResolved, NEW X \in SUBSET Pairs, NEW V, V \subseteq Item, NEW d \in Item,
         \A x \in Item : Pts(X, x) \subseteq Ander(x),
         \A x \in V : Pts(X, x) \subseteq cached[x], Complete(d, cached, V)
  PROVE  Pts(Advance(X), d) \subseteq cached[d]
<1> DEFINE T == TargetsIn(d, cached)
<1>1. /\ AddressTaken(d) \subseteq cached[d] /\ Address(d) \cup FunPtrs(d[1]) \subseteq V
      /\ \A x \in Backtrace(d, T) : x \in V /\ cached[x] \subseteq cached[d]
  BY DEF Complete
<1>2. /\ \A a \in Address(d) : Pts(X, a) \subseteq T
      /\ \A x \in Backtrace(d, T) : Pts(X, x) \subseteq cached[d]
  BY <1>1 DEF TargetsIn
<1> HIDE DEF T
<1>3. /\ \A e \in ResolvedCopies(X) : e[2] = d[1] => e \in Direct
      /\ \A e \in ResolvedFlows(X) : e.dst = d[1] => e \in Indirect
  BY <1>1, EdgesFound
<1>4. \A o : \A x \in Incoming(X, d[1], o) : \E y \in AlongIndirect(d[1], o) : x \in Pts(X, y)
  BY <1>3 DEF Incoming, AlongIndirect
<1>5. prog.storeDst \in [Store -> Var] /\ prog.storeSrc \in [Store -> Var]
  BY Parts DEF WellFormed, ProgramType
<1>6. CASE \E v \in Var : d = VarItem(v)
  <2>1. PICK v \in Var : d = VarItem(v)
    BY <1>6
  <2>2. d[1] = v /\ v \notin Store /\ v \notin MemRef
    BY <2>1, NodeAssumption DEF VarItem
  <2>3. Backtrace(d, T) = AlongDirect(v) \cup UNION {AlongIndirect(v, o) : o \in {x \in T : IsLoad(v)}}
    BY <2>2 DEF Backtrace
  <2> SUFFICES ASSUME NEW x \in Values(X, v) PROVE x \in cached[d]
    BY <2>1, AdvanceIs DEF Pts
  <2>4. CASE \E e \in prog.addr : e[2] = v /\ x = e[1]
    BY <1>1, <2>2, <2>4 DEF AddressTaken
  <2>5. CASE \E e \in ResolvedCopies(X) : e[2] = v /\ x \in VarPts(X, e[1])
    <3>1. PICK e \in ResolvedCopies(X) : e[2] = v /\ x \in VarPts(X, e[1])
      BY <2>5
    <3>2. VarItem(e[1]) \in AlongDirect(v)
      BY <1>3, <2>2, <3>1 DEF AlongDirect
    <3> QED
      BY <1>2, <2>3, <3>1, <3>2 DEF VarPts
  <2>6. CASE \E e \in prog.load : e[2] = v /\ \E o \in VarPts(X, e[1]) : x \in Incoming(X, v, o)
    <3>0. PICK e \in prog.load : e[2] = v /\ \E o \in VarPts(X, e[1]) : x \in Incoming(X, v, o)
      BY <2>6
    <3>1. PICK o \in VarPts(X, e[1]) : e[2] = v /\ x \in Incoming(X, v, o)
      BY <3>0
    <3>2. VarItem(e[1]) \in Address(d) /\ IsLoad(v)
      BY <2>2, <3>1 DEF Address, IsLoad
    <3>3. o \in T
      BY <1>2, <3>1, <3>2 DEF VarPts
    <3>4. PICK y \in AlongIndirect(v, o) : x \in Pts(X, y)
      BY <1>4, <2>2, <3>1
    <3>5. y \in Backtrace(d, T)
      BY <2>3, <3>2, <3>3, <3>4
    <3> QED
      BY <1>2, <3>4, <3>5
  <2> QED
    BY <2>4, <2>5, <2>6, ValuesAre
<1>7. CASE \E s \in Store, k \in Obj : d = <<s, k>>
  <2>1. PICK s \in Store, k \in Obj : d = <<s, k>>
    BY <1>7
  <2>2. d[1] = s /\ d[2] = k /\ Backtrace(d, T) = BacktraceStore(s, k, T)
    BY <2>1 DEF Backtrace
  <2> DEFINE A == VarPts(X, prog.storeDst[s])
  <2>3. A \subseteq T
    <3>1. VarItem(prog.storeDst[s]) \in Address(d)
      BY <2>2 DEF Address
    <3> QED
      BY <1>2, <3>1 DEF VarPts
  <2> SUFFICES ASSUME NEW x \in Contents(X, s, k) PROVE x \in cached[d]
    BY <2>1, AdvanceIs DEF Pts
  <2>4. CASE k \in A /\ x \in VarPts(X, prog.storeSrc[s])
    <3>1. VarItem(prog.storeSrc[s]) \in Backtrace(d, T)
      BY <2>2, <2>3, <2>4 DEF BacktraceStore
    <3> QED
      BY <1>2, <2>4, <3>1 DEF VarPts
  <2>5. CASE x \in Incoming(X, s, k) /\ \E t \in A : A # {k} \/ k \in prog.weak
    <3>1. PICK y \in AlongIndirect(s, k) : x \in Pts(X, y)
      BY <1>4, <2>2, <2>5
    <3>2. T \ {k} # {} \/ (T # {} /\ ~IsStrongUpdate(T))
      BY <2>3, <2>5 DEF IsStrongUpdate
    <3>3. y \in Backtrace(d, T)
      BY <2>2, <3>1, <3>2 DEF BacktraceStore
    <3> QED
      BY <1>2, <3>1, <3>3
  <2> QED
    BY <2>4, <2>5, ContentsAre
<1>8. CASE \E m \in MemRef, k \in Obj : d = <<m, k>>
  <2>1. PICK m \in MemRef, k \in Obj : d = <<m, k>>
    BY <1>8
  <2>2. d[1] = m /\ d[2] = k /\ Backtrace(d, T) = AlongIndirect(m, k)
    BY <2>1, NodeAssumption DEF Backtrace
  <2> SUFFICES ASSUME NEW x \in Incoming(X, m, k) PROVE x \in cached[d]
    BY <2>1, AdvanceIs DEF Pts
  <2>3. PICK y \in AlongIndirect(m, k) : x \in Pts(X, y)
    BY <1>4, <2>2
  <2> QED
    BY <1>2, <2>2, <2>3
<1> QED
  BY <1>6, <1>7, <1>8 DEF Item, VarItem

\* So that the solution is within what is cached.
LEMMA AnswersSound ==
  ASSUME Inv, VisitedInv, AnsweredInv, phase = "rest"
  PROVE  \A d \in VisitedAfterReset : Pts(LeastSolution, d) \subseteq cached[d]
<1> DEFINE V == VisitedAfterReset
           Q == {X \in SUBSET Pairs : /\ \A d \in Item : Pts(X, d) \subseteq Ander(d)
                                      /\ \A d \in V : Pts(X, d) \subseteq cached[d]}
<1>1. V \subseteq Item /\ WellFormed(prog)
  BY Parts DEF VisitedAfterReset, SearchType
<1>2. \A d \in V \ outOfBudgetDpms : Complete(d, cached, V)
  BY RestComplete
<1>3. \A d \in V \cap outOfBudgetDpms : Ander(d) \subseteq cached[d]
  BY DEF AnsweredInv
<1>4. CallsResolved
  BY DEF VisitedInv
<1> HIDE DEF V
<1>5. {} \in Q
  BY DEF Pts
<1>6. ASSUME NEW X \in Q PROVE Advance(X) \in Q
  <2>1. X \in SUBSET Pairs /\ Advance(X) \in SUBSET Pairs
    BY <1>1, AdvanceType
  <2>2. \A d \in Item : Pts(Advance(X), d) \subseteq Ander(d)
    BY <1>1, <2>1, DerivedWithin
  <2>3. ASSUME NEW d \in V PROVE Pts(Advance(X), d) \subseteq cached[d]
    <3>1. CASE d \in outOfBudgetDpms
      BY <1>1, <1>3, <2>2, <3>1
    <3>2. CASE d \notin outOfBudgetDpms
      BY <1>1, <1>2, <1>4, <2>1, <3>2, CompleteHolds
    <3> QED
      BY <3>1, <3>2
  <2> QED
    BY <2>1, <2>2, <2>3
<1> HIDE DEF Q
<1>7. LeastSolution \in Q
  BY <1>1, <1>5, <1>6, SolutionStable
<1> QED
  BY <1>7 DEF Q, V
-----------------------------------------------------------------------------
(* Answers add nothing, as long as no query is downgraded. *)

\* What a call has collected, and what it waits for, is within S.
FrameExact(fr, S) ==
    /\ fr.step = "funptr" => fr.targets = {}
    /\ fr.step = "address" =>
          fr.todo \subseteq Address(fr.item) /\ \A o \in fr.targets : \E a \in Address(fr.item) : o \in Pts(S, a)
    /\ fr.step = "backtrace" =>
          fr.pts \subseteq Pts(S, fr.item) /\ \A x \in fr.todo : Pts(S, x) \subseteq Pts(S, fr.item)

StackExact(s, S) == \A j \in 1 .. Len(s) : FrameExact(s[j], S)

ResultsExact(map, calls, S) ==
    (\A d \in Item : map[d] \subseteq Pts(S, d)) /\ \A c \in calls : c[2] \in Pts(S, VarItem(c[1].funPtr))

\* Neither has a query been downgraded, nor is one.
Undisturbed == outOfBudgetDpms = {} /\ phase # "downgraded"

\* Everything is within every set of pairs that the rules do not leave.
PreciseInv ==
    Undisturbed =>
        \A S \in SUBSET Pairs : \A s :
            Advance(S) \subseteq S /\ s = stack => ResultsExact(cached, callees, S) /\ StackExact(s, S)

\* Evaluation applies the rules.
LEMMA BacktraceExact ==
  ASSUME WellFormed(prog), NEW S \in SUBSET Pairs, Advance(S) \subseteq S, callees \subseteq prog.calls \X Obj,
         \A c \in callees : c[2] \in Pts(S, VarItem(c[1].funPtr)),
         NEW d \in Item, NEW T, \A o \in T : \E a \in Address(d) : o \in Pts(S, a)
  PROVE  AddressTaken(d) \subseteq Pts(S, d) /\ \A x \in Backtrace(d, T) : Pts(S, x) \subseteq Pts(S, d)
<1>1. Direct \subseteq ResolvedCopies(S) /\ Indirect \subseteq ResolvedFlows(S)
  <2>1. ASSUME NEW c \in callees
        PROVE  c[1].direct[c[2]] \subseteq ResolvedCopies(S) /\ c[1].indirect[c[2]] \subseteq ResolvedFlows(S)
    <3>1. c[1] \in prog.calls /\ c[2] \in VarPts(S, c[1].funPtr)
      BY DEF VarPts
    <3> QED
      BY <3>1 DEF ResolvedCopies, ResolvedFlows
  <2> QED
    BY <2>1 DEF Direct, Indirect, ResolvedCopies, ResolvedFlows
<1>2. \A o : \A y \in AlongIndirect(d[1], o) : Pts(S, y) \subseteq Incoming(S, d[1], o)
  BY <1>1 DEF AlongIndirect, Incoming
<1>3. \A o : <<d, o>> \in Advance(S) => o \in Pts(S, d)
  BY DEF Pts, Pairs
<1>4. prog.load \subseteq Var \X Var /\ prog.storeDst \in [Store -> Var] /\ prog.addr \subseteq Obj \X Var
  BY DEF WellFormed, ProgramType
<1>5. CASE \E v \in Var : d = VarItem(v)
  <2>1. PICK v \in Var : d = VarItem(v)
    BY <1>5
  <2>2. d[1] = v /\ v \notin Store /\ v \notin MemRef
    BY <2>1, NodeAssumption DEF VarItem
  <2>3. Values(S, v) \subseteq Pts(S, d)
    BY <1>3, <2>1, AdvanceIs
  <2>4. AddressTaken(d) \subseteq Pts(S, d)
    BY <2>2, <2>3, ValuesAre DEF AddressTaken
  <2>5. ASSUME NEW y \in AlongDirect(v) PROVE Pts(S, y) \subseteq Pts(S, d)
    <3>1. PICK e \in Direct : e[2] = v /\ y = VarItem(e[1])
      BY <2>5 DEF AlongDirect
    <3>2. VarPts(S, e[1]) \subseteq Values(S, v)
      BY <1>1, <3>1, ValuesAre
    <3> QED
      BY <2>3, <3>1, <3>2 DEF VarPts
  <2>6. ASSUME NEW o \in T, NEW y \in AlongIndirect(v, o) PROVE Pts(S, y) \subseteq Pts(S, d)
    <3>1. PICK a \in Address(d) : o \in Pts(S, a)
      OBVIOUS
    <3>2. PICK e \in prog.load : e[2] = v /\ a = VarItem(e[1])
      BY <2>2 DEF Address
    <3>3. Incoming(S, v, o) \subseteq Values(S, v)
      BY <3>1, <3>2, ValuesAre DEF VarPts
    <3> QED
      BY <1>2, <2>2, <2>3, <3>3
  <2>7. \A x \in Backtrace(d, T) : x \in AlongDirect(v) \/ \E o \in T : x \in AlongIndirect(v, o)
    BY <2>2 DEF Backtrace
  <2> QED
    BY <2>4, <2>5, <2>6, <2>7
<1>6. CASE \E s \in Store, k \in Obj : d = <<s, k>>
  <2>1. PICK s \in Store, k \in Obj : d = <<s, k>>
    BY <1>6
  <2>2. d[1] = s /\ d[2] = k /\ Backtrace(d, T) = BacktraceStore(s, k, T) /\ s \notin Var
    BY <2>1, NodeAssumption DEF Backtrace
  <2>3. Contents(S, s, k) \subseteq Pts(S, d)
    BY <1>3, <2>1, AdvanceIs
  <2>4. AddressTaken(d) = {}
    BY <1>4, <2>2 DEF AddressTaken
  <2> DEFINE A == VarPts(S, prog.storeDst[s])
  <2>5. T \subseteq A
    <3>1. Address(d) = {VarItem(prog.storeDst[s])}
      BY <1>4, <2>2 DEF Address
    <3> QED
      BY <3>1 DEF VarPts
  <2>6. ASSUME k \in T PROVE Pts(S, VarItem(prog.storeSrc[s])) \subseteq Pts(S, d)
    BY <2>3, <2>5, <2>6, ContentsAre DEF VarPts
  <2>7. ASSUME NEW y \in AlongIndirect(s, k), T \ {k} # {} \/ (T # {} /\ ~IsStrongUpdate(T))
        PROVE  Pts(S, y) \subseteq Pts(S, d)
    <3>1. \E t \in A : A # {k} \/ k \in prog.weak
      <4>1. CASE T \ {k} # {}
        BY <2>5, <4>1
      <4>2. CASE T = {k} /\ ~IsStrongUpdate(T)
        BY <2>1, <2>5, <4>2 DEF IsStrongUpdate
      <4> QED
        BY <2>7, <4>1, <4>2
    <3>2. Incoming(S, s, k) \subseteq Contents(S, s, k)
      BY <3>1, ContentsAre
    <3> QED
      BY <1>2, <2>2, <2>3, <3>2
  <2> QED
    BY <2>2, <2>4, <2>6, <2>7 DEF BacktraceStore
<1>7. CASE \E m \in MemRef, k \in Obj : d = <<m, k>>
  <2>1. PICK m \in MemRef, k \in Obj : d = <<m, k>>
    BY <1>7
  <2>2. d[1] = m /\ d[2] = k /\ Backtrace(d, T) = AlongIndirect(m, k) /\ m \notin Var
    BY <2>1, NodeAssumption DEF Backtrace
  <2>3. Incoming(S, m, k) \subseteq Pts(S, d)
    BY <1>3, <2>1, AdvanceIs
  <2>4. AddressTaken(d) = {}
    BY <1>4, <2>2 DEF AddressTaken
  <2> QED
    BY <1>2, <2>2, <2>3, <2>4
<1> QED
  BY <1>5, <1>6, <1>7 DEF Item, VarItem

LEMMA ExactParts ==
  ASSUME NEW fr \in Frame, NEW r \in Seq(Frame), NEW S
  PROVE  StackExact(<<fr>> \o r, S) <=> FrameExact(fr, S) /\ StackExact(r, S)
<1> DEFINE s == <<fr>> \o r
<1>1. /\ s \in Seq(Frame) /\ Len(s) = Len(r) + 1 /\ Len(r) \in Nat
      /\ s[1] = fr /\ \A i \in 1 .. Len(s) : i # 1 => i - 1 \in 1 .. Len(r) /\ s[i] = r[i - 1]
  BY Cons
<1> HIDE DEF s
<1>2. \A j \in 1 .. Len(r) : j + 1 \in 1 .. Len(s) /\ s[j + 1] = r[j]
  BY <1>1
<1>3. 1 \in 1 .. Len(s)
  BY <1>1
<1>4. ASSUME StackExact(s, S) PROVE FrameExact(fr, S) /\ StackExact(r, S)
  <2>1. FrameExact(fr, S)
    BY <1>1, <1>3, <1>4 DEF StackExact
  <2>2. ASSUME NEW j \in 1 .. Len(r) PROVE FrameExact(r[j], S)
    BY <1>2, <1>4, <2>2 DEF StackExact
  <2> QED
    BY <2>1, <2>2 DEF StackExact
<1>5. ASSUME FrameExact(fr, S), StackExact(r, S) PROVE StackExact(s, S)
  <2>1. ASSUME NEW i \in 1 .. Len(s) PROVE FrameExact(s[i], S)
    <3>1. CASE i = 1
      BY <1>1, <1>5, <3>1
    <3>2. CASE i # 1
      BY <1>1, <1>5, <3>2 DEF StackExact
    <3> QED
      BY <3>1, <3>2
  <2> QED
    BY <2>1 DEF StackExact
<1> QED
  BY <1>4, <1>5 DEF s

LEMMA ExactPartsOf ==
  ASSUME NEW r \in Seq(Frame), r # <<>>, NEW S
  PROVE  StackExact(r, S) <=> FrameExact(r[1], S) /\ StackExact(Tail(r), S)
<1>1. r[1] \in Frame /\ Tail(r) \in Seq(Frame) /\ <<r[1]>> \o Tail(r) = r
  BY ConsOf
<1>2. StackExact(<<r[1]>> \o Tail(r), S) <=> FrameExact(r[1], S) /\ StackExact(Tail(r), S)
  BY <1>1, ExactParts
<1> QED
  BY <1>1, <1>2

\* A result that is absorbed was waited for.
LEMMA AbsorbExact ==
  ASSUME NEW fr \in Frame, NEW d \in fr.todo, NEW S, FrameExact(fr, S),
         cached \in [Item -> SUBSET Obj], cached[d] \subseteq Pts(S, d)
  PROVE  FrameExact(Absorb(fr, d, cached), S)
<1> DEFINE g == Absorb(fr, d, cached)
<1>1. d \in Item
  BY DEF Frame
<1>2. /\ g.item = fr.item /\ g.step = fr.step /\ g.todo = fr.todo \ {d}
      /\ g.targets = IF fr.step = "address" THEN fr.targets \cup cached[d] ELSE fr.targets
      /\ g.pts = IF fr.step = "backtrace" THEN fr.pts \cup cached[d] ELSE fr.pts
  BY <1>1, AbsorbFields
<1> HIDE DEF g
<1> QED
  BY <1>2 DEF FrameExact, g

LEMMA SameAdvance ==
  ASSUME prog' = prog
  PROVE  /\ \A S : Advance(S)' = Advance(S)
         /\ \A s, S : StackExact(s, S)' <=> StackExact(s, S)
<1>1. /\ \A S : ResolvedCopies(S)' = ResolvedCopies(S) /\ ResolvedFlows(S)' = ResolvedFlows(S)
      /\ \A S, v : VarPts(S, v)' = VarPts(S, v)
  BY DEF ResolvedCopies, ResolvedFlows, VarPts, Pts
<1>2. \A S, n, o : Incoming(S, n, o)' = Incoming(S, n, o)
  BY <1>1 DEF Incoming, Pts
<1>3. \A S, v : Values(S, v)' = Values(S, v)
  BY <1>1, <1>2 DEF Values
<1>4. \A S, s, o : Contents(S, s, o)' = Contents(S, s, o)
  BY <1>1, <1>2 DEF Contents
<1>5. \A S : Advance(S)' = Advance(S)
  BY <1>2, <1>3, <1>4 DEF Advance
<1>6. \A d : Address(d)' = Address(d)
  BY SameProgram
<1>7. \A d, S : Pts(S, d)' = Pts(S, d)
  BY DEF Pts
<1>8. \A fr, S : FrameExact(fr, S)' <=> FrameExact(fr, S)
  BY <1>6, <1>7 DEF FrameExact
<1> QED
  BY <1>5, <1>8 DEF StackExact

LEMMA PreciseWhole ==
  ASSUME prog' = prog,
         Undisturbed' => \A S \in SUBSET Pairs :
             Advance(S) \subseteq S => ResultsExact(cached', callees', S) /\ StackExact(stack', S)
  PROVE  PreciseInv'
<1> SUFFICES ASSUME Undisturbed', NEW S \in SUBSET Pairs', NEW s, Advance(S)' \subseteq S, s = stack'
             PROVE  ResultsExact(cached', callees', S) /\ StackExact(s, S)'
  BY DEF PreciseInv, ResultsExact, Pts, VarItem
<1>1. S \in SUBSET Pairs /\ Advance(S) \subseteq S
  BY SameAdvance DEF Pairs
<1> QED
  BY <1>1, SameAdvance

LEMMA EmptyExact == \A S : StackExact(<<>>, S)
  BY EmptySeq DEF StackExact

\* The call returns to the frame below.
LEMMA ReturnExact ==
  ASSUME Inv, stack # <<>>, NEW S, StackExact(Below, S), ResultsExact(cached, callees, S),
         Return(Top.item, Below)
  PROVE  StackExact(stack', S)
<1>1. /\ Below \in Seq(Frame) /\ Top.item \in Item /\ cached \in [Item -> SUBSET Obj]
      /\ Below # <<>> => Top.item \in Below[1].todo
  BY StackIs, TopFrame
<1>2. CASE Below = <<>>
  BY <1>2, EmptyExact DEF Return
<1>3. CASE Below # <<>>
  <2> DEFINE r == Below
             g == Top.item
             ab == Absorb(r[1], g, cached)
  <2>1. /\ r[1] \in Frame /\ Head(r) = r[1] /\ Tail(r) \in Seq(Frame)
        /\ FrameExact(r[1], S) /\ StackExact(Tail(r), S)
    BY <1>1, <1>3, ConsOf, ExactPartsOf
  <2>2. ab \in Frame /\ FrameExact(ab, S)
    <3>1. g \in r[1].todo /\ cached[g] \subseteq Pts(S, g)
      BY <1>1, <1>3 DEF ResultsExact
    <3> QED
      BY <1>1, <2>1, <3>1, AbsorbFields, AbsorbExact
  <2>3. stack' = <<ab>> \o Tail(r)
    BY <1>3, <2>1 DEF Return
  <2> HIDE DEF ab, r, g
  <2> QED
    BY <2>1, <2>2, <2>3, ExactParts
<1> QED
  BY <1>2, <1>3

LEMMA CallExact ==
  ASSUME Inv, OfQuery, NEW d \in Item, Call(d), NEW S, StackExact(stack, S), ResultsExact(cached, callees, S)
  PROVE  StackExact(stack', S)
<1>1. /\ stack # <<>> /\ d \in Top.todo
      /\ stack' = AbsorbTop(d) \/ stack' = <<Resolving(d)>> \o stack
  BY CallParts
<1>2. /\ Top \in Frame /\ Below \in Seq(Frame) /\ stack \in Seq(Frame) /\ <<Top>> \o Below = stack
      /\ cached \in [Item -> SUBSET Obj] /\ WellFormed(prog)
  BY <1>1, StackIs
<1>3. FrameExact(Top, S) /\ StackExact(Below, S)
  BY <1>2, ExactParts
<1>4. StackExact(AbsorbTop(d), S)
  <2>1. /\ Absorb(Top, d, cached) \in Frame /\ AbsorbTop(d) = <<Absorb(Top, d, cached)>> \o Below
    BY <1>1, AbsorbTopIs
  <2>2. FrameExact(Absorb(Top, d, cached), S)
    BY <1>1, <1>2, <1>3, AbsorbExact DEF ResultsExact
  <2> QED
    BY <1>2, <1>3, <2>1, <2>2, ExactParts
<1>5. StackExact(<<Resolving(d)>> \o stack, S)
  <2>1. Resolving(d) \in Frame
    BY <1>2, ResolvingWorks
  <2>2. FrameExact(Resolving(d), S)
    BY DEF FrameExact, Resolving, NewFrame
  <2> QED
    BY <1>2, <2>1, <2>2, ExactParts
<1> QED
  BY <1>1, <1>4, <1>5

LEMMA ProceedExact ==
  ASSUME Inv, Proceed, NEW S \in SUBSET Pairs, Advance(S) \subseteq S,
         StackExact(stack, S), ResultsExact(cached, callees, S)
  PROVE  StackExact(stack', S)
<1>1. /\ stack # <<>> /\ Top.todo = {}
      /\ \/ /\ Top.step = "funptr"
            /\ Replace([Top EXCEPT !.step = "address", !.todo = Address(Top.item)])
         \/ /\ Top.step = "address"
            /\ Replace([Top EXCEPT !.step = "backtrace", !.todo = Backtrace(Top.item, Top.targets),
                                   !.pts = AddressTaken(Top.item)])
  BY DEF Proceed
<1>2. /\ Top \in Frame /\ Top.item \in Item /\ Below \in Seq(Frame) /\ <<Top>> \o Below = stack
      /\ WellFormed(prog) /\ callees \subseteq prog.calls \X Obj
  BY <1>1, StackIs, Parts DEF ResultsWithin
<1>3. FrameExact(Top, S) /\ StackExact(Below, S)
  BY <1>2, ExactParts
<1>4. ASSUME NEW fr \in Frame, Replace(fr), FrameExact(fr, S) PROVE StackExact(stack', S)
  <2>1. StackExact(<<fr>> \o Below, S)
    BY <1>2, <1>3, <1>4, ExactParts
  <2> QED
    BY <1>4, <2>1 DEF Replace
<1>5. CASE Top.step = "funptr" /\ Replace([Top EXCEPT !.step = "address", !.todo = Address(Top.item)])
  <2> DEFINE fr == [Top EXCEPT !.step = "address", !.todo = Address(Top.item)]
  <2>1. Address(Top.item) \in SUBSET Item
    BY <1>2, AddressType
  <2>2. fr \in Frame /\ fr.step = "address" /\ fr.todo = Address(fr.item) /\ fr.targets = Top.targets
    BY <1>2, <2>1 DEF Frame
  <2>3. Replace(fr)
    BY <1>5
  <2> HIDE DEF fr
  <2>4. FrameExact(fr, S)
    BY <1>3, <1>5, <2>2 DEF FrameExact
  <2> QED
    BY <1>4, <2>2, <2>3, <2>4
<1>6. CASE Top.step = "address" /\ Replace([Top EXCEPT !.step = "backtrace",
               !.todo = Backtrace(Top.item, Top.targets), !.pts = AddressTaken(Top.item)])
  <2> DEFINE fr == [Top EXCEPT !.step = "backtrace", !.todo = Backtrace(Top.item, Top.targets),
                               !.pts = AddressTaken(Top.item)]
  <2>1. AddressTaken(Top.item) \subseteq Pts(S, Top.item)
        /\ \A x \in Backtrace(Top.item, Top.targets) : Pts(S, x) \subseteq Pts(S, Top.item)
    <3>1. \A o \in Top.targets : \E a \in Address(Top.item) : o \in Pts(S, a)
      BY <1>3, <1>6 DEF FrameExact
    <3> QED
      BY <1>2, <3>1, BacktraceExact DEF ResultsExact
  <2>2. fr \in Frame
    <3>1. TargetsWithin(Top.item, Top.targets) /\ Top.targets \in SUBSET Obj /\ CalleesWithin
      BY <1>1, <1>2, <1>6, TopFrame DEF FrameWithin, Frame, Inv
    <3>2. \A x \in Backtrace(Top.item, Top.targets) : x \in Item
      BY <1>2, <3>1, BacktraceWithin
    <3>3. AddressTaken(Top.item) \subseteq Obj
      BY <1>2, AddressTakenWithin, AnderType
    <3> QED
      BY <1>2, <3>2, <3>3 DEF Frame
  <2>3. /\ fr.step = "backtrace" /\ fr.item = Top.item /\ fr.pts = AddressTaken(Top.item)
        /\ fr.todo = Backtrace(Top.item, Top.targets)
    BY <1>2 DEF Frame
  <2>4. Replace(fr)
    BY <1>6
  <2> HIDE DEF fr
  <2>5. FrameExact(fr, S)
    BY <2>1, <2>3 DEF FrameExact
  <2> QED
    BY <1>4, <2>2, <2>4, <2>5
<1> QED
  BY <1>1, <1>5, <1>6

LEMMA UpdateExact ==
  ASSUME Inv, Update, NEW S, StackExact(stack, S), ResultsExact(cached, callees, S)
  PROVE  ResultsExact(cached', callees', S) /\ StackExact(stack', S)
<1>1. stack # <<>> /\ Top.step = "backtrace"
  BY DEF Update
<1>2. /\ Top \in Frame /\ Top.item \in Item /\ Below \in Seq(Frame) /\ <<Top>> \o Below = stack
      /\ Top.pts \subseteq Ander(Top.item)
  BY <1>1, StackIs, TopFrame DEF FrameWithin
<1>3. Top.pts \subseteq Pts(S, Top.item) /\ StackExact(Below, S)
  BY <1>1, <1>2, ExactParts DEF FrameExact
<1>4. CASE Return(Top.item, Below) /\ UNCHANGED <<cached, callees>>
  BY <1>1, <1>3, <1>4, ReturnExact
<1>5. CASE BeginReCompute(Top.item, Top.pts, Below)
  <2> DEFINE g == Top.item
             own == Top.pts
             r == Below
             new == NewCallees(g, cached'[g])
  <2>1. g \in Item /\ own \subseteq Ander(g) /\ r \in Seq(Frame) /\ BeginReCompute(g, own, r)
        /\ own \subseteq Pts(S, g) /\ StackExact(r, S)
    BY <1>2, <1>3, <1>5
  <2> HIDE DEF g, own, r
  <2>2. /\ \A x \in Item : x # g => cached'[x] = cached[x]
        /\ cached'[g] = cached[g] \cup own
        /\ callees' = callees \cup new
    BY <2>1, GrowParts
  <2>3. PICK fr \in Frame : Recomputes(fr, g, r, new)
    BY <2>1, GrowParts
  <2>4. StackExact(stack', S)
    <3>1. stack' = <<fr>> \o r /\ fr.step = "newcalls"
      BY <2>3 DEF Recomputes
    <3>2. FrameExact(fr, S)
      BY <3>1 DEF FrameExact
    <3> QED
      BY <2>1, <3>1, <3>2, ExactParts
  <2>5. cached'[g] \subseteq Pts(S, g)
    BY <2>1, <2>2 DEF ResultsExact
  <2>6. \A c \in new : c[2] \in Pts(S, VarItem(c[1].funPtr))
    BY <2>5 DEF NewCallees
  <2> HIDE DEF new
  <2> QED
    BY <2>2, <2>4, <2>5, <2>6 DEF ResultsExact
<1> QED
  BY <1>4, <1>5 DEF Update

LEMMA NextEdgeExact ==
  ASSUME Inv, NextEdge, NEW S, StackExact(stack, S), ResultsExact(cached, callees, S)
  PROVE  StackExact(stack', S)
<1>1. stack # <<>> /\ Top.step \in {"newcalls", "recompute"}
  BY DEF NextEdge
<1>2. /\ Top \in Frame /\ Top.item \in Item /\ Below \in Seq(Frame) /\ <<Top>> \o Below = stack
      /\ locToDpm \subseteq Item
  BY <1>1, StackIs, Parts DEF SearchType
<1>3. StackExact(Below, S)
  BY <1>2, ExactParts
<1>4. ASSUME NEW fr \in Frame, Replace(fr), fr.step \in {"newcalls", "recompute"} PROVE StackExact(stack', S)
  <2>1. FrameExact(fr, S)
    BY <1>4 DEF FrameExact
  <2>2. StackExact(<<fr>> \o Below, S)
    BY <1>2, <1>3, <1>4, <2>1, ExactParts
  <2> QED
    BY <1>4, <2>2 DEF Replace
<1>5. ASSUME NEW e \in Top.edges,
             Replace([Top EXCEPT !.todo = Affected(e, Top.item), !.edges = @ \ {e}])
      PROVE  StackExact(stack', S)
  <2> DEFINE fr == [Top EXCEPT !.todo = Affected(e, Top.item), !.edges = @ \ {e}]
  <2>1. Affected(e, Top.item) \in SUBSET Item
    BY <1>2 DEF Affected
  <2>2. fr \in Frame /\ fr.step = Top.step
    BY <1>2, <2>1 DEF Frame
  <2>3. Replace(fr)
    BY <1>5
  <2> HIDE DEF fr
  <2> QED
    BY <1>1, <1>4, <2>2, <2>3
<1>6. CASE Replace([Top EXCEPT !.step = "recompute", !.edges = OutEdges(Top.item[1])])
  <2> DEFINE fr == [Top EXCEPT !.step = "recompute", !.edges = OutEdges(Top.item[1])]
  <2>1. OutEdges(Top.item[1]) \in SUBSET EdgeType
    BY <1>2, OutEdgesType DEF Inv, TypeOK
  <2>2. fr \in Frame /\ fr.step = "recompute"
    BY <1>2, <2>1 DEF Frame, EdgeType
  <2>3. Replace(fr)
    BY <1>6
  <2> HIDE DEF fr
  <2> QED
    BY <1>4, <2>2, <2>3
<1>7. CASE Return(Top.item, Below)
  BY <1>1, <1>3, <1>7, ReturnExact
<1> QED
  BY <1>5, <1>6, <1>7 DEF NextEdge

LEMMA PreciseNext ==
  ASSUME Inv, VisitedInv, PreciseInv, [Next]_vars
  PROVE  PreciseInv'
<1>1. prog' = prog
  BY DEF Next, Step, ResetQuery, StartQuery, Call, Proceed, Update, NextEdge, Answer, Downgrade,
         AnswerDowngraded, vars
<1>2. CASE Undisturbed
  <2> SUFFICES ASSUME Undisturbed', NEW S \in SUBSET Pairs, Advance(S) \subseteq S
               PROVE  ResultsExact(cached', callees', S) /\ StackExact(stack', S)
    BY <1>1, PreciseWhole
  <2>1. ResultsExact(cached, callees, S) /\ StackExact(stack, S)
    BY <1>2 DEF PreciseInv
  <2>2. CASE \E v \in queries : ResetQuery(v)
    BY <2>1, <2>2 DEF ResetQuery
  <2>3. CASE StartQuery
    <3>1. /\ phase = "start" /\ stack = <<>>
          /\ stack' = <<>> \/ stack' = <<Resolving(query)>> \o stack
          /\ UNCHANGED <<cached, callees>>
      BY <2>3 DEF StartQuery, FindPT, Inv
    <3>2. query \in Item /\ WellFormed(prog) /\ stack \in Seq(Frame)
      BY <2>3, QueryItem, Parts DEF StartQuery, Inv, TypeOK
    <3>3. Resolving(query) \in Frame /\ FrameExact(Resolving(query), S)
      BY <3>2, ResolvingWorks DEF FrameExact, Resolving, NewFrame
    <3> QED
      BY <2>1, <3>1, <3>2, <3>3, EmptyExact, ExactParts
  <2>4. ASSUME NEW d \in Item, Call(d) PROVE ResultsExact(cached', callees', S) /\ StackExact(stack', S)
    <3>1. UNCHANGED <<cached, callees>>
      BY <2>4 DEF Call
    <3> QED
      BY <2>1, <2>4, <3>1, CallExact DEF VisitedInv
  <2>5. CASE Proceed
    BY <2>1, <2>5, ProceedExact DEF Proceed
  <2>6. CASE Update
    BY <2>1, <2>6, UpdateExact
  <2>7. CASE NextEdge
    BY <2>1, <2>7, NextEdgeExact DEF NextEdge
  <2>8. CASE Answer
    BY <2>1, <2>8 DEF Answer
  <2>9. CASE Downgrade \/ AnswerDowngraded
    BY <2>9 DEF Downgrade, AnswerDowngraded, Undisturbed
  <2>10. CASE UNCHANGED vars
    BY <2>1, <2>10 DEF vars
  <2> QED
    BY <2>2, <2>3, <2>4, <2>5, <2>6, <2>7, <2>8, <2>9, <2>10 DEF Next, Step
<1>3. CASE ~Undisturbed
  <2>1. ~Undisturbed'
    <3>1. CASE outOfBudgetDpms # {}
      BY <3>1 DEF Next, Step, ResetQuery, StartQuery, Call, Proceed, Update, NextEdge, Answer, Downgrade,
                  AnswerDowngraded, vars, Undisturbed
    <3>2. CASE phase = "downgraded"
      <4>1. (outOfBudgetDpms' = outOfBudgetDpms /\ phase' = phase) \/ query \in outOfBudgetDpms'
        BY <3>2 DEF Next, Step, ResetQuery, StartQuery, Call, Proceed, Update, NextEdge, Answer, Downgrade,
                    AnswerDowngraded, vars
      <4> QED
        BY <3>2, <4>1 DEF Undisturbed
    <3> QED
      BY <1>3, <3>1, <3>2 DEF Undisturbed
  <2> QED
    BY <1>1, <2>1, PreciseWhole
<1> QED
  BY <1>2, <1>3

LEMMA PreciseInit == Init => PreciseInv
<1>1. \A S : Init => ResultsExact(cached, callees, S)
  BY DEF Init, ResultsExact
<1> QED
  BY <1>1, EmptyExact DEF Init, PreciseInv

\* Between two queries the answers are the solution.
LEMMA RestExact ==
  ASSUME Inv, VisitedInv, AnsweredInv, PreciseInv
  PROVE  AnswersExact
<1> SUFFICES ASSUME phase = "rest", NEW v \in prog.queries \ queries
             PROVE  /\ VarPts(LeastSolution, v) \subseteq cached[VarItem(v)]
                    /\ outOfBudgetDpms = {} => cached[VarItem(v)] = VarPts(LeastSolution, v)
  BY DEF AnswersExact
<1>1. v \in Var /\ WellFormed(prog) /\ query = NoItem
  BY Parts, ProgramFields DEF QueryType
<1>2. VarItem(v) \in Item /\ VarItem(v) \in VisitedAfterReset
  BY <1>1, ItemsMade, NoItemAssumption DEF AnsweredInv
<1>3. VarPts(LeastSolution, v) \subseteq cached[VarItem(v)]
  BY <1>2, AnswersSound DEF VarPts
<1>4. outOfBudgetDpms = {} => cached[VarItem(v)] \subseteq VarPts(LeastSolution, v)
  <2>1. LeastSolution \in SUBSET Pairs /\ Advance(LeastSolution) \subseteq LeastSolution
    BY <1>1, SolutionStable
  <2>2. outOfBudgetDpms = {} => ResultsExact(cached, callees, LeastSolution)
    <3> DEFINE S == LeastSolution
    <3>1. S \in SUBSET Pairs /\ Advance(S) \subseteq S
      BY <2>1
    <3> HIDE DEF S
    <3>2. outOfBudgetDpms = {} => ResultsExact(cached, callees, S)
      BY <3>1 DEF PreciseInv, Undisturbed
    <3> QED
      BY <3>2 DEF S
  <2> QED
    BY <1>2, <2>2 DEF ResultsExact, VarPts
<1> QED
  BY <1>3, <1>4
-----------------------------------------------------------------------------
(* The composition. *)

\* Each tool keeps the invariants of its analysis, and the cache of the walk
\* is untouched while the other runs, nothing asked for.
WalkInv == Inv /\ VisitedInv /\ AnsweredInv /\ PreciseInv

ToolInv ==
    /\ tool = "dvf" => WalkInv
    /\ tool = "wpa" => LeastInv /\ WithinAndersen /\ backwardVisited = {} /\ queries = prog.queries

LEMMA WalkInit == Init => WalkInv
  BY InitInv, InitVisited, AnsweredInit, PreciseInit DEF WalkInv

LEMMA WalkNext == WalkInv /\ [Next]_vars => WalkInv'
<1> SUFFICES ASSUME WalkInv, [Next]_vars PROVE WalkInv'
  OBVIOUS
<1> QED
  BY NextInv, NextVisited, AnsweredNext, PreciseNext DEF WalkInv

OneTool == tool \in {"dvf", "wpa"}

LEMMA OneToolInit == ToolInit => OneTool
  BY DEF ToolInit, OneTool

LEMMA OneToolNext == OneTool /\ [ToolNext]_<<tool, vars, fsVars>> => OneTool'
  BY DEF ToolNext, ToolStep, OneTool

LEMMA ToolInitInv == ToolInit => ToolInv
<1> SUFFICES ASSUME ToolInit PROVE ToolInv
  OBVIOUS
<1>1. WalkInv /\ WithinAndersen
  BY WalkInit DEF ToolInit, WalkInv, Inv
<1>2. tool = "wpa" => LeastInv
  BY LeastInit DEF ToolInit
<1>3. backwardVisited = {} /\ queries = prog.queries
  BY DEF ToolInit, Init
<1> QED
  BY <1>1, <1>2, <1>3 DEF ToolInv

LEMMA ToolNextInv == ToolInv /\ [ToolNext]_<<tool, vars, fsVars>> => ToolInv'
<1> SUFFICES ASSUME ToolInv, [ToolNext]_<<tool, vars, fsVars>> PROVE ToolInv'
  OBVIOUS
<1>1. tool' = tool
  BY DEF ToolNext, ToolStep
<1>2. CASE tool = "dvf"
  <2>1. [Next]_vars
    BY <1>2 DEF ToolNext, ToolStep, Next
  <2> QED
    BY <1>1, <1>2, <2>1, WalkNext DEF ToolInv
<1>3. CASE tool = "wpa"
  <2>1. [FSNext]_<<prog, callees, fsVars>>
    <3>1. CASE FSStep
      BY <3>1 DEF FSNext
    <3>2. CASE UNCHANGED <<tool, vars, fsVars>>
      BY <3>2 DEF vars
    <3> QED
      BY <1>3, <3>1, <3>2 DEF ToolNext, ToolStep
  <2>2. LeastInv'
    BY <1>3, <2>1, LeastStep DEF ToolInv
  <2>3. UNCHANGED <<prog, cached, backwardVisited, queries>>
    BY <1>3 DEF ToolNext, ToolStep, ddaVars, searchVars, vars, FSStep, ProcessNode, UpdateCallGraph
  <2>4. WithinAndersen'
    BY <1>3, <2>3 DEF ToolInv, WithinAndersen, Ander
  <2> QED
    BY <1>1, <1>3, <2>2, <2>3, <2>4 DEF ToolInv
<1>4. CASE tool \notin {"dvf", "wpa"}
  BY <1>1, <1>4 DEF ToolInv
<1> QED
  BY <1>2, <1>3, <1>4

-----------------------------------------------------------------------------
\* The types of the solver's maps and of its recursion.
THEOREM TypeCorrect == Spec => []TypeOK
<1>1. Inv => TypeOK
  BY DEF Inv
<1> QED
  BY <1>1, InitInv, NextInv, PTL DEF Spec

\* A demand-driven answer is never coarser than the analysis it falls back
\* to (FlowDDA::handleOutOfBudgetDpm), for every graph, budget and order of
\* queries: every points-to set cached for a variable or an object is within
\* Andersen's, at every point of the recursion.
THEOREM NeverCoarser == Spec => []WithinAndersen
<1>1. Inv => WithinAndersen
  BY DEF Inv
<1> QED
  BY <1>1, InitInv, NextInv, PTL DEF Spec

\* Calls are resolved on demand as Andersen's analysis resolves them, or
\* fewer: the call graph of the walk is within that of the pre-analysis,
\* which resolveFunPtr takes for the set of all potential callers.
THEOREM CallsWithinPreAnalysis == Spec => []CalleesWithin
<1>1. Inv => CalleesWithin
  BY DEF Inv
<1> QED
  BY <1>1, InitInv, NextInv, PTL DEF Spec

\* The same where either tool may run.
THEOREM NeverCoarserInTools == ToolSpec => []WithinAndersen
<1>1. ToolInv /\ OneTool => WithinAndersen
  BY DEF ToolInv, WalkInv, Inv, OneTool
<1> QED
  BY <1>1, OneToolInit, OneToolNext, ToolInitInv, ToolNextInv, PTL DEF ToolSpec

\* Between two queries an item with a mark is final, for every graph, budget
\* and order of queries: evaluating it again adds nothing, the calls through
\* it are resolved, and it rests on marked items only, so that the next
\* query may take what is cached (DDAVFSolver::findPT, OOBResetVisited).
THEOREM MarksAreFinal == ToolSpec => []VisitedComplete
<1>1. ToolInv /\ OneTool => VisitedComplete
  <2> SUFFICES ASSUME ToolInv, OneTool PROVE VisitedComplete
    OBVIOUS
  <2>1. CASE tool = "dvf"
    BY <2>1, RestFinal DEF ToolInv, WalkInv
  <2>2. CASE tool = "wpa"
    <3>1. VisitedAfterReset = {}
      BY <2>2 DEF ToolInv, VisitedAfterReset
    <3> QED
      BY <3>1 DEF VisitedComplete
  <2> QED
    BY <2>1, <2>2 DEF OneTool
<1> QED
  BY <1>1, OneToolInit, OneToolNext, ToolInitInv, ToolNextInv, PTL DEF ToolSpec

\* Every answer holds the targets of the least flow-sensitive solution of the
\* whole program, and none else as long as no query has been downgraded, for
\* every graph, budget and order of queries, through cycles of the value
\* flow, strong updates and calls found on the way (FlowDDA, DDAVFSolver).
THEOREM AnswersAreExact == ToolSpec => []AnswersExact
<1>1. ToolInv /\ OneTool => AnswersExact
  <2> SUFFICES ASSUME ToolInv, OneTool PROVE AnswersExact
    OBVIOUS
  <2>1. CASE tool = "dvf"
    BY <2>1, RestExact DEF ToolInv, WalkInv
  <2>2. CASE tool = "wpa"
    BY <2>2 DEF ToolInv, AnswersExact
  <2> QED
    BY <2>1, <2>2 DEF OneTool
<1> QED
  BY <1>1, OneToolInit, OneToolNext, ToolInitInv, ToolNextInv, PTL DEF ToolSpec

\* Whatever incremental propagation skips, a node that is off the worklist
\* of the whole-program analysis has its constraint satisfied and its
\* contents received, for every graph and every order of the worklist
\* (FlowSensitive::processNode, propagate, updateCallGraph).
THEOREM SettledInTools == ToolSpec => []Settled
<1>1. ToolInv => Settled
  BY DEF ToolInv, Settled, LeastInv, FSInv
<1> QED
  BY <1>1, ToolInitInv, ToolNextInv, PTL DEF ToolSpec

\* The whole-program analysis ends with the reference, the least
\* flow-sensitive solution computed forward round by round, for every
\* graph, every order of the worklist and every order in which strong
\* updates become weak ones and calls are found
\* (FlowSensitive::processStore, updateCallGraph).
THEOREM EndsWithLeastSolution == ToolSpec => []FlowSensitiveExact
<1>1. ToolInv => FlowSensitiveExact
  <2> SUFFICES ASSUME ToolInv, tool = "wpa", FSDone
               PROVE  /\ \A v \in Var : pts[v] = VarPts(LeastSolution, v)
                      /\ \A s \in Store : \A o \in Obj : dfOut[<<s, o>>] = Pts(LeastSolution, <<s, o>>)
    BY DEF FlowSensitiveExact
  <2>1. LeastInv
    BY DEF ToolInv
  <2> QED
    BY <2>1, ResultExact
<1> QED
  BY <1>1, ToolInitInv, ToolNextInv, PTL DEF ToolSpec
=============================================================================
