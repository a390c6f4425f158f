----------------------------- MODULE MCPathCond -----------------------------
(***************************************************************************)
(* Small control-flow graphs for PathCondAllocator.                        *)
(***************************************************************************)
EXTENDS PathCondReference, TLC

\* Branches lead to later blocks; a block may branch or jump back to a loop
\* header, but not to the entry.
Forward(b, n) == {<<>>} \cup {<<x>> : x \in b + 1 .. n} \cup {q \in (b + 1 .. n) \X (b + 1 .. n) : q[1] < q[2]}
Back(b, n) == {<<h>> : h \in 2 .. b} \cup {<<x, h>> : x \in b + 1 .. n, h \in 2 .. b}

From(succs, b) ==
    LET reached[i \in DOMAIN succs \cup {0}] ==
            IF i = 0 THEN {b}
            ELSE UNION {x \cup UNION {ToSet(succs[d]) : d \in x} : x \in {reached[i - 1]}}
    IN  reached[Len(succs)]

\* Functions of five blocks with at most one edge back; all blocks are
\* reachable and no loop is endless.  Blocks but the last that have no
\* successor exit the program.
Functions ==
    {f \in UNION {{<<s1, s2, s3, s4, <<>>>> :
                      s1 \in Forward(1, 5) \ {<<>>},
                      s2 \in IF t = 2 THEN Back(2, 5) ELSE Forward(2, 5),
                      s3 \in IF t = 3 THEN Back(3, 5) ELSE Forward(3, 5),
                      s4 \in IF t = 4 THEN Back(4, 5) ELSE Forward(4, 5)} : t \in 1 .. 4} :
        From(f, 1) = 1 .. 5 /\ \A b \in 1 .. 5 : \E e \in From(f, b) : f[e] = <<>>}

NoTest == [b \in BB |-> "none"]

Request(succs, tests, src, dst, value) ==
    [succs |-> succs, fun |-> [b \in BB |-> IF b = 6 THEN 6 ELSE 1],
     exit |-> [b \in BB |-> IF b = 6 THEN 6 ELSE 5],
     progExits |-> {b \in 1 .. 4 : succs[b] = <<>>},
     nullTest |-> tests, hasValue |-> value, kind |-> "intra", src |-> src, dst |-> dst, site |-> dst]

\* Block 6 is no part of the function.
Plain == {Request(Append(f, <<>>), NoTest, 1, d, v) : f \in Functions, d \in 2 .. 5, v \in BOOLEAN}

NullTests ==
    {Request(Append(f, <<>>), [NoTest EXCEPT ![2] = k], s, d, TRUE) :
        f \in {g \in Functions : Len(g[2]) = 2}, k \in {"eq", "ne"}, s \in 1 .. 2, d \in 4 .. 5}

\* A switch of three or four cases, two of which may go to the same block.
Switches ==
    {Request(<<cases, <<5>>, <<5>>, <<5>>, <<>>, <<>>>>, NoTest, 1, d, TRUE) :
        cases \in {<<2, 3, 4>>, <<2, 3, 2, 4>>, <<2, 3, 4, 5>>, <<2, 2, 3, 4>>}, d \in 2 .. 5}

\* Blocks 1 to 3 call the function of blocks 4 to 6, or are returned to.
TwoFunctions(kind, src, dst, site, one, two) ==
    [succs |-> <<<<2, 3>>, one, <<>>, <<5, 6>>, two, <<>>>>,
     fun |-> <<1, 1, 1, 4, 4, 4>>, exit |-> <<3, 3, 3, 6, 6, 6>>, progExits |-> {},
     nullTest |-> NoTest, hasValue |-> TRUE, kind |-> kind, src |-> src, dst |-> dst, site |-> site]

Interprocedural ==
    {TwoFunctions("call", s, d, c, one, two) : s, c \in 1 .. 3, d \in 4 .. 6,
        one \in {<<3>>, <<3, 2>>}, two \in {<<6>>, <<5, 6>>}}
    \cup
    {TwoFunctions("ret", s, d, c, one, two) : s \in 4 .. 6, c, d \in 1 .. 3,
        one \in {<<3>>, <<3, 2>>}, two \in {<<6>>, <<5, 6>>}}

\* A function calls itself in block 3, or comes back there: both ways of the
\* value flow are in one graph.
Recursive ==
    {[Request(Append(f, <<>>), NoTest, s, d, TRUE) EXCEPT !.kind = k, !.site = 3] :
        f \in {g \in Functions : Len(g[3]) = 2}, k \in {"call", "ret"}, s \in {2, 3}, d \in {2, 4}}

AllRequests == Plain \cup NullTests \cup Switches \cup Interprocedural \cup Recursive
=============================================================================
