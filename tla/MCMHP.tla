------------------------------- MODULE MCMHP --------------------------------
(***************************************************************************)
(* Small multithreaded programs.                                           *)
(***************************************************************************)
EXTENDS MHPReference

CONSTANTS main, A, B, C, H, L, mu, nu

Fork(f) == [op |-> "fork", fun |-> f]
Join(f) == [op |-> "join", fun |-> f]
Call(f) == [op |-> "call", fun |-> f]
Acq(x) == [op |-> "lock", lock |-> x]
Rel(x) == [op |-> "unlock", lock |-> x]
Br(to) == [op |-> "br", to |-> to]
Nop == [op |-> "nop"]
Ret == [op |-> "ret"]

Program(m, a, b, c, h, l) ==
    (main :> m) @@ (A :> a) @@ (B :> b) @@ (C :> c) @@ (H :> h) @@ (L :> l)

Leaf == <<Nop, Ret>>

\* What is not reached from main creates and joins no threads, nor does it
\* lock: main is the only entry procedure of interest.
Entered(p) ==
    \A f \in DOMAIN p \ {main} :
        (\A g \in DOMAIN p : \A k \in DOMAIN p[g] : p[g][k] \notin {Fork(f), Call(f)}) =>
            \A k \in DOMAIN p[f] : p[f][k].op \in {"nop", "ret"}

Has(code, op) == op \in ToSet(code)
Before(code, x, y) == \E j, k \in DOMAIN code : j < k /\ code[j] = x /\ code[k] = y

\* A routine is started at one place and joined at one, by its starter.
Sensible(code) ==
    /\ \A j, k \in DOMAIN code : j < k /\ code[j] = code[k] => code[j].op \in {"nop", "br", "ret"}
    /\ \A f \in {A, B, C} : Has(code, Join(f)) => Before(code, Fork(f), Join(f))

Bodies(n, ops) == {c \in {Append(b, Ret) : b \in [1 .. n -> ops]} : Sensible(c)}

\* The last one reaches its end sooner with B joined than without.
Creators == {Leaf, <<Call(L), Ret>>, <<Fork(B), Ret>>, <<Fork(B), Nop, Join(B), Ret>>,
             <<Fork(B), Br(<<3, 5>>), Join(B), Br(<<8>>), Nop, Nop, Nop, Ret>>}

\* main creates A and C, A may create B.
Straight ==
    {Program(m, a, Leaf, Leaf, <<Ret>>, Leaf) :
        m \in Bodies(4, {Nop, Fork(A), Fork(C), Join(A), Join(C)}), a \in Creators}

\* The same with a way around some of it.
Branching ==
    {Program(m, a, Leaf, Leaf, <<Ret>>, Leaf) :
        m \in UNION {{c \in Bodies(5, {Fork(A), Fork(C), Join(A), Join(C), Br(<<k + 1, l>>)}) :
                         c[k].op = "br" /\ \A j \in DOMAIN c : c[j].op = "br" => j = k} :
                     <<k, l>> \in {x \in (1 .. 3) \X (3 .. 5) : x[1] + 1 < x[2]}},
        a \in Creators}

\* A leaves B behind when it is joined, and C is created after that: MHP
\* overlooks that B and C run in parallel.
LeavesChild(p) ==
    /\ Has(p[A], Fork(B)) /\ (Has(p[A], Join(B)) => \E k \in DOMAIN p[A] : p[A][k].op = "br")
    /\ \E x \in {A, C}, y \in {A, C} : x # y /\ Before(p[main], Join(x), Fork(y))

Plain == {p \in Straight \cup Branching : ~LeavesChild(p)}

\* A loop that is run at least once, around some of main.  What it creates is
\* joined in it or not at all: MHP takes a join behind a loop to join all the
\* threads that were created in it.
Looping ==
    {Program(m, Leaf, <<Ret>>, Leaf, <<Ret>>, <<Ret>>) :
        m \in UNION {{c \in Bodies(5, {Fork(A), Fork(C), Join(A), Join(C), Br(<<j, k + 1>>)}) :
                         /\ \A x \in DOMAIN c : c[x].op = "br" <=> x = k
                         /\ \A x \in j .. k, y \in k + 1 .. 5 :
                               ~(c[x].op = "fork" /\ c[y].op = "join" /\ c[y].fun = c[x].fun)} :
                     <<j, k>> \in {x \in (1 .. 3) \X (2 .. 5) : x[1] < x[2]}}}

\* A loop that may not be run.
While ==
    {Program(<<Br(<<2, 5>>), Fork(A), Join(A), Br(<<1>>), x, y, Ret>>, a, Leaf, Leaf, <<Ret>>, Leaf) :
        x \in {Nop, Fork(C)}, y \in {Nop, Join(C)}, a \in {Leaf, <<Fork(B), Nop, Join(B), Ret>>}}

\* How often op occurs.
Times(code, op) == Cardinality({k \in DOMAIN code : code[k] = op})

\* Forks and joins in a function that main and C call, or that calls itself.
\* If it may leave its thread behind it is called once: MHP takes two threads
\* of one handle to be joined together.
Helping ==
    {Program(m, Leaf, Leaf, c, h, Leaf) :
        m \in {b \in {<<Call(H), x, y, z, Ret>> : x, y, z \in {Nop, Call(H), Fork(C), Join(C)}} :
                  /\ Has(b, Join(C)) => Before(b, Fork(C), Join(C))
                  /\ Times(b, Fork(C)) <= 1 /\ Times(b, Join(C)) <= 1},
        c \in {Leaf, <<Call(H), Ret>>},
        h \in {<<Fork(A), Nop, Join(A), Ret>>, <<Fork(A), Join(A), Call(L), Ret>>, <<Fork(A), Nop, Ret>>,
               <<Fork(A), Join(A), Br(<<4, 5>>), Call(H), Ret>>}}
    \cup
    {Program(<<Fork(C), Call(H), x, y, Ret>>, Leaf, Leaf, c, <<Fork(A), Br(<<3, 4>>), Join(A), Ret>>, Leaf) :
        x, y \in {Nop, Join(C), Call(L)}, c \in {Leaf, <<Call(H), Ret>>}}
    \cup
    {Program(<<Fork(A), x, Call(H), y, z, Ret>>, a, Leaf, Leaf, h, Leaf) :
        x \in {Nop, Fork(C)}, y \in {Nop, Call(H)}, z \in {Fork(B), Call(L)}, a \in {Leaf, <<Call(L), Ret>>},
        h \in {<<Join(A), Ret>>, <<Br(<<2, 3>>), Join(A), Ret>>, <<Nop, Br(<<3, 4>>), Call(H), Ret>>}}

\* Bodies of up to n operations that hold a lock once at a time and release
\* what they hold.  Nothing is called behind a release: the lock analysis does
\* not look there.
Holds(code, j, x) == \E k \in 1 .. j - 1 : code[k] = Acq(x) /\ \A i \in k .. j - 1 : code[i] # Rel(x)

LockedBodies(n) ==
    {Append(c, Ret) :
        c \in {s \in UNION {[1 .. k -> {Nop, Call(H)} \cup {Acq(x) : x \in Lock} \cup {Rel(x) : x \in Lock}] :
                             k \in 1 .. n} :
                 /\ \A x \in Lock : ~Holds(s, Len(s) + 1, x)
                 /\ \A j \in DOMAIN s :
                       /\ \A x \in Lock : /\ s[j] = Acq(x) => ~Holds(s, j, x)
                                         /\ s[j] = Rel(x) => Holds(s, j, x)
                       /\ s[j] = Call(H) => \A k \in 1 .. j, x \in Lock : s[k] # Rel(x)}}

\* Loops around and within spans, a second lock on some way, and a span whose
\* end lies in another block.
LockedBranches ==
    {<<Br(<<2, 6>>), Acq(mu), x, Rel(mu), Br(<<1>>), Ret>> : x \in {Nop, Call(H)}}
    \cup {<<Acq(mu), Br(<<3, 5>>), x, Br(<<2>>), Rel(mu), Nop, Ret>> : x \in {Nop, Call(H)}}
    \cup {<<Acq(mu), Br(<<3, 4>>), Acq(nu), x, Rel(mu), Ret>> : x \in {Nop, Call(H)}}
    \cup {<<Br(<<2, 4>>), Acq(mu), Br(<<5>>), Acq(mu), x, Rel(mu), Nop, Ret>> : x \in {Nop, Call(H)}}

\* A body behind one more operation.
Shifted(code) ==
    [k \in DOMAIN code |-> IF code[k].op = "br" THEN Br([j \in DOMAIN code[k].to |-> code[k].to[j] + 1])
                           ELSE code[k]]

\* A span around one operation.
Spans == {<<Acq(x), y, Rel(x), Ret>> : x \in Lock, y \in {Nop, Call(H)}}

\* The locks may be renamed: the first one of main is mu.
MuFirst(code) ==
    \E k \in DOMAIN code : code[k] = Acq(mu) /\ \A j \in 1 .. k : code[j] # Acq(nu)

\* main and A with locks, also in a function they call, which may give up a
\* lock for a while.
Locking ==
    {Program(<<Fork(A)>> \o Shifted(m), a, <<Ret>>, <<Ret>>, h, <<Ret>>) :
        <<m, a>> \in ({c \in LockedBodies(4) : Len(c) = 5 /\ MuFirst(c)}
                          \X (Spans \cup {<<Nop, Ret>>, <<Call(H), Ret>>}))
                    \cup (LockedBranches \X Spans)
                    \cup (Spans \X {<<Nop>> \o Shifted(c) : c \in LockedBranches}),
        h \in {Leaf, <<Acq(nu), Nop, Rel(nu), Ret>>, <<Rel(mu), Nop, Acq(mu), Ret>>}}

\* A creates B and does not join it; it is joined itself before C is created.
DetachedChild ==
    Program(<<Fork(A), Join(A), Fork(C), Nop, Ret>>, <<Fork(B), Ret>>, Leaf, Leaf, <<Ret>>, <<Ret>>)

\* A is created in a loop and joined behind it.
JoinOfMany ==
    Program(<<Fork(A), Br(<<1, 3>>), Join(A), Nop, Ret>>, Leaf, <<Ret>>, <<Ret>>, <<Ret>>, <<Ret>>)

\* H creates a thread behind a block that calls L, and is called twice.
CalledBefore ==
    Program(<<Call(H), Call(H), Ret>>, Leaf, <<Ret>>, <<Ret>>, <<Call(L), Br(<<3>>), Fork(A), Ret>>, Leaf)

\* A is created under a lock.
CreatedUnderLock ==
    Program(<<Acq(mu), Fork(A), Nop, Rel(mu), Ret>>, Leaf, <<Ret>>, <<Ret>>, <<Ret>>, <<Ret>>)

\* Many A run the same statement, and a lock is used elsewhere.
SameStatement ==
    Program(<<Fork(A), Br(<<1, 3>>), Acq(mu), Rel(mu), Ret>>, Leaf, <<Ret>>, <<Ret>>, <<Ret>>, <<Ret>>)

\* H is called under the lock, and by main behind it once more.
CalledBehindRelease ==
    Program(<<Fork(A), Acq(mu), Call(H), Rel(mu), Call(H), Ret>>, <<Acq(mu), Call(H), Rel(mu), Ret>>,
            <<Ret>>, <<Ret>>, Leaf, <<Ret>>)

\* The lock is taken on one of two ways.
LockedOnOneWay ==
    Program(<<Fork(A), Br(<<3, 4>>), Acq(mu), Nop, Ret>>, <<Br(<<2, 3>>), Acq(mu), Nop, Ret>>,
            <<Ret>>, <<Ret>>, <<Ret>>, <<Ret>>)

Threaded == {p \in Plain \cup Looping \cup While \cup Helping \cup Locking : Entered(p)}
Missed == {DetachedChild, JoinOfMany, CalledBefore, CreatedUnderLock, SameStatement,
           CalledBehindRelease, LockedOnOneWay}
=============================================================================
