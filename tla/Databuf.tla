------------------------------ MODULE Databuf ------------------------------
(***************************************************************************)
(* The shared pool of capture buffers (databuf.c).  Four guarded pools,    *)
(* one per memory domain, hold fixed-size buffers; every stage of the      *)
(* capture pipeline takes its buffers here and gives them back here.       *)
(*                                                                         *)
(* A pool is the set of its free buffers: which of them an allocation      *)
(* returns depends on the kernel's free list and no caller relies on it.   *)
(* An allocation is atomic because the code runs it with interrupts off.   *)
(***************************************************************************)
EXTENDS Integers, FiniteSets

CONSTANTS
    Buffers,        \* every buffer of the four static arrays
    DomainOf,       \* databuf_get_domain: the memory domain of a buffer
    NULL            \* the null buffer pointer

Domains == {"CPU", "D1", "D2", "D3"}

ASSUME BuffersAssumption ==
    /\ IsFiniteSet(Buffers)
    /\ NULL \notin Buffers
    /\ DomainOf \in [Buffers -> Domains]

VARIABLE free       \* the buffers the four pools hold

PoolInit == free = Buffers

PoolTypeOK == free \subseteq Buffers

\* A pointer to a buffer, or the null pointer.
Pointer == Buffers \cup {NULL}

\* databuf_get_domain asserts that an address is in one of the four arrays.
HasDomain(buf) == buf # NULL

\* databuf_try_allocate looks in the preferred pool first, then falls back
\* to D1, D2 and D3.  The CPU pool is reached only by those who prefer it.
SearchRank(domain, d) ==
    IF d = domain THEN 0
    ELSE CASE d = "D1" -> 1 [] d = "D2" -> 2 [] d = "D3" -> 3 [] OTHER -> 4

\* What databuf_try_allocate(domain) may return when the pools hold "pool".
TryAllocate(pool, domain) ==
    LET usable == {b \in pool : SearchRank(domain, DomainOf[b]) < 4}
        first  == {b \in usable : \A c \in usable :
                     SearchRank(domain, DomainOf[b]) <= SearchRank(domain, DomainOf[c])}
    IN  IF usable = {} THEN {NULL} ELSE first

\* (Mutant: the switch over the domains forgets D2.)
ReleasedNotD2(pool, buf) ==
    IF buf = NULL THEN pool
    ELSE IF DomainOf[buf] = "D2" THEN pool ELSE pool \cup {buf}

\* databuf_release: a null pointer is ignored.
Released(pool, buf) == IF buf = NULL THEN pool ELSE pool \cup {buf}
=============================================================================
