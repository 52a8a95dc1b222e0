-------------------------------- MODULE AutoMem --------------------------------
(***************************************************************************)
(* The growable buffer of libuv-lua/src/automem.c: its sizes, which are    *)
(* unsigned ints, and whether what is written stays in the block.  Every   *)
(* operation is an action; the loop of automem_ensure_newspace is a step   *)
(* per iteration (mpc = "grow"), after which the operation that asked for  *)
(* the space goes on.                                                      *)
(***************************************************************************)
EXTENDS Integers

CONSTANTS
    M,                  \* UINT_MAX + 1
    Lens                \* the lengths its users ask for

Half == M \div 2
Sizes == 0..(M - 1)

ASSUME ModulusAssumption == M \in Nat /\ M > 256 /\ M % 2 = 0
ASSUME LensAssumption == Lens \subseteq Sizes

VARIABLES
    size, buffersize,   \* the fields
    block,              \* bytes of the block at pdata, 0 if that is NULL
    mpc, asked, newsize,\* in automem_ensure_newspace: len, newbuffersize
    write,              \* what the caller does with the space: where it ends up
    broken              \* history: rules of automem.h's user that were not kept

memVars == <<size, buffersize, block, mpc, asked, newsize, write, broken>>

\* automem_init; no size means 128.  What pdata held before is not freed.
InitialSize(n) == IF n = 0 THEN 128 ELSE n

MemInit ==
    /\ size = 0 /\ buffersize = 128 /\ block = 128
    /\ mpc = "ready" /\ asked = 0 /\ newsize = 0 /\ write = 0
    /\ broken = {}

MemIs(s, b, blk) ==
    size' = s /\ buffersize' = b /\ block' = blk /\ UNCHANGED <<mpc, asked, newsize, write>>

\* automem_uninit and automem_init again, or automem_clean: a new buffer.
Renew(n) ==
    /\ mpc = "ready"
    /\ MemIs(0, InitialSize(n), InitialSize(n))
    /\ broken' = {}

\* automem_uninit; a buffer without a block can be used again.
Uninit ==
    /\ mpc = "ready"
    /\ IF block # 0 THEN MemIs(0, 0, 0) ELSE MemIs(size, buffersize, block)
    /\ broken' = IF block # 0 THEN {} ELSE broken

Reset == mpc = "ready" /\ MemIs(0, buffersize, block) /\ UNCHANGED broken

\* automem_init_by_ptr sets no buffersize: it may be anything.
InitByPtr(n, any) ==
    /\ mpc = "ready" /\ n > 0
    /\ MemIs(n, any, n)
    /\ broken' = {"buffersize unset"}

-----------------------------------------------------------------------------
(* automem_ensure_newspace *)

\* It begins for len more bytes; when there is room, the caller will have written up
\* to end.
Ensure(len, end) ==
    /\ mpc' = "grow" /\ asked' = len /\ write' = end
    /\ newsize' = IF buffersize < len THEN len ELSE buffersize
    /\ UNCHANGED <<size, buffersize, block>>

\* Mutant: the free space is not what is left of the new size.
RoomWithoutSize == newsize >= asked

\* newbuffersize - pmem->size >= len, in unsigned arithmetic
Room == (newsize - size) % M >= asked

\* Mutant: twice the old size in every iteration.
DoubleOld ==
    /\ mpc = "grow" /\ ~Room
    /\ newsize' = (buffersize * 2) % M
    /\ UNCHANGED <<size, buffersize, block, mpc, asked, write, broken>>

Double ==
    /\ mpc = "grow" /\ ~Room
    /\ newsize' = (newsize * 2) % M
    /\ UNCHANGED <<size, buffersize, block, mpc, asked, write, broken>>

\* The block is reallocated if the new size is larger, and the caller writes.
Grown ==
    /\ mpc = "grow" /\ Room
    /\ IF newsize > buffersize THEN buffersize' = newsize /\ block' = newsize
       ELSE UNCHANGED <<buffersize, block>>
    /\ size' = write
    /\ mpc' = "ready" /\ asked' = 0 /\ newsize' = 0 /\ write' = 0
    /\ UNCHANGED broken

\* Up to half the range of an unsigned int the doubling does not wrap.
Within(n) == IF n <= Half THEN {} ELSE {"half exceeded"}

\* automem_append_voidp and those that call it, and automem_alloc; a size_t is cut.
AppendBytes(len) ==
    /\ mpc = "ready" /\ Ensure(len % M, (size + len) % M)
    /\ broken' = broken \cup Within(size + len)

\* automem_attach: asks for the growth alone, and only if there is one.
Attach(len) ==
    /\ mpc = "ready"
    /\ IF len > buffersize THEN Ensure(len - buffersize, len)
       ELSE MemIs(len, buffersize, block)
    /\ broken' = broken \cup Within(size + len)
                        \cup (IF len > buffersize THEN {"attached more"} ELSE {})

Erase(n) ==
    /\ mpc = "ready"
    /\ MemIs(IF n < size THEN size - n ELSE 0, buffersize, block)
    /\ UNCHANGED broken

\* Mutant: buffersize stays that of the larger block.
EraseExStale(n, limit) ==
    LET kept == size - n
        smaller == (kept + limit) % M
    IN /\ mpc = "ready"
       /\ IF n < size
          THEN IF buffersize > smaller THEN MemIs(kept, buffersize, smaller)
               ELSE MemIs(kept, buffersize, block)
          ELSE MemIs(0, buffersize, block)
       /\ broken' = broken \cup (IF n < size THEN Within(kept + limit) ELSE {})

\* automem_erase_ex: a buffer with more than limit to spare is made smaller.
EraseEx(n, limit) ==
    LET kept == size - n
        smaller == (kept + limit) % M
    IN /\ mpc = "ready"
       /\ IF n < size
          THEN IF buffersize > smaller THEN MemIs(kept, smaller, smaller)
               ELSE MemIs(kept, buffersize, block)
          ELSE IF buffersize > limit THEN MemIs(0, InitialSize(limit), InitialSize(limit))
               ELSE MemIs(0, buffersize, block)
       /\ broken' = broken \cup (IF n < size THEN Within(kept + limit) ELSE {})

-----------------------------------------------------------------------------
Grows == Double \/ Grown

\* Every use of the buffer.
MemUse ==
    \/ Uninit \/ Reset
    \/ \E len \in Lens :
        \/ Renew(len) \/ AppendBytes(len) \/ Attach(len) \/ Erase(len)
        \/ \E n \in Lens : InitByPtr(len, n) \/ EraseEx(len, n)

MemNext == Grows \/ MemUse

MemSpec == MemInit /\ [][MemNext]_memVars

-----------------------------------------------------------------------------
(* Properties *)

MemTypeOK ==
    /\ size \in Sizes /\ buffersize \in Sizes /\ block \in Sizes
    /\ mpc \in {"ready", "grow"} /\ asked \in Sizes /\ newsize \in Sizes /\ write \in Sizes
    /\ broken \subseteq {"buffersize unset", "half exceeded", "attached more"}

\* What the buffer holds lies in its block, as long as its user keeps the rules: the
\* contents stay within half the range of an unsigned int, nothing larger than the
\* buffer is attached to it, and a buffer made from a pointer is not written to.
NothingOutside == broken = {} => size <= block

\* Why: what the field buffersize says is the size of the block, and while space is
\* being made, what is about to be written is in reach of the doubling.
MemInv ==
    /\ MemTypeOK
    /\ broken = {} =>
        /\ buffersize = block /\ size <= buffersize
        /\ mpc = "grow" =>
            /\ write = size + asked /\ write <= Half
            /\ buffersize <= newsize /\ asked <= newsize

\* The doubling comes to an end: each iteration makes the new size larger.
DoublingGoesOn ==
    [][mpc = "grow" /\ mpc' = "grow" /\ broken = {} => newsize' > newsize]_memVars
=============================================================================
