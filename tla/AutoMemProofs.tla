----------------------------- MODULE AutoMemProofs -----------------------------
(* Theorems about AutoMem: for unsigned ints of any width and lengths of any   *)
(* kind, what is written stays in the block and the doubling ends.             *)
EXTENDS AutoMem, TLAPS

LEMMA HalfIsHalf == Half \in Nat /\ M = 2 * Half /\ M \in Nat /\ M > 256
  BY ModulusAssumption, SMT DEF Half

\* Unsigned arithmetic stays among the sizes, and does not wrap below M.
LEMMA Unsigned == \A x \in Int : x % M \in Sizes /\ (x \in Sizes => x % M = x)
  BY ModulusAssumption, SMT DEF Sizes

LEMMA InitialSizes == \A n \in Sizes : InitialSize(n) \in Sizes
  BY ModulusAssumption, SMT DEF InitialSize, Sizes

\* Where nothing is broken, a buffer may be used only within half the range.
LEMMA WithinHalf == \A n \in Int : Within(n) = {} => n <= Half
  BY DEF Within

LEMMA MemInvStarts == MemInit => MemInv
  BY ModulusAssumption, SMT DEF MemInit, MemInv, MemTypeOK, Sizes

LEMMA SizesAreNumbers == 0 \in Sizes /\ \A n : n \in Sizes <=> n \in Nat /\ n < M
  BY ModulusAssumption, SMT DEF Sizes

\* The sizes of a buffer in order.
LEMMA SizesInOrder ==
    ASSUME MemInv
    PROVE  /\ size \in Nat /\ buffersize \in Nat /\ block \in Nat
           /\ asked \in Nat /\ newsize \in Nat /\ write \in Nat
           /\ newsize < M
  BY SizesAreNumbers, Zenon DEF MemInv, MemTypeOK

\* A buffer put into the state MemIs describes is in order if that state is.
LEMMA MemIsInOrder ==
    ASSUME MemInv, mpc = "ready", NEW s \in Sizes, NEW b \in Sizes, NEW blk \in Sizes, MemIs(s, b, blk),
           broken' \subseteq {"buffersize unset", "half exceeded", "attached more"},
           broken' = {} => b = blk /\ s <= b
    PROVE  MemInv'
<1>1. MemTypeOK'
  BY DEF MemInv, MemTypeOK, MemIs
<1>2. mpc' # "grow"
  BY DEF MemIs
<1>3. broken' = {} => buffersize' = block' /\ size' <= buffersize'
  BY DEF MemIs
<1> QED
  BY <1>1, <1>2, <1>3 DEF MemInv

\* The loop of automem_ensure_newspace.
LEMMA DoubleKeeps ==
    ASSUME MemInv, Double
    PROVE  MemInv' /\ (broken = {} => newsize' > newsize)
<1>0. newsize' \in Sizes
  <2>1. newsize * 2 \in Int
    BY SizesInOrder, SMT
  <2> QED
    BY <2>1, Unsigned, Zenon DEF Double
<1>1. MemTypeOK'
  BY <1>0, Zenon DEF MemInv, MemTypeOK, Double
<1>2. ASSUME broken = {}
      PROVE  newsize < write /\ newsize' = 2 * newsize /\ newsize > 0
  <2>1. /\ newsize \in Nat /\ size \in Nat /\ asked \in Nat
        /\ size <= newsize /\ asked <= newsize /\ newsize < M
        /\ write = size + asked /\ write <= Half
    BY <1>2, ModulusAssumption, SMT DEF MemInv, MemTypeOK, Double, Sizes
  <2>2. (newsize - size) % M = newsize - size
    BY <2>1, Unsigned, HalfIsHalf, SMT DEF Sizes
  <2>3. newsize < write /\ newsize > 0
    BY <2>1, <2>2, SMT DEF Double, Room
  <2>4. (newsize * 2) % M = 2 * newsize
    BY <2>1, <2>3, Unsigned, HalfIsHalf, SMT DEF Sizes
  <2> QED
    BY <2>3, <2>4 DEF Double
<1>3. MemInv'
  <2>1. ASSUME broken' = {}
        PROVE  /\ buffersize' = block' /\ size' <= buffersize'
               /\ write' = size' + asked' /\ write' <= Half
               /\ buffersize' <= newsize' /\ asked' <= newsize'
    <3>1. broken = {} /\ newsize' > newsize /\ buffersize \in Int /\ asked \in Int /\ newsize \in Int
          /\ newsize' \in Int
      BY <2>1, <1>0, <1>2, ModulusAssumption, SMT DEF MemInv, MemTypeOK, Double, Sizes
    <3>2. /\ buffersize = block /\ size <= buffersize /\ write = size + asked /\ write <= Half
          /\ buffersize <= newsize /\ asked <= newsize
      BY <3>1, Zenon DEF MemInv, Double
    <3> QED
      BY <3>1, <3>2, SMT DEF Double
  <2> QED
    BY <1>1, <2>1, Zenon DEF MemInv
<1> QED
  BY <1>2, <1>3, SizesInOrder, SMT

LEMMA GrownKeeps == MemInv /\ Grown => MemInv'
<1> SUFFICES ASSUME MemInv, Grown PROVE MemInv'
  OBVIOUS
<1>1. MemTypeOK' /\ mpc' = "ready" /\ broken' = broken
  <2>1. CASE newsize > buffersize
    BY <2>1, SizesAreNumbers, Zenon DEF MemInv, MemTypeOK, Grown
  <2>2. CASE ~(newsize > buffersize)
    BY <2>2, SizesAreNumbers, Zenon DEF MemInv, MemTypeOK, Grown
  <2> QED
    BY <2>1, <2>2, Zenon
<1>2. ASSUME broken = {}
      PROVE  buffersize' = block' /\ size' <= buffersize'
  <2>1. /\ newsize \in Nat /\ size \in Nat /\ asked \in Nat /\ buffersize \in Nat
        /\ size <= buffersize /\ buffersize <= newsize /\ newsize < M
        /\ write = size + asked /\ buffersize = block
    BY <1>2, ModulusAssumption, SMT DEF MemInv, MemTypeOK, Grown, Sizes
  <2>2. (newsize - size) % M = newsize - size
    BY <2>1, Unsigned, HalfIsHalf, SMT DEF Sizes
  <2>3. write <= newsize
    BY <2>1, <2>2, SMT DEF Grown, Room
  <2> QED
    BY <2>1, <2>3, SMT DEF Grown
<1> QED
  BY <1>1, <1>2 DEF MemInv

LEMMA TheLarger ==
    \A m, n \in Nat : LET larger == IF m < n THEN n ELSE m IN m <= larger /\ n <= larger
  BY SMT

\* What automem_ensure_newspace starts with.
LEMMA EnsureKeeps ==
    ASSUME MemInv, mpc = "ready", NEW len \in Sizes, NEW end \in Sizes, Ensure(len, end),
           broken' \subseteq {"buffersize unset", "half exceeded", "attached more"},
           broken' = {} => broken = {} /\ end = size + len /\ end <= Half
    PROVE  MemInv'
<1>1. MemTypeOK'
  <2>1. newsize' \in Sizes
    BY Zenon DEF MemInv, MemTypeOK, Ensure
  <2> QED
    BY <2>1, Zenon DEF MemInv, MemTypeOK, Ensure
<1>2. ASSUME broken' = {}
      PROVE  /\ buffersize' = block' /\ size' <= buffersize'
             /\ write' = size' + asked' /\ write' <= Half
             /\ buffersize' <= newsize' /\ asked' <= newsize'
  <2>1. buffersize = block /\ size <= buffersize /\ end = size + len /\ end <= Half
    BY <1>2, Zenon DEF MemInv
  <2>2. len \in Nat
    BY SizesAreNumbers, Zenon
  <2>3. /\ buffersize' = buffersize /\ block' = block /\ size' = size
        /\ write' = end /\ asked' = len
        /\ newsize' = IF buffersize < len THEN len ELSE buffersize
    BY Zenon DEF Ensure
  <2>4. buffersize <= newsize' /\ len <= newsize'
    BY <2>2, <2>3, SizesInOrder, TheLarger, Zenon
  <2> QED
    BY <2>1, <2>3, <2>4, Zenon
<1> QED
  BY <1>1, <1>2 DEF MemInv

-----------------------------------------------------------------------------
(* The uses of the buffer. *)

LEMMA NoRuleBroken == \A S, T : S \cup T = {} => S = {} /\ T = {}
  BY SMT

LEMMA RenewKeeps ==
    ASSUME MemInv, NEW n \in Sizes, Renew(n)
    PROVE  MemInv'
<1>1. InitialSize(n) \in Sizes /\ 0 \in Sizes /\ 0 <= InitialSize(n)
  BY InitialSizes, SizesAreNumbers, SMT
<1> QED
  BY <1>1, MemIsInOrder, Zenon DEF Renew

LEMMA UninitKeeps ==
    ASSUME MemInv, Uninit
    PROVE  MemInv'
<1>1. CASE block # 0
  <2>1. 0 <= 0
    BY SMT
  <2> QED
    BY <1>1, <2>1, SizesAreNumbers, MemIsInOrder, Zenon DEF Uninit
<1>2. CASE block = 0
  BY <1>2, MemIsInOrder, Zenon DEF Uninit, MemInv, MemTypeOK
<1> QED
  BY <1>1, <1>2

LEMMA ResetKeeps ==
    ASSUME MemInv, Reset
    PROVE  MemInv'
<1>1. 0 <= buffersize
  BY SizesInOrder, SMT
<1> QED
  BY <1>1, SizesAreNumbers, MemIsInOrder, Zenon DEF Reset, MemInv, MemTypeOK

LEMMA InitByPtrKeeps ==
    ASSUME MemInv, NEW n \in Sizes, NEW any \in Sizes, InitByPtr(n, any)
    PROVE  MemInv'
<1>1. broken' = {"buffersize unset"} /\ mpc = "ready" /\ MemIs(n, any, n)
  BY Zenon DEF InitByPtr
<1> QED
  BY <1>1, MemIsInOrder, Zenon

LEMMA AppendKeeps ==
    ASSUME MemInv, NEW len \in Nat, AppendBytes(len)
    PROVE  MemInv'
<1>1. size + len \in Nat /\ (size + len) % M \in Sizes /\ len % M \in Sizes
  BY SizesInOrder, SizesAreNumbers, Unsigned, SMT
<1>2. broken' = {} => broken = {} /\ size + len <= Half
  <2>1. size + len \in Int
    BY <1>1, SMT
  <2> QED
    BY <2>1, NoRuleBroken, WithinHalf, Zenon DEF AppendBytes
<1>3. ASSUME size + len <= Half
      PROVE  (size + len) % M = size + len /\ len % M = len
  <2>1. size + len \in Sizes /\ len \in Sizes /\ size + len \in Int /\ len \in Int
    BY <1>1, <1>3, SizesInOrder, HalfIsHalf, SizesAreNumbers, SMT
  <2> QED
    BY <2>1, Unsigned, Zenon
<1>4. broken' \subseteq {"buffersize unset", "half exceeded", "attached more"}
  BY Zenon DEF AppendBytes, Within, MemInv, MemTypeOK
<1>5. broken' = {} => broken = {} /\ (size + len) % M = size + (len % M) /\ (size + len) % M <= Half
  BY <1>2, <1>3, Zenon
<1>6. mpc = "ready" /\ Ensure(len % M, (size + len) % M)
  BY Zenon DEF AppendBytes
<1>7. PICK cut \in Sizes, end \in Sizes : cut = len % M /\ end = (size + len) % M
  BY <1>1, Zenon
<1>8. Ensure(cut, end)
  BY <1>6, <1>7, Zenon
<1>9. broken' = {} => broken = {} /\ end = size + cut /\ end <= Half
  BY <1>5, <1>7, Zenon
<1> QED
  BY <1>4, <1>6, <1>8, <1>9, EnsureKeeps, Zenon

LEMMA AttachKeeps ==
    ASSUME MemInv, NEW len \in Sizes, Attach(len)
    PROVE  MemInv'
<1>1. broken' \subseteq {"buffersize unset", "half exceeded", "attached more"}
  BY Zenon DEF Attach, Within, MemInv, MemTypeOK
<1>2. CASE len > buffersize
  <2>1. len - buffersize \in Sizes
    <3>1. len \in Nat /\ len < M
      BY SizesAreNumbers, Zenon
    <3>2. len - buffersize \in Nat /\ len - buffersize < M
      BY <1>2, <3>1, SizesInOrder, ModulusAssumption, SMT
    <3> QED
      BY <3>2, SizesAreNumbers, Zenon
  <2>2. broken' # {}
    BY <1>2, NoRuleBroken, Zenon DEF Attach
  <2> QED
    BY <1>1, <1>2, <2>1, <2>2, EnsureKeeps, Zenon DEF Attach
<1>3. CASE ~(len > buffersize)
  <2>1. len <= buffersize
    BY <1>3, SizesInOrder, SizesAreNumbers, SMT
  <2>2. broken' = {} => buffersize = block
    BY NoRuleBroken, Zenon DEF Attach, MemInv
  <2>3. MemIs(len, buffersize, block) /\ mpc = "ready" /\ buffersize \in Sizes /\ block \in Sizes
    BY <1>3, Zenon DEF Attach, MemInv, MemTypeOK
  <2> QED
    BY <1>1, <2>1, <2>2, <2>3, MemIsInOrder, Zenon
<1> QED
  BY <1>2, <1>3

LEMMA EraseKeeps ==
    ASSUME MemInv, NEW n \in Sizes, Erase(n)
    PROVE  MemInv'
<1> DEFINE left == IF n < size THEN size - n ELSE 0
<1>1. left \in Sizes /\ left <= size
  <2>1. n \in Nat /\ size \in Nat /\ size < M
    BY SizesAreNumbers, Zenon DEF MemInv, MemTypeOK
  <2>2. left \in Nat /\ left <= size /\ left < M
    BY <2>1, ModulusAssumption, SMT
  <2> QED
    BY <2>2, SizesAreNumbers, Zenon
<1>2. broken' = {} => buffersize = block /\ left <= buffersize
  <2>1. size <= buffersize => left <= buffersize
    BY <1>1, SizesInOrder, SizesAreNumbers, SMT
  <2> QED
    BY <2>1, Zenon DEF Erase, MemInv
<1> HIDE DEF left
<1>3. MemIs(left, buffersize, block) /\ mpc = "ready" /\ broken' = broken
  BY Zenon DEF Erase, left
<1> QED
  BY <1>1, <1>2, <1>3, MemIsInOrder, Zenon DEF MemInv, MemTypeOK

LEMMA EraseExKeeps ==
    ASSUME MemInv, NEW n \in Sizes, NEW limit \in Sizes, EraseEx(n, limit)
    PROVE  MemInv'
<1>1. broken' \subseteq {"buffersize unset", "half exceeded", "attached more"}
  BY Zenon DEF EraseEx, Within, MemInv, MemTypeOK
<1>2. broken' = {} => broken = {}
  BY NoRuleBroken, Zenon DEF EraseEx
<1> DEFINE kept == size - n
           smaller == (kept + limit) % M
<1>3. CASE n < size
  <2>1. kept \in Sizes /\ kept <= size /\ kept + limit \in Int /\ smaller \in Sizes
    <3>1. n \in Nat /\ limit \in Nat /\ size \in Nat /\ size < M
      BY SizesAreNumbers, Zenon DEF MemInv, MemTypeOK
    <3>2. kept \in Nat /\ kept <= size /\ kept < M /\ kept + limit \in Int
      BY <1>3, <3>1, ModulusAssumption, SMT
    <3> QED
      BY <3>2, SizesAreNumbers, Unsigned, Zenon
  <2>2. broken' = {} => kept + limit <= Half
    BY <1>3, <2>1, NoRuleBroken, WithinHalf, Zenon DEF EraseEx
  <2>3. kept + limit <= Half => smaller = kept + limit
    <3>1. limit \in Nat /\ kept \in Nat
      BY <2>1, SizesAreNumbers, Zenon
    <3>2. kept + limit <= Half => kept + limit \in Nat /\ kept + limit < M
      BY <3>1, HalfIsHalf, SMT
    <3> QED
      BY <2>1, <3>2, SizesAreNumbers, Unsigned, Zenon
  <2>4. smaller = kept + limit => kept <= smaller
    BY <2>1, SizesAreNumbers, SMT
  <2>5. size <= buffersize => kept <= buffersize
    BY <2>1, SizesInOrder, SizesAreNumbers, SMT
  <2>6. IF buffersize > smaller THEN MemIs(kept, smaller, smaller) ELSE MemIs(kept, buffersize, block)
    BY <1>3, Zenon DEF EraseEx
  <2> HIDE DEF kept, smaller
  <2>7. CASE buffersize > smaller
    BY <1>1, <2>1, <2>2, <2>3, <2>4, <2>6, <2>7, MemIsInOrder, Zenon DEF EraseEx
  <2>8. CASE ~(buffersize > smaller)
    BY <1>1, <1>2, <2>1, <2>5, <2>6, <2>8, MemIsInOrder, Zenon DEF EraseEx, MemInv, MemTypeOK
  <2> QED
    BY <2>7, <2>8
<1>4. CASE ~(n < size)
  <2>1. InitialSize(limit) \in Sizes /\ 0 \in Sizes /\ 0 <= InitialSize(limit) /\ 0 <= buffersize
    BY InitialSizes, SizesInOrder, SizesAreNumbers, SMT
  <2>2. CASE buffersize > limit
    BY <1>1, <1>4, <2>1, <2>2, MemIsInOrder, Zenon DEF EraseEx
  <2>3. CASE ~(buffersize > limit)
    BY <1>1, <1>2, <1>4, <2>1, <2>3, MemIsInOrder, Zenon DEF EraseEx, MemInv, MemTypeOK
  <2> QED
    BY <2>2, <2>3
<1> QED
  BY <1>3, <1>4

LEMMA MemInvStep == MemInv /\ [MemNext]_memVars => MemInv'
<1> SUFFICES ASSUME MemInv, [MemNext]_memVars PROVE MemInv'
  OBVIOUS
<1>1. CASE Double
  BY <1>1, DoubleKeeps
<1>2. CASE Grown
  BY <1>2, GrownKeeps
<1>3. CASE Uninit
  BY <1>3, UninitKeeps
<1>4. CASE Reset
  BY <1>4, ResetKeeps
<1>5. CASE \E len \in Lens :
             Renew(len) \/ AppendBytes(len) \/ Attach(len) \/ Erase(len)
  BY <1>5, LensAssumption, SizesAreNumbers, RenewKeeps, AppendKeeps, AttachKeeps, EraseKeeps
<1>6. CASE \E len, n \in Lens : InitByPtr(len, n) \/ EraseEx(len, n)
  BY <1>6, LensAssumption, InitByPtrKeeps, EraseExKeeps
<1>7. CASE UNCHANGED memVars
  BY <1>7 DEF memVars, MemInv, MemTypeOK
<1> QED
  BY <1>1, <1>2, <1>3, <1>4, <1>5, <1>6, <1>7 DEF MemNext, Grows, MemUse

\* The fields stay unsigned ints in any use, and while the rules are kept buffersize is
\* the size of the block and the space being made is in reach of the doubling.
THEOREM MemInvariance == MemSpec => []MemInv
<1> QED
  BY MemInvStarts, MemInvStep, PTL DEF MemSpec

\* Nothing is written behind the block, whatever sequence of calls grows, shrinks,
\* attaches to and renews the buffer, as long as its user keeps the rules.
THEOREM WritesStayInside == MemSpec => []NothingOutside
<1>1. MemInv => NothingOutside
  <2> SUFFICES ASSUME MemInv, broken = {} PROVE size <= block
    BY DEF NothingOutside
  <2> QED
    BY Zenon DEF MemInv
<1> QED
  BY <1>1, MemInvariance, PTL

\* The loop of automem_ensure_newspace makes the new size larger each time, until there
\* is room: below half the range of an unsigned int it ends.
THEOREM DoublingEnds == MemSpec => DoublingGoesOn
<1>1. MemInv /\ [MemNext]_memVars
        => [mpc = "grow" /\ mpc' = "grow" /\ broken = {} => newsize' > newsize]_memVars
  <2> SUFFICES ASSUME MemInv, MemNext, mpc = "grow", mpc' = "grow", broken = {}
               PROVE  newsize' > newsize
    BY DEF memVars
  <2>1. ~MemUse
    BY Zenon DEF MemUse, Uninit, Reset, Renew, AppendBytes, Attach, Erase, InitByPtr, EraseEx
  <2>2. ~Grown
    BY DEF Grown
  <2>3. Double
    BY <2>1, <2>2 DEF MemNext, Grows
  <2> QED
    BY <2>3, DoubleKeeps
<1> QED
  BY <1>1, MemInvariance, PTL DEF MemSpec, DoublingGoesOn
=============================================================================
