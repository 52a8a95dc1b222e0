---------------------------- MODULE DecoderProofs ----------------------------
(***************************************************************************)
(* Proofs about Decoder for every stream a peer may send: what the decoder *)
(* keeps, and that it passes on every value, or every packet, once.        *)
(***************************************************************************)
EXTENDS Decoder, SequenceTheorems, WellFoundedInduction, TLAPS

\* Every non-empty set of naturals has a least element.
LEMMA MinimalOf ==
    ASSUME NEW R, IsWellFoundedOn(R, Nat), NEW S, S \subseteq Nat, S # {}
    PROVE  \E m \in S : \A k \in S : ~ (<<k, m>> \in R)
  BY WFMin, Zenon

LEMMA LeastOf ==
    ASSUME NEW R, IsWellFoundedOn(R, Nat),
           \A k, m \in Nat : k < m => <<k, m>> \in R,
           NEW S, S \subseteq Nat, S # {}
    PROVE  \E m \in S : \A k \in S : m <= k
<1>1. PICK m \in S : \A k \in S : ~ (<<k, m>> \in R)
  BY MinimalOf, Zenon
<1>2. ASSUME NEW k \in S PROVE m <= k
  <2>1. m \in Nat /\ k \in Nat /\ ~ (k < m)
    BY <1>1, <1>2, Zenon
  <2> QED
    BY <2>1, SMT
<1> QED
  BY <1>2, Zenon

LEMMA LeastNat == ASSUME NEW S, S \subseteq Nat, S # {}
                  PROVE  \E m \in S : \A k \in S : m <= k
<1>1. \A k, m \in Nat : k < m => <<k, m>> \in OpToRel(<, Nat)
  BY DEF OpToRel
<1> QED
  BY <1>1, NatLessThanWellFounded, LeastOf, Zenon

\* A set of naturals up to n that holds with each number the next one, and 0.
LEMMA UpToAll ==
    ASSUME NEW n \in Nat, NEW S, 0 \in S, \A k \in 0..n - 1 : k \in S => k + 1 \in S
    PROVE  \A k \in 0..n : k \in S
<1> DEFINE bad == {k \in 0..n : k \notin S}
<1>1. bad \subseteq Nat
  OBVIOUS
<1>2. ASSUME bad # {} PROVE FALSE
  <2>1. PICK m \in bad : \A k \in bad : m <= k
    BY <1>1, <1>2, LeastNat, Zenon
  <2>2. m # 0 /\ m \in 0..n
    BY <2>1
  <2>3. m - 1 \in 0..n - 1 /\ m - 1 \notin bad
    BY <2>1, <2>2
  <2>4. m \in S
    BY <2>2, <2>3
  <2> QED
    BY <2>1, <2>4
<1> QED
  BY <1>2

-----------------------------------------------------------------------------
(* FlattenSeq joins the sequences one by one *)

\* f is what FlattenSeq folds s with.
Joins(f, s) == f = [i \in 1..Len(s) |-> IF i = 1 THEN s[i] ELSE f[i - 1] \o s[i]]

LEMMA JoinsAt ==
    ASSUME NEW f, NEW s, Joins(f, s), NEW i \in 1..Len(s)
    PROVE  f[i] = IF i = 1 THEN s[i] ELSE f[i - 1] \o s[i]
<1> DEFINE g == [j \in 1..Len(s) |-> IF j = 1 THEN s[j] ELSE f[j - 1] \o s[j]]
<1>1. g[i] = IF i = 1 THEN s[i] ELSE f[i - 1] \o s[i]
  OBVIOUS
<1>2. f = g
  BY Zenon DEF Joins
<1> HIDE DEF g
<1> QED
  BY <1>1, <1>2

LEMMA JoinsExists ==
    ASSUME NEW T, NEW s \in Seq(T)
    PROVE  \E f : Joins(f, s)
<1> DEFINE To(n) == \E f : f = [i \in 1..n |-> IF i = 1 THEN s[i] ELSE f[i - 1] \o s[i]]
<1>0. Len(s) \in Nat
  OBVIOUS
<1>1. To(0)
  <2>1. [i \in 1..0 |-> 0] = [i \in 1..0 |-> IF i = 1 THEN s[i] ELSE [k \in 1..0 |-> 0][i - 1] \o s[i]]
    OBVIOUS
  <2> QED
    BY <2>1
<1>2. ASSUME NEW n \in 0..Len(s) - 1, To(n)
      PROVE  To(n + 1)
  <2>1. PICK f : f = [i \in 1..n |-> IF i = 1 THEN s[i] ELSE f[i - 1] \o s[i]]
    BY <1>2
  <2> DEFINE g == [i \in 1..n + 1 |-> IF i <= n THEN f[i] ELSE IF i = 1 THEN s[i] ELSE f[n] \o s[i]]
  <2>2. ASSUME NEW i \in 1..n + 1
        PROVE  g[i] = IF i = 1 THEN s[i] ELSE g[i - 1] \o s[i]
    <3>1. CASE i <= n
      <4>1. i \in 1..n /\ (i # 1 => i - 1 \in 1..n)
        BY <3>1
      <4>2. g[i] = f[i] /\ (i # 1 => g[i - 1] = f[i - 1])
        BY <3>1, <4>1
      <4>3. f[i] = IF i = 1 THEN s[i] ELSE f[i - 1] \o s[i]
        BY <2>1, <4>1
      <4> QED
        BY <4>2, <4>3
    <3>2. CASE i = n + 1
      <4>1. i # 1 => g[i - 1] = f[n]
        BY <3>2
      <4>2. g[i] = IF i = 1 THEN s[i] ELSE f[n] \o s[i]
        BY <3>2
      <4> QED
        BY <4>1, <4>2
    <3> QED
      BY <3>1, <3>2
  <2>3. g = [i \in 1..n + 1 |-> IF i = 1 THEN s[i] ELSE g[i - 1] \o s[i]]
    BY <2>2
  <2> HIDE DEF g
  <2> QED
    BY <2>3
<1> HIDE DEF To
<1>3. To(Len(s))
  <2> DEFINE S == {n \in Nat : To(n)}
  <2>1. 0 \in S /\ \A k \in 0..Len(s) - 1 : k \in S => k + 1 \in S
    BY <1>0, <1>1, <1>2
  <2> HIDE DEF S
  <2>2. \A k \in 0..Len(s) : k \in S
    BY <1>0, <2>1, UpToAll, Zenon
  <2> QED
    BY <1>0, <2>2 DEF S
<1> QED
  BY <1>3 DEF Joins, To

LEMMA FlattenIs ==
    ASSUME NEW T, NEW s \in Seq(T), s # <<>>
    PROVE  \E f : Joins(f, s) /\ FlattenSeq(s) = f[Len(s)]
<1> DEFINE f == CHOOSE f : f = [i \in 1..Len(s) |-> IF i = 1 THEN s[i] ELSE f[i - 1] \o s[i]]
<1>1. Joins(f, s)
  BY JoinsExists DEF Joins
<1>2. FlattenSeq(s) = f[Len(s)]
  BY DEF FlattenSeq
<1> QED
  BY <1>1, <1>2

LEMMA FlattenEmpty == FlattenSeq(<<>>) = <<>>
  BY DEF FlattenSeq

\* The fold is the same on a prefix, so the last sequence is joined to the others.
LEMMA FlattenStep ==
    ASSUME NEW T, NEW s \in Seq(Seq(T)), s # <<>>,
           NEW r \in Seq(Seq(T)), Len(s) = Len(r) + 1, \A i \in 1..Len(r) : r[i] = s[i]
    PROVE  FlattenSeq(s) = FlattenSeq(r) \o s[Len(s)]
<1>0. Len(r) \in Nat
  OBVIOUS
<1>1. PICK f : Joins(f, s) /\ FlattenSeq(s) = f[Len(s)]
  BY FlattenIs
<1>a. \A i \in 1..Len(s) : f[i] = IF i = 1 THEN s[i] ELSE f[i - 1] \o s[i]
  BY <1>1, JoinsAt
<1>2. CASE r = <<>>
  <2>1. Len(s) = 1 /\ s[1] \in Seq(T)
    BY <1>2
  <2>2. FlattenSeq(s) = s[1] /\ FlattenSeq(r) = <<>>
    BY <1>1, <1>2, <2>1, FlattenEmpty DEF Joins
  <2> QED
    BY <2>1, <2>2, ConcatEmptySeq
<1>3. CASE r # <<>>
  <2>1. PICK g : Joins(g, r) /\ FlattenSeq(r) = g[Len(r)]
    BY <1>3, FlattenIs
  <2>a. \A i \in 1..Len(r) : g[i] = IF i = 1 THEN r[i] ELSE g[i - 1] \o r[i]
    BY <2>1, JoinsAt
  <2> DEFINE S == {n \in 1..Len(r) : f[n] # g[n]}
  <2>2. S = {}
    <3>1. SUFFICES ASSUME S # {} PROVE FALSE
      OBVIOUS
    <3>2. S \subseteq Nat
      OBVIOUS
    <3> HIDE DEF S
    <3>3. PICK m \in S : \A k \in S : m <= k
      BY <3>1, <3>2, LeastNat, Zenon
    <3>4. m \in 1..Len(r) /\ f[m] # g[m]
      BY <3>3 DEF S
    <3>5. /\ f[m] = IF m = 1 THEN s[m] ELSE f[m - 1] \o s[m]
          /\ g[m] = IF m = 1 THEN r[m] ELSE g[m - 1] \o r[m]
      <4>1. m \in 1..Len(s) /\ r[m] = s[m]
        BY <1>0, <3>4
      <4> QED
        BY <1>a, <2>a, <3>4, <4>1
    <3>6. m # 1 => f[m - 1] = g[m - 1]
      BY <1>0, <3>3, <3>4 DEF S
    <3> QED
      BY <3>4, <3>5, <3>6
  <2>3. f[Len(r)] = g[Len(r)]
    <3>1. Len(r) \in 1..Len(r)
      BY <1>0, <1>3
    <3> QED
      BY <2>2, <3>1
  <2>4. f[Len(s)] = f[Len(r)] \o s[Len(s)]
    <3>1. Len(s) \in 1..Len(s) /\ Len(s) # 1 /\ Len(s) - 1 = Len(r)
      BY <1>0, <1>3
    <3> QED
      BY <1>a, <3>1
  <2> QED
    BY <1>1, <2>1, <2>3, <2>4
<1> QED
  BY <1>2, <1>3

-----------------------------------------------------------------------------
(* The first k of the sequences of s, joined *)

First(s, k) == [i \in 1..k |-> s[i]]
Upto(s, k) == FlattenSeq(First(s, k))

LEMMA FirstIs ==
    ASSUME NEW T, NEW s \in Seq(T), NEW k \in 0..Len(s)
    PROVE  /\ First(s, k) \in Seq(T) /\ Len(First(s, k)) = k
           /\ \A i \in 1..k : First(s, k)[i] = s[i]
  BY DEF First

LEMMA UptoZero == ASSUME NEW s PROVE Upto(s, 0) = <<>>
  BY FlattenEmpty DEF Upto, First

LEMMA UptoStep ==
    ASSUME NEW T, NEW s \in Seq(Seq(T)), NEW k \in 0..Len(s) - 1
    PROVE  Upto(s, k + 1) = Upto(s, k) \o s[k + 1]
<1> DEFINE a == First(s, k)
           b == First(s, k + 1)
<1>1. k \in 0..Len(s) /\ k + 1 \in 0..Len(s)
  OBVIOUS
<1>2. /\ a \in Seq(Seq(T)) /\ Len(a) = k /\ \A i \in 1..k : a[i] = s[i]
      /\ b \in Seq(Seq(T)) /\ Len(b) = k + 1 /\ \A i \in 1..k + 1 : b[i] = s[i]
  BY <1>1, FirstIs
<1> HIDE DEF a, b
<1>a. k \in Nat /\ k + 1 \in 1..k + 1 /\ k + 1 # 0 /\ \A i \in 1..k : i \in 1..k + 1
  OBVIOUS
<1>b. b[k + 1] = s[k + 1] /\ \A i \in 1..k : a[i] = b[i]
  BY <1>2, <1>a
<1>3. b # <<>> /\ b[Len(b)] = s[k + 1] /\ \A i \in 1..Len(a) : a[i] = b[i]
  BY <1>2, <1>a, <1>b
<1>4. FlattenSeq(b) = FlattenSeq(a) \o b[Len(b)]
  BY <1>2, <1>3, FlattenStep
<1> QED
  BY <1>3, <1>4 DEF Upto, a, b

LEMMA UptoType ==
    ASSUME NEW T, NEW s \in Seq(Seq(T))
    PROVE  \A k \in 0..Len(s) : Upto(s, k) \in Seq(T)
<1> DEFINE S == {k \in Nat : Upto(s, k) \in Seq(T)}
<1>0. Len(s) \in Nat
  OBVIOUS
<1>1. 0 \in S
  <2>1. Upto(s, 0) \in Seq(T)
    BY UptoZero, EmptySeq
  <2> QED
    BY <2>1
<1>2. ASSUME NEW k \in 0..Len(s) - 1, k \in S
      PROVE  k + 1 \in S
  <2>1. Upto(s, k + 1) = Upto(s, k) \o s[k + 1] /\ s[k + 1] \in Seq(T)
    BY UptoStep
  <2>2. Upto(s, k) \o s[k + 1] \in Seq(T)
    BY <1>2, <2>1, ConcatProperties
  <2>3. Upto(s, k + 1) \in Seq(T)
    BY <2>1, <2>2, Zenon
  <2>4. k + 1 \in Nat
    BY <1>0
  <2> QED
    BY <2>3, <2>4
<1>3. \A k \in 0..Len(s) : k \in S
  <2> HIDE DEF S
  <2> QED
    BY <1>0, <1>1, <1>2, UpToAll, Zenon
<1> QED
  BY <1>3

LEMMA UptoWhole ==
    ASSUME NEW T, NEW s \in Seq(Seq(T))
    PROVE  Upto(s, Len(s)) = FlattenSeq(s) /\ FlattenSeq(s) \in Seq(T)
<1>1. First(s, Len(s)) = s
  BY DEF First
<1> QED
  BY <1>1, UptoType DEF Upto

\* What the first n are joined to starts with what the first k are.
LEMMA UptoGrows ==
    ASSUME NEW T, NEW s \in Seq(Seq(T)), NEW k \in 0..Len(s)
    PROVE  \A n \in k..Len(s) :
              /\ Len(Upto(s, k)) <= Len(Upto(s, n))
              /\ \A i \in 1..Len(Upto(s, k)) : Upto(s, n)[i] = Upto(s, k)[i]
<1> DEFINE Grows(n) == /\ Len(Upto(s, k)) <= Len(Upto(s, n))
                       /\ \A i \in 1..Len(Upto(s, k)) : Upto(s, n)[i] = Upto(s, k)[i]
           S == {n \in Nat : n < k \/ Grows(n)}
<1>0. Len(s) \in Nat /\ k \in Nat /\ \A n \in 0..Len(s) : Upto(s, n) \in Seq(T)
  BY UptoType
<1>a. Grows(k)
  BY <1>0
<1>1. 0 \in S
  BY <1>0, <1>a
<1>2. ASSUME NEW n \in 0..Len(s) - 1, n \in S
      PROVE  n + 1 \in S
  <2>1. CASE n < k
    BY <1>0, <1>a, <2>1
  <2>2. CASE n >= k
    <3>1. Upto(s, n + 1) = Upto(s, n) \o s[n + 1] /\ s[n + 1] \in Seq(T)
      BY UptoStep
    <3>2. Upto(s, n) \in Seq(T) /\ Upto(s, k) \in Seq(T)
      BY <1>0
    <3>3. Grows(n)
      BY <1>2, <2>2
    <3>4. Grows(n + 1)
      BY <3>1, <3>2, <3>3
    <3> QED
      BY <3>4
  <2> QED
    BY <2>1, <2>2
<1>3. \A n \in 0..Len(s) : n \in S
  <2> HIDE DEF S
  <2> QED
    BY <1>0, <1>1, <1>2, UpToAll, Zenon
<1> QED
  BY <1>0, <1>3

\* Where the sequence behind the first k starts, its elements are found.
LEMMA UptoAt ==
    ASSUME NEW T, NEW s \in Seq(Seq(T)), NEW k \in 0..Len(s) - 1
    PROVE  /\ Len(Upto(s, k + 1)) = Len(Upto(s, k)) + Len(s[k + 1])
           /\ \A n \in k + 1..Len(s) : \A i \in 1..Len(s[k + 1]) :
                Upto(s, n)[Len(Upto(s, k)) + i] = s[k + 1][i]
<1>1. Upto(s, k + 1) = Upto(s, k) \o s[k + 1] /\ s[k + 1] \in Seq(T) /\ Upto(s, k) \in Seq(T)
  BY UptoStep, UptoType
<1>2. /\ Len(Upto(s, k + 1)) = Len(Upto(s, k)) + Len(s[k + 1])
      /\ \A i \in 1..Len(s[k + 1]) : Upto(s, k + 1)[Len(Upto(s, k)) + i] = s[k + 1][i]
  BY <1>1
<1>3. ASSUME NEW n \in k + 1..Len(s), NEW i \in 1..Len(s[k + 1])
      PROVE  Upto(s, n)[Len(Upto(s, k)) + i] = s[k + 1][i]
  <2>1. k + 1 \in 0..Len(s) /\ Len(Upto(s, k)) + i \in 1..Len(Upto(s, k + 1))
    BY <1>1, <1>2
  <2>2. Upto(s, n)[Len(Upto(s, k)) + i] = Upto(s, k + 1)[Len(Upto(s, k)) + i]
    BY <2>1, UptoGrows
  <2> QED
    BY <1>2, <2>2
<1> QED
  BY <1>2, <1>3

LEMMA JoinedIs ==
    ASSUME NEW T, NEW a \in Seq(T), NEW b \in Seq(T)
    PROVE  /\ a \o b \in Seq(T) /\ Len(a \o b) = Len(a) + Len(b)
           /\ \A i \in 1..Len(a) : (a \o b)[i] = a[i]
           /\ \A i \in 1..Len(b) : (a \o b)[Len(a) + i] = b[i]
  OBVIOUS

Associates(a, b, c) == (a \o b) \o c = a \o (b \o c)

LEMMA JoiningAssociates ==
    ASSUME NEW T, NEW a \in Seq(T), NEW b \in Seq(T), NEW c \in Seq(T)
    PROVE  Associates(a, b, c)
  BY DEF Associates

\* r is what is behind the first m sequences of s.
IsRest(r, s, m) == Len(r) = Len(s) - m /\ \A i \in 1..Len(r) : r[i] = s[m + i]

\* It can be joined for itself.
LEMMA UptoRest ==
    ASSUME NEW T, NEW s \in Seq(Seq(T)), NEW m \in 0..Len(s),
           NEW r \in Seq(Seq(T)), IsRest(r, s, m)
    PROVE  \A w \in 0..Len(r) : Upto(s, m + w) = Upto(s, m) \o Upto(r, w)
<1> DEFINE S == {w \in Nat : Upto(s, m + w) = Upto(s, m) \o Upto(r, w)}
<1>0. /\ Len(r) \in Nat /\ m \in Nat /\ Len(s) \in Nat /\ Upto(s, m) \in Seq(T)
      /\ \A w \in 0..Len(r) : Upto(r, w) \in Seq(T)
  BY UptoType
<1>1. 0 \in S
  BY <1>0, UptoZero, ConcatEmptySeq
<1>2. ASSUME NEW w \in 0..Len(r) - 1, w \in S
      PROVE  w + 1 \in S
  <2>1. m + w \in 0..Len(s) - 1 /\ r[w + 1] = s[m + w + 1] /\ r[w + 1] \in Seq(T)
    BY <1>0 DEF IsRest
  <2>2. Upto(s, m + w + 1) = Upto(s, m + w) \o s[m + w + 1]
    BY <2>1, UptoStep
  <2>3. Upto(r, w + 1) = Upto(r, w) \o r[w + 1]
    BY UptoStep
  <2>5. m + (w + 1) = m + w + 1 /\ w + 1 \in Nat /\ w \in 0..Len(r)
    BY <1>0
  <2>6. Upto(s, m + (w + 1)) = Upto(s, m) \o Upto(r, w + 1)
    <3>1. Upto(s, m + w) = Upto(s, m) \o Upto(r, w)
      BY <1>2
    <3> DEFINE a == Upto(s, m)
               b == Upto(r, w)
               c == r[w + 1]
               d == Upto(s, m + w)
    <3>2. a \in Seq(T) /\ b \in Seq(T) /\ c \in Seq(T)
      BY <1>0, <2>1, <2>5
    <3>6. d = a \o b
      BY <3>1
    <3>3. Upto(s, m + (w + 1)) = d \o c
      BY <2>1, <2>2, <2>5, Zenon
    <3>5. Upto(r, w + 1) = b \o c
      BY <2>3
    <3> HIDE DEF a, b, c, d
    <3>4. Associates(a, b, c)
      BY <3>2, JoiningAssociates, Zenon
    <3> QED
      BY <3>3, <3>4, <3>5, <3>6, Zenon DEF Associates, a
  <2> QED
    BY <2>5, <2>6
<1>3. \A w \in 0..Len(r) : w \in S
  <2> HIDE DEF S
  <2> QED
    BY <1>0, <1>1, <1>2, UpToAll, Zenon
<1> QED
  BY <1>3

-----------------------------------------------------------------------------
(* The invariant *)

\* The bytes of each packet, and of each value of one; the first bytes of all.
Packets(s) == [i \in DOMAIN s |-> Pack(s[i])]
Encoded(pkt) == [i \in DOMAIN pkt |-> Bytes(pkt[i])]
At(k) == Len(Upto(Packets(stream), k))
In(pkt, j) == Len(Upto(Encoded(pkt), j))
Sent == Len(stream) - Len(left)

IsEnd(a, b) == Len(a) <= Len(b) /\ \A i \in 1..Len(a) : a[i] = b[Len(b) - Len(a) + i]
IsStart(a, b) == Len(a) <= Len(b) /\ \A i \in 1..Len(a) : a[i] = b[i]

\* What has come is a prefix of the stream: Sent packets and done bytes.
NetOK ==
    /\ stream \in Streams
    /\ left \in Seq(Seq(Scalars)) /\ Len(left) <= Len(stream) /\ IsRest(left, stream, Sent)
    /\ done \in Nat
    /\ left # <<>> => done < Len(Pack(left[1]))
    /\ left = <<>> => done = 0
    /\ seen \in Seq(Int) /\ Len(seen) = At(Sent) + done
    /\ IsStart(seen, FlattenSeq(Packets(stream)))

Kept ==
    /\ pc \in {"idle", "push", "parse"} /\ inMem \in BOOLEAN
    /\ mem \in Seq(Int) /\ data \in Seq(Int)
    /\ off \in Nat /\ offset \in Nat /\ p \in Nat
    /\ vals \in Seq(Scalars) /\ calls \in Seq(Seq(Scalars))
    /\ mem # <<>> => off < Len(mem)
    /\ pc = "idle" => IsEnd(mem, seen)
    /\ pc # "idle" => /\ IsEnd(data, seen) /\ offset < Len(data)
                      /\ inMem => data = mem
                      /\ ~inMem => mem = <<>>

Clean == cuts \subseteq {"end", "afterHeader"}
WholeOnly == cuts \subseteq {"end"}

\* The position in the stream of the next byte.
Pos == Len(seen) - Len(data) + offset + p

\* In front of packet k + 1, of its values, and behind j of them.
AtPacket(k) == pc = "push" /\ st = "START" /\ k \in 0..Sent /\ Pos = At(k)
AtPayload(k) ==
    /\ pc = "push" /\ st = "DATASTART" /\ size = Len(Payload(stream[k + 1]))
    /\ k \in 0..Sent /\ (k = Sent => done = HeaderLen) /\ Pos = At(k) + HeaderLen
AtValue(k, j) ==
    /\ pc = "parse" /\ k \in 0..Sent - 1 /\ j \in 0..Len(stream[k + 1])
    /\ Pos = At(k) + HeaderLen + In(stream[k + 1], j)

Reached(k, j) == (j = 0 /\ AtPacket(k)) \/ (j = 0 /\ AtPayload(k)) \/ AtValue(k, j)

\* The values of the first k packets and j of the next one, and no other.
GivenAre(k, j) ==
    WholeOnly => FlattenSeq(calls) \o vals = Upto(stream, k) \o First(stream[k + 1], j)

\* The first k packets, and the values on the stack.
CallsAre(k, j) ==
    ~crossed =>
        /\ k = Sent \/ (k = Sent - 1 /\ done = 0)
        /\ IF st = "START" /\ pc = "push" /\ Pos = Len(seen)
           THEN k > 0 /\ calls = First(stream, k - 1) /\ vals = stream[k]
           ELSE calls = First(stream, k) /\ vals = First(stream[k + 1], j)

Follows(k, j) == Reached(k, j) /\ GivenAre(k, j) /\ CallsAre(k, j)

\* Between two calls: at the end of a packet, or of a length.
Resting ==
    /\ \/ st = "START" /\ done = 0
       \/ st = "DATASTART" /\ done = HeaderLen /\ size = Len(Payload(stream[Sent + 1]))
    /\ WholeOnly => FlattenSeq(calls) = Upto(stream, Sent)
    /\ ~crossed => calls = First(stream, Sent)

Tracked ==
    Clean =>
        /\ mem = <<>> /\ done \in {0, HeaderLen} /\ (WholeOnly => done = 0)
        /\ pc = "idle" => Resting
        /\ pc # "idle" =>
            /\ offset = 0
            /\ \E k \in Nat : \E j \in Nat : Follows(k, j)

DecInv == NetOK /\ Kept /\ Tracked

-----------------------------------------------------------------------------
(* Packets as bytes *)

LEMMA BytesAre ==
    ASSUME NEW v \in Scalars
    PROVE  /\ Bytes(v) \in Seq(Int)
           /\ \/ Len(Bytes(v)) = 1 /\ Bytes(v)[1] = 0 /\ v = "nil"
              \/ Len(Bytes(v)) = 2 /\ Bytes(v)[1] = 1 /\ Bytes(v)[2] = 0 /\ v = "false"
              \/ Len(Bytes(v)) = 2 /\ Bytes(v)[1] = 1 /\ Bytes(v)[2] = 1 /\ v = "true"
  BY DEF Bytes, Scalars

LEMMA EncodedIs ==
    ASSUME NEW pkt \in Seq(Scalars)
    PROVE  /\ Encoded(pkt) \in Seq(Seq(Int)) /\ Len(Encoded(pkt)) = Len(pkt)
           /\ \A i \in 1..Len(pkt) : Encoded(pkt)[i] = Bytes(pkt[i])
<1>1. \A i \in 1..Len(pkt) : pkt[i] \in Scalars
  OBVIOUS
<1>2. \A i \in 1..Len(pkt) : Bytes(pkt[i]) \in Seq(Int)
  BY <1>1, BytesAre, Zenon
<1> QED
  BY <1>2 DEF Encoded

LEMMA PayloadIs ==
    ASSUME NEW pkt \in Seq(Scalars)
    PROVE  /\ Payload(pkt) \in Seq(Int) /\ In(pkt, Len(pkt)) \in Nat
           /\ Len(Payload(pkt)) = In(pkt, Len(pkt)) + 1
           /\ \A i \in 1..In(pkt, Len(pkt)) : Payload(pkt)[i] = Upto(Encoded(pkt), Len(pkt))[i]
           /\ Payload(pkt)[Len(Payload(pkt))] = EndData
<1> DEFINE e == Encoded(pkt)
           u == Upto(e, Len(pkt))
<1>1. e \in Seq(Seq(Int)) /\ Len(e) = Len(pkt)
  BY EncodedIs
<1>2. u = FlattenSeq(e) /\ FlattenSeq(e) \in Seq(Int)
  BY <1>1, UptoWhole DEF u
<1>3. Payload(pkt) = u \o <<EndData>>
  BY <1>2, Zenon DEF Payload, Encoded
<1>4. In(pkt, Len(pkt)) = Len(u)
  BY Zenon DEF In
<1> HIDE DEF u, e
<1>5. u \in Seq(Int)
  BY <1>2
<1>6. /\ u \o <<EndData>> \in Seq(Int) /\ Len(u) \in Nat
      /\ Len(u \o <<EndData>>) = Len(u) + 1
      /\ \A i \in 1..Len(u) : (u \o <<EndData>>)[i] = u[i]
      /\ (u \o <<EndData>>)[Len(u) + 1] = EndData
  BY <1>5 DEF EndData
<1>7. /\ Payload(pkt) \in Seq(Int) /\ In(pkt, Len(pkt)) \in Nat
      /\ Len(Payload(pkt)) = In(pkt, Len(pkt)) + 1
      /\ \A i \in 1..In(pkt, Len(pkt)) : Payload(pkt)[i] = u[i]
      /\ Payload(pkt)[Len(Payload(pkt))] = EndData
  BY <1>3, <1>4, <1>6, Zenon
<1> QED
  BY <1>7, Zenon DEF u, e

LEMMA PackIs ==
    ASSUME NEW pkt \in Seq(Scalars)
    PROVE  /\ Pack(pkt) \in Seq(Int) /\ Len(Pack(pkt)) = HeaderLen + Len(Payload(pkt))
           /\ Len(Payload(pkt)) \in Nat \ {0}
           /\ Pack(pkt)[1] = 0 /\ Pack(pkt)[2] = 0 /\ Pack(pkt)[3] = 0
           /\ Pack(pkt)[4] = Len(Payload(pkt))
           /\ \A i \in 1..Len(Payload(pkt)) : Pack(pkt)[HeaderLen + i] = Payload(pkt)[i]
<1> DEFINE q == Payload(pkt)
           h == <<0, 0, 0, Len(q)>>
<1>1. q \in Seq(Int) /\ Len(q) \in Nat \ {0}
  BY PayloadIs
<1>2. Pack(pkt) = h \o q
  BY Zenon DEF Pack
<1> HIDE DEF q
<1>3. h \in Seq(Int) /\ Len(h) = 4 /\ h[1] = 0 /\ h[2] = 0 /\ h[3] = 0 /\ h[4] = Len(q)
  BY <1>1
<1> HIDE DEF h
<1>4. /\ h \o q \in Seq(Int) /\ Len(h \o q) = 4 + Len(q)
      /\ (h \o q)[1] = 0 /\ (h \o q)[2] = 0 /\ (h \o q)[3] = 0 /\ (h \o q)[4] = Len(q)
      /\ \A i \in 1..Len(q) : (h \o q)[4 + i] = q[i]
  <2>1. /\ h \o q \in Seq(Int) /\ Len(h \o q) = Len(h) + Len(q)
        /\ \A i \in 1..Len(h) : (h \o q)[i] = h[i]
        /\ \A i \in 1..Len(q) : (h \o q)[Len(h) + i] = q[i]
    <3>1. h \in Seq(Int) /\ q \in Seq(Int)
      BY <1>1, <1>3
    <3> QED
      BY <3>1, JoinedIs
  <2> QED
    BY <1>1, <1>3, <2>1
<1> QED
  BY <1>1, <1>2, <1>4, Zenon DEF q, HeaderLen

LEMMA PacketsAre ==
    ASSUME NEW s \in Seq(Seq(Scalars))
    PROVE  /\ Packets(s) \in Seq(Seq(Int)) /\ Len(Packets(s)) = Len(s)
           /\ \A i \in 1..Len(s) : Packets(s)[i] = Pack(s[i]) /\ s[i] \in Seq(Scalars)
<1>1. \A i \in 1..Len(s) : s[i] \in Seq(Scalars)
  OBVIOUS
<1>2. \A i \in 1..Len(s) : Pack(s[i]) \in Seq(Int)
  BY <1>1, PackIs, Zenon
<1>3. Packets(s) = [i \in 1..Len(s) |-> Pack(s[i])]
  BY DEF Packets
<1>4. Packets(s) \in Seq(Seq(Int)) /\ Len(Packets(s)) = Len(s)
  BY <1>2, <1>3
<1>5. \A i \in 1..Len(s) : Packets(s)[i] = Pack(s[i])
  BY <1>3
<1> QED
  BY <1>1, <1>4, <1>5

\* Where the packets of the stream start.
LEMMA AtIs ==
    ASSUME stream \in Seq(Seq(Scalars))
    PROVE  /\ At(0) = 0
           /\ \A k \in 0..Len(stream) : At(k) \in Nat
           /\ \A k \in 0..Len(stream) - 1 :
                /\ At(k + 1) = At(k) + HeaderLen + Len(Payload(stream[k + 1]))
                /\ Len(Payload(stream[k + 1])) \in Nat \ {0}
           /\ \A k, n \in 0..Len(stream) : k <= n => At(k) <= At(n)
<1> DEFINE s == Packets(stream)
<1>1. s \in Seq(Seq(Int)) /\ Len(s) = Len(stream) /\ Len(stream) \in Nat
  BY PacketsAre
<1>2. \A i \in 1..Len(stream) : s[i] = Pack(stream[i]) /\ stream[i] \in Seq(Scalars)
  BY PacketsAre, Zenon
<1> HIDE DEF s
<1>3. At(0) = 0
  BY UptoZero DEF At
<1>4. \A k \in 0..Len(stream) : Upto(s, k) \in Seq(Int)
  BY <1>1, UptoType
<1>5. ASSUME NEW k \in 0..Len(stream) - 1
      PROVE  /\ At(k + 1) = At(k) + HeaderLen + Len(Payload(stream[k + 1]))
             /\ Len(Payload(stream[k + 1])) \in Nat \ {0}
  <2>1. k + 1 \in 1..Len(stream) /\ k \in 0..Len(s) - 1
    BY <1>1
  <2>2. Len(Upto(s, k + 1)) = Len(Upto(s, k)) + Len(s[k + 1])
    BY <1>1, <2>1, UptoAt
  <2>3. /\ Len(s[k + 1]) = HeaderLen + Len(Payload(stream[k + 1]))
        /\ Len(Payload(stream[k + 1])) \in Nat \ {0}
    BY <1>2, <2>1, PackIs
  <2>4. Len(Upto(s, k)) \in Nat
    BY <1>1, <1>4
  <2> QED
    BY <2>2, <2>3, <2>4 DEF At, s, HeaderLen
<1>6. ASSUME NEW k \in 0..Len(stream), NEW n \in 0..Len(stream), k <= n
      PROVE  At(k) <= At(n)
  <2>1. k \in 0..Len(s) /\ n \in k..Len(s)
    BY <1>1, <1>6
  <2>2. Len(Upto(s, k)) <= Len(Upto(s, n))
    BY <1>1, <2>1, UptoGrows
  <2> QED
    BY <2>2 DEF At, s
<1>7. \A k \in 0..Len(stream) : At(k) \in Nat
  BY <1>4 DEF At, s
<1> QED
  BY <1>3, <1>5, <1>6, <1>7

\* The stream holds the packets at those places.
LEMMA StreamAt ==
    ASSUME stream \in Seq(Seq(Scalars)), NEW k \in 0..Len(stream) - 1,
           NEW d \in 1..Len(Pack(stream[k + 1]))
    PROVE  FlattenSeq(Packets(stream))[At(k) + d] = Pack(stream[k + 1])[d]
<1> DEFINE s == Packets(stream)
<1>1. s \in Seq(Seq(Int)) /\ Len(s) = Len(stream) /\ Len(stream) \in Nat
  BY PacketsAre
<1>2. \A i \in 1..Len(stream) : s[i] = Pack(stream[i])
  BY PacketsAre, Zenon
<1> HIDE DEF s
<1>3. k \in 0..Len(s) - 1 /\ Len(s) \in k + 1..Len(s) /\ s[k + 1] = Pack(stream[k + 1])
  BY <1>1, <1>2
<1>4. \A n \in k + 1..Len(s) : \A i \in 1..Len(s[k + 1]) :
         Upto(s, n)[Len(Upto(s, k)) + i] = s[k + 1][i]
  BY <1>1, <1>3, UptoAt
<1>5. Upto(s, Len(s))[Len(Upto(s, k)) + d] = s[k + 1][d]
  BY <1>3, <1>4
<1>6. Upto(s, Len(s)) = FlattenSeq(s)
  BY <1>1, UptoWhole
<1> QED
  BY <1>3, <1>5, <1>6, Zenon DEF At, s

\* Where the values of a packet start.
LEMMA InIs ==
    ASSUME NEW pkt \in Seq(Scalars)
    PROVE  /\ In(pkt, 0) = 0
           /\ \A j \in 0..Len(pkt) : In(pkt, j) \in Nat
           /\ \A j \in 0..Len(pkt) - 1 :
                /\ In(pkt, j + 1) = In(pkt, j) + Len(Bytes(pkt[j + 1]))
                /\ \A i \in 1..Len(Bytes(pkt[j + 1])) :
                     Upto(Encoded(pkt), Len(pkt))[In(pkt, j) + i] = Bytes(pkt[j + 1])[i]
           /\ \A j \in 0..Len(pkt) : In(pkt, j) <= In(pkt, Len(pkt))
<1> DEFINE e == Encoded(pkt)
<1>1. e \in Seq(Seq(Int)) /\ Len(e) = Len(pkt) /\ Len(pkt) \in Nat
  BY EncodedIs
<1>2. \A i \in 1..Len(pkt) : e[i] = Bytes(pkt[i])
  BY EncodedIs, Zenon
<1> HIDE DEF e
<1>3. In(pkt, 0) = 0
  BY UptoZero DEF In
<1>4. \A j \in 0..Len(pkt) : Upto(e, j) \in Seq(Int)
  BY <1>1, UptoType
<1>5. ASSUME NEW j \in 0..Len(pkt) - 1
      PROVE  /\ In(pkt, j + 1) = In(pkt, j) + Len(Bytes(pkt[j + 1]))
             /\ \A i \in 1..Len(Bytes(pkt[j + 1])) :
                  Upto(Encoded(pkt), Len(pkt))[In(pkt, j) + i] = Bytes(pkt[j + 1])[i]
  <2>1. j + 1 \in 1..Len(pkt) /\ j \in 0..Len(e) - 1 /\ Len(pkt) \in j + 1..Len(e)
    BY <1>1
  <2>2. /\ Len(Upto(e, j + 1)) = Len(Upto(e, j)) + Len(e[j + 1])
        /\ \A n \in j + 1..Len(e) : \A i \in 1..Len(e[j + 1]) :
              Upto(e, n)[Len(Upto(e, j)) + i] = e[j + 1][i]
    BY <1>1, <2>1, UptoAt
  <2>3. e[j + 1] = Bytes(pkt[j + 1])
    BY <1>2, <2>1
  <2>4. \A i \in 1..Len(e[j + 1]) : Upto(e, Len(pkt))[Len(Upto(e, j)) + i] = e[j + 1][i]
    BY <2>1, <2>2
  <2> QED
    BY <2>2, <2>3, <2>4, Zenon DEF In, e
<1>6. ASSUME NEW j \in 0..Len(pkt)
      PROVE  In(pkt, j) <= In(pkt, Len(pkt))
  <2>1. j \in 0..Len(e) /\ Len(pkt) \in j..Len(e)
    BY <1>1
  <2>2. Len(Upto(e, j)) <= Len(Upto(e, Len(pkt)))
    BY <1>1, <2>1, UptoGrows
  <2> QED
    BY <2>2 DEF In, e
<1>7. \A j \in 0..Len(pkt) : In(pkt, j) \in Nat
  BY <1>4 DEF In, e
<1> QED
  BY <1>3, <1>5, <1>6, <1>7

\* What the payload holds behind j values: the next one, or the end mark.
LEMMA PayloadAt ==
    ASSUME NEW pkt \in Seq(Scalars), NEW j \in 0..Len(pkt)
    PROVE  /\ j = Len(pkt) => /\ Len(Payload(pkt)) = In(pkt, j) + 1
                              /\ Payload(pkt)[In(pkt, j) + 1] = EndData
           /\ j < Len(pkt) =>
                /\ pkt[j + 1] \in Scalars
                /\ In(pkt, j + 1) = In(pkt, j) + Len(Bytes(pkt[j + 1]))
                /\ In(pkt, j + 1) < Len(Payload(pkt))
                /\ \A i \in 1..Len(Bytes(pkt[j + 1])) :
                     Payload(pkt)[In(pkt, j) + i] = Bytes(pkt[j + 1])[i]
<1> DEFINE n == Len(pkt)
<1>1. n \in Nat /\ In(pkt, n) \in Nat /\ Len(Payload(pkt)) = In(pkt, n) + 1
  BY PayloadIs
<1>2. /\ \A i \in 1..In(pkt, n) : Payload(pkt)[i] = Upto(Encoded(pkt), n)[i]
      /\ Payload(pkt)[Len(Payload(pkt))] = EndData
  BY PayloadIs
<1>3. CASE j = n
  BY <1>1, <1>2, <1>3
<1>4. CASE j < n
  <2>1. j \in 0..n - 1 /\ j + 1 \in 0..n /\ pkt[j + 1] \in Scalars
    BY <1>1, <1>4
  <2>2. /\ In(pkt, j + 1) = In(pkt, j) + Len(Bytes(pkt[j + 1]))
        /\ \A i \in 1..Len(Bytes(pkt[j + 1])) :
             Upto(Encoded(pkt), n)[In(pkt, j) + i] = Bytes(pkt[j + 1])[i]
    BY <2>1, InIs
  <2>3. In(pkt, j) \in Nat /\ In(pkt, j + 1) \in Nat /\ In(pkt, j + 1) <= In(pkt, n)
    BY <2>1, InIs
  <2>4. ASSUME NEW i \in 1..Len(Bytes(pkt[j + 1]))
        PROVE  Payload(pkt)[In(pkt, j) + i] = Bytes(pkt[j + 1])[i]
    <3>1. Len(Bytes(pkt[j + 1])) \in Nat
      BY <2>1, BytesAre
    <3>2. In(pkt, j) + i \in 1..In(pkt, n)
      BY <1>1, <2>2, <2>3, <3>1
    <3> QED
      BY <1>2, <2>2, <3>2
  <2> QED
    BY <1>1, <1>4, <2>1, <2>2, <2>3, <2>4
<1> QED
  BY <1>1, <1>3, <1>4

-----------------------------------------------------------------------------
(* The network *)

LEMMA StreamType == ASSUME NetOK PROVE stream \in Seq(Seq(Scalars)) /\ Sent \in 0..Len(stream)
<1>1. stream \in Seq(Seq(Scalars))
  BY StreamAssumption, Zenon DEF NetOK
<1>2. left \in Seq(Seq(Scalars)) /\ Len(left) <= Len(stream)
  BY DEF NetOK
<1> QED
  BY <1>1, <1>2 DEF Sent

LEMMA LeftIs ==
    ASSUME NetOK
    PROVE  /\ left \in Seq(Seq(Scalars)) /\ Len(left) \in Nat /\ Len(stream) \in Nat
           /\ Len(left) = Len(stream) - Sent
           /\ \A i \in 1..Len(left) : left[i] = stream[Sent + i] /\ left[i] \in Seq(Scalars)
<1>1. stream \in Seq(Seq(Scalars)) /\ Sent \in 0..Len(stream) /\ left \in Seq(Seq(Scalars))
  BY StreamType DEF NetOK
<1>2. \A i \in 1..Len(left) : left[i] = stream[Sent + i]
  BY DEF NetOK, IsRest
<1>3. Len(left) \in Nat /\ Len(stream) \in Nat
  BY <1>1
<1>4. Len(left) = Len(stream) - Sent
  BY <1>3 DEF Sent
<1>5. \A i \in 1..Len(left) : left[i] \in Seq(Scalars)
  BY <1>1
<1> QED
  BY <1>1, <1>2, <1>3, <1>4, <1>5

\* The bytes still to come are the end of the stream.
LEMMA WireIs ==
    ASSUME NetOK
    PROVE  /\ Wire \in Seq(Int) /\ Len(Wire) \in Nat
           /\ FlattenSeq(Packets(stream)) \in Seq(Int)
           /\ Len(FlattenSeq(Packets(stream))) = At(Sent) + Len(Wire)
           /\ \A x \in 1..Len(Wire) : Wire[x] = FlattenSeq(Packets(stream))[At(Sent) + x]
           /\ \A w \in 0..Len(left) :
                WholeLen(w) \in Nat /\ WholeLen(w) <= Len(Wire) /\ At(Sent + w) = At(Sent) + WholeLen(w)
<1> DEFINE s == Packets(stream)
           r == Packets(left)
           a == Upto(s, Sent)
           n == Len(left)
<1>1. /\ stream \in Seq(Seq(Scalars)) /\ Sent \in 0..Len(stream) /\ left \in Seq(Seq(Scalars))
      /\ n \in Nat /\ Len(stream) \in Nat /\ n = Len(stream) - Sent
      /\ \A i \in 1..n : left[i] = stream[Sent + i]
  BY StreamType DEF NetOK, Sent, IsRest
<1>2. /\ s \in Seq(Seq(Int)) /\ Len(s) = Len(stream) /\ r \in Seq(Seq(Int)) /\ Len(r) = n
      /\ \A i \in 1..Len(stream) : s[i] = Pack(stream[i])
      /\ \A i \in 1..n : r[i] = Pack(left[i])
  BY <1>1, PacketsAre, Zenon
<1>3. IsRest(r, s, Sent)
  <2>1. ASSUME NEW i \in 1..n PROVE r[i] = s[Sent + i]
    <3>1. Sent + i \in 1..Len(stream)
      BY <1>1
    <3> QED
      BY <1>1, <1>2, <3>1
  <2> QED
    BY <1>1, <1>2, <2>1 DEF IsRest
<1>4. Wire = FlattenSeq(r)
  BY Zenon DEF Wire, Packets
<1>5. ASSUME NEW w \in 0..n PROVE WholeLen(w) = Len(Upto(r, w))
  <2>1. \A j \in 1..w : j \in DOMAIN left
    BY <1>1
  <2>2. [j \in 1..w |-> Pack(left[j])] = First(r, w)
    BY <2>1 DEF First, Packets
  <2> QED
    BY <2>2, Zenon DEF WholeLen, Upto
<1> HIDE DEF s, r
<1>6. Wire = Upto(r, n) /\ Wire \in Seq(Int) /\ FlattenSeq(s) = Upto(s, Len(stream))
  BY <1>2, <1>4, UptoWhole
<1>7. FlattenSeq(s) \in Seq(Int) /\ a \in Seq(Int) /\ \A w \in 0..n : Upto(r, w) \in Seq(Int)
  BY <1>1, <1>2, UptoWhole, UptoType
<1>8. \A w \in 0..n : Upto(s, Sent + w) = a \o Upto(r, w)
  <2>1. s \in Seq(Seq(Int)) /\ r \in Seq(Seq(Int)) /\ Sent \in 0..Len(s)
    BY <1>1, <1>2
  <2>2. \A w \in 0..Len(r) : Upto(s, Sent + w) = Upto(s, Sent) \o Upto(r, w)
    BY <1>3, <2>1, UptoRest
  <2> QED
    BY <1>2, <2>2, Zenon
<1>9. FlattenSeq(s) = a \o Wire
  <2>1. n \in 0..n /\ Sent + n = Len(stream)
    BY <1>1
  <2> QED
    BY <1>6, <1>8, <2>1
<1>a. /\ Len(FlattenSeq(s)) = Len(a) + Len(Wire)
      /\ \A x \in 1..Len(Wire) : Wire[x] = FlattenSeq(s)[Len(a) + x]
  <2>1. /\ Len(a \o Wire) = Len(a) + Len(Wire)
        /\ \A x \in 1..Len(Wire) : (a \o Wire)[Len(a) + x] = Wire[x]
    BY <1>6, <1>7, JoinedIs
  <2> QED
    BY <1>9, <2>1, Zenon
<1>b. ASSUME NEW w \in 0..n
      PROVE  WholeLen(w) \in Nat /\ WholeLen(w) <= Len(Wire) /\ At(Sent + w) = At(Sent) + WholeLen(w)
  <2>1. Upto(r, w) \in Seq(Int) /\ WholeLen(w) = Len(Upto(r, w))
    BY <1>5, <1>7
  <2>2. w \in 0..Len(r) /\ n \in w..Len(r)
    BY <1>1, <1>2
  <2>3. Len(Upto(r, w)) <= Len(Upto(r, n))
    BY <1>2, <2>2, UptoGrows
  <2>4. Len(Upto(s, Sent + w)) = Len(a) + Len(Upto(r, w))
    <3>1. Len(a \o Upto(r, w)) = Len(a) + Len(Upto(r, w))
      BY <1>7, <2>1, JoinedIs
    <3> QED
      BY <1>8, <3>1, Zenon
  <2>5. WholeLen(w) \in Nat /\ WholeLen(w) <= Len(Wire)
    BY <1>6, <2>1, <2>3
  <2>6. At(Sent + w) = At(Sent) + WholeLen(w)
    BY <2>1, <2>4, Zenon DEF At, s
  <2> QED
    BY <2>5, <2>6
<1>c. Len(a) = At(Sent)
  BY Zenon DEF At, s
<1>d. /\ FlattenSeq(Packets(stream)) \in Seq(Int)
      /\ Len(FlattenSeq(Packets(stream))) = At(Sent) + Len(Wire)
      /\ \A x \in 1..Len(Wire) : Wire[x] = FlattenSeq(Packets(stream))[At(Sent) + x]
  BY <1>7, <1>a, <1>c, Zenon DEF s
<1>e. Len(Wire) \in Nat /\ Wire \in Seq(Int)
  BY <1>6
<1> QED
  BY <1>b, <1>d, <1>e, Zenon

LEMMA WireStep ==
    ASSUME NetOK, NEW v \in 0..Len(left) - 1
    PROVE  /\ Len(Pack(left[v + 1])) \in Nat
           /\ WholeLen(v + 1) = WholeLen(v) + Len(Pack(left[v + 1]))
<1>1. /\ stream \in Seq(Seq(Scalars)) /\ Sent \in 0..Len(stream)
      /\ Len(left) \in Nat /\ Len(stream) \in Nat /\ Len(left) = Len(stream) - Sent
  BY StreamType, LeftIs
<1>2. Sent + v \in 0..Len(stream) - 1 /\ v \in 0..Len(left) /\ v + 1 \in 1..Len(left)
      /\ v + 1 \in 0..Len(left) /\ Sent + (v + 1) = Sent + v + 1
  BY <1>1
<1>3. left[v + 1] = stream[Sent + v + 1] /\ left[v + 1] \in Seq(Scalars)
  <2>1. left[v + 1] = stream[Sent + (v + 1)] /\ left[v + 1] \in Seq(Scalars)
    BY <1>2, LeftIs
  <2> QED
    BY <1>2, <2>1
<1> DEFINE q == Len(Payload(stream[Sent + v + 1]))
<1>4. At(Sent + v + 1) = At(Sent + v) + HeaderLen + q
  BY <1>1, <1>2, AtIs
<1>5. At(Sent) \in Nat
  BY <1>1, AtIs
<1>6. Len(Pack(left[v + 1])) = HeaderLen + q /\ q \in Nat
  <2>1. Len(Pack(left[v + 1])) = HeaderLen + Len(Payload(left[v + 1])) /\ Len(Payload(left[v + 1])) \in Nat
    BY <1>3, PackIs, SMT
  <2> QED
    BY <1>3, <2>1, Zenon
<1>7. /\ At(Sent + v) = At(Sent) + WholeLen(v) /\ At(Sent + v + 1) = At(Sent) + WholeLen(v + 1)
      /\ WholeLen(v) \in Nat /\ WholeLen(v + 1) \in Nat
  BY <1>2, WireIs, Zenon
<1> HIDE DEF q
<1>8. HeaderLen = 4
  BY DEF HeaderLen
<1>9. WholeLen(v + 1) = WholeLen(v) + (HeaderLen + q)
  <2> DEFINE a == At(Sent)
             b == WholeLen(v)
             c == WholeLen(v + 1)
             d == At(Sent + v)
             f == At(Sent + v + 1)
  <2>1. a \in Nat /\ b \in Nat /\ c \in Nat /\ q \in Nat /\ HeaderLen = 4
    BY <1>5, <1>6, <1>7, <1>8
  <2>2. f = d + HeaderLen + q /\ d = a + b /\ f = a + c
    BY <1>4, <1>7, Zenon
  <2> HIDE DEF a, b, c, d, f
  <2>3. c = b + (HeaderLen + q)
    BY <2>1, <2>2
  <2> QED
    BY <2>3 DEF b, c
<1>a. HeaderLen + q \in Nat
  BY <1>6, <1>8
<1> QED
  BY <1>6, <1>9, <1>a, Zenon

Chunk(w, i) == SubSeq(Wire, done + 1, WholeLen(w) + i)

\* What a delivery does to the decoder.
Takes(chunk) ==
    /\ pc = "idle"
    /\ seen' = seen \o chunk
    /\ inMem' = (Len(mem) > off)
    /\ mem' = IF Len(mem) > off THEN mem \o chunk ELSE mem
    /\ data' = IF Len(mem) > off THEN mem \o chunk ELSE chunk
    /\ offset' = IF Len(mem) > off THEN off ELSE 0
    /\ pc' = "push" /\ p' = 0 /\ vals' = <<>>
    /\ UNCHANGED <<off, st, size, calls>>

LEMMA DeliverTakes ==
    ASSUME Deliver
    PROVE  \E w \in 0..Len(left) : \E i \in 0..(IF w < Len(left) THEN Len(Pack(left[w + 1])) - 1 ELSE 0) :
              Delivery(w, i) /\ Takes(Chunk(w, i))
  BY Zenon DEF Deliver, Takes, Chunk

LEMMA PartIs ==
    ASSUME NEW T, NEW q \in Seq(T), NEW m \in Nat, NEW n \in Nat, m < n, n <= Len(q)
    PROVE  /\ SubSeq(q, m + 1, n) \in Seq(T) /\ Len(SubSeq(q, m + 1, n)) = n - m
           /\ \A x \in 1..n - m : SubSeq(q, m + 1, n)[x] = q[m + x]
  OBVIOUS

LEMMA PacketsPartIs ==
    ASSUME NEW q \in Seq(Seq(Scalars)), NEW m \in Nat, NEW n \in Nat, m < n, n <= Len(q)
    PROVE  /\ SubSeq(q, m + 1, n) \in Seq(Seq(Scalars)) /\ Len(SubSeq(q, m + 1, n)) = n - m
           /\ \A x \in 1..n - m : SubSeq(q, m + 1, n)[x] = q[m + x]
<1> DEFINE T == Seq(Scalars)
<1>1. q \in Seq(T)
  OBVIOUS
<1> HIDE DEF T
<1>2. /\ SubSeq(q, m + 1, n) \in Seq(T) /\ Len(SubSeq(q, m + 1, n)) = n - m
      /\ \A x \in 1..n - m : SubSeq(q, m + 1, n)[x] = q[m + x]
  BY <1>1, PartIs
<1> QED
  BY <1>2 DEF T

\* It takes the bytes up to where it ends, one or more.
LEMMA ChunkIs ==
    ASSUME NetOK, NEW w \in 0..Len(left),
           NEW i \in 0..(IF w < Len(left) THEN Len(Pack(left[w + 1])) - 1 ELSE 0),
           w + i > 0, w = 0 => i > done
    PROVE  /\ Chunk(w, i) \in Seq(Int) /\ Chunk(w, i) # <<>> /\ i \in Nat /\ Len(Chunk(w, i)) \in Nat
           /\ At(Sent) + done + Len(Chunk(w, i)) = At(Sent + w) + i
           /\ \A x \in 1..Len(Chunk(w, i)) :
                Chunk(w, i)[x] = FlattenSeq(Packets(stream))[At(Sent) + done + x]
           /\ At(Sent) + done + Len(Chunk(w, i)) <= Len(FlattenSeq(Packets(stream)))
<1> DEFINE e == WholeLen(w) + i
<1>1. /\ stream \in Seq(Seq(Scalars)) /\ Sent \in 0..Len(stream) /\ left \in Seq(Seq(Scalars))
      /\ Len(left) \in Nat /\ Len(stream) \in Nat /\ Len(left) = Len(stream) - Sent
  BY StreamType, LeftIs, Zenon
<1>2. /\ Wire \in Seq(Int) /\ Len(Wire) \in Nat
      /\ Len(FlattenSeq(Packets(stream))) = At(Sent) + Len(Wire)
      /\ \A x \in 1..Len(Wire) : Wire[x] = FlattenSeq(Packets(stream))[At(Sent) + x]
  BY WireIs
<1>3. \A v \in 0..Len(left) :
         WholeLen(v) \in Nat /\ WholeLen(v) <= Len(Wire) /\ At(Sent + v) = At(Sent) + WholeLen(v)
  BY WireIs
<1>4. \A v \in 0..Len(left) - 1 :
         Len(Pack(left[v + 1])) \in Nat /\ WholeLen(v + 1) = WholeLen(v) + Len(Pack(left[v + 1]))
  BY WireStep
<1>5. i \in Nat /\ WholeLen(w) \in Nat /\ e <= Len(Wire)
  <2>1. CASE w < Len(left)
    <3>1. w \in 0..Len(left) - 1 /\ w + 1 \in 0..Len(left)
      BY <1>1, <2>1
    <3>2. WholeLen(w + 1) <= Len(Wire) /\ WholeLen(w) \in Nat /\ Len(Pack(left[w + 1])) \in Nat
          /\ WholeLen(w + 1) = WholeLen(w) + Len(Pack(left[w + 1]))
      BY <1>3, <1>4, <3>1
    <3>3. i \in 0..Len(Pack(left[w + 1])) - 1
      BY <2>1
    <3> QED
      BY <1>2, <3>2, <3>3
  <2>2. CASE w = Len(left)
    <3>1. i \in 0..0
      BY <1>1, <2>2
    <3> QED
      BY <1>2, <1>3, <3>1
  <2>3. w < Len(left) \/ w = Len(left)
    <3>1. w \in 0..Len(left) /\ Len(left) \in Nat
      BY <1>1
    <3> QED
      BY <3>1
  <2> QED
    BY <2>1, <2>2, <2>3
<1>6. done \in Nat /\ done < e
  <2>1. done \in Nat /\ (left # <<>> => done < Len(Pack(left[1])))
    BY DEF NetOK
  <2>2. CASE w = 0
    BY <1>5, <2>1, <2>2
  <2>3. CASE w # 0
    <3>1. left # <<>> /\ 0 \in 0..Len(left) - 1 /\ 1 \in 0..Len(left)
      BY <1>1, <2>3
    <3>2. WholeLen(1) = WholeLen(0) + Len(Pack(left[1])) /\ WholeLen(0) \in Nat /\ Len(Pack(left[1])) \in Nat
      BY <1>3, <1>4, <3>1
    <3>3. WholeLen(1) <= WholeLen(w)
      <4>1. Sent + 1 \in 0..Len(stream) /\ Sent + w \in 0..Len(stream) /\ Sent + 1 <= Sent + w
        BY <1>1, <2>3
      <4>2. At(Sent + 1) <= At(Sent + w) /\ At(Sent) \in Nat
        BY <1>1, <4>1, AtIs
      <4>3. /\ At(Sent + 1) = At(Sent) + WholeLen(1) /\ At(Sent + w) = At(Sent) + WholeLen(w)
            /\ WholeLen(1) \in Nat /\ WholeLen(w) \in Nat
        BY <1>3, <3>1
      <4> QED
        BY <4>2, <4>3
    <3>4. WholeLen(1) \in Nat /\ WholeLen(w) \in Nat
      BY <1>3, <3>1
    <3> QED
      BY <1>5, <2>1, <3>1, <3>2, <3>3, <3>4
  <2> QED
    BY <2>2, <2>3
<1>7. At(Sent) \in Nat /\ At(Sent + w) = At(Sent) + WholeLen(w)
  BY <1>1, <1>3, AtIs
<1>8. e \in Nat /\ done + 1 \in 1..e /\ Len(Wire) \in Nat
  BY <1>2, <1>5, <1>6
<1> DEFINE c == Chunk(w, i)
<1>9. c \in Seq(Int) /\ Len(c) = e - done /\ \A x \in 1..Len(c) : c[x] = Wire[done + x]
  <2>1. c = SubSeq(Wire, done + 1, e)
    BY DEF Chunk
  <2> HIDE DEF e, c
  <2>2. Wire \in Seq(Int) /\ done \in Nat /\ e \in Nat /\ done < e /\ e <= Len(Wire)
    BY <1>2, <1>5, <1>6, <1>8
  <2>3. /\ SubSeq(Wire, done + 1, e) \in Seq(Int) /\ Len(SubSeq(Wire, done + 1, e)) = e - done
        /\ \A x \in 1..e - done : SubSeq(Wire, done + 1, e)[x] = Wire[done + x]
    BY <2>2, PartIs, Zenon
  <2> QED
    BY <2>1, <2>3
<1> HIDE DEF c
<1>a. Len(c) \in Nat /\ Len(c) > 0 /\ \A x \in 1..Len(c) : done + x \in 1..Len(Wire)
  <2> HIDE DEF e
  <2>1. Len(Wire) \in Nat /\ done \in Nat /\ e \in Nat /\ done < e /\ e <= Len(Wire) /\ Len(c) = e - done
    BY <1>2, <1>5, <1>6, <1>8, <1>9
  <2> QED
    BY <2>1, SMT
<1>b. \A x \in 1..Len(c) : c[x] = FlattenSeq(Packets(stream))[At(Sent) + done + x]
  <2>1. SUFFICES ASSUME NEW x \in 1..Len(c)
                 PROVE  c[x] = FlattenSeq(Packets(stream))[At(Sent) + done + x]
    OBVIOUS
  <2>2. At(Sent) + (done + x) = At(Sent) + done + x
    BY <1>6, <1>7, <1>a
  <2> QED
    BY <1>2, <1>9, <1>a, <2>2
<1>c. At(Sent) + done + Len(c) = At(Sent + w) + i
  BY <1>5, <1>6, <1>7, <1>9
<1>d. At(Sent) + done + Len(c) <= Len(FlattenSeq(Packets(stream)))
  BY <1>2, <1>5, <1>6, <1>7, <1>9
<1>e. c # <<>>
  BY <1>a
<1> QED
  BY <1>5, <1>9, <1>a, <1>b, <1>c, <1>d, <1>e DEF c

LEMMA PlacesStay == ASSUME stream' = stream PROVE \A k : At(k)' = At(k)
  BY DEF At

LEMMA NetQuiet == ASSUME NetOK, UNCHANGED netVars PROVE NetOK'
  BY DEF NetOK, netVars, Sent, At

\* A delivery of w packets and i bytes: what has come is still a prefix.
LEMMA NetDelivery ==
    ASSUME NetOK, NEW w \in 0..Len(left),
           NEW i \in 0..(IF w < Len(left) THEN Len(Pack(left[w + 1])) - 1 ELSE 0),
           Delivery(w, i), seen' = seen \o Chunk(w, i)
    PROVE  NetOK' /\ Sent' = Sent + w /\ Len(seen') = Len(seen) + Len(Chunk(w, i))
<1> DEFINE c == Chunk(w, i)
           f == FlattenSeq(Packets(stream))
<1>1. /\ left' = SubSeq(left, w + 1, Len(left)) /\ done' = i /\ stream' = stream
      /\ w + i > 0 /\ (w = 0 => i > done)
  BY Zenon DEF Delivery
<1>2. /\ c \in Seq(Int) /\ i \in Nat /\ Len(c) \in Nat
      /\ At(Sent) + done + Len(c) = At(Sent + w) + i
      /\ \A x \in 1..Len(c) : c[x] = f[At(Sent) + done + x]
      /\ At(Sent) + done + Len(c) <= Len(f)
  BY <1>1, ChunkIs
<1>3. /\ left \in Seq(Seq(Scalars)) /\ Len(left) \in Nat /\ Len(stream) \in Nat
      /\ Len(left) = Len(stream) - Sent
      /\ \A j \in 1..Len(left) : left[j] = stream[Sent + j]
  BY LeftIs
<1>4. /\ seen \in Seq(Int) /\ Len(seen) = At(Sent) + done /\ IsStart(seen, f)
      /\ stream \in Streams
  BY Zenon DEF NetOK
<1>5. /\ w \in Nat /\ w <= Len(left)
  BY <1>3
<1>6. /\ left' \in Seq(Seq(Scalars)) /\ Len(left') = Len(left) - w
      /\ \A j \in 1..Len(left') : left'[j] = left[w + j]
  <2>1. CASE w < Len(left)
    <3>1. left \in Seq(Seq(Scalars)) /\ w \in Nat /\ Len(left) \in Nat /\ w < Len(left) /\ Len(left) <= Len(left)
      BY <1>3, <1>5, <2>1
    <3>2. /\ SubSeq(left, w + 1, Len(left)) \in Seq(Seq(Scalars))
          /\ Len(SubSeq(left, w + 1, Len(left))) = Len(left) - w
          /\ \A x \in 1..Len(left) - w : SubSeq(left, w + 1, Len(left))[x] = left[w + x]
      BY <3>1, PacketsPartIs, Zenon
    <3> QED
      BY <1>1, <3>2, Zenon
  <2>2. CASE w = Len(left)
    <3>1. left' = <<>>
      BY <1>1, <1>3, <2>2
    <3> QED
      BY <1>3, <2>2, <3>1
  <2> QED
    BY <1>3, <1>5, <2>1, <2>2
<1>7. Sent \in Nat /\ Sent' = Sent + w
  <2>1. Sent \in Nat
    BY StreamType
  <2>2. Sent' = Len(stream) - Len(left')
    BY <1>1 DEF Sent
  <2> QED
    BY <1>3, <1>5, <1>6, <2>1, <2>2
<1>8. IsRest(left', stream', Sent')
  <2>1. ASSUME NEW j \in 1..Len(left') PROVE left'[j] = stream'[Sent' + j]
    <3>0. Len(left') = Len(left) - w /\ w \in Nat /\ Len(left) \in Nat /\ Sent \in Nat /\ Sent' = Sent + w
      BY <1>3, <1>5, <1>6, <1>7
    <3>1. w + j \in 1..Len(left) /\ Sent + (w + j) = Sent' + j
      BY <3>0
    <3> QED
      BY <1>1, <1>3, <1>6, <3>1
  <2>2. Len(left') = Len(stream') - Sent'
    BY <1>1, <1>3, <1>5, <1>6, <1>7
  <2> QED
    BY <2>1, <2>2 DEF IsRest
<1>9. /\ left' # <<>> => done' < Len(Pack(left'[1]))
      /\ left' = <<>> => done' = 0
  <2>1. CASE w < Len(left)
    <3>1. left'[1] = left[w + 1] /\ left' # <<>>
      BY <1>3, <1>5, <1>6, <2>1
    <3>2. w \in 0..Len(left) - 1
      BY <1>3, <1>5, <2>1
    <3>3. Len(Pack(left[w + 1])) \in Nat
      BY <3>2, WireStep
    <3>4. i \in 0..Len(Pack(left[w + 1])) - 1
      BY <2>1
    <3> QED
      BY <1>1, <3>1, <3>3, <3>4
  <2>2. CASE w = Len(left)
    <3>1. left' = <<>> /\ i \in 0..0
      BY <1>3, <1>6, <2>2
    <3> QED
      BY <1>1, <3>1
  <2> QED
    BY <1>3, <1>5, <2>1, <2>2
<1> HIDE DEF c, f
<1>a. /\ seen' \in Seq(Int) /\ Len(seen') = Len(seen) + Len(c)
      /\ \A x \in 1..Len(seen) : seen'[x] = seen[x]
      /\ \A x \in 1..Len(c) : seen'[Len(seen) + x] = c[x]
  <2>1. seen' = seen \o c
    BY DEF c
  <2>2. /\ seen \o c \in Seq(Int) /\ Len(seen \o c) = Len(seen) + Len(c)
        /\ \A x \in 1..Len(seen) : (seen \o c)[x] = seen[x]
        /\ \A x \in 1..Len(c) : (seen \o c)[Len(seen) + x] = c[x]
    <3>1. seen \in Seq(Int) /\ c \in Seq(Int)
      BY <1>2, <1>4
    <3> QED
      BY <3>1, JoinedIs
  <2> QED
    BY <2>1, <2>2, Zenon
<1>b. IsStart(seen', f)
  <2>1. Len(seen') <= Len(f)
    BY <1>2, <1>4, <1>a
  <2>2. ASSUME NEW x \in 1..Len(seen') PROVE seen'[x] = f[x]
    <3>1. Len(seen) \in Nat
      BY <1>4
    <3>2. CASE x \in 1..Len(seen)
      <4>1. \A y \in 1..Len(seen) : seen[y] = f[y]
        BY <1>4, Zenon DEF IsStart
      <4> QED
        BY <1>a, <3>2, <4>1, Zenon
    <3>3. CASE x \notin 1..Len(seen)
      <4> DEFINE y == x - Len(seen)
      <4>1. y \in 1..Len(c) /\ Len(seen) + y = x
        BY <1>2, <1>a, <3>1, <3>3
      <4> HIDE DEF y
      <4>2. seen'[x] = f[At(Sent) + done + y]
        BY <1>2, <1>a, <4>1
      <4>3. At(Sent) + done + y = x
        BY <1>4, <4>1, Zenon
      <4> QED
        BY <4>2, <4>3, Zenon
    <3> QED
      BY <3>2, <3>3, Zenon
  <2> QED
    BY <2>1, <2>2, Zenon DEF IsStart
<1>c. IsStart(seen', FlattenSeq(Packets(stream')))
  BY <1>1, <1>b, Zenon DEF f
<1>d. Len(seen') = At(Sent)' + done'
  <2>1. At(Sent)' = At(Sent + w)
    BY <1>1, <1>7 DEF At
  <2>2. Len(seen') = At(Sent + w) + i
    BY <1>2, <1>4, <1>a, Zenon
  <2> QED
    BY <1>1, <2>1, <2>2, Zenon
<1>e. Len(left') <= Len(stream') /\ done' \in Nat /\ stream' \in Streams
  <2>1. Len(left') <= Len(stream)
    BY <1>3, <1>5, <1>6, <1>7
  <2> QED
    BY <1>1, <1>2, <1>4, <2>1, Zenon
<1>f. NetOK'
  BY <1>6, <1>8, <1>9, <1>a, <1>c, <1>d, <1>e, Zenon DEF NetOK
<1> QED
  BY <1>7, <1>a, <1>f, Zenon DEF c

-----------------------------------------------------------------------------
(* Ends of sequences *)

LEMMA EndJoined ==
    ASSUME NEW a \in Seq(Int), NEW b \in Seq(Int), NEW c \in Seq(Int), IsEnd(a, b)
    PROVE  IsEnd(a \o c, b \o c)
<1> DEFINE d == a \o c
           e == b \o c
<1>1. /\ d \in Seq(Int) /\ Len(d) = Len(a) + Len(c)
      /\ \A i \in 1..Len(a) : d[i] = a[i]
      /\ \A i \in 1..Len(c) : d[Len(a) + i] = c[i]
  BY JoinedIs
<1>2. /\ e \in Seq(Int) /\ Len(e) = Len(b) + Len(c)
      /\ \A i \in 1..Len(b) : e[i] = b[i]
      /\ \A i \in 1..Len(c) : e[Len(b) + i] = c[i]
  BY JoinedIs
<1>3. Len(a) \in Nat /\ Len(b) \in Nat /\ Len(c) \in Nat /\ Len(a) <= Len(b)
  BY DEF IsEnd
<1>4. \A i \in 1..Len(a) : a[i] = b[Len(b) - Len(a) + i]
  BY DEF IsEnd
<1> HIDE DEF d, e
<1>5. ASSUME NEW i \in 1..Len(d) PROVE d[i] = e[Len(e) - Len(d) + i]
  <2>1. CASE i <= Len(a)
    <3>0. i \in Nat /\ i >= 1 /\ Len(e) = Len(b) + Len(c) /\ Len(d) = Len(a) + Len(c)
      BY <1>1, <1>2, <1>3
    <3>1. i \in 1..Len(a) /\ Len(b) - Len(a) + i \in 1..Len(b) /\ Len(e) - Len(d) + i = Len(b) - Len(a) + i
      BY <1>3, <2>1, <3>0
    <3> QED
      BY <1>1, <1>2, <1>4, <3>1
  <2>2. CASE i > Len(a)
    <3> DEFINE j == i - Len(a)
    <3>1. j \in 1..Len(c) /\ Len(a) + j = i /\ Len(e) - Len(d) + i = Len(b) + j
      BY <1>1, <1>2, <1>3, <2>2
    <3> HIDE DEF j
    <3>2. d[Len(a) + j] = c[j] /\ e[Len(b) + j] = c[j]
      BY <1>1, <1>2, <3>1
    <3> QED
      BY <3>1, <3>2
  <2> QED
    BY <1>3, <2>1, <2>2
<1>6. Len(d) <= Len(e)
  BY <1>1, <1>2, <1>3
<1> QED
  BY <1>5, <1>6 DEF IsEnd, d, e

LEMMA EndItself ==
    ASSUME NEW b \in Seq(Int), NEW c \in Seq(Int)
    PROVE  IsEnd(c, b \o c)
<1> DEFINE e == b \o c
<1>1. /\ e \in Seq(Int) /\ Len(e) = Len(b) + Len(c)
      /\ \A i \in 1..Len(c) : e[Len(b) + i] = c[i]
  BY JoinedIs
<1>2. Len(b) \in Nat /\ Len(c) \in Nat
  OBVIOUS
<1> HIDE DEF e
<1>3. Len(c) <= Len(e) /\ Len(e) - Len(c) = Len(b)
  BY <1>1, <1>2
<1> QED
  BY <1>1, <1>3 DEF IsEnd, e

\* What is left of an end behind some of its elements is an end too.
LEMMA EndPart ==
    ASSUME NEW a \in Seq(Int), NEW b \in Seq(Int), IsEnd(a, b), NEW m \in Nat, m < Len(a)
    PROVE  /\ SubSeq(a, m + 1, Len(a)) \in Seq(Int) /\ Len(SubSeq(a, m + 1, Len(a))) = Len(a) - m
           /\ IsEnd(SubSeq(a, m + 1, Len(a)), b)
<1> DEFINE d == SubSeq(a, m + 1, Len(a))
<1>1. Len(a) \in Nat /\ Len(b) \in Nat /\ Len(a) <= Len(b)
  BY DEF IsEnd
<1>2. d \in Seq(Int) /\ Len(d) = Len(a) - m /\ \A x \in 1..Len(a) - m : d[x] = a[m + x]
  BY <1>1, PartIs
<1>3. \A i \in 1..Len(a) : a[i] = b[Len(b) - Len(a) + i]
  BY DEF IsEnd
<1> HIDE DEF d
<1>4. ASSUME NEW x \in 1..Len(d) PROVE d[x] = b[Len(b) - Len(d) + x]
  <2>1. m + x \in 1..Len(a) /\ x \in 1..Len(a) - m /\ Len(b) - Len(a) + (m + x) = Len(b) - Len(d) + x
    <3>1. Len(d) = Len(a) - m
      BY <1>2
    <3> QED
      BY <1>1, <3>1
  <2> QED
    BY <1>2, <1>3, <2>1
<1>5. Len(d) <= Len(b)
  BY <1>1, <1>2
<1> QED
  BY <1>2, <1>4, <1>5 DEF IsEnd, d

LEMMA EndIsPart ==
    ASSUME NEW a \in Seq(Int), NEW b \in Seq(Int), IsEnd(a, b)
    PROVE  a = SubSeq(b, Len(b) - Len(a) + 1, Len(b))
<1> DEFINE n == Len(b) - Len(a)
           d == SubSeq(b, n + 1, Len(b))
<1>1. Len(a) \in Nat /\ Len(b) \in Nat /\ Len(a) <= Len(b) /\ n \in Nat /\ n <= Len(b)
  BY DEF IsEnd
<1>2. \A i \in 1..Len(a) : a[i] = b[n + i]
  BY DEF IsEnd
<1>3. CASE n < Len(b)
  <2>1. d \in Seq(Int) /\ Len(d) = Len(b) - n /\ \A x \in 1..Len(b) - n : d[x] = b[n + x]
    BY <1>1, <1>3, PartIs
  <2>2. Len(b) - n = Len(a)
    BY <1>1
  <2> HIDE DEF d, n
  <2>3. a = d
    <3>1. Len(a) = Len(d) /\ \A x \in 1..Len(a) : a[x] = d[x]
      BY <1>2, <2>1, <2>2
    <3> QED
      BY <2>1, <3>1, SeqEqual, Zenon
  <2> QED
    BY <2>3 DEF d, n
<1>4. CASE n = Len(b)
  <2>1. a = <<>> /\ d = <<>>
    BY <1>1, <1>4
  <2> QED
    BY <2>1
<1> QED
  BY <1>1, <1>3, <1>4

-----------------------------------------------------------------------------
(* What the decoder keeps *)

LEMMA KeptDelivery ==
    ASSUME Kept, seen \in Seq(Int), NEW c \in Seq(Int), c # <<>>, Takes(c)
    PROVE  Kept'
<1>1. /\ pc = "idle" /\ pc' = "push" /\ p' = 0 /\ vals' = <<>> /\ off' = off /\ calls' = calls
      /\ seen' = seen \o c /\ inMem' = (Len(mem) > off)
  BY Zenon DEF Takes
<1>2. /\ mem' = IF Len(mem) > off THEN mem \o c ELSE mem
      /\ data' = IF Len(mem) > off THEN mem \o c ELSE c
      /\ offset' = IF Len(mem) > off THEN off ELSE 0
  BY Zenon DEF Takes
<1>3. /\ mem \in Seq(Int) /\ off \in Nat /\ calls \in Seq(Seq(Scalars)) /\ IsEnd(mem, seen)
      /\ mem # <<>> => off < Len(mem)
  BY <1>1, Zenon DEF Kept
<1>4. Len(mem) \in Nat /\ Len(c) \in Nat /\ Len(c) > 0
  BY <1>3
<1>5. CASE Len(mem) > off
  <2>1. mem \o c \in Seq(Int) /\ Len(mem \o c) = Len(mem) + Len(c)
    BY <1>3, JoinedIs
  <2>2. IsEnd(mem \o c, seen \o c)
    BY <1>3, EndJoined
  <2>3. mem' = mem \o c /\ data' = mem \o c /\ offset' = off /\ inMem' = TRUE
    BY <1>1, <1>2, <1>5, Zenon
  <2>4. off < Len(mem \o c)
    BY <1>3, <1>4, <1>5, <2>1
  <2>5. mem' \in Seq(Int) /\ data' \in Seq(Int) /\ off' \in Nat /\ offset' \in Nat /\ inMem' \in BOOLEAN
        /\ off' < Len(mem') /\ offset' < Len(data') /\ IsEnd(data', seen') /\ data' = mem'
    BY <1>1, <1>3, <2>1, <2>2, <2>3, <2>4, Zenon
  <2>6. vals' \in Seq(Scalars) /\ p' \in Nat
    BY <1>1, EmptySeq
  <2> QED
    BY <1>1, <1>3, <2>3, <2>5, <2>6, Zenon DEF Kept
<1>6. CASE ~ (Len(mem) > off)
  <2>1. mem = <<>>
    BY <1>3, <1>4, <1>6
  <2>2. mem' = <<>> /\ data' = c /\ offset' = 0
    BY <1>2, <1>6, <2>1, Zenon
  <2>6. inMem' \in BOOLEAN /\ ~inMem'
    <3>1. (Len(mem) > off) \in BOOLEAN
      BY <1>3, <1>4, SMT
    <3>2. inMem' \in BOOLEAN
      BY <1>1, <3>1, Zenon
    <3>3. ~inMem'
      BY <1>1, <1>6, Zenon
    <3> QED
      BY <3>2, <3>3
  <2>3. IsEnd(data', seen')
    BY <1>1, <2>2, EndItself
  <2>4. offset' \in Nat /\ offset' < Len(data') /\ p' \in Nat /\ vals' \in Seq(Scalars)
    BY <1>1, <1>4, <2>2, EmptySeq
  <2>5. mem' \in Seq(Int) /\ data' \in Seq(Int) /\ off' \in Nat
    BY <1>1, <1>3, <2>2, EmptySeq, Zenon
  <2> QED
    BY <1>1, <1>3, <2>2, <2>3, <2>4, <2>5, <2>6, Zenon DEF Kept
<1> QED
  BY <1>5, <1>6, Zenon

\* defparser_push returns: nothing is lost, wherever the unused bytes are kept.
LEMMA KeptReturned ==
    ASSUME Kept, seen \in Seq(Int), pc # "idle", NEW u \in Int, NEW s, Returned(u, s, vals)
    PROVE  Kept'
<1>1. /\ mem \in Seq(Int) /\ data \in Seq(Int) /\ off \in Nat /\ offset \in Nat /\ p \in Nat
      /\ vals \in Seq(Scalars) /\ calls \in Seq(Seq(Scalars)) /\ inMem \in BOOLEAN
      /\ IsEnd(data, seen) /\ offset < Len(data)
      /\ inMem => data = mem
      /\ ~inMem => mem = <<>>
      /\ mem # <<>> => off < Len(mem)
  BY Zenon DEF Kept
<1>2. seen' = seen /\ data' = data /\ inMem' = inMem /\ p' = 0
  BY Zenon DEF Returned, netVars
<1>3. CASE u > 0
  <2>1. ~ (u <= 0)
    BY <1>3
  <2>2. /\ offset' = offset + u /\ mem' = mem /\ off' = off
        /\ pc' = IF Len(data) > offset + u THEN "push" ELSE "idle"
        /\ calls' = IF s = "START" THEN Append(calls, vals) ELSE calls
        /\ vals' = IF s = "START" \/ pc' = "idle" THEN <<>> ELSE vals
    BY <2>1, Zenon DEF Returned
  <2>3. offset' \in Nat /\ p' \in Nat
    BY <1>1, <1>2, <1>3, <2>2
  <2>4. vals' \in Seq(Scalars) /\ calls' \in Seq(Seq(Scalars))
    <3>1. <<>> \in Seq(Scalars) /\ Append(calls, vals) \in Seq(Seq(Scalars))
      BY <1>1, EmptySeq, AppendProperties
    <3> QED
      BY <1>1, <2>2, <3>1, Zenon
  <2>5. CASE Len(data) > offset + u
    <3>1. pc' = "push" /\ offset' < Len(data')
      <4>1. Len(data) \in Nat
        BY <1>1
      <4> QED
        BY <1>1, <1>2, <2>2, <2>5, <4>1
    <3> QED
      BY <1>1, <1>2, <2>2, <2>3, <2>4, <3>1, Zenon DEF Kept
  <2>6. CASE ~ (Len(data) > offset + u)
    <3>1. pc' = "idle"
      BY <2>2, <2>6, Zenon
    <3>2. IsEnd(mem, seen)
      <4>1. CASE inMem
        BY <1>1, <4>1, Zenon
      <4>2. CASE ~inMem
        <5>1. mem = <<>>
          BY <1>1, <4>2, Zenon
        <5> QED
          BY <5>1 DEF IsEnd
      <4> QED
        BY <4>1, <4>2, Zenon
    <3> QED
      BY <1>1, <1>2, <2>2, <2>3, <2>4, <3>1, <3>2, Zenon DEF Kept
  <2> QED
    BY <2>5, <2>6, Zenon
<1>4. CASE u <= 0
  <2>1. ~ (u > 0)
    BY <1>4
  <2>2. /\ mem' = IF inMem THEN mem ELSE mem \o Rest
        /\ off' = KeptOffset
        /\ pc' = "idle" /\ vals' = <<>> /\ offset' = offset /\ calls' = calls
    BY <2>1, Zenon DEF Returned
  <2>3. offset' \in Nat /\ p' \in Nat /\ vals' \in Seq(Scalars)
    BY <1>1, <1>2, <2>2, EmptySeq
  <2>4. CASE inMem
    <3>1. mem' = mem /\ off' = offset /\ data = mem
      BY <1>1, <2>2, <2>4, Zenon DEF KeptOffset
    <3>2. off' \in Nat /\ off' < Len(mem') /\ IsEnd(mem', seen')
      BY <1>1, <1>2, <3>1, Zenon
    <3> QED
      BY <1>1, <1>2, <2>2, <2>3, <3>1, <3>2, Zenon DEF Kept
  <2>5. CASE ~inMem
    <3>1. /\ Rest \in Seq(Int) /\ Len(Rest) = Len(data) - offset /\ IsEnd(Rest, seen)
      BY <1>1, EndPart DEF Rest
    <3>2. mem = <<>> /\ mem' = mem \o Rest
      BY <1>1, <2>2, <2>5, Zenon
    <3>3. mem' = Rest
      BY <3>1, <3>2, ConcatEmptySeq
    <3>4. off' = 0
      BY <2>2, <2>5, Zenon DEF KeptOffset
    <3>5. off' \in Nat /\ off' < Len(mem')
      <4>1. Len(data) \in Nat
        BY <1>1
      <4> QED
        BY <1>1, <3>1, <3>3, <3>4, <4>1
    <3>6. mem' \in Seq(Int) /\ IsEnd(mem', seen')
      BY <1>2, <3>1, <3>3, Zenon
    <3> QED
      BY <1>1, <1>2, <2>2, <2>3, <3>5, <3>6, Zenon DEF Kept
  <2> QED
    BY <2>4, <2>5, Zenon
<1> QED
  BY <1>3, <1>4

\* The variables that the loops of defparser_push leave alone.
heldVars == <<netVars, mem, off, data, offset, inMem, calls>>

LEMMA KeptLoops ==
    ASSUME Kept, pc # "idle", UNCHANGED heldVars, pc' \in {"push", "parse"}, p' \in Nat,
           vals' \in Seq(Scalars)
    PROVE  Kept'
<1>1. /\ seen' = seen /\ mem' = mem /\ off' = off /\ data' = data /\ offset' = offset
      /\ inMem' = inMem /\ calls' = calls
  BY Zenon DEF heldVars, netVars
<1>2. pc' \in {"idle", "push", "parse"} /\ pc' # "idle"
  BY Zenon
<1> QED
  BY <1>1, <1>2, Zenon DEF Kept

\* A value is pushed, and the decoder goes on behind it.
LEMMA Pushed ==
    ASSUME Kept, PushData
    PROVE  /\ pc = "parse" /\ pc' = pc /\ UNCHANGED heldVars /\ UNCHANGED <<st, size>>
           /\ p' \in Nat /\ vals' \in Seq(Scalars)
<1>1. pc = "parse" /\ pc' = pc /\ UNCHANGED heldVars /\ UNCHANGED <<st, size>>
  BY Zenon DEF PushData, Values, heldVars
<1>2. p \in Nat /\ vals \in Seq(Scalars)
  BY Zenon DEF Kept
<1>3. p + 1 \in Nat /\ p + 2 \in Nat
  BY <1>2
<1>4. \A v \in Scalars : Append(vals, v) \in Seq(Scalars)
  BY <1>2, AppendProperties
<1>5. "nil" \in Scalars /\ \A b : (IF b = 0 THEN "false" ELSE "true") \in Scalars
  BY Zenon DEF Scalars
<1>6. CASE vals' = Append(vals, "nil") /\ p' = p + 1
  BY <1>1, <1>3, <1>4, <1>5, <1>6, Zenon
<1>7. CASE /\ \E b \in IF p + 1 < Size THEN {Byte(p + 1)} ELSE IF inMem THEN {0, 1} ELSE {0} :
                 vals' = Append(vals, IF b = 0 THEN "false" ELSE "true")
           /\ p' = p + 2
  <2>1. PICK b : vals' = Append(vals, IF b = 0 THEN "false" ELSE "true")
    BY <1>7, Zenon
  <2> QED
    BY <1>1, <1>3, <1>4, <1>5, <1>7, <2>1, Zenon
<1> QED
  BY <1>6, <1>7, Zenon DEF PushData

LEMMA KeptStep == ASSUME Kept, seen \in Seq(Int), DecStep PROVE Kept'
<1>1. p \in Nat /\ vals \in Seq(Scalars) /\ p \in Int /\ p + HeaderLen \in Nat /\ p + 1 \in Nat /\ -1 \in Int
  <2>1. p \in Nat /\ vals \in Seq(Scalars)
    BY Zenon DEF Kept
  <2> QED
    BY <2>1 DEF HeaderLen
<1>2. CASE PushEnds
  <2>1. pc # "idle" /\ Returned(p, st, vals)
    BY <1>2, Zenon DEF PushEnds
  <2> QED
    BY <1>1, <2>1, KeptReturned, Zenon
<1>3. CASE HeaderMissing
  <2>1. pc # "idle" /\ Returned(p, st, vals)
    BY <1>3, Zenon DEF HeaderMissing
  <2> QED
    BY <1>1, <2>1, KeptReturned, Zenon
<1>4. CASE Header
  <2>1. pc = "push" /\ pc' = "push" /\ UNCHANGED heldVars /\ p' = p + HeaderLen /\ vals' = vals
    BY <1>4, Zenon DEF Header, heldVars
  <2> QED
    BY <1>1, <2>1, KeptLoops, Zenon
<1>5. CASE DataStart
  <2>1. pc = "push" /\ pc' = "parse" /\ UNCHANGED heldVars /\ p' = p /\ vals' = vals
    BY <1>5, Zenon DEF DataStart, heldVars
  <2> QED
    BY <1>1, <2>1, KeptLoops, Zenon
<1>6. CASE Spin
  <2>1. pc = "push" /\ pc' = "push" /\ UNCHANGED heldVars /\ p' = p /\ vals' = vals
    BY <1>6, Zenon DEF Spin, heldVars, decVars
  <2> QED
    BY <1>1, <2>1, KeptLoops, Zenon
<1>7. CASE PushData
  <2>1. pc # "idle" /\ pc' \in {"push", "parse"}
    BY <1>7, Pushed, Zenon
  <2> QED
    BY <1>7, <2>1, Pushed, KeptLoops, Zenon
<1>8. CASE BadData
  <2>1. pc # "idle" /\ Returned(-1, "ERRORDATA", vals)
    BY <1>8, Zenon DEF BadData, Values
  <2> QED
    BY <1>1, <2>1, KeptReturned, Zenon
<1>9. CASE EndOfPacket
  <2>1. pc = "parse" /\ pc' = "push" /\ UNCHANGED heldVars /\ p' = p + 1 /\ vals' = vals
    BY <1>9, Zenon DEF EndOfPacket, heldVars, Skip
  <2> QED
    BY <1>1, <2>1, KeptLoops, Zenon
<1> QED
  BY <1>2, <1>3, <1>4, <1>5, <1>6, <1>7, <1>8, <1>9, Zenon DEF DecStep

LEMMA StepQuiet == ASSUME DecStep PROVE UNCHANGED netVars
  BY Zenon DEF DecStep, PushEnds, HeaderMissing, Header, DataStart, Spin, PushData, BadData,
     EndOfPacket, Returned, decVars

\* The bytes that have come and the bytes that are kept, over one step.
LEMMA FramingStep ==
    ASSUME NetOK, Kept, [DecNext]_decVars
    PROVE  NetOK' /\ Kept'
<1>0. seen \in Seq(Int)
  BY Zenon DEF NetOK
<1>1. CASE Deliver
  <2>1. PICK w \in 0..Len(left) : \E i \in 0..(IF w < Len(left) THEN Len(Pack(left[w + 1])) - 1 ELSE 0) :
              Delivery(w, i) /\ Takes(Chunk(w, i))
    BY <1>1, DeliverTakes, Zenon
  <2>2. PICK i \in 0..(IF w < Len(left) THEN Len(Pack(left[w + 1])) - 1 ELSE 0) :
              Delivery(w, i) /\ Takes(Chunk(w, i))
    BY <2>1, Zenon
  <2>3. w + i > 0 /\ (w = 0 => i > done) /\ seen' = seen \o Chunk(w, i)
    BY <2>2, Zenon DEF Delivery, Takes
  <2>4. NetOK'
    BY <2>2, <2>3, NetDelivery, Zenon
  <2>5. Chunk(w, i) \in Seq(Int) /\ Chunk(w, i) # <<>>
    BY <2>3, ChunkIs, Zenon
  <2>6. Kept'
    BY <1>0, <2>2, <2>5, KeptDelivery, Zenon
  <2> QED
    BY <2>4, <2>6
<1>2. CASE DecStep
  BY <1>0, <1>2, StepQuiet, NetQuiet, KeptStep, Zenon
<1>3. CASE UNCHANGED decVars
  <2>1. UNCHANGED netVars
    BY <1>3, Zenon DEF decVars
  <2>2. Kept'
    BY <1>3, Zenon DEF Kept, decVars, netVars
  <2> QED
    BY <2>1, <2>2, NetQuiet, Zenon
<1> QED
  BY <1>1, <1>2, <1>3, Zenon DEF DecNext

LEMMA FramingInit == ASSUME DecInit PROVE NetOK /\ Kept
<1>1. /\ stream \in Streams /\ left = stream /\ done = 0 /\ mem = <<>> /\ off = 0 /\ pc = "idle"
      /\ data = <<>> /\ offset = 0 /\ inMem = FALSE /\ p = 0 /\ vals = <<>> /\ calls = <<>> /\ seen = <<>>
  BY Zenon DEF DecInit
<1>2. stream \in Seq(Seq(Scalars))
  BY <1>1, StreamAssumption, Zenon
<1>3. Len(stream) \in Nat /\ Len(left) = Len(stream) /\ Sent = 0
  BY <1>1, <1>2 DEF Sent
<1>4. IsRest(left, stream, Sent)
  BY <1>1, <1>3 DEF IsRest
<1>5. At(Sent) = 0
  BY <1>2, <1>3, AtIs
<1>6. <<>> \in Seq(Int) /\ <<>> \in Seq(Scalars) /\ <<>> \in Seq(Seq(Scalars)) /\ Len(<<>>) = 0
  BY EmptySeq
<1>7. IsStart(<<>>, FlattenSeq(Packets(stream)))
  <2>1. FlattenSeq(Packets(stream)) \in Seq(Int)
    BY <1>2, PacketsAre, UptoWhole
  <2>2. Len(FlattenSeq(Packets(stream))) \in Nat
    BY <2>1
  <2> QED
    BY <1>6, <2>2 DEF IsStart
<1>8. left # <<>> => done < Len(Pack(left[1]))
  <2>1. SUFFICES ASSUME left # <<>> PROVE done < Len(Pack(left[1]))
    OBVIOUS
  <2>2. left[1] \in Seq(Scalars)
    BY <1>1, <1>2, <2>1
  <2>3. Len(Pack(left[1])) = HeaderLen + Len(Payload(left[1])) /\ Len(Payload(left[1])) \in Nat
    BY <2>2, PackIs
  <2> QED
    BY <1>1, <2>3 DEF HeaderLen
<1>9. NetOK
  <2>1. Len(left) <= Len(stream) /\ Len(seen) = At(Sent) + done /\ done \in Nat
    BY <1>1, <1>3, <1>5, <1>6
  <2> QED
    BY <1>1, <1>2, <1>4, <1>6, <1>7, <1>8, <2>1, Zenon DEF NetOK
<1>a. IsEnd(<<>>, <<>>) /\ 0 \in Nat
  BY DEF IsEnd
<1>b. Kept
  BY <1>1, <1>6, <1>a, Zenon DEF Kept
<1> QED
  BY <1>9, <1>b

LEMMA Framing == DecSpec => [](NetOK /\ Kept)
  BY FramingInit, FramingStep, PTL DEF DecSpec

\* Wherever the network cuts the stream, between two calls the decoder keeps the
\* latest bytes that came, each once, and the unused ones are ahead of the offset.
THEOREM DecoderKeepsLatest == DecSpec => []KeptAreLatest
<1>1. ASSUME NetOK, Kept PROVE KeptAreLatest
  <2>1. SUFFICES ASSUME pc = "idle"
                 PROVE  /\ mem = SubSeq(seen, Len(seen) - Len(mem) + 1, Len(seen))
                        /\ mem # <<>> => off < Len(mem)
    BY Zenon DEF KeptAreLatest
  <2>2. mem \in Seq(Int) /\ IsEnd(mem, seen) /\ (mem # <<>> => off < Len(mem)) /\ seen \in Seq(Int)
    BY <1>1, <2>1, Zenon DEF Kept, NetOK
  <2> QED
    BY <2>2, EndIsPart, Zenon
<1> QED
  BY <1>1, Framing, PTL

-----------------------------------------------------------------------------
(* Where the decoder is in the stream *)

\* A call is running, and every delivery has ended with a packet or with its length.
Reading ==
    /\ NetOK /\ Kept /\ Clean /\ pc # "idle" /\ offset = 0 /\ mem = <<>>
    /\ done \in {0, HeaderLen} /\ (WholeOnly => done = 0)

LEMMA ReadingIs ==
    ASSUME Reading
    PROVE  /\ ~inMem /\ Len(data) \in Nat /\ Len(data) > 0 /\ p \in Nat /\ Size = Len(data)
           /\ Len(seen) \in Nat /\ Len(data) <= Len(seen) /\ Len(seen) = At(Sent) + done
           /\ Pos = Len(seen) - Len(data) + p /\ Pos \in Nat
           /\ (p < Size <=> Pos < Len(seen))
           /\ done = 0 \/ done = 4
           /\ At(Sent) \in Nat /\ Sent \in Nat /\ Len(stream) \in Nat /\ Sent <= Len(stream)
<1>1. /\ pc # "idle" /\ offset = 0 /\ mem = <<>> /\ NetOK /\ Kept /\ done \in {0, HeaderLen}
  BY Zenon DEF Reading
<1>2. /\ data \in Seq(Int) /\ p \in Nat /\ IsEnd(data, seen) /\ offset < Len(data)
      /\ (inMem => data = mem) /\ seen \in Seq(Int) /\ Len(seen) = At(Sent) + done
  BY <1>1, Zenon DEF Kept, NetOK
<1>3. Len(data) \in Nat /\ Len(seen) \in Nat /\ Len(data) > 0 /\ Len(data) <= Len(seen)
  BY <1>1, <1>2 DEF IsEnd
<1>4. ~inMem
  <2>1. mem = <<>> => Len(mem) = 0
    BY EmptySeq
  <2> QED
    BY <1>1, <1>2, <1>3, <2>1
<1>5. Size = Len(data) /\ Pos = Len(seen) - Len(data) + p
  BY <1>1, <1>2, <1>3 DEF Size, Pos
<1>6. Pos \in Nat /\ (p < Size <=> Pos < Len(seen))
  BY <1>2, <1>3, <1>5
<1>7. stream \in Seq(Seq(Scalars)) /\ Sent \in 0..Len(stream)
  BY <1>1, StreamType
<1>8. At(Sent) \in Nat /\ Sent \in Nat /\ Len(stream) \in Nat /\ Sent <= Len(stream)
  BY <1>7, AtIs
<1>9. done = 0 \/ done = 4
  BY <1>1 DEF HeaderLen
<1> QED
  BY <1>2, <1>3, <1>4, <1>5, <1>6, <1>8, <1>9, Zenon

\* The byte d behind p is the one of the stream at that place.
LEMMA ByteIs ==
    ASSUME Reading, NEW d \in Nat, Pos + d < Len(seen)
    PROVE  /\ p + d < Size
           /\ Byte(p + d) = FlattenSeq(Packets(stream))[Pos + d + 1]
<1> DEFINE f == FlattenSeq(Packets(stream))
<1>1. /\ Len(data) \in Nat /\ p \in Nat /\ Size = Len(data) /\ Len(seen) \in Nat
      /\ Len(data) <= Len(seen) /\ Pos = Len(seen) - Len(data) + p
  BY ReadingIs
<1>2. offset = 0 /\ IsEnd(data, seen) /\ IsStart(seen, f)
  BY Zenon DEF Reading, Kept, NetOK
<1> HIDE DEF f
<1>3. /\ \A i \in 1..Len(data) : data[i] = seen[Len(seen) - Len(data) + i]
      /\ \A i \in 1..Len(seen) : seen[i] = f[i]
  BY <1>2, Zenon DEF IsEnd, IsStart
<1>4. p + d + 1 \in 1..Len(data) /\ p + d < Size /\ offset + (p + d) + 1 = p + d + 1
  BY <1>1, <1>2
<1>5. /\ Len(seen) - Len(data) + (p + d + 1) = Pos + d + 1 /\ Pos + d + 1 \in 1..Len(seen)
  BY <1>1
<1>6. Byte(p + d) = data[p + d + 1]
  BY <1>4 DEF Byte
<1>7. data[p + d + 1] = seen[Pos + d + 1]
  BY <1>3, <1>4, <1>5
<1>8. seen[Pos + d + 1] = f[Pos + d + 1]
  BY <1>3, <1>5
<1> QED
  BY <1>4, <1>6, <1>7, <1>8, Zenon DEF f

\* In front of packet k + 1, at byte d of it.
LEMMA PacketByte ==
    ASSUME Reading, NEW k \in 0..Len(stream) - 1, NEW d \in Nat,
           d < HeaderLen + Len(Payload(stream[k + 1])),
           NEW e \in Nat, Pos + e = At(k) + d, Pos + e < Len(seen)
    PROVE  p + e < Size /\ Byte(p + e) = Pack(stream[k + 1])[d + 1]
<1>1. NetOK /\ stream \in Seq(Seq(Scalars))
  BY StreamType, Zenon DEF Reading
<1>2. /\ At(k) \in Nat /\ Len(Payload(stream[k + 1])) \in Nat /\ k + 1 \in 1..Len(stream)
      /\ Pos \in Nat
  <2>1. k \in 0..Len(stream) /\ k + 1 \in 1..Len(stream)
    BY <1>1
  <2> QED
    BY <1>1, <2>1, AtIs, ReadingIs
<1>3. Len(Pack(stream[k + 1])) = HeaderLen + Len(Payload(stream[k + 1]))
  <2>1. stream[k + 1] \in Seq(Scalars)
    BY <1>1, <1>2
  <2> QED
    BY <2>1, PackIs
<1>4. d + 1 \in 1..Len(Pack(stream[k + 1])) /\ Pos + e + 1 = At(k) + (d + 1)
  BY <1>2, <1>3 DEF HeaderLen
<1>5. p + e < Size /\ Byte(p + e) = FlattenSeq(Packets(stream))[Pos + e + 1]
  BY ByteIs
<1>6. FlattenSeq(Packets(stream))[At(k) + (d + 1)] = Pack(stream[k + 1])[d + 1]
  BY <1>1, <1>4, StreamAt
<1> QED
  BY <1>4, <1>5, <1>6, Zenon

\* What is known of packet k + 1 when the bytes that came reach into it.
LEMMA Within ==
    ASSUME Reading, NEW k \in 0..Sent
    PROVE  /\ At(k) \in Nat /\ At(k) <= At(Sent)
           /\ (k < Sent \/ done = 4) => k \in 0..Len(stream) - 1
           /\ k < Sent => /\ At(k) + 4 + Len(Payload(stream[k + 1])) <= At(Sent)
                          /\ At(k + 1) = At(k) + 4 + Len(Payload(stream[k + 1]))
                          /\ Len(Payload(stream[k + 1])) \in Nat \ {0}
                          /\ stream[k + 1] \in Seq(Scalars)
<1>1. NetOK /\ stream \in Seq(Seq(Scalars)) /\ Sent \in 0..Len(stream) /\ Len(stream) \in Nat
  BY StreamType, LeftIs, Zenon DEF Reading
<1>2. k \in 0..Len(stream) /\ Sent \in Nat /\ k <= Sent /\ k \in Nat
  BY <1>1
<1>3. At(k) \in Nat /\ At(k) <= At(Sent) /\ At(Sent) \in Nat
  BY <1>1, <1>2, AtIs
<1>4. ASSUME k < Sent
      PROVE  /\ k \in 0..Len(stream) - 1
             /\ At(k) + 4 + Len(Payload(stream[k + 1])) <= At(Sent)
             /\ At(k + 1) = At(k) + 4 + Len(Payload(stream[k + 1]))
             /\ Len(Payload(stream[k + 1])) \in Nat \ {0}
             /\ stream[k + 1] \in Seq(Scalars)
  <2>1. k \in 0..Len(stream) - 1 /\ k + 1 \in 0..Len(stream) /\ k + 1 <= Sent /\ k + 1 \in 1..Len(stream)
    BY <1>1, <1>2, <1>4
  <2>2. /\ At(k + 1) = At(k) + HeaderLen + Len(Payload(stream[k + 1]))
        /\ Len(Payload(stream[k + 1])) \in Nat \ {0} /\ At(k + 1) <= At(Sent)
    BY <1>1, <2>1, AtIs
  <2>3. stream[k + 1] \in Seq(Scalars)
    BY <1>1, <2>1
  <2>4. HeaderLen = 4
    BY DEF HeaderLen
  <2>5. At(k + 1) = At(k) + 4 + Len(Payload(stream[k + 1]))
    BY <2>2, <2>4, Zenon
  <2>6. At(k) + 4 + Len(Payload(stream[k + 1])) <= At(Sent)
    BY <2>2, <2>5, Zenon
  <2> QED
    BY <2>1, <2>2, <2>3, <2>5, <2>6, Zenon
<1>5. ASSUME done = 4 PROVE k \in 0..Len(stream) - 1
  <2>1. left # <<>>
    BY <1>1, <1>5 DEF NetOK
  <2>2. left \in Seq(Seq(Scalars))
    BY <1>1, Zenon DEF NetOK
  <2>3. Len(left) \in Nat /\ Len(left) # 0 /\ Len(left) = Len(stream) - Sent
    BY <1>1, <2>1, <2>2, LeftIs
  <2>4. Sent < Len(stream) /\ Len(stream) \in Nat /\ k \in Nat /\ k <= Sent /\ Sent \in Nat
    <3> DEFINE n == Len(left)
               m == Len(stream)
    <3>1. n \in Nat /\ n # 0 /\ n = m - Sent /\ m \in Nat /\ Sent \in Nat /\ k \in Nat /\ k <= Sent
      BY <1>1, <1>2, <2>3
    <3> HIDE DEF n, m
    <3>2. Sent < m
      BY <3>1
    <3> QED
      BY <3>1, <3>2 DEF m
  <2> QED
    BY <2>4
<1> QED
  BY <1>3, <1>4, <1>5, Zenon

\* In front of a packet of which a byte is there, its length is, and is read.
LEMMA PacketReads ==
    ASSUME Reading, NEW k, AtPacket(k), p < Size
    PROVE  /\ k \in 0..Len(stream) - 1 /\ (k = Sent => done = HeaderLen)
           /\ HasLength /\ Length = Len(Payload(stream[k + 1]))
<1> DEFINE q == Len(Payload(stream[k + 1]))
<1>1. k \in 0..Sent /\ Pos = At(k)
  BY Zenon DEF AtPacket
<1>2. /\ p \in Nat /\ Pos < Len(seen) /\ Len(seen) = At(Sent) + done /\ (done = 0 \/ done = 4)
      /\ At(Sent) \in Nat /\ Sent \in Nat
      /\ Len(data) \in Nat /\ Size = Len(data) /\ Pos = Len(seen) - Len(data) + p /\ Len(seen) \in Nat
  BY ReadingIs
<1>3. /\ At(k) \in Nat /\ At(k) <= At(Sent) /\ ((k < Sent \/ done = 4) => k \in 0..Len(stream) - 1)
      /\ k < Sent => At(k) + 4 + q <= At(Sent) /\ q \in Nat \ {0}
  BY <1>1, Within
<1> HIDE DEF q
<1>5. k < Sent \/ k = Sent
  BY <1>1, <1>2
<1> DEFINE a == At(k)
           b == At(Sent)
           n == Len(seen)
<1>f. a \in Nat /\ b \in Nat /\ n \in Nat /\ Pos = a /\ n = b + done /\ Pos < n /\ (done = 0 \/ done = 4)
  BY <1>1, <1>2, <1>3
<1>g. k < Sent => a + 4 + q <= b /\ q \in Nat \ {0}
  BY <1>3
<1>h. k = Sent => a = b
  BY Zenon
<1> HIDE DEF a, b, n
<1>4. k = Sent => done = 4
  BY <1>f, <1>h
<1>6. Pos + 3 < Len(seen)
  <2>1. CASE k < Sent
    <3>1. Pos + 3 < n
      BY <1>f, <1>g, <2>1
    <3> QED
      BY <3>1 DEF n
  <2>2. CASE k = Sent
    <3>1. Pos + 3 < n
      BY <1>f, <1>h, <1>4, <2>2
    <3> QED
      BY <3>1 DEF n
  <2> QED
    BY <1>5, <2>1, <2>2
<1>7. k \in 0..Len(stream) - 1
  BY <1>3, <1>4, <1>5, Zenon
<1>8. HasLength
  BY <1>2, <1>6 DEF HasLength, HeaderLen
<1>9. q \in Nat \ {0} /\ stream[k + 1] \in Seq(Scalars)
  <2>1. stream \in Seq(Seq(Scalars))
    BY StreamType, Zenon DEF Reading
  <2>2. stream[k + 1] \in Seq(Scalars)
    BY <1>7, <2>1
  <2> QED
    BY <2>2, PackIs DEF q
<1>a. \A d \in 0..3 : Byte(p + d) = Pack(stream[k + 1])[d + 1]
  <2>1. SUFFICES ASSUME NEW d \in 0..3 PROVE Byte(p + d) = Pack(stream[k + 1])[d + 1]
    OBVIOUS
  <2>2. d \in Nat /\ d < HeaderLen + Len(Payload(stream[k + 1])) /\ Pos + d < Len(seen)
    BY <1>2, <1>6, <1>9 DEF HeaderLen, q
  <2>3. Pos + d = At(k) + d
    BY <1>1
  <2> QED
    BY <1>7, <2>2, <2>3, PacketByte, Zenon
<1>b. /\ Byte(p) = Pack(stream[k + 1])[1] /\ Byte(p + 1) = Pack(stream[k + 1])[2]
      /\ Byte(p + 2) = Pack(stream[k + 1])[3] /\ Byte(p + 3) = Pack(stream[k + 1])[4]
  <2>1. /\ Byte(p + 0) = Pack(stream[k + 1])[0 + 1] /\ Byte(p + 1) = Pack(stream[k + 1])[1 + 1]
        /\ Byte(p + 2) = Pack(stream[k + 1])[2 + 1] /\ Byte(p + 3) = Pack(stream[k + 1])[3 + 1]
    BY <1>a
  <2>2. p + 0 = p /\ 0 + 1 = 1 /\ 1 + 1 = 2 /\ 2 + 1 = 3 /\ 3 + 1 = 4
    BY <1>2
  <2> QED
    BY <2>1, <2>2, Zenon
<1>c. /\ Pack(stream[k + 1])[1] = 0 /\ Pack(stream[k + 1])[2] = 0 /\ Pack(stream[k + 1])[3] = 0
      /\ Pack(stream[k + 1])[4] = q
  BY <1>9, PackIs, Zenon DEF q
<1>d. Length = q
  BY <1>b, <1>c, Zenon DEF Length
<1>e. k = Sent => done = HeaderLen
  BY <1>4 DEF HeaderLen
<1> QED
  BY <1>7, <1>8, <1>d, <1>e, Zenon DEF q

LEMMA PacketEnds ==
    ASSUME Reading, NEW k, AtPacket(k), p >= Size
    PROVE  k = Sent /\ done = 0 /\ Pos = Len(seen)
<1> DEFINE q == Len(Payload(stream[k + 1]))
<1>1. k \in 0..Sent /\ Pos = At(k)
  BY Zenon DEF AtPacket
<1>2. /\ p \in Nat /\ (p < Size <=> Pos < Len(seen)) /\ Len(seen) = At(Sent) + done
      /\ (done = 0 \/ done = 4) /\ At(Sent) \in Nat /\ Sent \in Nat
      /\ Len(data) \in Nat /\ Size = Len(data) /\ Len(seen) \in Nat /\ Pos \in Nat
  BY ReadingIs
<1>3. /\ At(k) \in Nat /\ At(k) <= At(Sent)
      /\ k < Sent => At(k) + 4 + q <= At(Sent) /\ q \in Nat \ {0}
  BY <1>1, Within
<1> HIDE DEF q
<1>4. Pos >= Len(seen)
  BY <1>2
<1>5. ~ (k < Sent) /\ done = 0 /\ Pos = Len(seen)
  BY <1>1, <1>2, <1>3, <1>4
<1> QED
  BY <1>1, <1>2, <1>5

\* Behind a length: either nothing more has come, or all of the packet.
LEMMA PayloadReads ==
    ASSUME Reading, NEW k, AtPayload(k)
    PROVE  /\ p < Size => k < Sent /\ Enough
           /\ p >= Size => k = Sent /\ done = HeaderLen
<1> DEFINE q == Len(Payload(stream[k + 1]))
<1>1. k \in 0..Sent /\ Pos = At(k) + 4 /\ size = q /\ (k = Sent => done = 4)
  BY Zenon DEF AtPayload, HeaderLen
<1>2. /\ p \in Nat /\ (p < Size <=> Pos < Len(seen)) /\ Len(seen) = At(Sent) + done
      /\ (done = 0 \/ done = 4) /\ At(Sent) \in Nat /\ Sent \in Nat
      /\ Len(data) \in Nat /\ Size = Len(data) /\ Len(seen) \in Nat /\ Pos \in Nat
      /\ Pos = Len(seen) - Len(data) + p
  BY ReadingIs
<1>3. /\ At(k) \in Nat /\ At(k) <= At(Sent)
      /\ k < Sent => At(k) + 4 + q <= At(Sent) /\ q \in Nat \ {0}
  BY <1>1, Within
<1> HIDE DEF q
<1>4. k < Sent \/ k = Sent
  BY <1>1, <1>2
<1>5. CASE k < Sent
  <2>1. Pos + q <= Len(seen) /\ q \in Nat \ {0}
    <3> DEFINE a == At(k)
               b == At(Sent)
               n == Len(seen)
    <3>1. /\ a \in Nat /\ b \in Nat /\ Pos = a + 4 /\ n = b + done /\ (done = 0 \/ done = 4)
          /\ a + 4 + q <= b /\ q \in Nat \ {0}
      BY <1>1, <1>2, <1>3, <1>5
    <3> HIDE DEF a, b, n
    <3>2. Pos + q <= n
      BY <3>1
    <3> QED
      BY <3>1, <3>2 DEF n
  <2>2. p < Size /\ Size >= q
    BY <1>2, <2>1
  <2> QED
    BY <1>1, <1>2, <1>5, <2>2 DEF Enough
<1>6. CASE k = Sent
  <2>1. done = 4 /\ Pos = Len(seen)
    BY <1>1, <1>2, <1>6
  <2> QED
    BY <1>2, <1>6, <2>1 DEF HeaderLen
<1> QED
  BY <1>4, <1>5, <1>6

\* Behind j values of a packet: the next one, all its bytes there, or the end mark.
LEMMA ValueReads ==
    ASSUME Reading, NEW k, NEW j, AtValue(k, j)
    PROVE  /\ p < Size
           /\ j = Len(stream[k + 1]) => Byte(p) = EndData
           /\ j < Len(stream[k + 1]) =>
                /\ Byte(p) = Bytes(stream[k + 1][j + 1])[1]
                /\ Len(Bytes(stream[k + 1][j + 1])) = 2 =>
                     p + 1 < Size /\ Byte(p + 1) = Bytes(stream[k + 1][j + 1])[2]
<1> DEFINE pkt == stream[k + 1]
           q == Len(Payload(pkt))
           n == In(pkt, j)
<1>1. k \in 0..Sent - 1 /\ j \in 0..Len(pkt) /\ Pos = At(k) + 4 + n
  BY Zenon DEF AtValue, HeaderLen
<1>2. /\ p \in Nat /\ (p < Size <=> Pos < Len(seen)) /\ Len(seen) = At(Sent) + done
      /\ (done = 0 \/ done = 4) /\ At(Sent) \in Nat /\ Sent \in Nat
      /\ Len(seen) \in Nat /\ Pos \in Nat
  BY ReadingIs
<1>3. k \in 0..Sent /\ k < Sent
  BY <1>1, <1>2
<1>4. /\ At(k) \in Nat /\ k \in 0..Len(stream) - 1 /\ pkt \in Seq(Scalars)
      /\ At(k) + 4 + q <= At(Sent) /\ q \in Nat \ {0}
  BY <1>3, Within
<1>5. /\ Pack(pkt) \in Seq(Int) /\ \A i \in 1..q : Pack(pkt)[HeaderLen + i] = Payload(pkt)[i]
  BY <1>4, PackIs
<1>6. /\ j = Len(pkt) => q = n + 1 /\ Payload(pkt)[n + 1] = EndData
      /\ j < Len(pkt) =>
           /\ pkt[j + 1] \in Scalars /\ n + Len(Bytes(pkt[j + 1])) < q
           /\ \A i \in 1..Len(Bytes(pkt[j + 1])) : Payload(pkt)[n + i] = Bytes(pkt[j + 1])[i]
  BY <1>1, <1>4, PayloadAt
<1>7. n \in Nat /\ Len(pkt) \in Nat
  BY <1>1, <1>4, InIs
<1> HIDE DEF pkt, q, n
<1>8. ASSUME NEW e \in {0, 1}, n + e < q
      PROVE  p + e < Size /\ Byte(p + e) = Payload(pkt)[n + e + 1]
  <2> DEFINE d == 4 + n + e
  <2>1. d \in Nat /\ e \in Nat /\ d < HeaderLen + q /\ Pos + e = At(k) + d /\ Pos + e < Len(seen)
    <3> DEFINE a == At(k)
               b == At(Sent)
               m == Len(seen)
    <3>1. /\ a \in Nat /\ b \in Nat /\ n \in Nat /\ q \in Nat /\ Pos = a + 4 + n /\ m = b + done
          /\ (done = 0 \/ done = 4) /\ a + 4 + q <= b /\ n + e < q /\ (e = 0 \/ e = 1)
      BY <1>1, <1>2, <1>4, <1>7, <1>8
    <3> HIDE DEF a, b, m
    <3>2. d \in Nat /\ e \in Nat /\ d < 4 + q /\ Pos + e = a + d /\ Pos + e < m
      BY <3>1
    <3> QED
      BY <3>2, Zenon DEF a, m, HeaderLen
  <2>2. d + 1 = HeaderLen + (n + e + 1) /\ n + e + 1 \in 1..q
    BY <1>4, <1>7, <1>8 DEF HeaderLen
  <2> HIDE DEF d
  <2>3. p + e < Size /\ Byte(p + e) = Pack(pkt)[d + 1]
    BY <1>4, <2>1, PacketByte, Zenon DEF pkt, q
  <2>4. Pack(pkt)[HeaderLen + (n + e + 1)] = Payload(pkt)[n + e + 1]
    BY <1>5, <2>2
  <2> QED
    BY <2>2, <2>3, <2>4, Zenon
<1>9. ASSUME n < q PROVE p < Size /\ Byte(p) = Payload(pkt)[n + 1]
  <2>1. 0 \in {0, 1} /\ n + 0 < q /\ p + 0 = p /\ n + 0 + 1 = n + 1
    BY <1>2, <1>7, <1>9
  <2> QED
    BY <1>8, <2>1, Zenon
<1>a. CASE j = Len(pkt)
  <2>1. n < q
    BY <1>4, <1>6, <1>7, <1>a
  <2>2. ~ (j < Len(pkt))
    BY <1>7, <1>a
  <2> QED
    BY <1>6, <1>9, <1>a, <2>1, <2>2, Zenon DEF pkt
<1>b. CASE j < Len(pkt)
  <2> DEFINE b == Bytes(pkt[j + 1])
  <2>1. /\ b \in Seq(Int) /\ Len(b) \in {1, 2} /\ n + Len(b) < q
        /\ \A i \in 1..Len(b) : Payload(pkt)[n + i] = b[i]
    BY <1>6, <1>b, BytesAre
  <2> HIDE DEF b
  <2>6. Len(b) = 1 \/ Len(b) = 2
    BY <2>1
  <2>2. n < q /\ Payload(pkt)[n + 1] = b[1] /\ 1 \in 1..Len(b)
    <3>1. 1 \in 1..Len(b)
      BY <2>6
    <3>2. Payload(pkt)[n + 1] = b[1]
      BY <2>1, <3>1
    <3> DEFINE m == Len(b)
    <3>3. n \in Nat /\ q \in Nat /\ (m = 1 \/ m = 2) /\ n + m < q
      BY <1>4, <1>7, <2>1, <2>6
    <3> HIDE DEF m
    <3>4. n < q
      BY <3>3
    <3> QED
      BY <3>1, <3>2, <3>4
  <2>3. p < Size /\ Byte(p) = b[1]
    BY <1>9, <2>2
  <2>4. ASSUME Len(b) = 2 PROVE p + 1 < Size /\ Byte(p + 1) = b[2]
    <3>1. n + 1 < q /\ n + 1 + 1 = n + 2 /\ 2 \in 1..Len(b) /\ 1 \in {0, 1}
      BY <1>4, <1>7, <2>1, <2>4
    <3>2. p + 1 < Size /\ Byte(p + 1) = Payload(pkt)[n + 1 + 1]
      BY <1>8, <3>1, Zenon
    <3>3. Payload(pkt)[n + 2] = b[2]
      BY <2>1, <3>1
    <3> QED
      BY <3>1, <3>2, <3>3, Zenon
  <2>5. j # Len(pkt)
    BY <1>7, <1>b
  <2> QED
    BY <2>3, <2>4, <2>5, Zenon DEF pkt, b
<1>c. j = Len(pkt) \/ j < Len(pkt)
  BY <1>1, <1>7 DEF pkt
<1> QED
  BY <1>a, <1>b, <1>c

-----------------------------------------------------------------------------
(* Values and packets passed on *)

LEMMA FlattenAppend ==
    ASSUME NEW T, NEW s \in Seq(Seq(T)), NEW v \in Seq(T)
    PROVE  FlattenSeq(Append(s, v)) = FlattenSeq(s) \o v
<1> DEFINE a == Append(s, v)
<1>1. a \in Seq(Seq(T)) /\ Len(a) = Len(s) + 1 /\ Len(s) \in Nat /\ a[Len(s) + 1] = v
      /\ \A i \in 1..Len(s) : a[i] = s[i]
  BY AppendProperties
<1> HIDE DEF a
<1>2. a # <<>> /\ \A i \in 1..Len(s) : s[i] = a[i]
  BY <1>1
<1>3. FlattenSeq(a) = FlattenSeq(s) \o a[Len(a)]
  BY <1>1, <1>2, FlattenStep
<1>4. a[Len(a)] = v
  BY <1>1
<1> QED
  BY <1>3, <1>4, Zenon DEF a

LEMMA FirstNone == ASSUME NEW s PROVE First(s, 0) = <<>>
  BY DEF First

LEMMA FirstAll == ASSUME NEW T, NEW s \in Seq(T) PROVE First(s, Len(s)) = s
  BY DEF First

LEMMA FirstNext ==
    ASSUME NEW T, NEW s \in Seq(T), NEW k \in 0..Len(s) - 1
    PROVE  First(s, k + 1) = Append(First(s, k), s[k + 1])
<1> DEFINE a == First(s, k)
           b == First(s, k + 1)
           c == Append(a, s[k + 1])
<1>1. k \in 0..Len(s) /\ k + 1 \in 0..Len(s) /\ k \in Nat /\ s[k + 1] \in T
  OBVIOUS
<1>2. /\ a \in Seq(T) /\ Len(a) = k /\ \A i \in 1..k : a[i] = s[i]
      /\ b \in Seq(T) /\ Len(b) = k + 1 /\ \A i \in 1..k + 1 : b[i] = s[i]
  BY <1>1, FirstIs
<1> HIDE DEF a, b
<1>3. c \in Seq(T) /\ Len(c) = k + 1 /\ c[k + 1] = s[k + 1] /\ \A i \in 1..k : c[i] = a[i]
  BY <1>1, <1>2, AppendProperties
<1> HIDE DEF c
<1>4. \A i \in 1..k + 1 : c[i] = b[i]
  BY <1>1, <1>2, <1>3
<1>5. b = c
  <2>1. Len(b) = Len(c) /\ \A i \in 1..Len(b) : b[i] = c[i]
    BY <1>2, <1>3, <1>4
  <2> QED
    BY <1>2, <1>3, <2>1, SeqEqual, Zenon
<1> QED
  BY <1>5 DEF a, b, c

AppendsLast(a, b, v) == a \o Append(b, v) = Append(a \o b, v)

LEMMA JoinAppend ==
    ASSUME NEW T, NEW a \in Seq(T), NEW b \in Seq(T), NEW v \in T
    PROVE  AppendsLast(a, b, v)
  BY DEF AppendsLast

LEMMA TypesOfPassed ==
    ASSUME Reading
    PROVE  /\ calls \in Seq(Seq(Scalars)) /\ vals \in Seq(Scalars) /\ FlattenSeq(calls) \in Seq(Scalars)
           /\ stream \in Seq(Seq(Scalars))
           /\ \A k \in 0..Len(stream) : Upto(stream, k) \in Seq(Scalars)
           /\ \A k \in 0..Len(stream) - 1 :
                stream[k + 1] \in Seq(Scalars) /\ Upto(stream, k + 1) = Upto(stream, k) \o stream[k + 1]
<1>1. calls \in Seq(Seq(Scalars)) /\ vals \in Seq(Scalars) /\ stream \in Seq(Seq(Scalars))
  BY StreamType, Zenon DEF Reading, Kept
<1>2. FlattenSeq(calls) \in Seq(Scalars)
  BY <1>1, UptoWhole
<1>3. \A k \in 0..Len(stream) : Upto(stream, k) \in Seq(Scalars)
  BY <1>1, UptoType
<1>4. \A k \in 0..Len(stream) - 1 :
         stream[k + 1] \in Seq(Scalars) /\ Upto(stream, k + 1) = Upto(stream, k) \o stream[k + 1]
  BY <1>1, UptoStep
<1> QED
  BY <1>1, <1>2, <1>3, <1>4

\* The loops move p only.
LEMMA MovesOn ==
    ASSUME Reading, UNCHANGED heldVars, p' \in Nat
    PROVE  /\ Sent' = Sent /\ (\A k : At(k)' = At(k)) /\ Pos' = Pos + (p' - p)
           /\ stream' = stream /\ done' = done /\ seen' = seen /\ calls' = calls
           /\ (WholeOnly' <=> WholeOnly) /\ (crossed' <=> crossed)
<1>1. /\ stream' = stream /\ left' = left /\ done' = done /\ seen' = seen /\ calls' = calls
      /\ cuts' = cuts /\ crossed' = crossed /\ data' = data /\ offset' = offset
  BY Zenon DEF heldVars, netVars
<1>2. Sent' = Sent /\ (\A k : At(k)' = At(k)) /\ (WholeOnly' <=> WholeOnly)
  BY <1>1, PlacesStay, Zenon DEF Sent, WholeOnly
<1>3. offset = 0 /\ p \in Nat /\ Len(seen) \in Nat /\ Len(data) \in Nat
  BY ReadingIs, Zenon DEF Reading
<1>4. Pos = Len(seen) - Len(data) + offset + p /\ Pos' = Len(seen) - Len(data) + offset + p'
  BY <1>1, Zenon DEF Pos
<1>5. Pos' = Pos + (p' - p)
  BY <1>3, <1>4
<1> QED
  BY <1>1, <1>2, <1>5, Zenon

LEMMA GivenStay ==
    ASSUME Reading, UNCHANGED heldVars, p' \in Nat, vals' = vals, NEW k, NEW j, GivenAre(k, j)
    PROVE  GivenAre(k, j)'
<1>1. calls' = calls /\ stream' = stream /\ (WholeOnly' <=> WholeOnly)
  BY MovesOn, Zenon
<1> QED
  BY <1>1, Zenon DEF GivenAre

CallsGiven(k, j) ==
    ~crossed => /\ k = Sent \/ (k = Sent - 1 /\ done = 0)
                /\ calls = First(stream, k) /\ vals = First(stream[k + 1], j)

\* All values of the last packet that came are on the stack.
LEMMA CallsAtEnd ==
    ASSUME NEW k, NEW j,
           ~crossed' => /\ k = Sent' /\ k > 0 /\ Pos' = Len(seen')
                        /\ calls' = First(stream', k - 1) /\ vals' = stream'[k],
           st' = "START", pc' = "push"
    PROVE  CallsAre(k, j)'
  BY Zenon DEF CallsAre

LEMMA CallsStay ==
    ASSUME Reading, UNCHANGED heldVars, p' \in Nat, vals' = vals, NEW k, NEW j, CallsAre(k, j),
           ~ (st = "START" /\ pc = "push" /\ Pos = Len(seen)), st' # "START" \/ pc' # "push"
    PROVE  CallsAre(k, j)'
<1>1. /\ calls' = calls /\ stream' = stream /\ (crossed' <=> crossed) /\ Sent' = Sent /\ done' = done
  BY MovesOn, Zenon
<1>2. CallsGiven(k, j)
  BY Zenon DEF CallsAre, CallsGiven
<1>3. CallsGiven(k, j)'
  BY <1>1, <1>2, Zenon DEF CallsGiven
<1> QED
  BY <1>3, Zenon DEF CallsAre, CallsGiven

-----------------------------------------------------------------------------
(* The steps of a call *)

LEMMA HeaderFollows ==
    ASSUME Reading, NEW k \in Nat, AtPacket(k), GivenAre(k, 0), CallsAre(k, 0), Header
    PROVE  Follows(k, 0)'
<1>1. /\ pc = "push" /\ p < Size /\ st = "START" /\ pc' = "push" /\ st' = "DATASTART"
      /\ size' = Length /\ p' = p + HeaderLen /\ vals' = vals /\ UNCHANGED heldVars
  BY Zenon DEF Header, heldVars
<1>2. k \in 0..Sent /\ Pos = At(k)
  BY Zenon DEF AtPacket
<1>3. (k = Sent => done = HeaderLen) /\ Length = Len(Payload(stream[k + 1]))
  BY <1>1, PacketReads, Zenon
<1>4. p \in Nat /\ Pos \in Nat /\ Len(seen) \in Nat /\ (p < Size <=> Pos < Len(seen))
  BY ReadingIs, Zenon
<1>5. p' \in Nat /\ p' - p = HeaderLen /\ Pos # Len(seen)
  BY <1>1, <1>4 DEF HeaderLen
<1>6. /\ Sent' = Sent /\ At(k)' = At(k) /\ Pos' = Pos + (p' - p) /\ stream' = stream /\ done' = done
  BY <1>1, <1>5, MovesOn, Zenon
<1>7. AtPayload(k)'
  BY <1>1, <1>2, <1>3, <1>5, <1>6, Zenon DEF AtPayload
<1>8. GivenAre(k, 0)'
  BY <1>1, <1>5, GivenStay, Zenon
<1>9. CallsAre(k, 0)'
  <2>1. st' # "START"
    BY <1>1, Zenon
  <2> QED
    BY <1>1, <1>5, <2>1, CallsStay, Zenon
<1> QED
  BY <1>7, <1>8, <1>9, Zenon DEF Follows, Reached

LEMMA DataStartFollows ==
    ASSUME Reading, NEW k \in Nat, AtPayload(k), GivenAre(k, 0), CallsAre(k, 0), DataStart
    PROVE  Follows(k, 0)'
<1>1. /\ pc = "push" /\ p < Size /\ st = "DATASTART" /\ pc' = "parse" /\ st' = st
      /\ p' = p /\ vals' = vals /\ UNCHANGED heldVars
  BY Zenon DEF DataStart, heldVars
<1>2. k \in 0..Sent /\ Pos = At(k) + HeaderLen /\ k < Sent
  BY <1>1, PayloadReads, Zenon DEF AtPayload
<1>3. p \in Nat /\ Pos \in Nat /\ Sent \in Nat
  BY ReadingIs, Zenon
<1>4. /\ Sent' = Sent /\ At(k)' = At(k) /\ Pos' = Pos + (p' - p) /\ stream' = stream
  BY <1>1, <1>3, MovesOn, Zenon
<1>5. Pos' = Pos /\ k \in 0..Sent' - 1
  BY <1>1, <1>2, <1>3, <1>4
<1>6. In(stream[k + 1], 0) = 0 /\ 0 \in 0..Len(stream[k + 1])
  <2>1. stream[k + 1] \in Seq(Scalars)
    BY <1>2, Within
  <2> QED
    BY <2>1, InIs
<1>7. AtValue(k, 0)'
  <2>1. Pos' = At(k)' + HeaderLen + In(stream'[k + 1], 0)
    <3>1. Pos = Pos + 0
      BY <1>3
    <3> QED
      BY <1>2, <1>4, <1>5, <1>6, <3>1, Zenon
  <2>2. 0 \in 0..Len(stream'[k + 1])
    BY <1>4, <1>6, Zenon
  <2> QED
    BY <1>1, <1>5, <2>1, <2>2, Zenon DEF AtValue
<1>8. GivenAre(k, 0)'
  BY <1>1, <1>3, GivenStay, Zenon
<1>9. CallsAre(k, 0)'
  <2>1. pc' # "push" /\ st # "START"
    BY <1>1, Zenon
  <2> QED
    BY <1>1, <1>3, <2>1, CallsStay, Zenon
<1> QED
  BY <1>7, <1>8, <1>9, Zenon DEF Follows, Reached

\* lua_pushdata takes the bytes of the next value, and pushes it.
LEMMA PushesNext ==
    ASSUME Reading, NEW k \in Nat, NEW j \in Nat, AtValue(k, j), PushData
    PROVE  /\ j < Len(stream[k + 1]) /\ stream[k + 1][j + 1] \in Scalars
           /\ vals' = Append(vals, stream[k + 1][j + 1])
           /\ p' = p + Len(Bytes(stream[k + 1][j + 1]))
<1> DEFINE pkt == stream[k + 1]
           v == pkt[j + 1]
<1>1. Byte(p) # EndData
  BY Zenon DEF PushData, Values
<1>2. /\ j = Len(pkt) => Byte(p) = EndData
      /\ j < Len(pkt) => /\ Byte(p) = Bytes(v)[1]
                         /\ Len(Bytes(v)) = 2 => p + 1 < Size /\ Byte(p + 1) = Bytes(v)[2]
  BY ValueReads, Zenon
<1>3. j \in 0..Len(pkt) /\ k \in 0..Sent - 1
  BY Zenon DEF AtValue
<1>4. Sent \in Nat
  BY ReadingIs
<1>5. pkt \in Seq(Scalars)
  <2>1. k \in 0..Sent /\ k < Sent
    BY <1>3, <1>4
  <2> QED
    BY <2>1, Within
<1>6. j < Len(pkt) /\ v \in Scalars
  <2>1. Len(pkt) \in Nat
    BY <1>5
  <2> DEFINE n == Len(pkt)
  <2>2. j \in 0..n /\ n \in Nat /\ j # n
    BY <1>1, <1>2, <1>3, <2>1, Zenon
  <2> HIDE DEF n
  <2>3. j < n /\ j + 1 \in 1..n
    BY <2>2
  <2> QED
    BY <1>5, <2>3 DEF n
<1> DEFINE b == Bytes(v)
<1>7. \/ Len(b) = 1 /\ b[1] = 0 /\ v = "nil"
      \/ Len(b) = 2 /\ b[1] = 1 /\ b[2] = 0 /\ v = "false"
      \/ Len(b) = 2 /\ b[1] = 1 /\ b[2] = 1 /\ v = "true"
  BY <1>6, BytesAre, Zenon
<1>8. Byte(p) = b[1] /\ (Len(b) = 2 => p + 1 < Size /\ Byte(p + 1) = b[2])
  BY <1>2, <1>6, Zenon
<1>9. 0 # 1
  OBVIOUS
<1> HIDE DEF b, v, pkt
<1>a. CASE Len(b) = 1 /\ b[1] = 0 /\ v = "nil"
  <2>1. Byte(p) # 1
    BY <1>8, <1>9, <1>a, Zenon
  <2>2. vals' = Append(vals, "nil") /\ p' = p + 1
    BY <2>1, Zenon DEF PushData
  <2> QED
    BY <1>6, <1>a, <2>2, Zenon DEF b, v, pkt
<1>b. ASSUME Len(b) = 2, b[1] = 1, NEW x, v = x, (IF b[2] = 0 THEN "false" ELSE "true") = x
      PROVE  vals' = Append(vals, v) /\ p' = p + Len(b)
  <2>1. Byte(p) # 0 /\ p + 1 < Size /\ Byte(p + 1) = b[2]
    BY <1>8, <1>9, <1>b, Zenon
  <2>2. vals' = Append(vals, IF Byte(p + 1) = 0 THEN "false" ELSE "true") /\ p' = p + 2
    BY <2>1, Zenon DEF PushData
  <2> QED
    BY <1>b, <2>1, <2>2, Zenon
<1>c. CASE Len(b) = 2 /\ b[1] = 1 /\ b[2] = 0 /\ v = "false"
  <2>1. (IF b[2] = 0 THEN "false" ELSE "true") = "false"
    BY <1>c, Zenon
  <2> QED
    BY <1>6, <1>b, <1>c, <2>1, Zenon DEF b, v, pkt
<1>d. CASE Len(b) = 2 /\ b[1] = 1 /\ b[2] = 1 /\ v = "true"
  <2>1. (IF b[2] = 0 THEN "false" ELSE "true") = "true"
    BY <1>9, <1>d, Zenon
  <2> QED
    BY <1>6, <1>b, <1>d, <2>1, Zenon DEF b, v, pkt
<1> QED
  BY <1>7, <1>a, <1>c, <1>d, Zenon

LEMMA PushDataFollows ==
    ASSUME Reading, NEW k \in Nat, NEW j \in Nat, AtValue(k, j), GivenAre(k, j), CallsAre(k, j), PushData
    PROVE  Follows(k, j + 1)'
<1> DEFINE pkt == stream[k + 1]
           v == pkt[j + 1]
           n == Len(Bytes(v))
<1>1. pc = "parse" /\ pc' = pc /\ UNCHANGED heldVars /\ p' \in Nat
  <2>1. Kept
    BY Zenon DEF Reading
  <2> QED
    BY <2>1, Pushed, Zenon
<1>2. j < Len(pkt) /\ v \in Scalars /\ vals' = Append(vals, v) /\ p' = p + n
  BY PushesNext, Zenon
<1>3. k \in 0..Sent - 1 /\ Pos = At(k) + HeaderLen + In(pkt, j)
  BY Zenon DEF AtValue
<1>4. Sent \in Nat /\ p \in Nat /\ Pos \in Nat
  BY ReadingIs
<1>5. pkt \in Seq(Scalars) /\ At(k) \in Nat /\ k \in 0..Len(stream) - 1 /\ Len(stream) \in Nat
  <2>1. k \in 0..Sent /\ k < Sent
    BY <1>3, <1>4
  <2> QED
    BY <2>1, Within, ReadingIs
<1>6. j \in 0..Len(pkt) - 1 /\ j + 1 \in 0..Len(pkt)
  BY <1>2, <1>5
<1>7. In(pkt, j + 1) = In(pkt, j) + n /\ In(pkt, j) \in Nat /\ n \in Nat
  <2>1. j \in 0..Len(pkt)
    BY <1>6, <1>5
  <2> QED
    <3>1. n \in Nat
      BY <1>2, BytesAre
    <3>2. In(pkt, j) \in Nat
      BY <1>5, <2>1, InIs, Zenon
    <3>3. In(pkt, j + 1) = In(pkt, j) + n
      BY <1>5, <1>6, InIs, Zenon
    <3> QED
      BY <3>1, <3>2, <3>3, Zenon
<1>8. /\ Sent' = Sent /\ At(k)' = At(k) /\ Pos' = Pos + (p' - p) /\ stream' = stream /\ calls' = calls
      /\ done' = done /\ (WholeOnly' <=> WholeOnly) /\ (crossed' <=> crossed)
  BY <1>1, MovesOn, Zenon
<1>9. First(pkt, j + 1) = Append(First(pkt, j), v) /\ First(pkt, j) \in Seq(Scalars)
  <2>1. j \in 0..Len(pkt)
    BY <1>6, <1>5
  <2> QED
    BY <1>5, <1>6, <2>1, FirstNext, FirstIs
<1>a. AtValue(k, j + 1)'
  <2>1. Pos' = At(k) + HeaderLen + In(pkt, j + 1)
    <3> DEFINE a == At(k)
               c == In(pkt, j)
               d == In(pkt, j + 1)
    <3>1. a \in Nat /\ c \in Nat /\ d = c + n /\ Pos = a + HeaderLen + c /\ n \in Nat
      BY <1>3, <1>5, <1>7
    <3> HIDE DEF a, c, d, n
    <3>2. Pos' = a + HeaderLen + d
      BY <1>2, <1>4, <1>8, <3>1 DEF HeaderLen
    <3> QED
      BY <3>2 DEF a, d
  <2> QED
    BY <1>1, <1>3, <1>6, <1>8, <2>1, Zenon DEF AtValue
<1>b. GivenAre(k, j + 1)'
  <2>1. SUFFICES ASSUME WholeOnly
                 PROVE  FlattenSeq(calls) \o vals' = Upto(stream, k) \o First(pkt, j + 1)
    BY <1>8, Zenon DEF GivenAre
  <2> DEFINE a == FlattenSeq(calls)
             u == Upto(stream, k)
             f == First(pkt, j)
  <2>2. a \o vals = u \o f
    BY <2>1, Zenon DEF GivenAre
  <2>3. a \in Seq(Scalars) /\ vals \in Seq(Scalars) /\ u \in Seq(Scalars) /\ f \in Seq(Scalars)
    <3>1. k \in 0..Len(stream)
      BY <1>5
    <3> QED
      BY <1>9, <3>1, TypesOfPassed
  <2>4. a \o Append(vals, v) = Append(a \o vals, v)
    <3>1. AppendsLast(a, vals, v)
      BY <1>2, <2>3, JoinAppend
    <3> QED
      BY <3>1, Zenon DEF AppendsLast
  <2>5. u \o Append(f, v) = Append(u \o f, v)
    <3>1. AppendsLast(u, f, v)
      BY <1>2, <2>3, JoinAppend
    <3> QED
      BY <3>1, Zenon DEF AppendsLast
  <2> QED
    BY <1>2, <1>9, <2>2, <2>4, <2>5, Zenon
<1>c. CallsAre(k, j + 1)'
  <2>1. CallsGiven(k, j)
    BY <1>1, Zenon DEF CallsAre, CallsGiven
  <2>2. CallsGiven(k, j + 1)'
    BY <1>2, <1>8, <1>9, <2>1, Zenon DEF CallsGiven
  <2>3. pc' # "push"
    BY <1>1, Zenon
  <2> QED
    BY <2>2, <2>3, Zenon DEF CallsAre, CallsGiven
<1> QED
  BY <1>a, <1>b, <1>c, Zenon DEF Follows, Reached

\* The end mark is found behind the last value, and the next packet starts behind it.
LEMMA EndOfPacketFollows ==
    ASSUME Reading, NEW k \in Nat, NEW j \in Nat, AtValue(k, j), GivenAre(k, j), CallsAre(k, j), EndOfPacket
    PROVE  Follows(k + 1, 0)'
<1> DEFINE pkt == stream[k + 1]
<1>1. /\ pc = "parse" /\ pc' = "push" /\ st' = "START" /\ p' = p + 1 /\ vals' = vals /\ UNCHANGED heldVars
      /\ ~ Values
  BY Zenon DEF EndOfPacket, Skip, StateAfter, heldVars
<1>2. /\ p < Size /\ (j = Len(pkt) => Byte(p) = EndData)
      /\ j < Len(pkt) => Byte(p) = Bytes(pkt[j + 1])[1]
  BY ValueReads, Zenon
<1>3. Byte(p) = EndData
  BY <1>1, <1>2, Zenon DEF Values
<1>4. k \in 0..Sent - 1 /\ j \in 0..Len(pkt) /\ Pos = At(k) + HeaderLen + In(pkt, j)
  BY Zenon DEF AtValue
<1>5. /\ Sent \in Nat /\ p \in Nat /\ Pos \in Nat /\ Len(seen) = At(Sent) + done /\ Len(stream) \in Nat
      /\ Sent <= Len(stream) /\ At(Sent) \in Nat
  BY ReadingIs
<1>6. k \in 0..Sent /\ k < Sent /\ k + 1 \in 0..Sent
  BY <1>4, <1>5
<1>7. /\ pkt \in Seq(Scalars) /\ At(k) \in Nat /\ k \in 0..Len(stream) - 1
      /\ At(k + 1) = At(k) + 4 + Len(Payload(pkt)) /\ Len(Payload(pkt)) \in Nat
  BY <1>6, Within
<1>8. j = Len(pkt)
  <2>1. SUFFICES ASSUME j < Len(pkt) PROVE FALSE
    BY <1>4, <1>7
  <2>2. pkt[j + 1] \in Scalars
    BY <1>4, <1>7, <2>1
  <2>3. Bytes(pkt[j + 1])[1] = 0 \/ Bytes(pkt[j + 1])[1] = 1
    BY <2>2, BytesAre, Zenon
  <2> QED
    BY <1>2, <1>3, <2>1, <2>3 DEF EndData
<1>9. Len(Payload(pkt)) = In(pkt, j) + 1 /\ In(pkt, j) \in Nat
  BY <1>7, <1>8, PayloadIs
<1>a. /\ Sent' = Sent /\ At(k + 1)' = At(k + 1) /\ Pos' = Pos + (p' - p) /\ stream' = stream
      /\ calls' = calls /\ done' = done /\ seen' = seen /\ (WholeOnly' <=> WholeOnly)
      /\ (crossed' <=> crossed)
  <2>1. p' \in Nat
    BY <1>1, <1>5
  <2> QED
    BY <1>1, <2>1, MovesOn, Zenon
<1>b. Pos' = At(k + 1)
  <2> DEFINE a == At(k)
             c == In(pkt, j)
             d == At(k + 1)
  <2>1. a \in Nat /\ c \in Nat /\ d = a + 4 + (c + 1) /\ Pos = a + 4 + c
    BY <1>4, <1>7, <1>9 DEF HeaderLen
  <2> HIDE DEF a, c, d
  <2>2. Pos' = d
    BY <1>1, <1>5, <1>a, <2>1
  <2> QED
    BY <2>2 DEF d
<1>c. AtPacket(k + 1)'
  BY <1>1, <1>6, <1>a, <1>b, Zenon DEF AtPacket
<1>d. First(pkt, j) = pkt
  BY <1>7, <1>8, FirstAll
<1>e. GivenAre(k + 1, 0)'
  <2>1. SUFFICES ASSUME WholeOnly
                 PROVE  FlattenSeq(calls) \o vals = Upto(stream, k + 1) \o First(stream[k + 1 + 1], 0)
    BY <1>1, <1>a, Zenon DEF GivenAre
  <2>2. FlattenSeq(calls) \o vals = Upto(stream, k) \o pkt
    BY <1>d, <2>1, Zenon DEF GivenAre
  <2>3. Upto(stream, k + 1) = Upto(stream, k) \o pkt /\ Upto(stream, k + 1) \in Seq(Scalars)
    <3>1. k + 1 \in 0..Len(stream)
      BY <1>7
    <3> QED
      BY <1>7, <3>1, TypesOfPassed
  <2>4. Upto(stream, k + 1) \o <<>> = Upto(stream, k + 1)
    BY <2>3, ConcatEmptySeq
  <2> QED
    BY <2>2, <2>3, <2>4, FirstNone, Zenon
<1>f. CallsAre(k + 1, 0)'
  <2>1. CallsGiven(k, j)
    BY <1>1, Zenon DEF CallsAre, CallsGiven
  <2> DEFINE m == k + 1
  <2>2. ASSUME ~crossed
        PROVE  /\ m = Sent /\ m > 0 /\ Pos' = Len(seen)
               /\ calls = First(stream, m - 1) /\ vals = stream[m]
    <3>1. /\ k = Sent \/ (k = Sent - 1 /\ done = 0)
          /\ calls = First(stream, k) /\ vals = First(pkt, j)
      BY <2>1, <2>2, Zenon DEF CallsGiven
    <3>2. m = Sent /\ done = 0 /\ m - 1 = k /\ m > 0
      BY <1>5, <1>6, <3>1
    <3>3. Pos' = Len(seen)
      <4>1. At(Sent) + 0 = At(Sent)
        BY <1>5
      <4> QED
        BY <1>5, <1>b, <3>2, <4>1, Zenon
    <3> QED
      BY <1>d, <3>1, <3>2, <3>3, Zenon
  <2> HIDE DEF m
  <2>3. /\ Sent' = Sent /\ stream' = stream /\ calls' = calls /\ vals' = vals /\ seen' = seen
        /\ (crossed' <=> crossed) /\ st' = "START" /\ pc' = "push"
    BY <1>1, <1>a, Zenon
  <2>4. ~crossed' => /\ m = Sent' /\ m > 0 /\ Pos' = Len(seen')
                     /\ calls' = First(stream', m - 1) /\ vals' = stream'[m]
    BY <2>2, <2>3, Zenon
  <2>5. CallsAre(m, 0)'
    BY <2>3, <2>4, CallsAtEnd, Zenon
  <2> QED
    BY <2>5 DEF m
<1> QED
  BY <1>c, <1>e, <1>f, Zenon DEF Follows, Reached

LEMMA PushReturns ==
    ASSUME Reading, PushEnds
    PROVE  /\ pc = "push" /\ p >= Size /\ pc' = "idle" /\ st' = st /\ size' = size /\ mem' = mem
           /\ calls' = IF st = "START" THEN Append(calls, vals) ELSE calls
           /\ UNCHANGED netVars
<1>1. pc = "push" /\ p >= Size /\ Returned(p, st, vals)
  BY Zenon DEF PushEnds
<1>2. /\ Len(data) \in Nat /\ Len(data) > 0 /\ p \in Nat /\ Size = Len(data) /\ offset = 0
  BY ReadingIs, Zenon DEF Reading
<1>3. p > 0 /\ ~ (p <= 0) /\ ~ (Len(data) > offset + p)
  BY <1>1, <1>2
<1> QED
  BY <1>1, <1>3, Zenon DEF Returned

\* A call returns where the delivery ended, and everything before has been passed on.
LEMMA PushEndsRests ==
    ASSUME Reading, NEW k \in Nat, NEW j \in Nat, Follows(k, j), PushEnds
    PROVE  Resting'
<1>1. /\ pc = "push" /\ p >= Size /\ st' = st /\ size' = size /\ UNCHANGED netVars
      /\ calls' = IF st = "START" THEN Append(calls, vals) ELSE calls
  BY PushReturns, Zenon
<1>2. /\ stream' = stream /\ left' = left /\ done' = done /\ cuts' = cuts /\ crossed' = crossed
      /\ Sent' = Sent /\ (WholeOnly' <=> WholeOnly)
  BY <1>1, Zenon DEF netVars, Sent, WholeOnly
<1>3. j = 0 /\ (AtPacket(k) \/ AtPayload(k)) /\ GivenAre(k, 0) /\ CallsAre(k, 0)
  <2>1. ~ AtValue(k, j)
    BY <1>1, Zenon DEF AtValue
  <2> QED
    BY <2>1, Zenon DEF Follows, Reached
<1>4. /\ calls \in Seq(Seq(Scalars)) /\ vals \in Seq(Scalars) /\ FlattenSeq(calls) \in Seq(Scalars)
      /\ stream \in Seq(Seq(Scalars))
  BY TypesOfPassed
<1>5. Sent \in Nat /\ Len(stream) \in Nat /\ Sent <= Len(stream)
  BY ReadingIs
<1>6. Upto(stream, Sent) \in Seq(Scalars)
  <2>1. Sent \in 0..Len(stream)
    BY <1>5
  <2> QED
    BY <2>1, TypesOfPassed
<1>7. CASE AtPacket(k)
  <2>1. st = "START" /\ k = Sent /\ done = 0 /\ Pos = Len(seen)
    BY <1>1, <1>7, PacketEnds, Zenon DEF AtPacket
  <2>2. calls' = Append(calls, vals) /\ st' = "START"
    BY <1>1, <2>1, Zenon
  <2>3. ASSUME WholeOnly PROVE FlattenSeq(calls') = Upto(stream, Sent)
    <3>1. FlattenSeq(calls) \o vals = Upto(stream, Sent) \o First(stream[k + 1], 0)
      BY <1>3, <2>1, <2>3, Zenon DEF GivenAre
    <3>2. FlattenSeq(Append(calls, vals)) = FlattenSeq(calls) \o vals
      BY <1>4, FlattenAppend
    <3>3. Upto(stream, Sent) \o <<>> = Upto(stream, Sent)
      BY <1>6, ConcatEmptySeq
    <3> QED
      BY <2>2, <3>1, <3>2, <3>3, FirstNone, Zenon
  <2>4. ASSUME ~crossed PROVE calls' = First(stream, Sent)
    <3>1. k > 0 /\ calls = First(stream, k - 1) /\ vals = stream[k]
      BY <1>1, <1>3, <2>1, <2>4, Zenon DEF CallsAre
    <3>2. k - 1 \in 0..Len(stream) - 1 /\ k - 1 + 1 = k
      BY <1>5, <2>1, <3>1
    <3>3. First(stream, k - 1 + 1) = Append(First(stream, k - 1), stream[k - 1 + 1])
      BY <1>4, <3>2, FirstNext
    <3> QED
      BY <2>1, <2>2, <3>1, <3>2, <3>3, Zenon
  <2> QED
    BY <1>2, <2>1, <2>2, <2>3, <2>4, Zenon DEF Resting
<1>8. CASE AtPayload(k)
  <2>1. st = "DATASTART" /\ size = Len(Payload(stream[k + 1])) /\ k = Sent /\ done = HeaderLen
    BY <1>1, <1>8, PayloadReads, Zenon DEF AtPayload
  <2>2. st # "START" /\ calls' = calls /\ ~ WholeOnly
    <3>1. st # "START"
      BY <2>1, Zenon
    <3>2. WholeOnly => done = 0
      BY Zenon DEF Reading
    <3>3. HeaderLen # 0
      BY DEF HeaderLen
    <3> QED
      BY <1>1, <2>1, <3>1, <3>2, <3>3, Zenon
  <2>3. ASSUME ~crossed PROVE calls' = First(stream, Sent)
    BY <1>3, <2>1, <2>2, <2>3, Zenon DEF CallsAre
  <2> QED
    BY <1>1, <1>2, <2>1, <2>2, <2>3, Zenon DEF Resting
<1> QED
  BY <1>3, <1>7, <1>8

\* Too few bytes and bad values do not come about.
LEMMA NeverAmiss ==
    ASSUME Reading, NEW k \in Nat, NEW j \in Nat, Follows(k, j)
    PROVE  ~ HeaderMissing /\ ~ Spin /\ ~ BadData
<1>1. (j = 0 /\ AtPacket(k)) \/ (j = 0 /\ AtPayload(k)) \/ AtValue(k, j)
  BY Zenon DEF Follows, Reached
<1>2. ASSUME HeaderMissing PROVE FALSE
  <2>1. pc = "push" /\ p < Size /\ st = "START" /\ ~HasLength
    BY <1>2, Zenon DEF HeaderMissing
  <2>2. AtPacket(k)
    BY <1>1, <2>1, Zenon DEF AtPayload, AtValue
  <2> QED
    BY <2>1, <2>2, PacketReads, Zenon
<1>3. ASSUME Spin PROVE FALSE
  <2>1. pc = "push" /\ p < Size /\ ((st = "DATASTART" /\ ~Enough) \/ st = "ERRORDATA")
    BY <1>3, Zenon DEF Spin
  <2>2. AtPayload(k)
    BY <1>1, <2>1, Zenon DEF AtPacket, AtValue
  <2>3. st = "DATASTART"
    BY <2>2, Zenon DEF AtPayload
  <2> QED
    BY <2>1, <2>2, <2>3, PayloadReads, Zenon
<1>4. ASSUME BadData PROVE FALSE
  <2>1. pc = "parse" /\ Byte(p) # EndData /\ Byte(p) \notin {0, 1}
    BY <1>4, Zenon DEF BadData, Values
  <2>2. AtValue(k, j)
    BY <1>1, <2>1, Zenon DEF AtPacket, AtPayload
  <2>3. /\ j = Len(stream[k + 1]) => Byte(p) = EndData
        /\ j < Len(stream[k + 1]) => Byte(p) = Bytes(stream[k + 1][j + 1])[1]
    BY <2>2, ValueReads, Zenon
  <2>4. k \in 0..Sent - 1 /\ j \in 0..Len(stream[k + 1])
    BY <2>2, Zenon DEF AtValue
  <2>5. stream[k + 1] \in Seq(Scalars)
    <3>1. k \in 0..Sent /\ k < Sent
      BY <2>4, ReadingIs
    <3> QED
      BY <3>1, Within
  <2>6. j < Len(stream[k + 1]) /\ stream[k + 1][j + 1] \in Scalars
    <3> DEFINE n == Len(stream[k + 1])
    <3>1. n \in Nat /\ j \in 0..n /\ j # n
      BY <2>1, <2>3, <2>4, <2>5
    <3> HIDE DEF n
    <3>2. j < n /\ j + 1 \in 1..n
      BY <3>1
    <3> QED
      BY <2>5, <3>2 DEF n
  <2>7. Bytes(stream[k + 1][j + 1])[1] \in {0, 1}
    BY <2>6, BytesAre, Zenon
  <2> QED
    BY <2>1, <2>3, <2>6, <2>7, Zenon
<1> QED
  BY <1>2, <1>3, <1>4

-----------------------------------------------------------------------------
(* A delivery, and every step *)

LEMMA PlaceIs ==
    ASSUME NEW w, NEW i
    PROVE  /\ Place(w, i) \in {"end", "afterHeader"} => i = 0 \/ i = HeaderLen
           /\ Place(w, i) \in {"end"} => i = 0
<1>1. i # 0 => Place(w, i) # "end"
  BY Zenon DEF Place
<1>2. i # 0 /\ i # HeaderLen => Place(w, i) # "afterHeader"
  BY Zenon DEF Place
<1> QED
  BY <1>1, <1>2, Zenon

\* In front of packet k + 1, or behind its length, with nothing on the stack.
LEMMA Started ==
    ASSUME NEW k \in Nat,
           AtPacket(k)' \/ AtPayload(k)', vals' = <<>>,
           WholeOnly' => FlattenSeq(calls') = Upto(stream', k),
           calls' \in Seq(Seq(Scalars)), stream' \in Seq(Seq(Scalars)), k \in 0..Len(stream'),
           ~crossed' => /\ k = Sent' \/ (k = Sent' - 1 /\ done' = 0)
                        /\ calls' = First(stream', k),
           st' = "START" => Pos' # Len(seen')
    PROVE  Follows(k, 0)'
<1>1. First(stream'[k + 1], 0) = <<>>
  BY FirstNone
<1>2. GivenAre(k, 0)'
  <2>1. SUFFICES ASSUME WholeOnly'
                 PROVE  FlattenSeq(calls') \o vals' = Upto(stream', k) \o First(stream'[k + 1], 0)
    BY Zenon DEF GivenAre
  <2>2. FlattenSeq(calls') = Upto(stream', k)
    BY <2>1
  <2> QED
    BY <1>1, <2>2, Zenon
<1>3. CallsAre(k, 0)'
  BY <1>1, Zenon DEF CallsAre
<1> QED
  BY <1>2, <1>3, Zenon DEF Follows, Reached

LEMMA DeliverTracked ==
    ASSUME NetOK, Kept, Tracked, Clean', NEW w \in 0..Len(left),
           NEW i \in 0..(IF w < Len(left) THEN Len(Pack(left[w + 1])) - 1 ELSE 0),
           Delivery(w, i), Takes(Chunk(w, i))
    PROVE  Tracked'
<1> DEFINE c == Chunk(w, i)
<1>1. /\ w + i > 0 /\ (w = 0 => i > done) /\ done' = i /\ stream' = stream
      /\ cuts' = cuts \cup {Place(w, i)}
      /\ crossed' = (crossed \/ w > 1 \/ (w = 1 /\ i > 0))
  BY Zenon DEF Delivery
<1>2. /\ pc = "idle" /\ seen' = seen \o c /\ pc' = "push" /\ p' = 0 /\ vals' = <<>>
      /\ off' = off /\ st' = st /\ size' = size /\ calls' = calls
  BY Zenon DEF Takes
<1>3. Clean /\ Place(w, i) \in {"end", "afterHeader"} /\ (WholeOnly' => WholeOnly /\ Place(w, i) \in {"end"})
  BY <1>1, Zenon DEF Clean, WholeOnly
<1>4. mem = <<>> /\ (done = 0 \/ done = HeaderLen) /\ Resting
  BY <1>2, <1>3, Zenon DEF Tracked
<1>5. (i = 0 \/ i = HeaderLen) /\ (WholeOnly' => i = 0)
  BY <1>3, PlaceIs, Zenon
<1>6. ~ (Len(mem) > off)
  <2>1. off \in Nat
    BY Zenon DEF Kept
  <2> QED
    BY <1>4, <2>1
<1>7. mem' = <<>> /\ data' = c /\ offset' = 0
  BY <1>4, <1>6, Zenon DEF Takes
<1>8. NetOK' /\ Sent' = Sent + w /\ Len(seen') = Len(seen) + Len(c)
  BY <1>2, NetDelivery, Zenon
<1>9. c \in Seq(Int) /\ c # <<>> /\ Len(c) \in Nat /\ i \in Nat
  BY <1>1, ChunkIs, Zenon
<1>a. /\ Len(seen) = At(Sent) + done /\ stream \in Seq(Seq(Scalars)) /\ Sent \in 0..Len(stream)
      /\ Len(stream) \in Nat /\ w \in Nat /\ Len(left) \in Nat
  <2>1. Len(seen) = At(Sent) + done
    BY Zenon DEF NetOK
  <2> QED
    BY <2>1, StreamType, LeftIs
<1>b. At(Sent) \in Nat /\ Sent \in Nat /\ (done = 0 \/ done = 4) /\ Len(c) > 0
  <2>1. At(Sent) \in Nat /\ Sent \in Nat
    BY <1>a, AtIs
  <2>2. Len(c) > 0
    BY <1>9
  <2> QED
    BY <1>4, <2>1, <2>2 DEF HeaderLen
<1> HIDE DEF c
<1>c. Pos' = Len(seen) /\ Pos' # Len(seen')
  <2> DEFINE a == Len(seen)
             d == Len(seen')
             e == Len(c)
  <2>1. Pos' = d - e + 0 + 0
    BY <1>2, <1>7, Zenon DEF Pos
  <2>2. a \in Nat /\ e \in Nat /\ e > 0 /\ d = a + e
    BY <1>8, <1>9, <1>a, <1>b
  <2> HIDE DEF a, d, e
  <2>3. Pos' = a /\ Pos' # d
    BY <2>1, <2>2
  <2> QED
    BY <2>3 DEF a, d
<1>d. PICK k \in Nat : k = Sent
  BY <1>b
<1>e. k \in 0..Sent' /\ k \in 0..Len(stream) /\ (k = Sent' <=> w = 0)
      /\ (w = 1 => k = Sent' - 1)
  BY <1>8, <1>a, <1>b, <1>d
<1>f. At(k)' = At(k) /\ At(k) = At(Sent)
  BY <1>1, <1>d, PlacesStay, Zenon
<1>g. AtPacket(k)' \/ AtPayload(k)'
  <2>1. CASE st = "START" /\ done = 0
    <3>1. Pos' = At(k)'
      BY <1>a, <1>b, <1>c, <1>f, <2>1
    <3> QED
      BY <1>2, <1>e, <2>1, <3>1, Zenon DEF AtPacket
  <2>2. CASE st = "DATASTART" /\ done = HeaderLen /\ size = Len(Payload(stream[Sent + 1]))
    <3>1. Pos' = At(k)' + HeaderLen
      BY <1>a, <1>c, <1>f, <2>2, Zenon
    <3>2. w # 0
      <4>1. w = 0 => i > done /\ done = 4 /\ (i = 0 \/ i = 4)
        BY <1>1, <1>5, <2>2 DEF HeaderLen
      <4> QED
        BY <4>1
    <3>3. k # Sent'
      BY <1>e, <3>2, Zenon
    <3> QED
      BY <1>1, <1>2, <1>d, <1>e, <2>2, <3>1, <3>3, Zenon DEF AtPayload
  <2> QED
    BY <1>4, <2>1, <2>2, Zenon DEF Resting
<1>h. WholeOnly' => FlattenSeq(calls') = Upto(stream', k)
  BY <1>1, <1>2, <1>3, <1>4, <1>d, Zenon DEF Resting
<1>i. ~crossed' => /\ k = Sent' \/ (k = Sent' - 1 /\ done' = 0)
                   /\ calls' = First(stream', k)
  <2>1. SUFFICES ASSUME ~crossed'
                 PROVE  (k = Sent' \/ (k = Sent' - 1 /\ done' = 0)) /\ calls' = First(stream', k)
    OBVIOUS
  <2>2. ~crossed /\ ~ (w > 1) /\ ~ (w = 1 /\ i > 0)
    BY <1>1, <2>1, Zenon
  <2>3. w = 0 \/ (w = 1 /\ i = 0)
    BY <1>9, <1>a, <2>2
  <2>4. calls' = First(stream', k)
    BY <1>1, <1>2, <1>4, <1>d, <2>2, Zenon DEF Resting
  <2> QED
    BY <1>1, <1>e, <2>3, <2>4, Zenon
<1>j. calls' \in Seq(Seq(Scalars)) /\ stream' \in Seq(Seq(Scalars)) /\ k \in 0..Len(stream')
  <2>1. calls \in Seq(Seq(Scalars))
    BY Zenon DEF Kept
  <2> QED
    BY <1>1, <1>2, <1>a, <1>e, <2>1, Zenon
<1>k. Follows(k, 0)'
  BY <1>2, <1>c, <1>g, <1>h, <1>i, <1>j, Started, Zenon
<1>l. pc' # "idle" /\ 0 \in Nat
  BY <1>2
<1>m. done' \in {0, HeaderLen} /\ (WholeOnly' => done' = 0)
  BY <1>1, <1>5, Zenon
<1> QED
  BY <1>7, <1>k, <1>l, <1>m, Zenon DEF Tracked

\* What the steps of a call leave as it is when it goes on.
LEMMA ReadingStays ==
    ASSUME Tracked, Reading, UNCHANGED heldVars, pc' # "idle",
           NEW k \in Nat, NEW j \in Nat, Follows(k, j)'
    PROVE  Tracked'
<1>1. mem' = mem /\ done' = done /\ cuts' = cuts /\ offset' = offset
  BY Zenon DEF heldVars, netVars
<1>2. mem = <<>> /\ done \in {0, HeaderLen} /\ (WholeOnly => done = 0) /\ offset = 0
  BY Zenon DEF Reading
<1>3. WholeOnly' <=> WholeOnly
  BY <1>1, Zenon DEF WholeOnly
<1> QED
  BY <1>1, <1>2, <1>3, Zenon DEF Tracked

LEMMA StepTracked ==
    ASSUME NetOK, Kept, Tracked, DecStep, Clean'
    PROVE  Tracked'
<1>1. pc # "idle"
  BY Zenon DEF DecStep, PushEnds, HeaderMissing, Header, DataStart, Spin, PushData, BadData,
     EndOfPacket, Values
<1>2. UNCHANGED netVars
  BY StepQuiet
<1>3. Clean
  BY <1>2, Zenon DEF Clean, netVars
<1>4. Reading
  BY <1>1, <1>3, Zenon DEF Tracked, Reading
<1>5. PICK k \in Nat : \E j \in Nat : Follows(k, j)
  BY <1>1, <1>3, Zenon DEF Tracked
<1>6. PICK j \in Nat : Follows(k, j)
  BY <1>5, Zenon
<1>7. /\ (j = 0 /\ AtPacket(k)) \/ (j = 0 /\ AtPayload(k)) \/ AtValue(k, j)
      /\ GivenAre(k, j) /\ CallsAre(k, j)
  BY <1>6, Zenon DEF Follows, Reached
<1>8. CASE PushEnds
  <2>1. /\ pc' = "idle" /\ mem' = mem /\ done' = done /\ (WholeOnly' <=> WholeOnly)
    BY <1>2, <1>4, <1>8, PushReturns, Zenon DEF WholeOnly, netVars
  <2>2. Resting'
    BY <1>4, <1>6, <1>8, PushEndsRests, Zenon
  <2>3. mem = <<>> /\ done \in {0, HeaderLen} /\ (WholeOnly => done = 0)
    BY <1>4, Zenon DEF Reading
  <2> QED
    BY <2>1, <2>2, <2>3, Zenon DEF Tracked
<1>9. CASE Header
  <2>1. AtPacket(k) /\ j = 0 /\ pc' # "idle" /\ UNCHANGED heldVars
    BY <1>7, <1>9, Zenon DEF Header, heldVars, AtPayload, AtValue
  <2>2. Follows(k, 0)'
    BY <1>4, <1>7, <1>9, <2>1, HeaderFollows, Zenon
  <2>3. 0 \in Nat
    OBVIOUS
  <2> QED
    BY <1>4, <2>1, <2>2, <2>3, ReadingStays, Zenon
<1>a. CASE DataStart
  <2>1. AtPayload(k) /\ j = 0 /\ pc' # "idle" /\ UNCHANGED heldVars
    BY <1>7, <1>a, Zenon DEF DataStart, heldVars, AtPacket, AtValue
  <2>2. Follows(k, 0)'
    BY <1>4, <1>7, <1>a, <2>1, DataStartFollows, Zenon
  <2>3. 0 \in Nat
    OBVIOUS
  <2> QED
    BY <1>4, <2>1, <2>2, <2>3, ReadingStays, Zenon
<1>b. CASE PushData
  <2>1. AtValue(k, j)
    BY <1>7, <1>b, Zenon DEF PushData, Values, AtPacket, AtPayload
  <2>2. pc' # "idle" /\ UNCHANGED heldVars
    BY <1>b, Pushed, Zenon
  <2>3. Follows(k, j + 1)'
    BY <1>4, <1>7, <1>b, <2>1, PushDataFollows, Zenon
  <2>4. j + 1 \in Nat
    OBVIOUS
  <2> QED
    BY <1>4, <2>2, <2>3, <2>4, ReadingStays, Zenon
<1>c. CASE EndOfPacket
  <2>1. AtValue(k, j)
    BY <1>7, <1>c, Zenon DEF EndOfPacket, AtPacket, AtPayload
  <2>2. pc' # "idle" /\ UNCHANGED heldVars
    BY <1>c, Zenon DEF EndOfPacket, heldVars
  <2>3. Follows(k + 1, 0)'
    BY <1>4, <1>7, <1>c, <2>1, EndOfPacketFollows, Zenon
  <2>4. k + 1 \in Nat /\ 0 \in Nat
    OBVIOUS
  <2> QED
    BY <1>4, <2>2, <2>3, <2>4, ReadingStays, Zenon
<1> QED
  BY <1>4, <1>6, <1>8, <1>9, <1>a, <1>b, <1>c, NeverAmiss, Zenon DEF DecStep

LEMMA DecInvInit == ASSUME DecInit PROVE DecInv
<1>1. NetOK /\ Kept
  BY FramingInit
<1>2. /\ left = stream /\ done = 0 /\ mem = <<>> /\ st = "START" /\ pc = "idle" /\ calls = <<>>
      /\ crossed = FALSE
  BY Zenon DEF DecInit
<1>3. Sent = 0
  <2>1. Len(stream) \in Nat
    BY <1>1, LeftIs
  <2> QED
    BY <1>2, <2>1 DEF Sent
<1>4. FlattenSeq(calls) = Upto(stream, Sent) /\ calls = First(stream, Sent)
  BY <1>2, <1>3, FlattenEmpty, UptoZero, FirstNone, Zenon
<1>5. Resting
  BY <1>2, <1>4, Zenon DEF Resting
<1>6. Tracked
  BY <1>2, <1>5, Zenon DEF Tracked
<1> QED
  BY <1>1, <1>6, Zenon DEF DecInv

LEMMA DecInvStep == ASSUME DecInv, [DecNext]_decVars PROVE DecInv'
<1>1. NetOK /\ Kept /\ Tracked
  BY Zenon DEF DecInv
<1>2. NetOK' /\ Kept'
  BY <1>1, FramingStep, Zenon
<1>3. CASE ~ Clean'
  <2>1. Tracked'
    BY <1>3, Zenon DEF Tracked
  <2> QED
    BY <1>2, <2>1, Zenon DEF DecInv
<1>4. CASE Clean'
  <2>1. CASE Deliver
    <3>1. PICK w \in 0..Len(left) : \E i \in 0..(IF w < Len(left) THEN Len(Pack(left[w + 1])) - 1 ELSE 0) :
                Delivery(w, i) /\ Takes(Chunk(w, i))
      BY <2>1, DeliverTakes, Zenon
    <3>2. PICK i \in 0..(IF w < Len(left) THEN Len(Pack(left[w + 1])) - 1 ELSE 0) :
                Delivery(w, i) /\ Takes(Chunk(w, i))
      BY <3>1, Zenon
    <3>3. Tracked'
      BY <1>1, <1>4, <3>2, DeliverTracked, Zenon
    <3> QED
      BY <1>2, <3>3, Zenon DEF DecInv
  <2>2. CASE DecStep
    <3>1. Tracked'
      BY <1>1, <1>4, <2>2, StepTracked, Zenon
    <3> QED
      BY <1>2, <3>1, Zenon DEF DecInv
  <2>3. CASE UNCHANGED decVars
    <3>1. DecInv'
      <4>1. Tracked'
        <5>1. \A k, j : Follows(k, j)' <=> Follows(k, j)
          <6>1. ASSUME NEW k, NEW j PROVE Follows(k, j)' <=> Follows(k, j)
            <7>1. /\ stream' = stream /\ done' = done /\ seen' = seen /\ pc' = pc /\ st' = st
                  /\ size' = size /\ calls' = calls /\ vals' = vals /\ (crossed' <=> crossed)
                  /\ Sent' = Sent /\ Pos' = Pos /\ (WholeOnly' <=> WholeOnly)
              BY <2>3, Zenon DEF decVars, netVars, Sent, Pos, WholeOnly
            <7>2. At(k)' = At(k)
              BY <7>1, PlacesStay, Zenon
            <7>3. Reached(k, j)' <=> Reached(k, j)
              BY <7>1, <7>2, Zenon DEF Reached, AtPacket, AtPayload, AtValue
            <7>4. GivenAre(k, j)' <=> GivenAre(k, j)
              BY <7>1, Zenon DEF GivenAre
            <7>5. CallsAre(k, j)' <=> CallsAre(k, j)
              BY <7>1, Zenon DEF CallsAre
            <7> QED
              BY <7>3, <7>4, <7>5, Zenon DEF Follows
          <6> QED
            BY <6>1, Zenon
        <5>2. Resting' <=> Resting
          BY <2>3, Zenon DEF Resting, decVars, netVars, Sent, WholeOnly
        <5>3. /\ mem' = mem /\ done' = done /\ pc' = pc /\ offset' = offset
              /\ (Clean' <=> Clean) /\ (WholeOnly' <=> WholeOnly)
          BY <2>3, Zenon DEF decVars, netVars, Clean, WholeOnly
        <5> QED
          BY <1>1, <5>1, <5>2, <5>3, Zenon DEF Tracked
      <4> QED
        BY <1>2, <4>1, Zenon DEF DecInv
    <3> QED
      BY <3>1
  <2> QED
    BY <2>1, <2>2, <2>3, Zenon DEF DecNext
<1> QED
  BY <1>3, <1>4

LEMMA DecoderInv == DecSpec => []DecInv
  BY DecInvInit, DecInvStep, PTL DEF DecSpec

LEMMA ArrivedIs ==
    ASSUME NetOK
    PROVE  Arrived = First(stream, Sent) /\ FlattenSeq(Arrived) = Upto(stream, Sent)
<1>1. stream \in Seq(Seq(Scalars)) /\ Sent \in 0..Len(stream) /\ Len(stream) \in Nat
  BY StreamType, LeftIs
<1>2. Arrived = First(stream, Sent)
  BY <1>1 DEF Arrived, First, Sent
<1> QED
  BY <1>2, Zenon DEF Upto

\* As long as every delivery ends with a packet, every value of the packets that have
\* come is passed on to ondata once and in order: lua_defparser_push and the loop of
\* lua_default_decoder lose and double none.
THEOREM DecoderPassesValuesOnce == DecSpec => []ValuesOnce
<1>1. ASSUME DecInv PROVE ValuesOnce
  <2>1. SUFFICES ASSUME pc = "idle", cuts \subseteq {"end"}
                 PROVE  FlattenSeq(calls) = FlattenSeq(Arrived)
    BY Zenon DEF ValuesOnce
  <2>2. Clean /\ WholeOnly
    BY <2>1, Zenon DEF Clean, WholeOnly
  <2>3. NetOK /\ Resting
    BY <1>1, <2>1, <2>2, Zenon DEF DecInv, Tracked
  <2>4. FlattenSeq(calls) = Upto(stream, Sent)
    BY <2>2, <2>3, Zenon DEF Resting
  <2> QED
    BY <2>3, <2>4, ArrivedIs, Zenon
<1> QED
  BY <1>1, DecoderInv, PTL

\* As long as no delivery holds parts of two packets, and each ends with a packet or
\* with its length, every packet that has come is one call of ondata.
THEOREM DecoderCallsOncePerPacket == DecSpec => []OneCallPerPacket
<1>1. ASSUME DecInv PROVE OneCallPerPacket
  <2>1. SUFFICES ASSUME pc = "idle", ~crossed, cuts \subseteq {"end", "afterHeader"}
                 PROVE  calls = Arrived
    BY Zenon DEF OneCallPerPacket
  <2>2. NetOK /\ Resting
    BY <1>1, <2>1, Zenon DEF DecInv, Tracked, Clean
  <2>3. calls = First(stream, Sent)
    BY <2>1, <2>2, Zenon DEF Resting
  <2> QED
    BY <2>2, <2>3, ArrivedIs, Zenon
<1> QED
  BY <1>1, DecoderInv, PTL
=============================================================================
