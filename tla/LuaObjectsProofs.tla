--------------------------- MODULE LuaObjectsProofs ---------------------------
(***************************************************************************)
(* Proofs about LuaObjects for every number of objects, decoders and       *)
(* registry slots: the registry's references hold, for scripts that give   *)
(* no decoder to a connection they have been told is closed.               *)
(***************************************************************************)
EXTENDS LuaObjects, FiniteSetTheorems, TLAPS

Registries == [reg : [0..MaxSlots -> Values \cup 0..MaxSlots], top : 0..MaxSlots]

\* A value is no slot number.
LEMMA ValuesAreNoSlots ==
    /\ 0 \in 0..MaxSlots
    /\ \A v \in Values : v \notin 0..MaxSlots
    /\ \A n \in Slots : n \in 0..MaxSlots /\ n # 0
    /\ \A n \in 0..MaxSlots : n # 0 => n \in Slots
  BY ObjectsAssumption DEF Slots

\* luaL_ref takes a slot that holds no value and that is the list's only way to the
\* next one; all other values stay where they are.
LEMMA RefGives ==
    ASSUME NEW R \in Registries, ListIntact(R), NEW v \in Values, NEW n \in RefSlots(R)
    PROVE  /\ RefAt(R, n, v) \in Registries /\ ListIntact(RefAt(R, n, v))
           /\ n \in Slots /\ RefAt(R, n, v).reg[n] = v /\ R.reg[n] \notin Values
           /\ \A i \in 0..MaxSlots : R.reg[i] \in Values => RefAt(R, n, v).reg[i] = R.reg[i]
           /\ \A i \in 0..MaxSlots : RefAt(R, n, v).reg[i] \in Values => i = n \/ R.reg[i] \in Values
<1> DEFINE Q == RefAt(R, n, v)
<1>0. MaxSlots \in Nat /\ v \notin 0..MaxSlots
  BY ObjectsAssumption
<1>1. R.reg \in [0..MaxSlots -> Values \cup 0..MaxSlots] /\ R.top \in 0..MaxSlots
  BY DEF Registries
<1>2. R.reg[0] \in 0..MaxSlots /\ R.reg[0] <= R.top
  BY DEF ListIntact, FreeIn
<1>a. \A i, j \in FreeIn(R) : R.reg[i] = R.reg[j] => i = j
  BY DEF ListIntact
<1>b. \A i \in FreeIn(R) : i \in 0..MaxSlots
  BY <1>0, <1>1 DEF FreeIn
<1>c. \A part \in SUBSET (FreeIn(R) \ {0}) : part # {} => \E i \in part : R.reg[i] \notin part
  BY DEF ListIntact, NoCircle
<1>3. CASE R.reg[0] \in Slots
  <2>1. n = R.reg[0]
    BY <1>3 DEF RefSlots
  <2>2. n \in 1..R.top /\ n \in FreeIn(R)
    BY <1>0, <1>2, <1>3, <2>1 DEF ListIntact, Slots
  <2>3. R.reg[n] \in 0..MaxSlots /\ R.reg[n] \in FreeIn(R)
    BY <2>2 DEF ListIntact, FreeIn
  <2>4. Q = [reg |-> [i \in 0..MaxSlots |-> IF i = n THEN v ELSE IF i = 0 THEN R.reg[n] ELSE R.reg[i]],
             top |-> R.top]
    BY <1>0, <1>1, <1>3, <2>2 DEF RefAt
  <2>5. Q \in Registries
    BY <1>0, <1>1, <2>3, <2>4 DEF Registries
  <2>6. Q.reg[n] = v /\ Q.reg[0] = R.reg[n] /\ Q.top = R.top
    BY <1>0, <1>1, <2>2, <2>4
  <2>7. \A i \in 0..MaxSlots : i # n /\ i # 0 => Q.reg[i] = R.reg[i]
    BY <2>4
  <2>8. FreeIn(Q) = FreeIn(R) \ {n}
    BY <1>0, <1>1, <1>2, <2>2, <2>3, <2>6, <2>7 DEF FreeIn
  <2>9. R.reg[n] # n
    BY <2>1, <2>2 DEF ListIntact
  <2>10. \A i \in FreeIn(Q) : Q.reg[i] \in FreeIn(Q)
    <3> SUFFICES ASSUME NEW i \in FreeIn(R), i # n PROVE Q.reg[i] \in FreeIn(R) /\ Q.reg[i] # n
      BY <2>8
    <3>1. CASE i = 0
      BY <2>3, <2>6, <2>9, <3>1
    <3>2. CASE i # 0
      <4>1. Q.reg[i] = R.reg[i] /\ i \in 0..MaxSlots
        BY <1>b, <2>7, <3>2
      <4>2. R.reg[i] \in FreeIn(R) /\ R.reg[i] # R.reg[0]
        BY <1>a, <3>2 DEF ListIntact
      <4> QED
        BY <2>1, <4>1, <4>2
    <3> QED
      BY <3>1, <3>2
  <2>11. \A i, j \in FreeIn(Q) : Q.reg[i] = Q.reg[j] => i = j
    BY <1>a, <1>b, <2>2, <2>6, <2>7, <2>8
  <2>a. NoCircle(Q)
    <3> SUFFICES ASSUME NEW part \in SUBSET (FreeIn(Q) \ {0}), part # {}
                 PROVE  \E i \in part : Q.reg[i] \notin part
      BY DEF NoCircle
    <3>1. part \in SUBSET (FreeIn(R) \ {0})
      BY <2>8
    <3>2. PICK i \in part : R.reg[i] \notin part
      BY <1>c, <3>1
    <3>3. i \in 0..MaxSlots /\ i # n /\ i # 0
      BY <1>b, <2>8, <3>1, <3>2
    <3> QED
      BY <2>7, <3>2, <3>3
  <2>12. ListIntact(Q)
    <3>1. 0 \in FreeIn(Q)
      BY <1>0, <2>2, <2>8 DEF ListIntact
    <3>2. \A i \in 0..MaxSlots : i > Q.top => Q.reg[i] = NoRef
      BY <1>0, <1>1, <2>2, <2>6, <2>7 DEF ListIntact
    <3> QED
      BY <2>10, <2>11, <2>a, <3>1, <3>2 DEF ListIntact
  <2>13. \A i \in 0..MaxSlots : Q.reg[i] \in Values => i = n \/ R.reg[i] \in Values
    BY <2>3, <2>6, <2>7, ValuesAreNoSlots
  <2> QED
    BY <1>0, <1>2, <1>3, <2>1, <2>2, <2>3, <2>5, <2>6, <2>7, <2>12, <2>13, ValuesAreNoSlots
<1>4. CASE R.reg[0] \notin Slots
  <2>1. R.reg[0] = 0
    BY <1>0, <1>2, <1>4 DEF Slots
  <2>2. \A i \in 0..R.top : R.reg[i] = 0 => i = 0
    BY <1>0, <1>1, <2>1 DEF ListIntact, FreeIn
  <2>3. n = R.top + 1 /\ n \in Slots
    BY <1>0, <1>1, <1>4, <2>2 DEF RefSlots, Slots, NoRef
  <2>4. R.reg[n] = 0
    BY <1>0, <1>1, <2>3 DEF ListIntact, NoRef, Slots
  <2>5. Q = [reg |-> [i \in 0..MaxSlots |-> IF i = n THEN v ELSE R.reg[i]], top |-> n]
    <3>1. n > R.top
      BY <1>1, <2>3
    <3> QED
      BY <1>4, <3>1, Zenon DEF RefAt
  <2>6. Q \in Registries
    BY <1>0, <1>1, <2>3, <2>5 DEF Registries, Slots
  <2>7. Q.reg[n] = v /\ Q.top = n /\ \A i \in 0..MaxSlots : i # n => Q.reg[i] = R.reg[i]
    BY <1>0, <2>3, <2>5 DEF Slots
  <2>8. FreeIn(Q) = FreeIn(R)
    BY <1>0, <1>1, <2>3, <2>7 DEF FreeIn, Slots
  <2>9. n \notin FreeIn(R)
    BY <1>0, <1>1, <2>3 DEF FreeIn
  <2>10. \A i \in FreeIn(R) : Q.reg[i] = R.reg[i]
    BY <1>0, <1>1, <2>7, <2>9 DEF FreeIn
  <2>a. NoCircle(Q)
    BY <1>c, <2>8, <2>10 DEF NoCircle
  <2>11. ListIntact(Q)
    BY <1>0, <1>1, <2>3, <2>7, <2>8, <2>10, <2>a DEF ListIntact
  <2> QED
    BY <1>0, <2>3, <2>4, <2>6, <2>7, <2>11, ValuesAreNoSlots
<1> QED
  BY <1>3, <1>4

\* luaL_unref of a slot that holds a value puts it on the list; all other values stay.
LEMMA UnrefGives ==
    ASSUME NEW R \in Registries, ListIntact(R), NEW n \in 0..MaxSlots,
           n = NoRef \/ R.reg[n] \in Values
    PROVE  /\ Unref(R, n) \in Registries /\ ListIntact(Unref(R, n))
           /\ \A i \in 0..MaxSlots : i # n /\ R.reg[i] \in Values => Unref(R, n).reg[i] = R.reg[i]
           /\ \A i \in 0..MaxSlots : Unref(R, n).reg[i] \in Values => i # n /\ R.reg[i] \in Values
<1> DEFINE Q == Unref(R, n)
<1>0. MaxSlots \in Nat /\ \A v \in Values : v \notin 0..MaxSlots
  BY ObjectsAssumption
<1>1. R.reg \in [0..MaxSlots -> Values \cup 0..MaxSlots] /\ R.top \in 0..MaxSlots
  BY DEF Registries
<1>2. R.reg[0] \in 0..MaxSlots /\ R.reg[0] <= R.top /\ R.reg[0] \in FreeIn(R) /\ 0 \in FreeIn(R)
  BY DEF ListIntact, FreeIn
<1>a. \A i, j \in FreeIn(R) : R.reg[i] = R.reg[j] => i = j
  BY DEF ListIntact
<1>b. \A i \in FreeIn(R) : i \in 0..MaxSlots /\ R.reg[i] \in FreeIn(R)
  BY <1>0, <1>1 DEF FreeIn, ListIntact
<1>c. \A part \in SUBSET (FreeIn(R) \ {0}) : part # {} => \E i \in part : R.reg[i] \notin part
  BY DEF ListIntact, NoCircle
<1>3. CASE n = 0
  BY <1>0, <1>2, <1>3 DEF Unref, NoRef
<1>4. CASE n # 0
  <2>1. R.reg[n] \in Values /\ n \notin FreeIn(R)
    BY <1>0, <1>4 DEF NoRef, FreeIn
  <2>2. n \in 1..R.top
    BY <1>0, <1>1, <1>4, <2>1 DEF ListIntact, NoRef
  <2>3. Q = [R EXCEPT !.reg = [R.reg EXCEPT ![n] = R.reg[0], ![0] = n]]
    BY <1>4 DEF Unref, NoRef
  <2>4. /\ Q.reg[n] = R.reg[0] /\ Q.reg[0] = n /\ Q.top = R.top
        /\ \A i \in 0..MaxSlots : i # n /\ i # 0 => Q.reg[i] = R.reg[i]
    BY <1>0, <1>1, <2>2, <2>3 DEF Registries
  <2>5. Q \in Registries
    BY <1>0, <1>1, <1>2, <2>2, <2>3 DEF Registries
  <2>6. FreeIn(Q) = FreeIn(R) \cup {n}
    BY <1>0, <1>1, <1>2, <2>2, <2>4 DEF FreeIn
  <2>7. \A i \in FreeIn(Q) : Q.reg[i] \in FreeIn(Q)
    BY <1>2, <1>b, <2>2, <2>4, <2>6
  <2>8. \A i, j \in FreeIn(Q) : Q.reg[i] = Q.reg[j] => i = j
    BY <1>2, <1>a, <1>b, <2>1, <2>2, <2>4, <2>6
  <2>a. NoCircle(Q)
    <3> SUFFICES ASSUME NEW part \in SUBSET (FreeIn(Q) \ {0}), part # {}
                 PROVE  \E i \in part : Q.reg[i] \notin part
      BY DEF NoCircle
    <3> DEFINE older == part \ {n}
    <3>1. CASE older = {}
      <4>1. part = {n}
        BY <3>1
      <4>2. Q.reg[n] # n
        BY <1>2, <2>1, <2>4
      <4> QED
        BY <4>1, <4>2
    <3>2. CASE older # {}
      <4>1. older \in SUBSET (FreeIn(R) \ {0})
        BY <2>6
      <4>2. PICK i \in older : R.reg[i] \notin older
        BY <1>c, <3>2, <4>1
      <4>3. R.reg[i] \in FreeIn(R) /\ i \in 0..MaxSlots /\ i # 0 /\ i # n
        BY <1>b, <4>1, <4>2
      <4>4. Q.reg[i] = R.reg[i] /\ R.reg[i] # n
        BY <2>1, <2>4, <4>3
      <4> QED
        BY <4>2, <4>4
    <3> QED
      BY <3>1, <3>2
  <2>9. ListIntact(Q)
    BY <1>0, <1>1, <2>2, <2>4, <2>6, <2>7, <2>8, <2>a DEF ListIntact, FreeIn
  <2>10. \A i \in 0..MaxSlots : Q.reg[i] \in Values => i # n /\ R.reg[i] \in Values
    BY <1>0, <1>2, <2>2, <2>4
  <2> QED
    BY <1>0, <1>2, <2>4, <2>5, <2>9, <2>10
<1> QED
  BY <1>3, <1>4

\* The same for the outcomes of Refs and RefsIf.
LEMMA RefsGive ==
    ASSUME NEW R \in Registries, ListIntact(R), NEW v \in Values, NEW q \in Refs(R, v)
    PROVE  /\ q.after \in Registries /\ ListIntact(q.after)
           /\ q.slot \in Slots /\ q.after.reg[q.slot] = v /\ R.reg[q.slot] \notin Values
           /\ \A i \in 0..MaxSlots : R.reg[i] \in Values => q.after.reg[i] = R.reg[i]
           /\ \A i \in 0..MaxSlots : q.after.reg[i] \in Values => i = q.slot \/ R.reg[i] \in Values
<1>1. PICK n \in RefSlots(R) : q = [slot |-> n, after |-> RefAt(R, n, v)]
  BY DEF Refs
<1> QED
  BY <1>1, RefGives

LEMMA RefsIfGive ==
    ASSUME NEW R \in Registries, ListIntact(R), NEW v \in Values, NEW given \in BOOLEAN,
           NEW q \in RefsIf(given, R, v)
    PROVE  /\ q.after \in Registries /\ ListIntact(q.after)
           /\ q.slot \in 0..MaxSlots /\ (q.slot # NoRef => q.after.reg[q.slot] = v)
           /\ \A i \in 0..MaxSlots : R.reg[i] \in Values => q.after.reg[i] = R.reg[i]
           /\ \A i \in 0..MaxSlots : q.after.reg[i] \in Values =>
                    (i = q.slot /\ q.slot # NoRef) \/ R.reg[i] \in Values
<1>1. CASE given
  BY <1>1, RefsGive, ValuesAreNoSlots DEF RefsIf, NoRef
<1>2. CASE ~given
  <2>1. q = [slot |-> NoRef, after |-> R]
    BY <1>2 DEF RefsIf
  <2> QED
    BY <2>1, ValuesAreNoSlots DEF NoRef
<1> QED
  BY <1>1, <1>2

-----------------------------------------------------------------------------
(* What the actions do to the registry of a state *)

LEMMA RegistryNow ==
    ASSUME TypeOK
    PROVE  Registry \in Registries /\ Registry.reg = reg /\ Registry.top = top
  BY DEF TypeOK, Registry, Registries

\* All values stay where they are, but for those in the slots N.
Kept(N) == \A i \in 0..MaxSlots : i \notin N /\ reg[i] \in Values => reg'[i] = reg[i]

LEMMA RegistryNext ==
    ASSUME NEW R \in Registries, ListIntact(R), RegistryIs(R)
    PROVE  /\ reg' \in [0..MaxSlots -> Values \cup 0..MaxSlots] /\ top' \in 0..MaxSlots
           /\ ListIntact(Registry)'
<1>1. R.reg \in [0..MaxSlots -> Values \cup 0..MaxSlots] /\ R.top \in 0..MaxSlots
  BY DEF Registries
<1>2. reg' = R.reg /\ top' = R.top
  BY DEF RegistryIs
<1>3. Registry' = R
  BY <1>2 DEF Registry, Registries
<1> QED
  BY <1>1, <1>2, <1>3 DEF ListIntact, FreeIn

LEMMA RegistrySame ==
    ASSUME ListIntact(Registry), reg' = reg, top' = top
    PROVE  ListIntact(Registry)' /\ \A N : Kept(N)
  BY DEF ListIntact, FreeIn, Registry, Kept

LEMMA MadeIs ==
    ASSUME TypeOK, ListIntact(Registry), NEW o \in Servers \cup Timers, NEW given \in BOOLEAN,
           NEW p \in RefsIf(given, Registry, Func), NEW q \in Refs(p.after, o), Made(o, p, q)
    PROVE  /\ reg' \in [0..MaxSlots -> Values \cup 0..MaxSlots] /\ top' \in 0..MaxSlots
           /\ ListIntact(Registry)' /\ Kept({})
           /\ p.slot \in 0..MaxSlots /\ (p.slot # NoRef => reg'[p.slot] = Func)
           /\ q.slot \in Slots /\ reg'[q.slot] = o
           /\ \A i \in 0..MaxSlots : reg'[i] \in Values => 
                (i = p.slot /\ p.slot # NoRef) \/ i = q.slot \/ reg[i] \in Values
<1>0. o \in Values /\ Func \in Values
  BY DEF Values, Userdata, Objects
<1>1. Registry \in Registries /\ Registry.reg = reg
  BY RegistryNow
<1>2. /\ p.after \in Registries /\ ListIntact(p.after)
      /\ p.slot \in 0..MaxSlots /\ (p.slot # NoRef => p.after.reg[p.slot] = Func)
      /\ \A i \in 0..MaxSlots : reg[i] \in Values => p.after.reg[i] = reg[i]
      /\ \A i \in 0..MaxSlots : p.after.reg[i] \in Values =>
            (i = p.slot /\ p.slot # NoRef) \/ reg[i] \in Values
  BY <1>0, <1>1, RefsIfGive
<1>3. /\ q.after \in Registries /\ ListIntact(q.after)
      /\ q.slot \in Slots /\ q.after.reg[q.slot] = o
      /\ \A i \in 0..MaxSlots : p.after.reg[i] \in Values => q.after.reg[i] = p.after.reg[i]
      /\ \A i \in 0..MaxSlots : q.after.reg[i] \in Values => i = q.slot \/ p.after.reg[i] \in Values
  BY <1>0, <1>2, RefsGive
<1>4. RegistryIs(q.after) /\ reg' = q.after.reg
  BY DEF Made, RegistryIs
<1>5. Kept({})
  BY <1>2, <1>3, <1>4 DEF Kept
<1>6. p.slot # NoRef => reg'[p.slot] = Func
  BY <1>0, <1>2, <1>3, <1>4
<1> QED
  BY <1>2, <1>3, <1>4, <1>5, <1>6, RegistryNext

LEMMA FailedIs ==
    ASSUME TypeOK, ListIntact(Registry), NEW s \in Servers, NEW given \in BOOLEAN,
           NEW p \in RefsIf(given, Registry, Func), RegistryIs(p.after)
    PROVE  /\ reg' \in [0..MaxSlots -> Values \cup 0..MaxSlots] /\ top' \in 0..MaxSlots
           /\ ListIntact(Registry)' /\ Kept({})
           /\ p.slot \in 0..MaxSlots /\ (p.slot # NoRef => reg'[p.slot] = Func)
<1>0. Func \in Values
  BY DEF Values
<1>1. Registry \in Registries /\ Registry.reg = reg
  BY RegistryNow
<1>2. /\ p.after \in Registries /\ ListIntact(p.after)
      /\ p.slot \in 0..MaxSlots /\ (p.slot # NoRef => p.after.reg[p.slot] = Func)
      /\ \A i \in 0..MaxSlots : reg[i] \in Values => p.after.reg[i] = reg[i]
  BY <1>0, <1>1, RefsIfGive
<1>3. reg' = p.after.reg
  BY DEF RegistryIs
<1> QED
  BY <1>2, <1>3, RegistryNext DEF Kept

LEMMA AcceptIs ==
    ASSUME TypeOK, ListIntact(Registry), NEW c \in Conns,
           NEW q \in Refs(Registry, c), RegistryIs(q.after)
    PROVE  /\ reg' \in [0..MaxSlots -> Values \cup 0..MaxSlots] /\ top' \in 0..MaxSlots
           /\ ListIntact(Registry)' /\ Kept({})
           /\ q.slot \in Slots /\ reg'[q.slot] = c
           /\ \A i \in 0..MaxSlots : reg'[i] \in Values => i = q.slot \/ reg[i] \in Values
<1>0. c \in Values
  BY DEF Values, Userdata, Objects
<1>1. Registry \in Registries /\ Registry.reg = reg
  BY RegistryNow
<1>2. reg' = q.after.reg
  BY DEF RegistryIs
<1> QED
  BY <1>0, <1>1, <1>2, RefsGive, RegistryNext DEF Kept

\* The values are those of before, but for one in n and none in m.
OnlyNew(n, m) ==
    \A i \in 0..MaxSlots : reg'[i] \in Values => i = n \/ (i # m /\ reg[i] \in Values)

\* set_decoder: the old decoder's slot is given up and one for the new taken.
LEMMA SetDecoderIs ==
    ASSUME TypeOK, ListIntact(Registry), NEW c \in Conns, dref[c] \in 0..MaxSlots,
           dref[c] = NoRef \/ reg[dref[c]] \in Values,
           NEW d \in Decoders, NEW q \in Refs(Unref(Registry, dref[c]), d), RegistryIs(q.after)
    PROVE  /\ reg' \in [0..MaxSlots -> Values \cup 0..MaxSlots] /\ top' \in 0..MaxSlots
           /\ ListIntact(Registry)' /\ Kept({dref[c]})
           /\ q.slot \in Slots /\ reg'[q.slot] = d
           /\ q.slot = dref[c] \/ reg[q.slot] \notin Values
           /\ OnlyNew(q.slot, dref[c])
<1>0. d \in Values
  BY DEF Values
<1>1. Registry \in Registries /\ Registry.reg = reg
  BY RegistryNow
<1> DEFINE U == Unref(Registry, dref[c])
<1>2. /\ U \in Registries /\ ListIntact(U)
      /\ \A i \in 0..MaxSlots : i # dref[c] /\ reg[i] \in Values => U.reg[i] = reg[i]
      /\ \A i \in 0..MaxSlots : U.reg[i] \in Values => i # dref[c] /\ reg[i] \in Values
  BY <1>1, UnrefGives
<1>3. /\ q.after \in Registries /\ ListIntact(q.after)
      /\ q.slot \in Slots /\ q.after.reg[q.slot] = d /\ U.reg[q.slot] \notin Values
      /\ \A i \in 0..MaxSlots : U.reg[i] \in Values => q.after.reg[i] = U.reg[i]
      /\ \A i \in 0..MaxSlots : q.after.reg[i] \in Values => i = q.slot \/ U.reg[i] \in Values
  BY <1>0, <1>2, RefsGive
<1>4. reg' = q.after.reg
  BY DEF RegistryIs
<1> HIDE DEF U
<1>5. Kept({dref[c]})
  BY <1>2, <1>3, <1>4 DEF Kept
<1>6. q.slot = dref[c] \/ reg[q.slot] \notin Values
  <2>1. q.slot \in 0..MaxSlots
    BY <1>3, ValuesAreNoSlots
  <2> QED
    BY <1>2, <1>3, <2>1
<1>7. OnlyNew(q.slot, dref[c])
  BY <1>2, <1>3, <1>4 DEF OnlyNew
<1> QED
  BY <1>3, <1>4, <1>5, <1>6, <1>7, RegistryNext

\* The close callback gives up two slots, the loop's __gc one.
LEMMA UnrefsAre ==
    ASSUME TypeOK, ListIntact(Registry), NEW c \in Conns, self[c] \in 0..MaxSlots, dref[c] \in 0..MaxSlots,
           reg[self[c]] \in Values,
           dref[c] = NoRef \/ (dref[c] # self[c] /\ reg[dref[c]] \in Values),
           RegistryIs(Unref(Unref(Registry, self[c]), dref[c]))
    PROVE  /\ reg' \in [0..MaxSlots -> Values \cup 0..MaxSlots] /\ top' \in 0..MaxSlots
           /\ ListIntact(Registry)' /\ Kept({self[c], dref[c]})
           /\ \A i \in 0..MaxSlots : reg'[i] \in Values => 
                i # self[c] /\ i # dref[c] /\ reg[i] \in Values
<1>1. Registry \in Registries /\ Registry.reg = reg
  BY RegistryNow
<1> DEFINE U == Unref(Registry, self[c])
           W == Unref(U, dref[c])
<1>2. /\ U \in Registries /\ ListIntact(U)
      /\ \A i \in 0..MaxSlots : i # self[c] /\ reg[i] \in Values => U.reg[i] = reg[i]
      /\ \A i \in 0..MaxSlots : U.reg[i] \in Values => i # self[c] /\ reg[i] \in Values
  BY <1>1, UnrefGives
<1> HIDE DEF U
<1>3. dref[c] = NoRef \/ U.reg[dref[c]] \in Values
  BY <1>2
<1>4. /\ W \in Registries /\ ListIntact(W)
      /\ \A i \in 0..MaxSlots : i # dref[c] /\ U.reg[i] \in Values => W.reg[i] = U.reg[i]
      /\ \A i \in 0..MaxSlots : W.reg[i] \in Values => i # dref[c] /\ U.reg[i] \in Values
  BY <1>2, <1>3, UnrefGives
<1>5. RegistryIs(W) /\ reg' = W.reg
  BY DEF RegistryIs, U
<1> HIDE DEF W
<1>6. Kept({self[c], dref[c]})
  BY <1>2, <1>4, <1>5 DEF Kept
<1>7. \A i \in 0..MaxSlots : reg'[i] \in Values => i # self[c] /\ i # dref[c] /\ reg[i] \in Values
  BY <1>2, <1>4, <1>5
<1> QED
  BY <1>4, <1>5, <1>6, <1>7, RegistryNext

LEMMA UnrefIs ==
    ASSUME TypeOK, ListIntact(Registry), NEW o \in Objects, self[o] \in 0..MaxSlots,
           reg[self[o]] \in Values,
           RegistryIs(Unref(Registry, self[o]))
    PROVE  /\ reg' \in [0..MaxSlots -> Values \cup 0..MaxSlots] /\ top' \in 0..MaxSlots
           /\ ListIntact(Registry)' /\ Kept({self[o]})
<1>1. Registry \in Registries /\ Registry.reg = reg
  BY RegistryNow
<1>2. reg' = Unref(Registry, self[o]).reg
  BY DEF RegistryIs
<1> QED
  BY <1>1, <1>2, UnrefGives, RegistryNext DEF Kept

-----------------------------------------------------------------------------
(* The invariant, by the objects it is about *)

Typed ==
    /\ mem \in [Userdata -> {"none", "live", "final"}]
    /\ held \subseteq Userdata
    /\ cur \in Conns \cup {None}
    /\ reg \in [0..MaxSlots -> Values \cup 0..MaxSlots] /\ top \in 0..MaxSlots
    /\ self \in [Objects -> 0..MaxSlots]
    /\ cb \in [Servers \cup Timers -> 0..MaxSlots]
    /\ dref \in [Conns -> 0..MaxSlots]
    /\ decoder \in [Conns -> Decoders \cup {None}]
    /\ hnd \in [Objects -> {"none", "open", "closing", "closed"}]
    /\ loopHeap \subseteq Servers \cup Timers /\ connHeap \subseteq Conns

Flags == running \in BOOLEAN /\ misuse \subseteq {"late decoder", "failed create"}
         /\ ended \in {"no", "clean", "aborted"}

ConnOK(c) ==
    Linked(c) => /\ mem[c] = "live" /\ reg[self[c]] = c
                 /\ decoder[c] = None => dref[c] = NoRef
                 /\ decoder[c] # None => reg[dref[c]] = decoder[c]

HeapOK(o) ==
    o \in loopHeap => /\ mem[o] = "live" /\ reg[self[o]] = o
                      /\ cb[o] # NoRef => reg[cb[o]] = Func

NoneShares ==
    \A b, c \in Conns : Linked(b) /\ Linked(c) /\ decoder[b] # None /\ decoder[c] # None /\ b # c
        => dref[b] # dref[c]

LifeOK ==
    /\ \A c \in connHeap : Linked(c)
    /\ \A c \in Conns : c \in held => hnd[c] # "none"
    /\ cur # None => hnd[cur] = "closed"
    /\ \A o \in Objects : hnd[o] = "none" => self[o] = NoRef
    /\ mem[Loop] = "live" =>
        \A o \in Servers \cup Timers : hnd[o] \in {"open", "closing"} /\ self[o] # NoRef => o \in loopHeap

Parts ==
    /\ Typed /\ ListIntact(Registry)
    /\ \A c \in Conns : ConnOK(c)
    /\ \A o \in Servers \cup Timers : HeapOK(o)
    /\ NoneShares /\ LifeOK

LEMMA TypeIs == TypeOK <=> Typed /\ Flags
  BY Zenon DEF TypeOK, Typed, Flags

LEMMA InvIs == ObjInv <=> Parts /\ Flags /\ SlotsNamed
<1>1. ASSUME Typed
      PROVE  RefsHold /\ (\A o \in loopHeap : mem[o] = "live")
                  /\ (\A c \in Conns : Linked(c) => mem[c] = "live")
             <=> (\A c \in Conns : ConnOK(c)) /\ (\A o \in Servers \cup Timers : HeapOK(o))
  <2>1. loopHeap \subseteq Servers \cup Timers
    BY <1>1 DEF Typed
  <2>2. ASSUME NEW c \in Conns
        PROVE  (IF decoder[c] = None THEN dref[c] = NoRef ELSE reg[dref[c]] = decoder[c])
               <=> (decoder[c] = None => dref[c] = NoRef) /\ (decoder[c] # None => reg[dref[c]] = decoder[c])
    OBVIOUS
  <2> QED
    BY <2>1, <2>2, Zenon DEF RefsHold, HandlersGetTheirConn, ConnOK, HeapOK
<1>2. ObjInv <=> /\ SlotsNamed /\ Typed /\ Flags /\ ListIntact(Registry) /\ NoneShares /\ LifeOK
                 /\ RefsHold /\ (\A o \in loopHeap : mem[o] = "live")
                 /\ (\A c \in Conns : Linked(c) => mem[c] = "live")
  BY TypeIs, Zenon DEF ObjInv, NoneShares, LifeOK
<1> QED
  BY <1>1, <1>2, Zenon DEF Parts

\* The kinds of objects and values are apart.
LEMMA Kinds ==
    /\ Loop \in Userdata /\ Loop \notin Objects /\ None \notin Values
    /\ \A c \in Conns : c \in Objects /\ c \in Values /\ c \in Userdata /\ c # Loop /\ c # None
                        /\ c \notin Servers \cup Timers /\ c \notin Decoders /\ c # Func
    /\ \A o \in Servers \cup Timers : o \in Objects /\ o \in Values /\ o \in Userdata /\ o # Loop
                        /\ o \notin Conns /\ o \notin Decoders /\ o # Func
    /\ \A d \in Decoders : d \in Values /\ d # None /\ d # Func /\ d \notin Objects
    /\ Func \in Values /\ Func \notin Objects
  BY ObjectsAssumption DEF Objects, Userdata, Values

\* What is known, or in the live loop's heap, is in the registry, where the collector
\* finds it.
LEMMA KnownIsAnchored ==
    ASSUME Parts
    PROVE  /\ reg[0] \notin Values
           /\ \A n \in 0..MaxSlots : reg[n] \in Values => n \in 0..top /\ n # 0
           /\ \A c \in Conns : Linked(c) => Anchored(c)
           /\ \A o \in loopHeap : Anchored(o)
<1>0. MaxSlots \in Nat /\ \A v \in Values : v \notin 0..MaxSlots
  BY ObjectsAssumption
<1>1. reg[0] \in 0..MaxSlots
  BY DEF Parts, ListIntact, FreeIn, Registry
<1>2. top \in 0..MaxSlots /\ \A n \in 0..MaxSlots : n > top => reg[n] = NoRef
  BY DEF Parts, Typed, ListIntact, Registry
<1>3. \A n \in 0..MaxSlots : reg[n] \in Values => n \in 0..top /\ n # 0
  BY <1>0, <1>1, <1>2 DEF NoRef
<1>4. ASSUME NEW c \in Conns, Linked(c)
      PROVE  Anchored(c)
  <2>1. self[c] \in 0..MaxSlots /\ reg[self[c]] = c
    BY <1>4, Kinds DEF Parts, Typed, ConnOK
  <2> QED
    BY <1>3, <2>1, Kinds DEF Anchored
<1>5. ASSUME NEW o \in loopHeap
      PROVE  Anchored(o)
  <2>1. o \in Servers \cup Timers
    BY DEF Parts, Typed
  <2>2. self[o] \in 0..MaxSlots /\ reg[self[o]] = o
    BY <2>1, Kinds DEF Parts, Typed, HeapOK
  <2> QED
    BY <1>3, <2>1, <2>2, Kinds DEF Anchored
<1> QED
  BY <1>0, <1>1, <1>3, <1>4, <1>5

-----------------------------------------------------------------------------
(* Steps preserve it *)

\* A step that leaves alone what a known connection, or a member of the heap, has
\* referenced keeps its part of the invariant.
LEMMA ConnKept ==
    ASSUME Parts, NEW N, Kept(N), NEW c \in Conns, Linked(c), mem'[c] = "live",
           self[c] \notin N, decoder[c] # None => dref[c] \notin N,
           self'[c] = self[c], dref'[c] = dref[c], decoder'[c] = decoder[c]
    PROVE  ConnOK(c)'
<1>1. self[c] \in 0..MaxSlots /\ dref[c] \in 0..MaxSlots /\ decoder[c] \in Decoders \cup {None}
  BY Kinds DEF Parts, Typed
<1>2. reg[self[c]] = c /\ reg'[self[c]] = c
  BY <1>1, Kinds DEF Parts, ConnOK, Kept
<1>3. decoder[c] # None => reg'[dref[c]] = decoder[c]
  BY <1>1, Kinds DEF Parts, ConnOK, Kept
<1>4. decoder[c] = None => dref[c] = NoRef
  BY DEF Parts, ConnOK
<1> QED
  BY <1>2, <1>3, <1>4 DEF ConnOK

LEMMA HeapKept ==
    ASSUME Parts, NEW N, Kept(N), NEW o \in Servers \cup Timers, o \in loopHeap, mem'[o] = "live",
           self[o] \notin N, cb[o] # NoRef => cb[o] \notin N,
           self'[o] = self[o], cb'[o] = cb[o]
    PROVE  HeapOK(o)'
<1>1. self[o] \in 0..MaxSlots /\ cb[o] \in 0..MaxSlots
  BY Kinds DEF Parts, Typed
<1>2. reg'[self[o]] = o
  BY <1>1, Kinds DEF Parts, HeapOK, Kept
<1>3. cb[o] # NoRef => reg'[cb[o]] = Func
  BY <1>1, Kinds DEF Parts, HeapOK, Kept
<1> QED
  BY <1>2, <1>3 DEF HeapOK

\* Steps that neither reference nor unreference.
LEMMA Quiet ==
    ASSUME Parts, UNCHANGED <<reg, top, self, cb, dref, decoder>>,
           \A c \in Conns : Linked(c)' => Linked(c) /\ mem'[c] = "live",
           \A o \in loopHeap' : o \in loopHeap /\ mem'[o] = "live"
    PROVE  /\ ListIntact(Registry)' /\ NoneShares'
           /\ \A c \in Conns : ConnOK(c)'
           /\ \A o \in Servers \cup Timers : HeapOK(o)'
<1>1. ListIntact(Registry)' /\ Kept({})
  BY RegistrySame DEF Parts
<1>2. NoneShares'
  BY DEF Parts, NoneShares
<1>3. ASSUME NEW c \in Conns
      PROVE  ConnOK(c)'
  BY <1>1, ConnKept DEF ConnOK
<1>4. ASSUME NEW o \in Servers \cup Timers
      PROVE  HeapOK(o)'
  BY <1>1, HeapKept DEF HeapOK
<1> QED
  BY <1>1, <1>2, <1>3, <1>4

LEMMA CreateLoopStep == Parts /\ CreateLoop => Parts'
<1> SUFFICES ASSUME Parts, CreateLoop PROVE Parts'
  OBVIOUS
<1> USE DEF CreateLoop
<1>1. Typed'
  BY Kinds DEF Parts, Typed
<1>2. \A c \in Conns : Linked(c)' => Linked(c) /\ mem'[c] = "live"
  BY Kinds DEF Parts, Typed, ConnOK, Linked
<1>3. LifeOK'
  BY <1>2, Kinds DEF Parts, Typed, LifeOK, Linked
<1> QED
  BY <1>1, <1>2, <1>3, Quiet DEF Parts

LEMMA RunStep == Parts /\ (Run \/ RunReturns) => Parts'
<1> SUFFICES ASSUME Parts, Run \/ RunReturns PROVE Parts'
  OBVIOUS
<1> USE DEF Run, RunReturns
<1>1. Typed'
  BY DEF Parts, Typed
<1>2. \A c \in Conns : Linked(c)' => Linked(c) /\ mem'[c] = "live"
  BY DEF Parts, ConnOK, Linked
<1>3. LifeOK'
  BY DEF Parts, LifeOK, Linked
<1>4. \A o \in loopHeap' : o \in loopHeap /\ mem'[o] = "live"
  BY DEF Parts, Typed, HeapOK
<1> QED
  BY <1>1, <1>2, <1>3, <1>4, Quiet DEF Parts

LEMMA DropStep == ASSUME NEW o \in Userdata PROVE Parts /\ Drop(o) => Parts'
<1> SUFFICES ASSUME Parts, Drop(o) PROVE Parts'
  OBVIOUS
<1> USE DEF Drop
<1>1. Typed'
  BY DEF Parts, Typed
<1>2. \A c \in Conns : Linked(c)' => Linked(c) /\ mem'[c] = "live"
  BY DEF Parts, ConnOK, Linked
<1>3. LifeOK'
  BY DEF Parts, LifeOK, Linked
<1>4. \A x \in loopHeap' : x \in loopHeap /\ mem'[x] = "live"
  BY DEF Parts, Typed, HeapOK
<1> QED
  BY <1>1, <1>2, <1>3, <1>4, Quiet DEF Parts

LEMMA KeepStep == ASSUME NEW c \in Conns PROVE Parts /\ Keep(c) => Parts'
<1> SUFFICES ASSUME Parts, Keep(c) PROVE Parts'
  OBVIOUS
<1> USE DEF Keep
<1>1. Typed'
  BY Kinds DEF Parts, Typed
<1>2. \A x \in Conns : Linked(x)' => Linked(x) /\ mem'[x] = "live"
  BY DEF Parts, ConnOK, Linked
<1>3. hnd[c] # "none"
  BY Kinds DEF Parts, LifeOK
<1>4. LifeOK'
  BY <1>3 DEF Parts, LifeOK, Linked
<1>5. \A x \in loopHeap' : x \in loopHeap /\ mem'[x] = "live"
  BY DEF Parts, Typed, HeapOK
<1> QED
  BY <1>1, <1>2, <1>4, <1>5, Quiet DEF Parts

LEMMA HeapStep == ASSUME NEW c \in Conns PROVE Parts /\ (IdleKick(c) \/ HeardFrom(c)) => Parts'
<1> SUFFICES ASSUME Parts, IdleKick(c) \/ HeardFrom(c) PROVE Parts'
  OBVIOUS
<1> USE DEF IdleKick, HeardFrom
<1>1. Typed'
  BY DEF Parts, Typed
<1>2. \A x \in Conns : Linked(x)' => Linked(x) /\ mem'[x] = "live"
  BY DEF Parts, ConnOK, Linked
<1>3. LifeOK'
  BY DEF Parts, LifeOK, Linked
<1>4. \A x \in loopHeap' : x \in loopHeap /\ mem'[x] = "live"
  BY DEF Parts, Typed, HeapOK
<1> QED
  BY <1>1, <1>2, <1>3, <1>4, Quiet DEF Parts

LEMMA CloseConnStep == ASSUME NEW c \in Conns PROVE Parts /\ CloseConn(c) => Parts'
<1> SUFFICES ASSUME Parts, CloseConn(c) PROVE Parts'
  OBVIOUS
<1> USE DEF CloseConn
<1>1. Typed'
  BY Kinds DEF Parts, Typed
<1>2. \A x \in Conns : Linked(x)' => Linked(x) /\ mem'[x] = "live"
  BY Kinds DEF Parts, Typed, ConnOK, Linked
<1>3. LifeOK'
  BY Kinds DEF Parts, Typed, LifeOK, Linked, LoopRuns
<1>4. \A x \in loopHeap' : x \in loopHeap /\ mem'[x] = "live"
  BY DEF Parts, Typed, HeapOK
<1> QED
  BY <1>1, <1>2, <1>3, <1>4, Quiet DEF Parts

LEMMA FinishCloseStep == ASSUME NEW o \in Servers \cup Conns PROVE Parts /\ FinishClose(o) => Parts'
<1> SUFFICES ASSUME Parts, FinishClose(o) PROVE Parts'
  OBVIOUS
<1> USE DEF FinishClose
<1>1. Typed'
  BY Kinds DEF Parts, Typed
<1>2. \A x \in Conns : Linked(x)' <=> Linked(x)
  BY Kinds DEF Parts, Typed, Linked, LoopRuns
<1>3. LifeOK'
  BY <1>2, Kinds DEF Parts, Typed, LifeOK
<1>4. \A x \in loopHeap' : x \in loopHeap /\ mem'[x] = "live"
  BY DEF Parts, Typed, HeapOK
<1>5. \A x \in Conns : Linked(x)' => Linked(x) /\ mem'[x] = "live"
  BY <1>2 DEF Parts, ConnOK
<1> QED
  BY <1>1, <1>3, <1>4, <1>5, Quiet DEF Parts

LEMMA FinalizeServerStep == ASSUME NEW s \in Servers PROVE Parts /\ FinalizeServer(s) => Parts'
<1> SUFFICES ASSUME Parts, FinalizeServer(s) PROVE Parts'
  OBVIOUS
<1> USE DEF FinalizeServer
<1>1. Typed'
  BY Kinds DEF Parts, Typed
<1>2. \A x \in Conns : Linked(x)' => Linked(x) /\ mem'[x] = "live"
  BY Kinds DEF Parts, Typed, ConnOK, Linked
<1>3. LifeOK'
  BY Kinds DEF Parts, Typed, LifeOK, Linked
<1>4. s \notin loopHeap
  BY KnownIsAnchored
<1>5. \A x \in loopHeap' : x \in loopHeap /\ mem'[x] = "live"
  BY <1>4, Kinds DEF Parts, Typed, HeapOK
<1> QED
  BY <1>1, <1>2, <1>3, <1>5, Quiet DEF Parts

\* A new server or timer, with its two references.
LEMMA MadeStep ==
    ASSUME Parts, NEW o \in Servers \cup Timers, NEW given \in BOOLEAN, Fresh(o),
           NEW p \in RefsIf(given, Registry, Func), NEW q \in Refs(p.after, o), Made(o, p, q),
           TypeOK
    PROVE  Parts'
<1>1. /\ reg' \in [0..MaxSlots -> Values \cup 0..MaxSlots] /\ top' \in 0..MaxSlots
      /\ ListIntact(Registry)' /\ Kept({})
      /\ p.slot \in 0..MaxSlots /\ (p.slot # NoRef => reg'[p.slot] = Func)
      /\ q.slot \in Slots /\ reg'[q.slot] = o
  BY MadeIs DEF Parts
<1>2. /\ cb' = [cb EXCEPT ![o] = p.slot] /\ self' = [self EXCEPT ![o] = q.slot]
      /\ mem' = [mem EXCEPT ![o] = "live"] /\ hnd' = [hnd EXCEPT ![o] = "open"]
      /\ loopHeap' = loopHeap \cup {o} /\ held' = held \cup {o}
      /\ UNCHANGED <<running, cur, dref, decoder, connHeap, misuse, ended>>
  BY DEF Made
<1>3. Typed'
  BY <1>1, <1>2, Kinds, ValuesAreNoSlots DEF Parts, Typed
<1>4. \A c \in Conns : (Linked(c)' <=> Linked(c)) /\ self'[c] = self[c] /\ mem'[c] = mem[c]
  BY <1>2, Kinds DEF Parts, Typed, Linked
<1>5. ASSUME NEW c \in Conns
      PROVE  ConnOK(c)'
  BY <1>1, <1>2, <1>4, ConnKept DEF ConnOK, Parts
<1>6. o \notin loopHeap
  BY DEF Parts, HeapOK, Fresh
<1>7. ASSUME NEW x \in Servers \cup Timers
      PROVE  HeapOK(x)'
  <2>1. CASE x = o
    BY <1>1, <1>2, <2>1, Kinds DEF HeapOK, Parts, Typed
  <2>2. CASE x # o
    <3>1. self'[x] = self[x] /\ cb'[x] = cb[x] /\ mem'[x] = mem[x]
      BY <1>2, <2>2, Kinds DEF Parts, Typed
    <3> QED
      BY <1>1, <1>2, <2>2, <3>1, HeapKept DEF HeapOK, Parts
  <2> QED
    BY <2>1, <2>2
<1>8. NoneShares'
  BY <1>2, <1>4 DEF Parts, NoneShares
<1>9. LifeOK'
  BY <1>2, <1>4, Kinds DEF Parts, Typed, LifeOK
<1> QED
  BY <1>1, <1>3, <1>5, <1>7, <1>8, <1>9 DEF Parts

LEMMA CreateStep ==
    ASSUME NEW o \in Servers \cup Timers, NEW given \in BOOLEAN
    PROVE  Parts /\ Flags /\ (CreateServer(o, given) \/ CreateTimer(o, given)) => Parts'
  BY MadeStep, TypeIs DEF CreateServer, CreateTimer, Parts

LEMMA CreateServerFailsStep ==
    ASSUME NEW s \in Servers, NEW given \in BOOLEAN
    PROVE  Parts /\ Flags /\ CreateServerFails(s, given) => Parts'
<1> SUFFICES ASSUME Parts, Flags, CreateServerFails(s, given) PROVE Parts'
  OBVIOUS
<1>0. TypeOK /\ Fresh(s)
  BY TypeIs DEF Parts, CreateServerFails
<1>1. PICK p \in RefsIf(given, Registry, Func) : RegistryIs(p.after) /\ cb' = [cb EXCEPT ![s] = p.slot]
  BY DEF CreateServerFails
<1>2. /\ reg' \in [0..MaxSlots -> Values \cup 0..MaxSlots] /\ top' \in 0..MaxSlots
      /\ ListIntact(Registry)' /\ Kept({}) /\ p.slot \in 0..MaxSlots
  BY <1>0, <1>1, FailedIs DEF Parts
<1>3. /\ mem' = [mem EXCEPT ![s] = "live"] /\ hnd' = [hnd EXCEPT ![s] = "closing"]
      /\ UNCHANGED <<held, running, cur, self, dref, decoder, loopHeap, connHeap, ended>>
  BY DEF CreateServerFails
<1>4. Typed'
  BY <1>1, <1>2, <1>3, Kinds DEF Parts, Typed
<1>5. \A c \in Conns : (Linked(c)' <=> Linked(c)) /\ mem'[c] = mem[c]
  BY <1>3, Kinds DEF Parts, Typed, Linked
<1>6. ASSUME NEW c \in Conns
      PROVE  ConnOK(c)'
  BY <1>2, <1>3, <1>5, ConnKept DEF ConnOK, Parts
<1>7. s \notin loopHeap /\ self[s] = NoRef
  BY <1>0, Kinds DEF Parts, HeapOK, LifeOK, Fresh
<1>8. ASSUME NEW x \in Servers \cup Timers
      PROVE  HeapOK(x)'
  <2>1. x # s => cb'[x] = cb[x] /\ mem'[x] = mem[x]
    BY <1>1, <1>3, Kinds DEF Parts, Typed
  <2> QED
    BY <1>2, <1>3, <1>7, <2>1, HeapKept DEF HeapOK, Parts
<1>9. NoneShares'
  BY <1>3, <1>5 DEF Parts, NoneShares
<1>10. LifeOK'
  BY <1>3, <1>5, <1>7, Kinds DEF Parts, Typed, LifeOK
<1> QED
  BY <1>2, <1>4, <1>6, <1>8, <1>9, <1>10 DEF Parts

LEMMA AcceptStep ==
    ASSUME NEW s \in Servers, NEW c \in Conns, NEW served \in BOOLEAN
    PROVE  Parts /\ Flags /\ Accept(s, c, served) => Parts'
<1> SUFFICES ASSUME Parts, Flags, Accept(s, c, served) PROVE Parts'
  OBVIOUS
<1>0. TypeOK /\ Fresh(c) /\ cur = None
  BY TypeIs DEF Parts, Accept, LoopRuns
<1>1. PICK q \in Refs(Registry, c) : RegistryIs(q.after) /\ self' = [self EXCEPT ![c] = q.slot]
  BY DEF Accept
<1>2. /\ reg' \in [0..MaxSlots -> Values \cup 0..MaxSlots] /\ top' \in 0..MaxSlots
      /\ ListIntact(Registry)' /\ Kept({})
      /\ q.slot \in Slots /\ reg'[q.slot] = c
  BY <1>0, <1>1, AcceptIs DEF Parts
<1>3. /\ mem' = [mem EXCEPT ![c] = "live"]
      /\ dref' = [dref EXCEPT ![c] = NoRef] /\ decoder' = [decoder EXCEPT ![c] = None]
      /\ hnd' = [hnd EXCEPT ![c] = IF served THEN "open" ELSE "closing"]
      /\ connHeap' = IF served THEN connHeap \cup {c} ELSE connHeap
      /\ UNCHANGED <<held, running, cur, cb, loopHeap, misuse, ended>>
  BY DEF Accept
<1>4. Typed'
  BY <1>1, <1>2, <1>3, Kinds, ValuesAreNoSlots DEF Parts, Typed, NoRef
<1>5. /\ Linked(c)' /\ self'[c] = q.slot /\ mem'[c] = "live"
      /\ decoder'[c] = None /\ dref'[c] = NoRef
  BY <1>1, <1>3, Kinds DEF Parts, Typed, Linked
<1>6. \A x \in Conns : x # c => /\ Linked(x)' <=> Linked(x)
                                /\ self'[x] = self[x] /\ mem'[x] = mem[x]
                                /\ dref'[x] = dref[x] /\ decoder'[x] = decoder[x]
  BY <1>1, <1>3, Kinds DEF Parts, Typed, Linked
<1>7. ASSUME NEW x \in Conns
      PROVE  ConnOK(x)'
  <2>1. CASE x = c
    BY <1>2, <1>5, <2>1 DEF ConnOK
  <2>2. CASE x # c
    BY <1>2, <1>6, <2>2, ConnKept DEF ConnOK, Parts
  <2> QED
    BY <2>1, <2>2
<1>8. ASSUME NEW o \in Servers \cup Timers
      PROVE  HeapOK(o)'
  <2>1. self'[o] = self[o] /\ cb'[o] = cb[o] /\ mem'[o] = mem[o]
    BY <1>1, <1>3, Kinds DEF Parts, Typed
  <2> QED
    BY <1>2, <1>3, <2>1, HeapKept DEF HeapOK, Parts
<1>9. NoneShares'
  BY <1>5, <1>6 DEF Parts, NoneShares
<1>10. c \notin connHeap /\ hnd'[c] # "none"
  BY <1>0, <1>3, Kinds DEF Parts, Typed, LifeOK, Linked, Fresh
<1>11. LifeOK'
  BY <1>0, <1>1, <1>3, <1>5, <1>6, <1>10, Kinds DEF Parts, Typed, LifeOK
<1> QED
  BY <1>2, <1>4, <1>7, <1>8, <1>9, <1>11 DEF Parts

\* The slots a known connection names differ from each other and from those of others.
LEMMA SlotsDiffer ==
    ASSUME Parts, NEW c \in Conns, Linked(c)
    PROVE  /\ self[c] \in 0..MaxSlots /\ reg[self[c]] = c
           /\ dref[c] \in 0..MaxSlots /\ (dref[c] = NoRef \/ (dref[c] # self[c] /\ reg[dref[c]] \in Values))
           /\ \A b \in Conns : Linked(b) => self[b] # dref[c] /\ (decoder[b] # None => self[c] # dref[b])
           /\ \A b \in Conns : Linked(b) /\ b # c =>
                self[b] # self[c] /\ (decoder[b] # None => dref[b] # dref[c])
           /\ \A o \in loopHeap : self[o] \notin {self[c], dref[c]}
                                  /\ (cb[o] # NoRef => cb[o] \notin {self[c], dref[c]})
<1>1. /\ \A b \in Conns : Linked(b) => /\ self[b] \in 0..MaxSlots /\ reg[self[b]] = b
                                       /\ decoder[b] = None => dref[b] = 0
                                       /\ decoder[b] # None => reg[dref[b]] \in Decoders
      /\ \A b \in Conns : dref[b] \in 0..MaxSlots
  BY Kinds DEF Parts, Typed, ConnOK, NoRef
<1>2. \A o \in loopHeap : /\ reg[self[o]] = o /\ o \in Servers \cup Timers
                          /\ cb[o] # NoRef => reg[cb[o]] = Func
  BY DEF Parts, Typed, HeapOK
<1>3. reg[0] \notin Values
  BY KnownIsAnchored
<1>4. decoder[c] # None => \A b \in Conns : Linked(b) /\ b # c /\ decoder[b] # None => dref[b] # dref[c]
  BY DEF Parts, NoneShares
<1>5. dref[c] = NoRef \/ (dref[c] # self[c] /\ reg[dref[c]] \in Values)
  BY <1>1, Kinds DEF NoRef
<1>6. \A b \in Conns : Linked(b) => self[b] # dref[c] /\ (decoder[b] # None => self[c] # dref[b])
  BY <1>1, <1>3, Kinds
<1>7. \A b \in Conns : Linked(b) /\ b # c =>
        self[b] # self[c] /\ (decoder[b] # None => dref[b] # dref[c])
  BY <1>1, <1>3, <1>4, Kinds
<1>8. \A o \in loopHeap : self[o] # self[c] /\ self[o] # dref[c]
                          /\ (cb[o] # NoRef => cb[o] # self[c] /\ cb[o] # dref[c])
  BY <1>1, <1>2, <1>3, Kinds
<1> QED
  BY <1>1, <1>5, <1>6, <1>7, <1>8

LEMMA SetDecoderStep ==
    ASSUME "late decoder" \notin Script, NEW c \in Conns, NEW d \in Decoders
    PROVE  Parts /\ Flags /\ SetDecoder(c, d) => Parts'
<1> SUFFICES ASSUME Parts, Flags, SetDecoder(c, d) PROVE Parts'
  OBVIOUS
<1>0. TypeOK /\ Linked(c)
  <2>1. hnd[c] # "none" /\ ~Forgotten(c) /\ hnd[c] \in {"none", "open", "closing", "closed"}
    BY Kinds DEF Parts, Typed, LifeOK, SetDecoder
  <2> QED
    BY <2>1, TypeIs DEF Parts, Linked, Forgotten
<1>a. /\ self[c] \in 0..MaxSlots /\ reg[self[c]] = c /\ self[c] # dref[c]
      /\ dref[c] \in 0..MaxSlots /\ (dref[c] = NoRef \/ reg[dref[c]] \in Values)
  BY <1>0, SlotsDiffer
<1>1. PICK q \in Refs(Unref(Registry, dref[c]), d) :
        RegistryIs(q.after) /\ dref' = [dref EXCEPT ![c] = q.slot]
  BY DEF SetDecoder
<1>2. /\ reg' \in [0..MaxSlots -> Values \cup 0..MaxSlots] /\ top' \in 0..MaxSlots
      /\ ListIntact(Registry)' /\ Kept({dref[c]})
      /\ q.slot \in Slots /\ reg'[q.slot] = d
      /\ q.slot = dref[c] \/ reg[q.slot] \notin Values
  <2>1. ListIntact(Registry) /\ RegistryIs(q.after)
    BY <1>1 DEF Parts
  <2> QED
    BY <1>0, <1>1, <1>a, <2>1, SetDecoderIs
<1>3. /\ decoder' = [decoder EXCEPT ![c] = d]
      /\ UNCHANGED <<mem, held, running, cur, self, cb, hnd, loopHeap, connHeap, ended>>
  BY DEF SetDecoder
<1>4. Typed'
  BY <1>1, <1>2, <1>3, Kinds, ValuesAreNoSlots DEF Parts, Typed
<1>5. dref'[c] = q.slot /\ decoder'[c] = d
  BY <1>1, <1>3 DEF Parts, Typed
<1>6. /\ \A x \in Conns : Linked(x)' <=> Linked(x)
      /\ \A x \in Conns : x # c => dref'[x] = dref[x] /\ decoder'[x] = decoder[x]
  BY <1>1, <1>3 DEF Parts, Typed, Linked
<1>7. ASSUME NEW x \in Conns
      PROVE  ConnOK(x)'
  <2>1. CASE x = c
    <3>1. reg'[self[c]] = c
      BY <1>a, <1>2, Kinds DEF Kept
    <3> QED
      BY <1>0, <1>2, <1>3, <1>5, <2>1, <3>1, Kinds DEF ConnOK, Parts
  <2>2. CASE x # c
    <3>1. Linked(x) => self[x] \notin {dref[c]} /\ (decoder[x] # None => dref[x] \notin {dref[c]})
      BY <1>0, <2>2, SlotsDiffer
    <3> QED
      BY <1>2, <1>3, <1>6, <2>2, <3>1, ConnKept DEF ConnOK, Parts
  <2> QED
    BY <2>1, <2>2
<1>8. ASSUME NEW o \in Servers \cup Timers
      PROVE  HeapOK(o)'
  <2>1. o \in loopHeap => self[o] \notin {dref[c]} /\ (cb[o] # NoRef => cb[o] \notin {dref[c]})
    BY <1>0, SlotsDiffer
  <2> QED
    BY <1>2, <1>3, <2>1, HeapKept DEF HeapOK, Parts
<1>9. NoneShares'
  <2>1. ASSUME NEW x \in Conns, x # c, Linked(x), decoder[x] # None
        PROVE  dref[x] # q.slot
    <3>1. dref[x] # dref[c]
      BY <1>0, <2>1, SlotsDiffer
    <3>2. dref[x] \in 0..MaxSlots /\ reg[dref[x]] = decoder[x] /\ decoder[x] \in Decoders
      <4>1. dref[x] \in 0..MaxSlots /\ decoder[x] \in Decoders
        BY <2>1 DEF Parts, Typed
      <4> QED
        BY <2>1, <4>1 DEF Parts, ConnOK
    <3>3. reg[dref[x]] \in Values
      BY <3>2, Kinds
    <3> QED
      BY <1>2, <3>1, <3>2, <3>3
  <2> QED
    BY <1>5, <1>6, <2>1 DEF Parts, NoneShares
<1>10. LifeOK'
  <2>1. LifeOK /\ connHeap \subseteq Conns
    BY DEF Parts, Typed
  <2> QED
    BY <1>3, <1>6, <2>1 DEF LifeOK
<1> QED
  BY <1>2, <1>4, <1>7, <1>8, <1>9, <1>10 DEF Parts

LEMMA OnConnCloseStep == Parts /\ Flags /\ OnConnCloseReturns => Parts'
<1> SUFFICES ASSUME Parts, Flags, OnConnCloseReturns PROVE Parts'
  OBVIOUS
<1>0. PICK c \in Conns : c = cur
  BY DEF OnConnCloseReturns
<1>1. TypeOK /\ Linked(c)
  BY <1>0, Kinds, TypeIs DEF Parts, LifeOK, Linked
<1>a. /\ self[c] \in 0..MaxSlots /\ reg[self[c]] \in Values
      /\ dref[c] \in 0..MaxSlots /\ (dref[c] = NoRef \/ (dref[c] # self[c] /\ reg[dref[c]] \in Values))
  BY <1>1, SlotsDiffer, Kinds
<1>2. /\ connHeap' = connHeap \ {c} /\ cur' = None
      /\ RegistryIs(Unref(Unref(Registry, self[c]), dref[c]))
      /\ UNCHANGED <<mem, held, running, self, cb, dref, decoder, hnd, loopHeap, misuse, ended>>
  BY <1>0 DEF OnConnCloseReturns
<1>3. /\ reg' \in [0..MaxSlots -> Values \cup 0..MaxSlots] /\ top' \in 0..MaxSlots
      /\ ListIntact(Registry)' /\ Kept({self[c], dref[c]})
  <2>1. ListIntact(Registry)
    BY DEF Parts
  <2> QED
    BY <1>1, <1>a, <1>2, <2>1, UnrefsAre
<1>4. Typed'
  BY <1>2, <1>3 DEF Parts, Typed
<1>5. \A x \in Conns : Linked(x)' <=> Linked(x) /\ x # c
  BY <1>0, <1>1, <1>2, Kinds DEF Parts, Linked, LifeOK
<1>6. ASSUME NEW x \in Conns
      PROVE  ConnOK(x)'
  <2>1. CASE x = c
    BY <1>5, <2>1 DEF ConnOK
  <2>2. CASE x # c
    <3>1. Linked(x) => self[x] \notin {self[c], dref[c]}
                       /\ (decoder[x] # None => dref[x] \notin {self[c], dref[c]})
      BY <1>1, <2>2, SlotsDiffer
    <3> QED
      BY <1>2, <1>3, <1>5, <2>2, <3>1, ConnKept DEF ConnOK, Parts
  <2> QED
    BY <2>1, <2>2
<1>7. ASSUME NEW o \in Servers \cup Timers
      PROVE  HeapOK(o)'
  <2>1. o \in loopHeap => self[o] \notin {self[c], dref[c]}
                          /\ (cb[o] # NoRef => cb[o] \notin {self[c], dref[c]})
    BY <1>1, SlotsDiffer
  <2> QED
    BY <1>2, <1>3, <2>1, HeapKept DEF HeapOK, Parts
<1>8. NoneShares'
  BY <1>2, <1>5 DEF Parts, NoneShares
<1>9. LifeOK'
  BY <1>2, <1>5 DEF Parts, Typed, LifeOK
<1> QED
  BY <1>3, <1>4, <1>6, <1>7, <1>8, <1>9 DEF Parts

LEMMA FinalizeLoopStep == Parts /\ Flags /\ FinalizeLoop => Parts'
<1> SUFFICES ASSUME Parts, Flags, FinalizeLoop PROVE Parts'
  OBVIOUS
<1>1. TypeOK
  BY TypeIs DEF Parts
<1>2. /\ loopHeap' = {} /\ mem' = [mem EXCEPT ![Loop] = "final"]
      /\ UNCHANGED <<held, running, cur, self, cb, dref, decoder, hnd, connHeap, misuse, ended>>
  BY DEF FinalizeLoop
<1>3. \A c \in Conns : (Linked(c)' <=> Linked(c)) /\ mem'[c] = mem[c]
  BY <1>2, Kinds DEF Parts, Typed, Linked
<1>4. LifeOK'
  BY <1>2, <1>3, Kinds DEF Parts, Typed, LifeOK
<1>5. CASE UNCHANGED <<reg, top>>
  <2>1. Typed'
    BY <1>2, <1>5, Kinds DEF Parts, Typed
  <2>2. /\ UNCHANGED <<reg, top, self, cb, dref, decoder>>
        /\ \A c \in Conns : Linked(c)' => Linked(c) /\ mem'[c] = "live"
        /\ \A o \in loopHeap' : o \in loopHeap /\ mem'[o] = "live"
    BY <1>2, <1>3, <1>5 DEF Parts, ConnOK
  <2> QED
    BY <1>4, <2>1, <2>2, Quiet DEF Parts
<1>6. ASSUME NEW o \in FirstOf(loopHeap), RegistryIs(Unref(Registry, self[o]))
      PROVE  Parts'
  <2>1. o \in loopHeap /\ o \in Servers \cup Timers
    BY DEF FirstOf, Parts, Typed
  <2>2. o \in Objects /\ self[o] \in 0..MaxSlots /\ reg[self[o]] = o /\ o \in Values
    BY <2>1, Kinds DEF Parts, Typed, HeapOK
  <2>3. /\ reg' \in [0..MaxSlots -> Values \cup 0..MaxSlots] /\ top' \in 0..MaxSlots
        /\ ListIntact(Registry)' /\ Kept({self[o]})
    <3>1. ListIntact(Registry)
      BY DEF Parts
    <3> QED
      BY <1>1, <1>6, <2>2, <3>1, UnrefIs
  <2>4. Typed'
    BY <1>2, <2>3, Kinds DEF Parts, Typed
  <2>5. ASSUME NEW c \in Conns
        PROVE  ConnOK(c)'
    <3>1. Linked(c) => self[c] \notin {self[o]} /\ (decoder[c] # None => dref[c] \notin {self[o]})
      <4>1. Linked(c) => reg[self[c]] = c /\ (decoder[c] # None => reg[dref[c]] = decoder[c])
        BY DEF Parts, ConnOK
      <4>2. c # o /\ decoder[c] \in Decoders \cup {None}
        BY <2>1, Kinds DEF Parts, Typed
      <4> QED
        BY <2>2, <4>1, <4>2, Kinds
    <3> QED
      BY <1>2, <1>3, <2>3, <3>1, ConnKept DEF ConnOK, Parts
  <2>6. \A x \in Servers \cup Timers : HeapOK(x)'
    BY <1>2 DEF HeapOK
  <2>7. NoneShares'
    BY <1>2, <1>3 DEF Parts, NoneShares
  <2> QED
    BY <1>4, <2>3, <2>4, <2>5, <2>6, <2>7 DEF Parts
<1> QED
  BY <1>5, <1>6 DEF FinalizeLoop

LEMMA CollectStep == ASSUME NEW o \in Userdata PROVE Parts /\ Collect(o) => Parts'
<1> SUFFICES ASSUME Parts, Collect(o) PROVE Parts'
  OBVIOUS
<1>1. /\ mem' = [mem EXCEPT ![o] = "none"]
      /\ cb' = [x \in Servers \cup Timers |-> IF x = o THEN NoRef ELSE cb[x]]
      /\ dref' = [c \in Conns |-> IF c = o THEN NoRef ELSE dref[c]]
      /\ decoder' = [c \in Conns |-> IF c = o THEN None ELSE decoder[c]]
      /\ UNCHANGED <<held, running, cur, reg, top, loopHeap, connHeap, misuse, ended>>
  BY DEF Collect, Parts, Typed
<1>2. \/ /\ o \in Objects /\ hnd[o] = "closed"
         /\ hnd' = [hnd EXCEPT ![o] = "none"] /\ self' = [self EXCEPT ![o] = NoRef]
      \/ UNCHANGED <<hnd, self>>
  BY DEF Collect
<1>3. o \notin held /\ o \notin loopHeap /\ (o \in Conns => ~Linked(o))
  BY KnownIsAnchored DEF Collect, Anchored
<1>4. Typed'
  <2>1. self' \in [Objects -> 0..MaxSlots] /\ hnd' \in [Objects -> {"none", "open", "closing", "closed"}]
    BY <1>2, ValuesAreNoSlots DEF Parts, Typed, NoRef
  <2>2. /\ mem' \in [Userdata -> {"none", "live", "final"}]
        /\ cb' \in [Servers \cup Timers -> 0..MaxSlots] /\ dref' \in [Conns -> 0..MaxSlots]
        /\ decoder' \in [Conns -> Decoders \cup {None}]
    BY <1>1, ValuesAreNoSlots DEF Parts, Typed, NoRef
  <2> QED
    BY <1>1, <2>1, <2>2 DEF Parts, Typed
<1>5. ASSUME NEW x \in Conns, x # o
      PROVE  /\ Linked(x)' <=> Linked(x)
             /\ self'[x] = self[x] /\ dref'[x] = dref[x] /\ decoder'[x] = decoder[x] /\ mem'[x] = mem[x]
  BY <1>1, <1>2, <1>5, Kinds DEF Parts, Typed, Linked
<1>6. o \in Conns => ~Linked(o)'
  BY <1>1, <1>2, <1>3, Kinds DEF Parts, Typed, Linked
<1>7. ListIntact(Registry)' /\ Kept({})
  BY <1>1, RegistrySame DEF Parts
<1>8. ASSUME NEW x \in Conns
      PROVE  ConnOK(x)'
  BY <1>5, <1>6, <1>7, ConnKept DEF ConnOK, Parts
<1>9. ASSUME NEW x \in Servers \cup Timers
      PROVE  HeapOK(x)'
  <2>1. x # o => self'[x] = self[x] /\ cb'[x] = cb[x] /\ mem'[x] = mem[x]
    BY <1>1, <1>2, Kinds DEF Parts, Typed
  <2> QED
    BY <1>1, <1>3, <1>7, <2>1, HeapKept DEF HeapOK, Parts
<1>10. NoneShares'
  BY <1>5, <1>6 DEF Parts, NoneShares
<1>11. LifeOK'
  <2>1. \A x \in connHeap' : Linked(x)'
    BY <1>1, <1>3, <1>5 DEF Parts, Typed, LifeOK
  <2>2. \A x \in Conns : x \in held' => hnd'[x] # "none"
    BY <1>1, <1>2, <1>3, Kinds DEF Parts, Typed, LifeOK
  <2>3. cur' # None => hnd'[cur'] = "closed"
    <3>1. cur # None => cur \in Conns /\ Linked(cur)
      BY DEF Parts, Typed, LifeOK, Linked
    <3>2. cur # None => cur # o /\ cur \in Objects
      BY <1>3, <3>1, Kinds
    <3>3. hnd'[cur] = hnd[cur] \/ cur = o \/ cur \notin Objects
      BY <1>2 DEF Parts, Typed
    <3> QED
      BY <1>1, <3>2, <3>3 DEF Parts, LifeOK
  <2>4. \A x \in Objects : hnd'[x] = "none" => self'[x] = NoRef
    BY <1>2 DEF Parts, Typed, LifeOK
  <2>5. mem'[Loop] = "live" => \A x \in Servers \cup Timers :
            hnd'[x] \in {"open", "closing"} /\ self'[x] # NoRef => x \in loopHeap'
    BY <1>1, <1>2, Kinds DEF Parts, Typed, LifeOK
  <2> QED
    BY <2>1, <2>2, <2>3, <2>4, <2>5 DEF LifeOK
<1> QED
  BY <1>4, <1>7, <1>8, <1>9, <1>10, <1>11 DEF Parts

\* Nothing is known in the state at the start and at the end.
LEMMA InitParts == Init => Parts
<1> SUFFICES ASSUME Init PROVE Parts
  OBVIOUS
<1> USE DEF Init
<1>0. 0 \in 0..MaxSlots /\ 0..0 = {0} /\ MaxSlots \in Nat
  BY ObjectsAssumption
<1>1. Typed
  BY <1>0 DEF Typed, NoRef
<1>2. ListIntact(Registry)
  BY <1>0 DEF ListIntact, NoCircle, FreeIn, Registry, NoRef
<1>3. \A c \in Conns : ~Linked(c)
  BY Kinds DEF Linked
<1>4. LifeOK
  BY Kinds DEF LifeOK
<1> QED
  BY <1>1, <1>2, <1>3, <1>4 DEF Parts, ConnOK, HeapOK, NoneShares

LEMMA CloseStateStep == CloseState => Parts'
<1> SUFFICES ASSUME CloseState PROVE Parts'
  OBVIOUS
<1> USE DEF CloseState
<1>0. 0 \in 0..MaxSlots /\ 0..0 = {0} /\ MaxSlots \in Nat
  BY ObjectsAssumption
<1>1. Typed'
  BY <1>0 DEF Typed, NoRef
<1>2. ListIntact(Registry)'
  BY <1>0 DEF ListIntact, NoCircle, FreeIn, Registry, NoRef
<1>3. \A c \in Conns : ~Linked(c)'
  BY Kinds DEF Linked
<1>4. LifeOK'
  BY Kinds DEF LifeOK
<1> QED
  BY <1>1, <1>2, <1>3, <1>4 DEF Parts, ConnOK, HeapOK, NoneShares

LEMMA FlagsStep == Flags /\ [Next]_objVars => Flags'
<1> SUFFICES ASSUME Flags, [Next]_objVars PROVE Flags'
  OBVIOUS
<1>1. running \in BOOLEAN /\ misuse \subseteq {"late decoder", "failed create"}
      /\ ended \in {"no", "clean", "aborted"}
  BY Zenon DEF Flags
<1>2. running' \in BOOLEAN
  BY <1>1, Zenon DEF Next, ScriptStep, LoopStep, CollectorStep, objVars,
       CreateLoop, Run, CreateServer, CreateServerFails, CreateTimer, Made, Drop, Keep, SetDecoder,
       RunReturns, OnConnCloseReturns, Accept, IdleKick, HeardFrom, CloseConn, FinishClose,
       FinalizeLoop, CloseState, FinalizeServer, Collect
<1>3. ended' \in {"no", "clean", "aborted"}
  BY <1>1, Zenon DEF Next, ScriptStep, LoopStep, CollectorStep, objVars,
       CreateLoop, Run, CreateServer, CreateServerFails, CreateTimer, Made, Drop, Keep, SetDecoder,
       RunReturns, OnConnCloseReturns, Accept, IdleKick, HeardFrom, CloseConn, FinishClose,
       FinalizeLoop, CloseState, FinalizeServer, Collect
<1>4. misuse' \in {misuse, misuse \cup {"late decoder"}, misuse \cup {"failed create"}}
  BY Zenon DEF Next, ScriptStep, LoopStep, CollectorStep, objVars,
       CreateLoop, Run, CreateServer, CreateServerFails, CreateTimer, Made, Drop, Keep, SetDecoder,
       RunReturns, OnConnCloseReturns, Accept, IdleKick, HeardFrom, CloseConn, FinishClose,
       FinalizeLoop, CloseState, FinalizeServer, Collect
<1>5. misuse' \subseteq {"late decoder", "failed create"}
  BY <1>1, <1>4, Zenon
<1> QED
  BY <1>2, <1>3, <1>5, Zenon DEF Flags

LEMMA Step ==
    ASSUME "late decoder" \notin Script
    PROVE  Parts /\ Flags /\ [Next]_objVars => Parts'
<1> SUFFICES ASSUME Parts, Flags, [Next]_objVars PROVE Parts'
  OBVIOUS
<1>1. CASE ScriptStep
  BY <1>1, CreateLoopStep, RunStep, CreateStep, CreateServerFailsStep, DropStep, KeepStep,
     SetDecoderStep, Zenon DEF ScriptStep
<1>2. CASE LoopStep
  BY <1>2, RunStep, OnConnCloseStep, AcceptStep, HeapStep, CloseConnStep, FinishCloseStep, Zenon
     DEF LoopStep
<1>3. CASE CollectorStep
  BY <1>3, FinalizeLoopStep, CloseStateStep, FinalizeServerStep, CollectStep, Zenon DEF CollectorStep
<1>4. CASE UNCHANGED objVars
  <2>1. Typed'
    BY <1>4 DEF objVars, Parts, Typed
  <2>2. \A c \in Conns : Linked(c)' => Linked(c) /\ mem'[c] = "live"
    BY <1>4 DEF objVars, Parts, ConnOK, Linked
  <2>3. LifeOK'
    BY <1>4 DEF objVars, Parts, LifeOK, Linked
  <2>4. \A x \in loopHeap' : x \in loopHeap /\ mem'[x] = "live"
    BY <1>4 DEF objVars, Parts, Typed, HeapOK
  <2>5. UNCHANGED <<reg, top, self, cb, dref, decoder>>
    BY <1>4 DEF objVars
  <2> QED
    BY <2>1, <2>2, <2>3, <2>4, <2>5, Quiet DEF Parts
<1> QED
  BY <1>1, <1>2, <1>3, <1>4, Zenon DEF Next

-----------------------------------------------------------------------------
(* No slot is lost *)

LEMMA UsedIs ==
    /\ \A n : n \in UsedSlots <=>
            \/ \E o \in loopHeap : n = self[o] \/ n = cb[o]
            \/ \E c \in Conns : Linked(c) /\ (n = self[c] \/ n = dref[c])
    /\ \A n : n \in UsedSlots' <=>
            \/ \E o \in loopHeap' : n = self'[o] \/ n = cb'[o]
            \/ \E c \in Conns : Linked(c)' /\ (n = self'[c] \/ n = dref'[c])
  BY DEF UsedSlots

\* A slot is used as long as the object that names it is known.
LEMMA UsedKept ==
    ASSUME NEW n \in UsedSlots,
           \A o \in loopHeap : n = self[o] \/ n = cb[o] =>
                o \in loopHeap' /\ self'[o] = self[o] /\ cb'[o] = cb[o],
           \A c \in Conns : Linked(c) /\ (n = self[c] \/ n = dref[c]) =>
                Linked(c)' /\ self'[c] = self[c] /\ dref'[c] = dref[c]
    PROVE  n \in UsedSlots'
<1>1. CASE \E o \in loopHeap : n = self[o] \/ n = cb[o]
  BY <1>1, UsedIs
<1>2. CASE \E c \in Conns : Linked(c) /\ (n = self[c] \/ n = dref[c])
  BY <1>2, UsedIs
<1> QED
  BY <1>1, <1>2, UsedIs

LEMMA NamedKept ==
    ASSUME SlotsNamed, UNCHANGED <<reg, self, cb, dref, loopHeap, misuse>>,
           \A o \in Servers \cup Timers : hnd'[o] = hnd[o],
           \A c \in Conns : Linked(c) => Linked(c)',
           mem'[Loop] = "live" => mem[Loop] = "live"
    PROVE  SlotsNamed'
<1>1. \A n \in UsedSlots : n \in UsedSlots'
  BY UsedKept
<1> QED
  BY <1>1 DEF SlotsNamed

LEMMA NamedQuiet ==
    ASSUME Parts, SlotsNamed,
           \/ Run \/ RunReturns \/ \E o \in Userdata : Drop(o)
           \/ \E c \in Conns : Keep(c) \/ IdleKick(c) \/ HeardFrom(c)
           \/ \E s \in Servers : FinalizeServer(s)
           \/ UNCHANGED objVars
    PROVE  SlotsNamed'
<1>1. /\ UNCHANGED <<reg, self, cb, dref, loopHeap, misuse, hnd, cur>>
      /\ mem' = mem \/ \E s \in Servers : mem' = [mem EXCEPT ![s] = "final"]
  BY DEF Run, RunReturns, Drop, Keep, IdleKick, HeardFrom, FinalizeServer, objVars
<1>2. mem'[Loop] = mem[Loop]
  BY <1>1, Kinds DEF Parts, Typed
<1>3. \A c \in Conns : Linked(c) => Linked(c)'
  BY <1>1 DEF Linked
<1> QED
  BY <1>1, <1>2, <1>3, NamedKept

LEMMA NamedClosing ==
    ASSUME Parts, SlotsNamed,
           \/ \E c \in Conns : CloseConn(c)
           \/ \E o \in Servers \cup Conns : FinishClose(o)
    PROVE  SlotsNamed'
<1> SUFFICES ASSUME misuse = {} PROVE SlotsNamed'
  BY DEF SlotsNamed, CloseConn, FinishClose
<1>1. CASE \E c \in Conns : CloseConn(c)
  <2>1. PICK c \in Conns : CloseConn(c)
    BY <1>1
  <2>2. /\ LoopRuns /\ hnd[c] = "open" /\ hnd' = [hnd EXCEPT ![c] = "closing"]
        /\ UNCHANGED <<reg, self, cb, dref, loopHeap, misuse, mem, cur>>
    BY <2>1 DEF CloseConn
  <2>3. \A o \in Servers \cup Timers : hnd'[o] = hnd[o]
    BY <2>2, Kinds DEF Parts, Typed
  <2>4. \A x \in Conns : Linked(x) => Linked(x)'
    BY <2>2, Kinds DEF Parts, Typed, Linked
  <2> QED
    BY <2>2, <2>3, <2>4, NamedKept
<1>2. CASE \E o \in Servers \cup Conns : FinishClose(o)
  <2>1. PICK c \in Servers \cup Conns : FinishClose(c)
    BY <1>2
  <2>2. /\ cur = None /\ hnd[c] = "closing" /\ hnd' = [hnd EXCEPT ![c] = "closed"]
        /\ cur' = IF c \in Conns THEN c ELSE None
        /\ UNCHANGED <<reg, self, cb, dref, loopHeap, misuse, mem>>
    BY <2>1 DEF FinishClose, LoopRuns
  <2>3. c \in Conns
    BY <2>2, Kinds DEF SlotsNamed
  <2>4. \A o \in Servers \cup Timers : hnd'[o] = hnd[o]
    BY <2>2, <2>3, Kinds DEF Parts, Typed
  <2>5. \A x \in Conns : Linked(x) => Linked(x)'
    BY <2>2, <2>3, Kinds DEF Parts, Typed, Linked
  <2> QED
    BY <2>2, <2>4, <2>5, NamedKept
<1> QED
  BY <1>1, <1>2

\* Where a step makes or forgets something, the three parts are shown one by one.
LEMMA NamedByParts ==
    ASSUME misuse' = {} =>
        /\ \A o \in Servers \cup Timers : hnd'[o] # "none" => hnd'[o] = "open" /\ self'[o] # NoRef
        /\ (\A o \in Servers \cup Timers : hnd'[o] = "none") => \A n \in Slots : reg'[n] \notin Values
        /\ mem'[Loop] = "live" => \A n \in Slots : reg'[n] \in Values => n \in UsedSlots'
    PROVE  SlotsNamed'
  BY DEF SlotsNamed

LEMMA NamedCreateLoop == Parts /\ SlotsNamed /\ CreateLoop => SlotsNamed'
<1> SUFFICES ASSUME Parts, SlotsNamed, CreateLoop, misuse = {} PROVE SlotsNamed'
  BY DEF SlotsNamed, CreateLoop
<1>1. /\ UNCHANGED <<reg, self, hnd, misuse>>
      /\ \A o \in Objects : self[o] = NoRef
  BY DEF CreateLoop
<1>2. \A o \in Servers \cup Timers : hnd[o] = "none"
  BY <1>1, Kinds DEF SlotsNamed
<1>3. \A n \in Slots : reg[n] \notin Values
  BY <1>2 DEF SlotsNamed
<1> QED
  BY <1>1, <1>2, <1>3, NamedByParts

LEMMA NamedMade ==
    ASSUME Parts, SlotsNamed, NEW o \in Servers \cup Timers, NEW given \in BOOLEAN, Fresh(o),
           NEW p \in RefsIf(given, Registry, Func), NEW q \in Refs(p.after, o), Made(o, p, q),
           TypeOK, mem[Loop] = "live"
    PROVE  SlotsNamed'
<1> SUFFICES ASSUME misuse = {} PROVE SlotsNamed'
  BY DEF SlotsNamed, Made
<1>1. /\ q.slot \in Slots
      /\ \A i \in 0..MaxSlots : reg'[i] \in Values =>
            (i = p.slot /\ p.slot # NoRef) \/ i = q.slot \/ reg[i] \in Values
  BY MadeIs DEF Parts
<1>2. /\ cb' = [cb EXCEPT ![o] = p.slot] /\ self' = [self EXCEPT ![o] = q.slot]
      /\ mem' = [mem EXCEPT ![o] = "live"] /\ hnd' = [hnd EXCEPT ![o] = "open"]
      /\ loopHeap' = loopHeap \cup {o}
      /\ UNCHANGED <<cur, dref, misuse>>
  BY DEF Made
<1>3. cb'[o] = p.slot /\ self'[o] = q.slot /\ hnd'[o] = "open" /\ o \in loopHeap'
  BY <1>2, Kinds DEF Parts, Typed
<1>4. o \notin loopHeap
  BY DEF Parts, HeapOK, Fresh
<1>5. \A x \in Servers \cup Timers : x # o => hnd'[x] = hnd[x] /\ self'[x] = self[x] /\ cb'[x] = cb[x]
  BY <1>2, Kinds DEF Parts, Typed
<1>6. \A c \in Conns : (Linked(c) => Linked(c)') /\ self'[c] = self[c] /\ dref'[c] = dref[c]
  BY <1>2, Kinds DEF Parts, Typed, Linked
<1>7. ASSUME NEW n \in Slots, reg'[n] \in Values
      PROVE  n \in UsedSlots'
  <2>1. n \in 0..MaxSlots
    BY ValuesAreNoSlots
  <2>2. CASE n = p.slot \/ n = q.slot
    BY <1>3, <2>2, UsedIs
  <2>3. CASE reg[n] \in Values
    <3>1. n \in UsedSlots
      BY <2>3 DEF SlotsNamed
    <3>2. \A x \in loopHeap : x \in loopHeap' /\ self'[x] = self[x] /\ cb'[x] = cb[x]
      BY <1>2, <1>4, <1>5 DEF Parts, Typed
    <3> QED
      BY <1>6, <3>1, <3>2, UsedKept
  <2> QED
    BY <1>1, <1>7, <2>1, <2>2, <2>3
<1>8. \A x \in Servers \cup Timers : hnd'[x] # "none" => hnd'[x] = "open" /\ self'[x] # NoRef
  BY <1>1, <1>3, <1>5, ValuesAreNoSlots DEF SlotsNamed, NoRef
<1> QED
  BY <1>3, <1>7, <1>8, NamedByParts

LEMMA NamedAccept ==
    ASSUME Parts, Flags, SlotsNamed, NEW s \in Servers, NEW c \in Conns, NEW served \in BOOLEAN,
           Accept(s, c, served)
    PROVE  SlotsNamed'
<1> SUFFICES ASSUME misuse = {} PROVE SlotsNamed'
  BY DEF SlotsNamed, Accept
<1>0. TypeOK /\ Fresh(c) /\ cur = None /\ hnd[s] = "open"
  BY TypeIs DEF Parts, Accept, LoopRuns
<1>1. PICK q \in Refs(Registry, c) : RegistryIs(q.after) /\ self' = [self EXCEPT ![c] = q.slot]
  BY DEF Accept
<1>2. \A i \in 0..MaxSlots : reg'[i] \in Values => i = q.slot \/ reg[i] \in Values
  BY <1>0, <1>1, AcceptIs DEF Parts
<1>3. /\ mem' = [mem EXCEPT ![c] = "live"]
      /\ dref' = [dref EXCEPT ![c] = NoRef]
      /\ hnd' = [hnd EXCEPT ![c] = IF served THEN "open" ELSE "closing"]
      /\ UNCHANGED <<cur, cb, loopHeap, misuse>>
  BY DEF Accept
<1>4. Linked(c)' /\ self'[c] = q.slot /\ ~Linked(c)
  BY <1>0, <1>1, <1>3, Kinds DEF Parts, Typed, Linked, Fresh
<1>5. \A x \in Conns : x # c => /\ Linked(x) => Linked(x)'
                                /\ self'[x] = self[x] /\ dref'[x] = dref[x]
  BY <1>1, <1>3, Kinds DEF Parts, Typed, Linked
<1>6. \A o \in Servers \cup Timers : hnd'[o] = hnd[o] /\ self'[o] = self[o] /\ cb'[o] = cb[o]
  BY <1>1, <1>3, Kinds DEF Parts, Typed
<1>7. mem'[Loop] = mem[Loop]
  BY <1>3, Kinds DEF Parts, Typed
<1>8. ASSUME NEW n \in Slots, reg'[n] \in Values, mem[Loop] = "live"
      PROVE  n \in UsedSlots'
  <2>1. n \in 0..MaxSlots
    BY ValuesAreNoSlots
  <2>2. CASE n = q.slot
    BY <1>4, <2>2, UsedIs
  <2>3. CASE reg[n] \in Values
    <3>1. n \in UsedSlots
      BY <1>8, <2>3 DEF SlotsNamed
    <3>2. \A x \in loopHeap : x \in loopHeap' /\ self'[x] = self[x] /\ cb'[x] = cb[x]
      BY <1>3, <1>6 DEF Parts, Typed
    <3> QED
      BY <1>4, <1>5, <3>1, <3>2, UsedKept
  <2> QED
    BY <1>2, <1>8, <2>1, <2>2, <2>3
<1>9. hnd'[s] # "none"
  BY <1>0, <1>6
<1>10. \A o \in Servers \cup Timers : hnd'[o] # "none" => hnd'[o] = "open" /\ self'[o] # NoRef
  BY <1>6 DEF SlotsNamed
<1> QED
  BY <1>7, <1>8, <1>9, <1>10, NamedByParts

LEMMA NamedSetDecoder ==
    ASSUME "late decoder" \notin Script, Parts, Flags, SlotsNamed,
           NEW c \in Conns, NEW d \in Decoders, SetDecoder(c, d)
    PROVE  SlotsNamed'
<1> SUFFICES ASSUME misuse = {} PROVE SlotsNamed'
  <2>1. Linked(c) => misuse' = misuse
    BY DEF SetDecoder, Forgotten, Linked
  <2>2. ~Forgotten(c) /\ misuse' = misuse
    BY DEF SetDecoder
  <2> QED
    BY <2>2 DEF SlotsNamed
<1>0. ~Forgotten(c) /\ misuse' = misuse /\ hnd[c] # "none"
  BY DEF SetDecoder, Parts, LifeOK
<1>1. TypeOK /\ Linked(c)
  BY <1>0, Kinds, TypeIs DEF Parts, Typed, Forgotten, Linked
<1>a. /\ self[c] \in 0..MaxSlots /\ reg[self[c]] = c
      /\ dref[c] \in 0..MaxSlots /\ (dref[c] = NoRef \/ reg[dref[c]] \in Values)
  BY <1>1, SlotsDiffer
<1>2. PICK q \in Refs(Unref(Registry, dref[c]), d) :
        RegistryIs(q.after) /\ dref' = [dref EXCEPT ![c] = q.slot]
  BY DEF SetDecoder
<1>3. q.slot \in Slots /\ OnlyNew(q.slot, dref[c])
  <2>1. ListIntact(Registry)
    BY DEF Parts
  <2> QED
    BY <1>1, <1>a, <1>2, <2>1, SetDecoderIs
<1>4. UNCHANGED <<mem, held, running, cur, self, cb, hnd, loopHeap>>
  BY DEF SetDecoder
<1>5. \A x \in Conns : (Linked(x) => Linked(x)') /\ self'[x] = self[x]
  BY <1>4 DEF Linked
<1>6. dref'[c] = q.slot /\ \A x \in Conns : x # c => dref'[x] = dref[x]
  BY <1>2 DEF Parts, Typed
<1>7. ASSUME NEW n \in Slots, reg'[n] \in Values, mem[Loop] = "live"
      PROVE  n \in UsedSlots'
  <2>1. n \in 0..MaxSlots
    BY ValuesAreNoSlots
  <2>2. CASE n = q.slot
    BY <1>1, <1>5, <1>6, <2>2, UsedIs
  <2>3. CASE n # dref[c] /\ reg[n] \in Values
    <3>1. n \in UsedSlots
      BY <1>7, <2>3 DEF SlotsNamed
    <3>2. \/ \E o \in loopHeap : n = self[o] \/ n = cb[o]
          \/ \E x \in Conns : Linked(x) /\ (n = self[x] \/ n = dref[x])
      BY <3>1, UsedIs
    <3>3. \/ \E o \in loopHeap' : n = self'[o] \/ n = cb'[o]
          \/ \E x \in Conns : Linked(x)' /\ (n = self'[x] \/ n = dref'[x])
      BY <1>4, <1>5, <1>6, <2>3, <3>2
    <3> QED
      BY <3>3, UsedIs
  <2> QED
    BY <1>3, <1>7, <2>1, <2>2, <2>3 DEF OnlyNew
<1>8. reg[self[c]] \in Values /\ self[c] \in Slots
  <2>1. reg[self[c]] \in Values /\ self[c] # 0
    BY <1>a, Kinds, KnownIsAnchored
  <2> QED
    BY <1>a, <2>1, ValuesAreNoSlots
<1>9. ~ \A o \in Servers \cup Timers : hnd[o] = "none"
  BY <1>8 DEF SlotsNamed
<1> QED
  BY <1>4, <1>7, <1>9, NamedByParts DEF SlotsNamed

LEMMA NamedOnConnClose ==
    ASSUME Parts, Flags, SlotsNamed, OnConnCloseReturns
    PROVE  SlotsNamed'
<1> SUFFICES ASSUME misuse = {} PROVE SlotsNamed'
  BY DEF SlotsNamed, OnConnCloseReturns
<1>0. PICK c \in Conns : c = cur
  BY DEF OnConnCloseReturns
<1>1. TypeOK /\ Linked(c)
  BY <1>0, Kinds, TypeIs DEF Parts, LifeOK, Linked
<1>a. /\ self[c] \in 0..MaxSlots /\ reg[self[c]] \in Values
      /\ dref[c] \in 0..MaxSlots /\ (dref[c] = NoRef \/ (dref[c] # self[c] /\ reg[dref[c]] \in Values))
  BY <1>1, SlotsDiffer, Kinds
<1>2. /\ cur' = None /\ RegistryIs(Unref(Unref(Registry, self[c]), dref[c]))
      /\ UNCHANGED <<mem, self, cb, dref, hnd, loopHeap, misuse>>
  BY <1>0 DEF OnConnCloseReturns
<1>3. \A i \in 0..MaxSlots : reg'[i] \in Values => i # self[c] /\ i # dref[c] /\ reg[i] \in Values
  <2>1. ListIntact(Registry)
    BY DEF Parts
  <2> QED
    BY <1>1, <1>a, <1>2, <2>1, UnrefsAre
<1>5. \A x \in Conns : Linked(x) /\ x # c => Linked(x)'
  BY <1>0, <1>1, <1>2, Kinds DEF Parts, Linked, LifeOK
<1>6. ASSUME NEW n \in Slots, reg'[n] \in Values
      PROVE  reg[n] \in Values /\ (mem[Loop] = "live" => n \in UsedSlots')
  <2>1. n # self[c] /\ n # dref[c] /\ reg[n] \in Values
    BY <1>3, <1>6, ValuesAreNoSlots
  <2>2. mem[Loop] = "live" => n \in UsedSlots
    BY <2>1 DEF SlotsNamed
  <2> QED
    BY <1>2, <1>5, <2>1, <2>2, UsedKept
<1> QED
  BY <1>2, <1>6, NamedByParts DEF SlotsNamed

LEMMA NamedFinalizeLoop ==
    ASSUME Parts, Flags, SlotsNamed, FinalizeLoop
    PROVE  SlotsNamed'
<1> SUFFICES ASSUME misuse = {} PROVE SlotsNamed'
  BY DEF SlotsNamed, FinalizeLoop
<1>1. /\ UNCHANGED <<self, hnd, misuse>> /\ mem'[Loop] # "live"
  BY Kinds DEF FinalizeLoop, Parts, Typed
<1>2. \A i \in 0..MaxSlots : reg'[i] \in Values => reg[i] \in Values
  <2>1. CASE UNCHANGED <<reg, top>>
    BY <2>1
  <2>2. ASSUME NEW o \in FirstOf(loopHeap), RegistryIs(Unref(Registry, self[o]))
        PROVE  \A i \in 0..MaxSlots : reg'[i] \in Values => reg[i] \in Values
    <3>1. o \in loopHeap /\ o \in Servers \cup Timers
      BY DEF FirstOf, Parts, Typed
    <3>2. self[o] \in 0..MaxSlots /\ reg[self[o]] \in Values
      BY <3>1, Kinds DEF Parts, Typed, HeapOK
    <3>3. Registry \in Registries /\ Registry.reg = reg /\ ListIntact(Registry)
      BY TypeIs, RegistryNow DEF Parts
    <3> QED
      BY <2>2, <3>2, <3>3, UnrefGives DEF RegistryIs
  <2> QED
    BY <2>1, <2>2 DEF FinalizeLoop
<1> QED
  BY <1>1, <1>2, ValuesAreNoSlots, NamedByParts DEF SlotsNamed

LEMMA NamedCollect ==
    ASSUME Parts, SlotsNamed, NEW o \in Userdata, Collect(o)
    PROVE  SlotsNamed'
<1> SUFFICES ASSUME misuse = {} PROVE SlotsNamed'
  BY DEF SlotsNamed, Collect
<1>1. /\ mem' = [mem EXCEPT ![o] = "none"]
      /\ cb' = [x \in Servers \cup Timers |-> IF x = o THEN NoRef ELSE cb[x]]
      /\ dref' = [c \in Conns |-> IF c = o THEN NoRef ELSE dref[c]]
      /\ UNCHANGED <<cur, reg, loopHeap, misuse>>
  BY DEF Collect, Parts, Typed
<1>2. \/ /\ o \in Objects /\ hnd[o] = "closed"
         /\ hnd' = [hnd EXCEPT ![o] = "none"] /\ self' = [self EXCEPT ![o] = NoRef]
      \/ UNCHANGED <<hnd, self>>
  BY DEF Collect
<1>3. o \notin loopHeap /\ (o \in Conns => ~Linked(o))
  BY KnownIsAnchored DEF Collect
<1>4. \A x \in Servers \cup Timers : hnd'[x] = hnd[x] /\ self'[x] = self[x]
  BY <1>2, Kinds DEF Parts, Typed, SlotsNamed
<1>5. \A x \in loopHeap : x \in loopHeap' /\ self'[x] = self[x] /\ cb'[x] = cb[x]
  BY <1>1, <1>3, <1>4 DEF Parts, Typed
<1>6. \A x \in Conns : Linked(x) => Linked(x)' /\ self'[x] = self[x] /\ dref'[x] = dref[x]
  BY <1>1, <1>2, <1>3, Kinds DEF Parts, Typed, Linked
<1>7. \A n \in UsedSlots : n \in UsedSlots'
  BY <1>5, <1>6, UsedKept
<1>8. mem'[Loop] = "live" => mem[Loop] = "live"
  BY <1>1, Kinds DEF Parts, Typed
<1> QED
  BY <1>1, <1>4, <1>7, <1>8, NamedByParts DEF SlotsNamed

LEMMA NamedCloseState == CloseState => SlotsNamed'
<1> SUFFICES ASSUME CloseState PROVE SlotsNamed'
  OBVIOUS
<1>1. /\ reg' = [n \in 0..MaxSlots |-> NoRef]
      /\ hnd' = [o \in Objects |-> "none"]
  BY DEF CloseState
<1>2. \A n \in Slots : reg'[n] \notin Values
  BY <1>1, ValuesAreNoSlots DEF NoRef
<1>3. \A o \in Servers \cup Timers : hnd'[o] = "none"
  BY <1>1, Kinds
<1> QED
  BY <1>2, <1>3, NamedByParts

LEMMA InitNamed == Init => SlotsNamed
<1> SUFFICES ASSUME Init PROVE SlotsNamed
  OBVIOUS
<1>1. /\ reg = [n \in 0..MaxSlots |-> NoRef]
      /\ hnd = [o \in Objects |-> "none"]
  BY DEF Init
<1>2. \A n \in Slots : reg[n] \notin Values
  BY <1>1, ValuesAreNoSlots DEF NoRef
<1>3. \A o \in Servers \cup Timers : hnd[o] = "none"
  BY <1>1, Kinds
<1> QED
  BY <1>2, <1>3 DEF SlotsNamed

LEMMA NamedCreate ==
    ASSUME NEW o \in Servers \cup Timers, NEW given \in BOOLEAN
    PROVE  Parts /\ Flags /\ SlotsNamed /\ (CreateServer(o, given) \/ CreateTimer(o, given)) => SlotsNamed'
  BY NamedMade, TypeIs DEF CreateServer, CreateTimer, LoopAtHand, Parts

LEMMA NamedCreateServerFails ==
    ASSUME NEW s \in Servers, NEW given \in BOOLEAN, CreateServerFails(s, given)
    PROVE  SlotsNamed'
<1>1. misuse' = misuse \cup {"failed create"}
  BY DEF CreateServerFails
<1>2. misuse' # {}
  BY <1>1, Zenon
<1> QED
  BY <1>2 DEF SlotsNamed

LEMMA NamedStep ==
    ASSUME "late decoder" \notin Script
    PROVE  Parts /\ Flags /\ SlotsNamed /\ [Next]_objVars => SlotsNamed'
<1> SUFFICES ASSUME Parts, Flags, SlotsNamed, [Next]_objVars PROVE SlotsNamed'
  OBVIOUS
<1>1. CASE ScriptStep
  BY <1>1, NamedCreateLoop, NamedCreate, NamedCreateServerFails, NamedQuiet, NamedSetDecoder, Zenon
     DEF ScriptStep
<1>2. CASE LoopStep
  BY <1>2, NamedQuiet, NamedClosing, NamedOnConnClose, NamedAccept, Zenon DEF LoopStep
<1>3. CASE CollectorStep
  BY <1>3, NamedFinalizeLoop, NamedCloseState, NamedQuiet, NamedCollect, Zenon DEF CollectorStep
<1>4. CASE UNCHANGED objVars
  BY <1>4, NamedQuiet
<1> QED
  BY <1>1, <1>2, <1>3, <1>4, Zenon DEF Next

-----------------------------------------------------------------------------
(* What an intact list is: one way through all its slots *)

\* Each free slot and the head is the next of exactly one of them, as there are only
\* finitely many and no two share it.
LEMMA EachIsNextOfOne ==
    ASSUME NEW R \in Registries, ListIntact(R), NEW n \in FreeIn(R)
    PROVE  \E m \in FreeIn(R) : R.reg[m] = n
<1> DEFINE F == FreeIn(R)
           next == [m \in F |-> R.reg[m]]
<1>1. IsFiniteSet(F)
  <2>1. IsFiniteSet(0..R.top)
    BY FS_Interval, ObjectsAssumption DEF Registries
  <2>2. F \in SUBSET (0..R.top)
    BY DEF FreeIn
  <2> QED
    BY <2>1, <2>2, FS_Subset
<1>2. next \in Injection(F, F)
  BY DEF ListIntact, Injection, IsInjective
<1>3. next \in Surjection(F, F)
  BY <1>1, <1>2, FS_Injection
<1> QED
  BY <1>3 DEF Surjection

LEMMA ListIsOneWay ==
    ASSUME TypeOK, ListIntact(Registry)
    PROVE  /\ reg[0] \in FreeSlots \cup {NoRef}
           /\ \A n \in FreeSlots : reg[n] \in FreeSlots \cup {NoRef}
           /\ \A n \in FreeSlots : n = reg[0] \/ Cardinality({m \in FreeSlots : reg[m] = n}) = 1
           /\ FreeSlots # {} => Cardinality({n \in FreeSlots : reg[n] = NoRef}) = 1
<1> DEFINE F == FreeIn(Registry)
<1>1. Registry \in Registries /\ Registry.reg = reg
  BY RegistryNow
<1>2. 0 \in F /\ FreeSlots = F \ {0} /\ \A n \in F : reg[n] \in F
  BY <1>1 DEF ListIntact, FreeSlots
<1>3. \A m, n \in F : reg[m] = reg[n] => m = n
  BY <1>1 DEF ListIntact
<1>4. FreeSlots # {} => \E n \in FreeSlots : reg[n] \notin FreeSlots
  BY <1>1 DEF ListIntact, NoCircle, FreeSlots
<1>5. \A n \in F : \E m \in F : reg[m] = n
  BY <1>1, EachIsNextOfOne
<1> HIDE DEF F
<1>6. ASSUME NEW n \in FreeSlots, n # reg[0]
      PROVE  Cardinality({m \in FreeSlots : reg[m] = n}) = 1
  <2>1. PICK m \in F : reg[m] = n
    BY <1>2, <1>5
  <2>2. {x \in FreeSlots : reg[x] = n} = {m}
    BY <1>2, <1>3, <1>6, <2>1
  <2> QED
    BY <2>2, FS_Singleton
<1>7. ASSUME FreeSlots # {}
      PROVE  Cardinality({n \in FreeSlots : reg[n] = NoRef}) = 1
  <2>1. PICK n \in FreeSlots : reg[n] = NoRef
    BY <1>2, <1>4, <1>7 DEF NoRef
  <2>2. {x \in FreeSlots : reg[x] = NoRef} = {n}
    BY <1>2, <1>3, <2>1
  <2> QED
    BY <2>2, FS_Singleton
<1> QED
  BY <1>2, <1>6, <1>7 DEF NoRef

\* While the loop lives, what is not free is used.
LEMMA NoSlotIsLost ==
    ASSUME Parts, SlotsNamed, misuse = {}, mem[Loop] = "live"
    PROVE  1..top = FreeSlots \cup (UsedSlots \ {NoRef})
<1>0. MaxSlots \in Nat /\ \A v \in Values : v \notin 0..MaxSlots
  BY ObjectsAssumption
<1>1. /\ top \in 0..MaxSlots
      /\ \A n \in 0..MaxSlots : reg[n] \in Values \cup 0..MaxSlots
  BY DEF Parts, Typed
<1>2. \A n : n \in FreeSlots <=> n \in 0..top /\ reg[n] \in 0..MaxSlots /\ n # 0
  BY DEF FreeSlots, FreeIn, Registry
<1>3. \A n \in 0..MaxSlots : reg[n] \in Values => n \in 0..top /\ n # 0
  BY KnownIsAnchored
<1>4. ASSUME NEW n \in UsedSlots, n # NoRef
      PROVE  n \in 0..MaxSlots /\ reg[n] \in Values
  <2>1. CASE \E o \in loopHeap : n = self[o] \/ n = cb[o]
    <3>1. PICK o \in loopHeap : n = self[o] \/ n = cb[o]
      BY <2>1
    <3>2. o \in Servers \cup Timers
      BY DEF Parts, Typed
    <3>3. /\ self[o] \in 0..MaxSlots /\ cb[o] \in 0..MaxSlots
          /\ reg[self[o]] = o /\ (cb[o] # NoRef => reg[cb[o]] = Func)
      BY <3>1, <3>2, Kinds DEF Parts, Typed, HeapOK
    <3> QED
      BY <1>4, <3>1, <3>2, <3>3, Kinds
  <2>2. CASE \E c \in Conns : Linked(c) /\ (n = self[c] \/ n = dref[c])
    <3>1. PICK c \in Conns : Linked(c) /\ (n = self[c] \/ n = dref[c])
      BY <2>2
    <3>2. /\ self[c] \in 0..MaxSlots /\ reg[self[c]] = c
          /\ dref[c] \in 0..MaxSlots /\ (dref[c] = NoRef \/ reg[dref[c]] \in Values)
      BY <3>1, SlotsDiffer
    <3> QED
      BY <1>4, <3>1, <3>2, Kinds
  <2> QED
    BY <2>1, <2>2, UsedIs
<1>5. top \in Nat /\ MaxSlots \in Nat /\ top <= MaxSlots
  BY <1>0, <1>1
<1>6. (\A n \in 1..top : n \in 0..top /\ n # 0) /\ (\A n \in 0..top : n # 0 => n \in 1..top)
  BY <1>5
<1>7. \A n \in 0..top : n \in 0..MaxSlots
  BY <1>5
<1>8. \A n \in Slots : reg[n] \in Values => n \in UsedSlots
  BY DEF SlotsNamed
<1>9. \A n \in 1..top : reg[n] \in Values => n \in UsedSlots
  BY <1>6, <1>7, <1>8, ValuesAreNoSlots
<1>10. ASSUME NEW n \in 1..top
      PROVE  n \in FreeSlots \cup (UsedSlots \ {NoRef})
  BY <1>1, <1>2, <1>9, <1>6, <1>7, Zenon DEF NoRef
<1>11. ASSUME NEW n \in FreeSlots \cup (UsedSlots \ {NoRef})
      PROVE  n \in 1..top
  BY <1>2, <1>3, <1>4, <1>6, Zenon DEF NoRef
<1> QED
  BY <1>10, <1>11

-----------------------------------------------------------------------------
(* The theorems *)

\* Of scripts that give a decoder to no connection they have been told is closed, every
\* reachable state satisfies the inductive invariant.
THEOREM ObjectsAreAccounted ==
    ASSUME "late decoder" \notin Script
    PROVE  ObjSpec => []ObjInv
<1>1. Init => Parts /\ Flags /\ SlotsNamed
  BY InitParts, InitNamed, Zenon DEF Init, Flags
<1>2. Parts /\ Flags /\ SlotsNamed /\ [Next]_objVars => Parts' /\ Flags' /\ SlotsNamed'
  BY Step, FlagsStep, NamedStep
<1>3. Parts /\ Flags /\ SlotsNamed => ObjInv
  BY InvIs
<1> QED
  BY <1>1, <1>2, <1>3, PTL DEF ObjSpec

\* What C holds a reference to is what it put there: a handler is given its own
\* connection, and its own decoder.
THEOREM ReferencesHold ==
    ASSUME "late decoder" \notin Script
    PROVE  ObjSpec => []RefsHold
<1>1. ObjInv => RefsHold
  BY DEF ObjInv
<1> QED
  BY <1>1, ObjectsAreAccounted, PTL

\* The collector frees no userdata that libuv links.
THEOREM MemoryIsAlive ==
    ASSUME "late decoder" \notin Script
    PROVE  ObjSpec => []LinkedMemoryIsAlive
<1>1. ObjInv => LinkedMemoryIsAlive
  <2> SUFFICES ASSUME Parts, mem[Loop] = "live", NEW o \in Objects,
                      hnd[o] \in {"open", "closing"}, self[o] # NoRef
               PROVE  mem[o] = "live"
    BY InvIs DEF LinkedMemoryIsAlive
  <2>1. CASE o \in Conns
    BY <2>1 DEF Parts, ConnOK, Linked
  <2>2. CASE o \in Servers \cup Timers
    BY <2>2 DEF Parts, HeapOK, LifeOK
  <2> QED
    BY <2>1, <2>2 DEF Objects
<1> QED
  BY <1>1, ObjectsAreAccounted, PTL

\* Only a script that ends the Lua state while a connection is being closed makes the
\* servers' __gc close a handle twice.
THEOREM OnlyMidClose ==
    ASSUME "late decoder" \notin Script
    PROVE  ObjSpec => OnlyMidCloseAborts
<1>1. ObjInv /\ [Next]_objVars => [ended' = "aborted" => \E c \in Conns : hnd[c] = "closing" \/ cur = c]_objVars
  <2> SUFFICES ASSUME ObjInv, Next, ended' = "aborted"
               PROVE  \E c \in Conns : hnd[c] = "closing" \/ cur = c
    BY Zenon
  <2>1. Parts
    BY InvIs
  <2>2. ended = "no"
    BY Zenon DEF Next, ScriptStep, LoopStep, CollectorStep, ScriptRuns, LoopAtHand, LoopRuns,
         CreateLoop, Run, CreateServer, CreateServerFails, CreateTimer, Drop, Keep, SetDecoder,
         RunReturns, OnConnCloseReturns, Accept, IdleKick, HeardFrom, CloseConn, FinishClose,
         FinalizeLoop, CloseState, FinalizeServer, Collect
  <2>a. CloseState \/ ended' = ended
    BY Zenon DEF Next, ScriptStep, LoopStep, CollectorStep,
         CreateLoop, Run, CreateServer, CreateServerFails, CreateTimer, Made, Drop, Keep, SetDecoder,
         RunReturns, OnConnCloseReturns, Accept, IdleKick, HeardFrom, CloseConn, FinishClose,
         FinalizeLoop, FinalizeServer, Collect
  <2>3. CloseState
    BY <2>2, <2>a
  <2>4. PICK c \in connHeap : hnd[c] # "open"
    BY <2>3 DEF CloseState
  <2>5. c \in Conns /\ Linked(c)
    BY <2>1 DEF Parts, Typed, LifeOK
  <2> QED
    BY <2>4, <2>5 DEF Linked
<1> QED
  BY <1>1, ObjectsAreAccounted, PTL DEF ObjSpec, OnlyMidCloseAborts

\* luaL_ref and luaL_unref lose no slot of the registry: the free list runs through all
\* slots without a value, once each, and every other slot is named by a field of an
\* object that is known, while the loop lives and no create_server has failed.
THEOREM RegistryAccounted ==
    ASSUME "late decoder" \notin Script
    PROVE  ObjSpec => []RegistryIsAccounted
<1>1. ObjInv => RegistryIsAccounted
  <2> SUFFICES ASSUME ObjInv PROVE RegistryIsAccounted
    OBVIOUS
  <2>1. Parts /\ SlotsNamed /\ TypeOK /\ ListIntact(Registry)
    BY InvIs DEF ObjInv
  <2>2. misuse = {} /\ mem[Loop] = "live" => 1..top = FreeSlots \cup (UsedSlots \ {NoRef})
    BY <2>1, NoSlotIsLost
  <2>3. /\ reg[0] \in FreeSlots \cup {NoRef}
        /\ \A n \in FreeSlots : reg[n] \in FreeSlots \cup {NoRef}
        /\ \A n \in FreeSlots : n = reg[0] \/ Cardinality({m \in FreeSlots : reg[m] = n}) = 1
        /\ FreeSlots # {} => Cardinality({n \in FreeSlots : reg[n] = NoRef}) = 1
    BY <2>1, ListIsOneWay
  <2> QED
    BY <2>2, <2>3 DEF RegistryIsAccounted
<1> QED
  BY <1>1, ObjectsAreAccounted, PTL
=============================================================================
