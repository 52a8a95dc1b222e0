------------------------------- MODULE MCPacking -------------------------------
(* Instances of Packing for TLC. *)
EXTENDS Packing

\* Numbers around every limit, in halves, and a number beyond int64_t.
Numbers == {Num(h) : h \in {-100, -33, -32, -9, -8, -7, -1, 0, 1, 2, 6, 7, 8, 14, 15, 16, 31, 32, 33, 100}}

\* Lengths around every step of the encoding, the one that makes a size of 2^24, and
\* one that is cut.
Strings == {Str(n) : n \in {0, 1, 127, 128, 16383, 16384, 2097151, 2097152, 16777210, 16777211,
                            268435455, 268435456, 536870911, 536870912}}

Scalars == {Nil, NaN, Other, Bool(0), Bool(1)} \cup Numbers \cup Strings
Few == {Bool(1), Num(2), Num(-1), Num(16), Str(1), Str(0)}
Pairs == Few \X Few

Flat ==
    {Tab({})} \cup {Tab({p}) : p \in Pairs}
      \cup {Tab({p, q}) : p \in {Num(2)} \X Few, q \in {Str(1), Num(16)} \X Few}
      \cup {Tab({<<Str(0), Num(16)>>, <<Num(2), Num(6)>>, <<Str(1), Bool(1)>>}),
            Tab({<<Num(2), Other>>}), Tab({<<Other, Num(2)>>})}
Small == {t \in Flat : Cardinality(t[2]) <= 1}
Nested ==
    {Tab({<<t, k>>}) : k \in Few, t \in Small} \cup {Tab({<<k, t>>}) : k \in Few, t \in Small}
      \cup {Tab({<<Num(16), Tab({p})>>, <<Num(2), k>>}) : k \in Few, p \in Pairs}
Deep == {Tab({<<t, u>>}) : t \in {Tab({<<Num(16), k>>}) : k \in Few}, u \in {Tab({<<Tab({}), Num(2)>>}), Tab({})}}

MCValues == Scalars \cup Flat \cup Nested \cup Deep
MCArgLists ==
    {<<>>} \cup {<<v>> : v \in MCValues}
      \cup {<<v, w>> : v \in Few \cup {NaN, Nil}, w \in Few \cup {Tab({p}) : p \in Pairs}}
      \cup {<<Str(268435455), Str(268435455), Str(268435455)>>}

MCIntMin == -4
MCInt64Min == -16
MCLens == {0, 1, 200, 268435456, 536870911}
=============================================================================
