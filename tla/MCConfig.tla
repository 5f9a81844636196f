------------------------------ MODULE MCConfig ------------------------------
(* Small instances of Config for TLC.                                      *)
EXTENDS Config, TLC

CONSTANTS t1, t2, n1, n2, T1, T2, T3, v0, v1, v2, bad, l1, l2

TwoThreads == {t1, t2}
TwoNames == {n1, n2}
ThreeTypes == {T1, T2, T3}
ThreeValues == {v0, v1, v2}
TwoListeners == {l1, l2}

TwoOfOneType == {<<n1, T1>>, <<n2, T1>>}
\* n2 is looked up with two types.
OneOfTwoTypes == {<<n1, T1>>, <<n2, T2>>, <<n2, T3>>}

It(n, v) == [name |-> n, val |-> v]

\* An assignment of each parameter, and a file that names both, one of them with
\* text that does not convert and then again.
SetsAndLoad ==
    {<<It(n1, v1)>>, <<It(n2, v2)>>, <<It(n1, bad), It(n2, v1), It(n1, v2)>>}
NoDocument == {}

\* n2 is assigned by one thread, and the other one subscribes to it.
T1AloneForN2 == (n1 :> Threads) @@ (n2 :> {t1})
T2AloneForN2 == (n1 :> Threads) @@ (n2 :> {t2})
Everyone == [n \in Names |-> Threads]
=============================================================================
