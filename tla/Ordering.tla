------------------------------ MODULE Ordering ------------------------------
(* Sorted sequences, for the modules that model queries.                    *)
EXTENDS Integers, Sequences, FiniteSets, Functions, TLC

\* The elements of S by a strict total order.
Sorted(S, Less(_, _)) ==
    [k \in 1 .. Cardinality(S) |-> CHOOSE x \in S : Cardinality({y \in S : Less(y, x)}) = k - 1]

Ascending(S) == Sorted(S, <)

Take(s, n) == SubSeq(s, 1, IF n < Len(s) THEN n ELSE Len(s))

\* f with the value v for k.
With(f, k, v) == [x \in DOMAIN f \cup {k} |-> IF x = k THEN v ELSE f[x]]

\* A value computed once.
Eager(f) == f @@ <<>>
=============================================================================
