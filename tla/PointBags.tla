------------------------------ MODULE PointBags -----------------------------
(***************************************************************************)
(* Multisets of map points, as functions from points to counts.            *)
(***************************************************************************)
EXTENDS Integers, Sequences, FiniteSets

CONSTANT Points  \* the points the map may hold

Multisets == [Points -> Nat]

NoPoints == [p \in Points |-> 0]

Add(b, c) == [p \in Points |-> b[p] + c[p]]

AddOne(b, p) == [b EXCEPT ![p] = @ + 1]

Minus(b, c) == [p \in Points |-> b[p] - c[p]]

OutsideOnce(b, R) ==  \* mutant
    [p \in Points |-> IF p \in R THEN b[p] - 1 ELSE b[p]]

Outside(b, R) == [p \in Points |-> IF p \in R THEN 0 ELSE b[p]]

\* The multisets contained in b.
Parts(b) ==
    {c \in [Points -> UNION {0..b[p] : p \in Points}] : \A p \in Points : c[p] <= b[p]}

\* How often each point occurs in a sequence.
Count(s) == [p \in Points |-> Cardinality({i \in 1..Len(s) : s[i] = p})]
=============================================================================
