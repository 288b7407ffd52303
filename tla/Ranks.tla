------------------------------- MODULE Ranks -------------------------------
\* The elements of a set in an order (ORDER BY, std::set), and the elements of a
\* sequence at some of its positions (the loops that keep what passes a test).
EXTENDS Naturals, Sequences, FiniteSets

\* An order is a set of pairs; the n-th element is the one with n - 1 before it.
InFront(S, order, x) == {y \in S : <<y, x>> \in order}
Arranged(S, order) == [n \in 1..Cardinality(S) |-> CHOOSE x \in S : Cardinality(InFront(S, order, x)) = n - 1]

Ascending(S) == Arranged(S, {p \in S \X S : p[1] < p[2]})
Picked(s, at) == LET order == Ascending(at) IN [n \in DOMAIN order |-> s[order[n]]]
=============================================================================
