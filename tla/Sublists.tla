------------------------------ MODULE Sublists ------------------------------
(* The elements of fs at the indices in S, in their order: SelectSeq, with *)
(* the set it selects in the open.                                         *)
EXTENDS Naturals, Sequences, FiniteSets

Nth(S, n) == CHOOSE i \in S : Cardinality({j \in S : j <= i}) = n
Sublist(fs, S) == [n \in 1 .. Cardinality(S) |-> fs[Nth(S, n)]]
Where(fs, Keep(_)) == Sublist(fs, {i \in DOMAIN fs : Keep(fs[i])})
=============================================================================
