------------------------------- MODULE Sorting -------------------------------
(***************************************************************************)
(* Sequences in an order.  SelectSeq and SortSeq return them too; this     *)
(* form of one operator is one the proofs can expand.                      *)
(***************************************************************************)
EXTENDS Naturals, FiniteSets

\* The elements of s at the positions S, each after those that are before it.
InOrder(s, S, before(_, _)) ==
    [k \in 1 .. Cardinality(S) |->
        s[CHOOSE i \in S : Cardinality({j \in S : before(j, i)}) = k - 1]]
=============================================================================
