---------------------------- MODULE Subsequences ----------------------------
(***************************************************************************)
(* What a comprehension with a filter leaves of a list, defined so that    *)
(* the prover can reason about it: it knows no definition of SelectSeq.    *)
(***************************************************************************)
EXTENDS Naturals, Sequences, FiniteSets

\* The elements of s that are in S, in their order.
Only(s, S) ==
  LET places == {i \in DOMAIN s : s[i] \in S}
      Rank(i) == Cardinality({j \in places : j <= i})
  IN [k \in 1 .. Cardinality(places) |-> s[CHOOSE i \in places : Rank(i) = k]]
=============================================================================
