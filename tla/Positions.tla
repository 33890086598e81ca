------------------------------ MODULE Positions ------------------------------
(***************************************************************************)
(* Some elements of a sequence, in their order: what a filter keeps and a  *)
(* list without its repetitions are given by the positions that stay.      *)
(***************************************************************************)
EXTENDS Naturals, Sequences, FiniteSets

\* how many elements of S do not exceed e
Rank(S, e) == Cardinality({f \in S : f <= e})

\* A set of numbers as a sequence: the i-th is the one that i of them do not exceed.
InOrder(S) == [i \in 1 .. Cardinality(S) |-> CHOOSE e \in S : Rank(S, e) = i]

\* The elements of s at some of its positions
Picked(s, positions) ==
  [i \in 1 .. Cardinality(positions) |-> s[InOrder(positions)[i]]]

\* Those that are in a set
Kept(s, set) == Picked(s, {i \in DOMAIN s : s[i] \in set})
=============================================================================
