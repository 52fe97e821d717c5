------------------------------- MODULE Listing -------------------------------
(***************************************************************************)
(* Rows in an order: what ORDER BY gives of a finite set, by the number of *)
(* rows that come before each.                                             *)
(***************************************************************************)
EXTENDS Naturals, FiniteSets

InOrderOf(S, before(_, _)) ==
  [k \in 1 .. Cardinality(S) |->
     CHOOSE x \in S : Cardinality({y \in S : before(y, x)}) = k - 1]
=============================================================================
