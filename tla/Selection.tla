------------------------------ MODULE Selection ------------------------------
(***************************************************************************)
(* Array.prototype.filter: what of a list belongs to a set, in the order   *)
(* of the list.  A function of the place in the result, where SelectSeq    *)
(* recurses.                                                               *)
(***************************************************************************)
EXTENDS Naturals, Sequences, FiniteSets

Places(s, S) == {i \in DOMAIN s : s[i] \in S}

PlaceRank(P, i) == Cardinality({j \in P : j < i}) + 1

Filtered(s, S) ==
  LET P == Places(s, S)
  IN  [k \in 1..Cardinality(P) |-> s[CHOOSE i \in P : PlaceRank(P, i) = k]]
=============================================================================
