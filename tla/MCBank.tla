------------------------------- MODULE MCBank -------------------------------
(***************************************************************************)
(* One account whose balance covers no token, or two and a rest; two       *)
(* customers, between whom the account changes hands; two calls of the     *)
(* bank at a time, one of createAccount().  A second key of the factory    *)
(* makes the first signature obsolete.                                     *)
(***************************************************************************)
EXTENDS Bank

MCBalances == {1, 5}

Symmetry == Permutations(Calls) \cup Permutations(Customers)
=============================================================================
