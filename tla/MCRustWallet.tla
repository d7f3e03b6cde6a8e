---------------------------- MODULE MCRustWallet ----------------------------
(***************************************************************************)
(* Three outputs of different value, in words of five bits.  The amounts   *)
(* reach from the least that send() accepts over sums that the inputs      *)
(* cover exactly, without the fees, or with dust left, to the largest      *)
(* word, whose sum with the fees wraps around.                             *)
(***************************************************************************)
EXTENDS RustWallet

CONSTANTS o1, o2, o3

MCOutPoints == {o1, o2, o3}

MCValue == [o \in MCOutPoints |-> CASE o = o1 -> 3 [] o = o2 -> 5 [] o = o3 -> 9]

MCWordSize == 32

MCAmounts == {3, 5, 7, MCWordSize - 1}
=============================================================================
