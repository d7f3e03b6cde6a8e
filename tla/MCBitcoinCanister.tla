------------------------- MODULE MCBitcoinCanister -------------------------
(***************************************************************************)
(* The canister and its shim over the block universe of MCBitcoinState.    *)
(***************************************************************************)
EXTENDS BitcoinCanister, MCBitcoinState
=============================================================================
