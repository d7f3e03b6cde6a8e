----------------------------- MODULE MCSyncDemo -----------------------------
(***************************************************************************)
(* The syncing process over part of the block universe of MCBitcoinState.  *)
(***************************************************************************)
EXTENDS SyncDemo, MCBitcoinState
=============================================================================
