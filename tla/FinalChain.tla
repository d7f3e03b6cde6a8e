----------------------------- MODULE FinalChain -----------------------------
(***************************************************************************)
(* What a user of the chain state may rely on for good: a chain of final   *)
(* blocks that starts with genesis, grows by one block at a time, each     *)
(* following the last one, and never loses or exchanges a block.  Blocks   *)
(* become final in any order the rest of the system likes, or not at all.  *)
(***************************************************************************)
EXTENDS Sequences, Naturals

CONSTANTS Blocks, Prev, Genesis

VARIABLE chain

Init == chain = <<Genesis>>

Finalise(b) ==
    /\ Prev[b] = chain[Len(chain)]
    /\ chain' = Append(chain, b)

Next == \E b \in Blocks : Finalise(b)

Spec == Init /\ [][Next]_chain
=============================================================================
