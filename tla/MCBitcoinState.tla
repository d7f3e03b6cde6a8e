--------------------------- MODULE MCBitcoinState ---------------------------
(***************************************************************************)
(* A small block universe for TLC.  Next to the chain a1 .. a5, a fork at   *)
(* b1 that forks again and competes with all of it, and blocks c2 and c3   *)
(* that compete from a2 and from a3 on.                                    *)
(*                                                                         *)
(*     g <- a1 <- a2 <- a3 <- a4 <- a5                                     *)
(*      \     \- c2  \- c3                                                 *)
(*       \- b1 <- b2                                                       *)
(*            \- d2 <- d3                                                  *)
(*                                                                         *)
(* The reward of g is spent by "pay" on the chain of a2 and, by the same   *)
(* transaction, on that of c2; b1 spends it differently.  c2 spends one    *)
(* output of "pay" in the same block; a3 spends both, one of them through  *)
(* a transaction between.  The coinbase of a3 duplicates that of a1.       *)
(***************************************************************************)
EXTENDS ChainProperties

CONSTANTS g, a1, a2, a3, a4, a5, b1, b2, c2, c3, d2, d3, alice, bob

AllBlocks == {g, a1, a2, a3, a4, a5, b1, b2, c2, c3, d2, d3}

AllPrev == [b \in AllBlocks |->
    CASE b = g -> NoBlock
      [] b \in {a1, b1} -> g
      [] b \in {a2, c2} -> a1
      [] b \in {a3, c3} -> a2
      [] b = a5 -> a4
      [] b = a4 -> a3
      [] b \in {b2, d2} -> b1
      [] b = d3 -> d2]

MCPrev == [b \in Blocks |-> AllPrev[b]]

Out(a, v) == [address |-> a, value |-> v]

Tx(id, inputs, outputs) == [txid |-> id, inputs |-> inputs, outputs |-> outputs]

Reward(id, a) == Tx(id, <<>>, <<Out(a, 5)>>)

Pay == Tx("pay", <<<<"rewardG", 0>>>>, <<Out(bob, 3), Out(alice, 2)>>)

MCTxIds == {"dup", "rewardG", "rewardA2", "rewardA4", "rewardA5", "rewardB1",
            "rewardB2", "rewardC2", "rewardC3", "rewardD2", "rewardD3",
            "pay", "steal", "forward", "onward", "divert"}

AllTxs == [b \in AllBlocks |->
    CASE b = g -> <<Reward("rewardG", alice)>>
      [] b = a1 -> <<Reward("dup", NoAddress)>>
      [] b = a2 -> <<Reward("rewardA2", alice), Pay>>
      [] b = a3 -> <<Reward("dup", NoAddress),
                     Tx("forward", <<<<"pay", 0>>>>, <<Out(alice, 3)>>),
                     Tx("onward", <<<<"forward", 0>>, <<"pay", 1>>>>, <<Out(bob, 5)>>)>>
      [] b = a4 -> <<Reward("rewardA4", bob)>>
      [] b = a5 -> <<Reward("rewardA5", alice)>>
      [] b = b1 -> <<Reward("rewardB1", bob),
                     Tx("steal", <<<<"rewardG", 0>>>>, <<Out(bob, 4), Out(NoAddress, 1)>>)>>
      [] b = b2 -> <<Reward("rewardB2", alice)>>
      [] b = c2 -> <<Reward("rewardC2", alice), Pay,
                     Tx("divert", <<<<"pay", 1>>>>, <<Out(NoAddress, 1), Out(bob, 1)>>)>>
      [] b = c3 -> <<Reward("rewardC3", bob)>>
      [] b = d2 -> <<Reward("rewardD2", bob)>>
      [] b = d3 -> <<Reward("rewardD3", NoAddress)>>]

MCTxs == [b \in Blocks |-> AllTxs[b]]
=============================================================================
