--------------------------- MODULE BitcoinAdapter ---------------------------
(***************************************************************************)
(* The Bitcoin adapter as its clients see it.  It is external: it          *)
(* downloads and validates blocks in the order of the chain, and answers a *)
(* request, which names the blocks its client has, with blocks that follow *)
(* them, as many of them as it likes.                                      *)
(***************************************************************************)
EXTENDS ChainProperties

CONSTANT MaxResponse    \* bound: blocks in one answer of the adapter

ASSUME AdapterAssumption == MaxResponse \in Nat \ {0}

VARIABLE available      \* blocks the adapter has downloaded and validated

Learns(b) ==
    /\ b \notin available /\ Prev[b] \in available
    /\ available' = available \cup {b}

\* Blocks the adapter has that follow a block of the request, or one before them
\* in the answer, and that the request does not have.
Answers(hashes) ==
    {bs \in BoundedSeq(available \ hashes, MaxResponse) :
        \A i \in DOMAIN bs :
            /\ Prev[bs[i]] \in hashes \cup ToSet(SubSeq(bs, 1, i - 1))
            /\ bs[i] \notin ToSet(SubSeq(bs, 1, i - 1))}
=============================================================================
