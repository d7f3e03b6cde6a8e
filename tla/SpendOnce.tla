----------------------------- MODULE SpendOnce -----------------------------
(***************************************************************************)
(* What a wallet owes its owner: it issues transactions one after the      *)
(* other, and no two of them spend the same outpoint.                      *)
(***************************************************************************)
EXTENDS Sequences, Naturals

CONSTANT OutPoints

VARIABLE transactions   \* the sets of inputs of the transactions issued so far

Init == transactions = <<>>

Issue(inputs) ==
    /\ \A i \in DOMAIN transactions : transactions[i] \cap inputs = {}
    /\ transactions' = Append(transactions, inputs)

Next == \E inputs \in SUBSET OutPoints : Issue(inputs)

Spec == Init /\ [][Next]_transactions
=============================================================================
