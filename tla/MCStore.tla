------------------------------- MODULE MCStore ------------------------------
(* Store over the shared transactions, plus two that must never be valid,  *)
(* one that pays out more than it takes in and one with a foreign input,   *)
(* and one that is and, like twice, creates value: the outputs of wrap add *)
(* up to U64 + 1.                                                          *)
EXTENDS Store, MCLedgerData

MCStoreTx == MCTx \cup {"short", "foreign", "wrap"}

LOCAL Spend(tx, owner) == [out_ref |-> <<tx, 1>>, address |-> owner, signed |-> TRUE]
LOCAL ToCarol(n) == [amount |-> n, address |-> Carol]

MCStoreInputs ==
    [t \in MCStoreTx |->
        CASE t = "short"   -> <<Spend("g2", Bob)>>
          [] t = "foreign" -> <<Spend("g1", Carol)>>
          [] t = "wrap"    -> <<Spend("pay", Bob)>>
          [] OTHER         -> MCTxInputs[t]]

MCStoreOutputs ==
    [t \in MCStoreTx |->
        CASE t = "short"   -> <<ToCarol(4)>>
          [] t = "foreign" -> <<ToCarol(3)>>
          [] t = "wrap"    -> <<ToCarol(15), ToCarol(2)>>
          [] OTHER         -> MCTxOutputs[t]]

\* What a proposer can drain from its pool: transactions that share no input.
MCBodies ==
    {body \in SeqOf(MCStoreTx \ {"g1", "g2"}, 2) :
        \A i, j \in DOMAIN body :
            i # j => InputRefs(body[i]) \cap InputRefs(body[j]) = {}}
=============================================================================
