---------------------------- MODULE MCLedgerData ----------------------------
(***************************************************************************)
(* The transactions the models are checked with.  Two genesis allocations, *)
(* g1 to alice and g2 to bob, and the transfers their wallets build:       *)
(*   pay    alice pays bob 2 of her 3 coins and keeps 1 as change;         *)
(*   resend alice's other transfer of the same coin, to carol: it          *)
(*          conflicts with pay, as a transfer submitted twice does;        *)
(*   onward bob spends the output pay gave him: it depends on pay;         *)
(*   tip    bob spends his own genesis coin, leaving 1 as the fee;         *)
(*   twice  lists alice's genesis coin two times and pays bob 6: it passes *)
(*          validation and creates value.                                  *)
(***************************************************************************)
EXTENDS Integers, Sequences

Alice == "alice"
Bob   == "bob"
Carol == "carol"

MCTx == {"g1", "g2", "pay", "resend", "onward", "tip", "twice"}

LOCAL In(tx, index, owner) == [out_ref |-> <<tx, index>>, address |-> owner, signed |-> TRUE]
LOCAL Out(n, owner) == [amount |-> n, address |-> owner]

MCTxInputs ==
    [t \in MCTx |->
        CASE t \in {"g1", "g2"}      -> <<>>
          [] t \in {"pay", "resend"} -> <<In("g1", 1, Alice)>>
          [] t = "twice"             -> <<In("g1", 1, Alice), In("g1", 1, Alice)>>
          [] t = "onward"            -> <<In("pay", 1, Bob)>>
          [] t = "tip"               -> <<In("g2", 1, Bob)>>]

MCTxOutputs ==
    [t \in MCTx |->
        CASE t = "g1"     -> <<Out(3, Alice)>>
          [] t = "g2"     -> <<Out(2, Bob)>>
          [] t = "pay"    -> <<Out(2, Bob), Out(1, Alice)>>
          [] t = "resend" -> <<Out(3, Carol)>>
          [] t = "twice"  -> <<Out(6, Bob)>>
          [] t = "onward" -> <<Out(2, Carol)>>
          [] t = "tip"    -> <<Out(1, Carol)>>]

MCGenesisTxs == <<"g1", "g2">>
MCAccounts   == {Alice, Bob, Carol}

\* The same without bob's genesis coin.
MCTxFew == {"g1", "pay", "resend", "onward"}

\* The same with twice in the place of resend.
MCTxSerial == {"g1", "pay", "twice", "onward"}

\* Only the two that conflict.
MCTxTwo == {"g1", "pay", "resend"}

\* Wallet transfers: everything but the genesis allocations.
MCTransfers == MCTx \ {"g1", "g2"}
=============================================================================
