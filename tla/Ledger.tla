------------------------------- MODULE Ledger -------------------------------
(***************************************************************************)
(* Transactions, their validation, and the UTXO effect of a block: the     *)
(* pure part of bcc-core that every other module is built from.            *)
(*                                                                         *)
(* A transaction is a member of Tx and stands for its own hash, so an      *)
(* output is named by the pair <<transaction, index>> (TxOutRef; indices   *)
(* start at 1 here, at 0 in the code).  The value stored under a reference *)
(* is a function of the reference, so a UTXO tree is the set of references *)
(* it holds, and a spent_h tree a set of <<height, reference>> pairs.      *)
(***************************************************************************)
EXTENDS Integers, Sequences, FiniteSets, SequencesExt

CONSTANTS
    Tx,         \* the transactions that can occur
    TxInputs,   \* Tx -> Seq([out_ref, address, signed]): each input names an
                \* output, the address its pubkey derives to, and whether its
                \* signature verifies over tx_signing_bytes
    TxOutputs,  \* Tx -> Seq([amount, address])
    U64         \* number of values of a u64 (2^64; scaled down in the models)

TxOutRef == UNION {{<<t, i>> : i \in DOMAIN TxOutputs[t]} : t \in Tx}

Output(ref) == TxOutputs[ref[1]][ref[2]]

\* The references a transaction consumes, and the ones it creates.
InputRefs(t)  == {TxInputs[t][i].out_ref : i \in DOMAIN TxInputs[t]}
OutputRefs(t) == {<<t, i>> : i \in DOMAIN TxOutputs[t]}

\* Saturating sum of the amounts found under the inputs.
TotalIn(t) ==
    LET sum == FoldLeft(LAMBDA acc, inp : acc + Output(inp.out_ref).amount,
                        0, TxInputs[t])
    IN  IF sum >= U64 THEN U64 - 1 ELSE sum

\* Plain sum of the outputs; the release build wraps.
TotalOut(t) ==
    FoldLeft(LAMBDA acc, out : acc + out.amount, 0, TxOutputs[t]) % U64

ASSUME LedgerAssumption ==
    /\ IsFiniteSet(Tx)
    /\ \A t \in Tx : TotalOut(t) \in Nat
    /\ \A t \in Tx : InputRefs(t) \subseteq TxOutRef
    /\ \A r \in TxOutRef : Output(r).amount \in Nat
    /\ \A t \in Tx : \A list \in {TxInputs[t], TxOutputs[t]} :
          Len(list) \in Nat /\ DOMAIN list = 1..Len(list)
    /\ U64 \in Nat \ {0}

-----------------------------------------------------------------------------
\* Mutant: the inputs' total is not compared with the outputs'.
ValidateTransactionUnfunded(t, utxo) ==
    /\ TxOutputs[t] # <<>>
    /\ InputRefs(t) \subseteq utxo

\* Mutant: the inputs are not looked up in the UTXO set.
ValidateTransactionBlind(t, utxo) == TotalIn(t) >= TotalOut(t)

\* Whether a transaction is valid against a UTXO set.
ValidateTransaction(t, utxo) ==
    /\ TxOutputs[t] # <<>>
    /\ \A i \in DOMAIN TxOutputs[t] : TxOutputs[t][i].amount # 0
    /\ \A i \in DOMAIN TxInputs[t] :
          LET inp == TxInputs[t][i]
          IN  /\ inp.out_ref \in utxo
              /\ Output(inp.out_ref).address = inp.address
              /\ inp.signed
    /\ TotalIn(t) >= TotalOut(t)

-----------------------------------------------------------------------------
(* The sled trees `utxo` and `spent_h`, as the record [utxo, spent].        *)

\* Consume the inputs, remembering under `height` the ones that were present,
\* then create the outputs.
ApplyTx(height, st, t) ==
    [utxo  |-> (st.utxo \ InputRefs(t)) \cup OutputRefs(t),
     spent |-> st.spent \cup {<<height, r>> : r \in InputRefs(t) \cap st.utxo}]

\* The transaction of SledStore::apply_block: after[i] is what the trees hold
\* after the first i transactions.
ApplyBlock(height, txs, st) ==
    LET after[i \in 0..Len(txs)] ==
            IF i = 0 THEN st ELSE ApplyTx(height, after[i - 1], txs[i])
    IN  after[Len(txs)]

\* Mutant: the undo record survives the rollback that used it.
RollbackTxKeepsRecord(height, st, t) ==
    [utxo  |-> (st.utxo \ OutputRefs(t))
                  \cup {r \in InputRefs(t) : <<height, r>> \in st.spent},
     spent |-> st.spent]

\* Mutant: the outputs the transaction created stay in the UTXO set.
RollbackTxKeepsOutputs(height, st, t) ==
    LET back == {r \in InputRefs(t) : <<height, r>> \in st.spent}
    IN  [utxo  |-> st.utxo \cup back,
         spent |-> st.spent \ {<<height, r>> : r \in back}]

\* Remove the outputs, then restore the inputs remembered under `height`.
RollbackTx(height, st, t) ==
    LET back == {r \in InputRefs(t) : <<height, r>> \in st.spent}
    IN  [utxo  |-> (st.utxo \ OutputRefs(t)) \cup back,
         spent |-> st.spent \ {<<height, r>> : r \in back}]

\* The first transaction of SledStore::rollback_block, newest tx first: undone[i]
\* is what the trees hold after the last i transactions are undone.
RollbackBlock(height, txs, st) ==
    LET undone[i \in 0..Len(txs)] ==
            IF i = 0 THEN st ELSE RollbackTx(height, undone[i - 1], txs[Len(txs) + 1 - i])
    IN  undone[Len(txs)]

Empty == [utxo |-> {}, spent |-> {}]

\* What an empty store holds after applying the given bodies in order, the
\* first one at height 0.
Replay(bodies) ==
    LET after[k \in 0..Len(bodies)] ==
            IF k = 0 THEN Empty ELSE ApplyBlock(k - 1, bodies[k], after[k - 1])
    IN  after[Len(bodies)]

-----------------------------------------------------------------------------
(* The MemoryStore, where `spent` holds one list per height: applying a     *)
(* block replaces the height's list, and rolling it back removes every      *)
(* created output before it restores anything.                              *)

MemApplyBlock(height, txs, st) ==
    LET fresh == ApplyBlock(height, txs, [utxo |-> st.utxo, spent |-> {}])
    IN  [utxo  |-> fresh.utxo,
         spent |-> {e \in st.spent : e[1] # height} \cup fresh.spent]

\* Mutant: the height's list is restored but not removed.
MemRollbackBlockKeepsList(height, txs, st) ==
    LET created == UNION {OutputRefs(txs[i]) : i \in DOMAIN txs}
    IN  [utxo  |-> (st.utxo \ created)
                      \cup {r \in TxOutRef : <<height, r>> \in st.spent},
         spent |-> st.spent]

MemRollbackBlock(height, txs, st) ==
    LET created  == UNION {OutputRefs(txs[i]) : i \in DOMAIN txs}
        restored == {r \in TxOutRef : <<height, r>> \in st.spent}
    IN  [utxo  |-> (st.utxo \ created) \cup restored,
         spent |-> {e \in st.spent : e[1] # height}]

\* What coins are worth together.
Worth(coins) == MapThenSumSet(LAMBDA r : Output(r).amount, coins)

\* Whether the totals that validation compares are those of the transaction: the
\* sum of its outputs does not wrap, and no coin is listed, and counted, twice.
ExactTotals(t) ==
    /\ FoldLeft(LAMBDA acc, out : acc + out.amount, 0, TxOutputs[t]) < U64
    /\ \A i, j \in DOMAIN TxInputs[t] : TxInputs[t][i].out_ref = TxInputs[t][j].out_ref => i = j

\* Where value comes from: the coins of the genesis block and those of
\* transactions that validation passed on totals that are not theirs.
Sources(genesis, txs) ==
    UNION {OutputRefs(t) : t \in genesis \cup {u \in txs : ~ExactTotals(u)}}

\* SledStore::balance: saturating sum of the outputs an address owns.
Balance(address, utxo) ==
    LET sum == Worth({r \in utxo : Output(r).address = address})
    IN  IF sum >= U64 THEN U64 - 1 ELSE sum

=============================================================================
