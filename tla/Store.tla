-------------------------------- MODULE Store -------------------------------
(***************************************************************************)
(* The UTXO half of the two store implementations, side by side, with the  *)
(* pool that validates against it: blocks are applied on top of the        *)
(* genesis allocation and rolled back from the tip, in any order the       *)
(* UtxoStore trait allows its callers, and the pool takes and drops        *)
(* transactions in between.  The sled store (Mempool's utxo, and spent)    *)
(* runs in production, the memory store is what the unit tests of the rest *)
(* of the code run against.                                                *)
(***************************************************************************)
EXTENDS Mempool

CONSTANTS
    GenesisTxs,  \* the coinbase-style transactions of the genesis block
    Bodies,      \* the transaction lists a proposer can put in a block
    Accounts,    \* the addresses
    MaxHeight    \* bound on the height of the chain

\* The genesis allocation consumes nothing and repeats nothing.  A body comes
\* from a pool, whose transactions share no input, and a transaction without
\* inputs is invalid, unless its outputs add up to a multiple of U64.
ASSUME StoreAssumption ==
    /\ GenesisTxs \in Seq(Tx) /\ Bodies \subseteq Seq(Tx)
    /\ IsFiniteSet(Accounts)
    /\ \A i \in DOMAIN GenesisTxs : InputRefs(GenesisTxs[i]) = {}
    /\ \A i, j \in DOMAIN GenesisTxs : i # j => GenesisTxs[i] # GenesisTxs[j]
    /\ \A body \in Bodies : \A i \in DOMAIN body : InputRefs(body[i]) # {}
    /\ \A body \in Bodies : \A i, j \in DOMAIN body :
          i # j => InputRefs(body[i]) \cap InputRefs(body[j]) = {}

VARIABLES
    chain,   \* the bodies of the applied blocks, genesis first
    spent,   \* SledStore: the undo records beside utxo
    memory   \* MemoryStore: [utxo, spent]

Sled  == [utxo |-> utxo, spent |-> spent]

\* Step 7 of validate_block: every transaction is checked against the UTXO
\* set as it stands before the block.
BodyValid(body, coins) ==
    \A i \in DOMAIN body : ValidateTransaction(body[i], coins)

StoreInit ==
    LET genesis == ApplyBlock(0, GenesisTxs, Empty)
    IN  /\ chain  = <<GenesisTxs>>
        /\ Init /\ utxo = genesis.utxo
        /\ spent  = genesis.spent
        /\ memory = MemApplyBlock(0, GenesisTxs, Empty)

Apply(body) ==
    LET st == ApplyBlock(Len(chain), body, Sled)
    IN  /\ Len(chain) <= MaxHeight
        /\ BodyValid(body, utxo)
        /\ chain'  = Append(chain, body)
        /\ utxo' = st.utxo /\ spent' = st.spent
        /\ memory' = MemApplyBlock(Len(chain), body, memory)
        /\ UNCHANGED poolVars

Rollback ==
    LET st == RollbackBlock(Len(chain) - 1, Last(chain), Sled)
    IN  /\ Len(chain) > 1
        /\ chain'  = Front(chain)
        /\ utxo' = st.utxo /\ spent' = st.spent
        /\ memory' = MemRollbackBlock(Len(chain) - 1, Last(chain), memory)
        /\ UNCHANGED poolVars

\* The pool's own operations; remove is called with the transactions of a
\* block that was applied.
PoolStep ==
    /\ \/ \E t \in Tx : Add(t)
       \/ RemoveIncluded(ToSet(Last(chain)))
       \/ Restart
    /\ UNCHANGED <<chain, spent, memory>>

StoreNext == (\E body \in Bodies : Apply(body)) \/ Rollback \/ PoolStep

StoreSpec == StoreInit /\ [][StoreNext]_<<vars, chain, spent, memory>>

-----------------------------------------------------------------------------
\* The trees of the sled store, undo records included, are those of a store
\* that only ever applied the blocks that are still on the chain: whatever was
\* applied and rolled back in between leaves no trace (apply_block,
\* rollback_block).
SledIsReplay == Sled = Replay(chain)

\* The memory store the tests rely on answers every lookup and keeps every
\* undo record as the sled store does (MemoryStore against SledStore).
StoresAgree == memory = Sled

\* The balances of all accounts never add up to more than value comes from: the
\* genesis allocation and the transactions on the chain whose outputs wrap or
\* that list an input twice.  Every other validated transaction moves value and
\* creates none.  (The comment of validate_transaction, and docs/bcc-core.md,
\* promise sum(inputs) >= sum(outputs) of those, too.)  (validate_transaction,
\* apply_block, balance)
NoInflation ==
    MapThenSumSet(LAMBDA a : Balance(a, utxo), Accounts)
        <= Worth(Sources(ToSet(GenesisTxs), UNION {ToSet(chain[k]) : k \in DOMAIN chain}))

=============================================================================
