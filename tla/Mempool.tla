------------------------------ MODULE Mempool -------------------------------
(***************************************************************************)
(* The pool of unconfirmed transactions (bcc-node/src/mempool.rs).  Every   *)
(* operation runs under the node's mempool mutex, so each is one step.  The *)
(* UTXO set belongs to the store and changes under the pool's feet: blocks  *)
(* are applied and rolled back without the mutex.                           *)
(***************************************************************************)
EXTENDS Ledger

CONSTANT
    MempoolMaxSize   \* config.mempool_max_size

ASSUME MempoolAssumption == MempoolMaxSize \in Nat

VARIABLES
    txs,         \* the pooled transactions (IndexMap keyed by hash)
    in_flight,   \* the references pooled transactions consume
    values,      \* cached total output value per pooled transaction
    utxo         \* the store's UTXO set, as validate_transaction reads it

poolVars == <<txs, in_flight, values>>
vars     == <<txs, in_flight, values, utxo>>

Init ==
    /\ txs = {}
    /\ in_flight = {}
    /\ values = [t \in {} |-> 0]
    /\ utxo \in SUBSET TxOutRef

-----------------------------------------------------------------------------
\* Mutant: a transaction that spends an in-flight output is let through.
AdmissibleNoGuard(t) ==
    /\ t \notin txs
    /\ ValidateTransaction(t, utxo)

\* The checks of Mempool::add before any capacity question.  A transaction
\* that is already pooled is acknowledged, one that fails a check is refused;
\* neither changes the pool.
Admissible(t) ==
    /\ t \notin txs
    /\ ValidateTransaction(t, utxo)
    /\ InputRefs(t) \cap in_flight = {}

\* Mutant: off by one, a full pool takes one more.
InsertWhenFull(t) ==
    /\ Admissible(t)
    /\ Cardinality(txs) <= MempoolMaxSize
    /\ txs' = txs \cup {t}
    /\ in_flight' = in_flight \cup InputRefs(t)
    /\ values' = [u \in txs \cup {t} |-> IF u = t THEN TotalOut(t) ELSE values[u]]
    /\ UNCHANGED utxo

\* Add with room left.
Insert(t) ==
    /\ Admissible(t)
    /\ Cardinality(txs) < MempoolMaxSize
    /\ txs' = txs \cup {t}
    /\ in_flight' = in_flight \cup InputRefs(t)
    /\ values' = [u \in txs \cup {t} |-> IF u = t THEN TotalOut(t) ELSE values[u]]
    /\ UNCHANGED utxo

\* Mutant: the evicted transaction keeps its inputs in flight.
ReplaceLeavesInFlight(t, victim) ==
    /\ Admissible(t)
    /\ Cardinality(txs) >= MempoolMaxSize
    /\ victim \in txs
    /\ \A u \in txs : values[victim] <= values[u]
    /\ TotalOut(t) > values[victim]
    /\ txs' = (txs \ {victim}) \cup {t}
    /\ in_flight' = in_flight \cup InputRefs(t)
    /\ values' = [u \in (txs \ {victim}) \cup {t} |->
                     IF u = t THEN TotalOut(t) ELSE values[u]]
    /\ UNCHANGED utxo

\* Mutant: any pooled transaction is evicted, whatever its value.
ReplaceAny(t, victim) ==
    /\ Admissible(t)
    /\ Cardinality(txs) >= MempoolMaxSize
    /\ victim \in txs
    /\ txs' = (txs \ {victim}) \cup {t}
    /\ in_flight' = (in_flight \ InputRefs(victim)) \cup InputRefs(t)
    /\ values' = [u \in (txs \ {victim}) \cup {t} |->
                     IF u = t THEN TotalOut(t) ELSE values[u]]
    /\ UNCHANGED utxo

\* Add at capacity: a transaction of least value, whichever the HashMap yields
\* first, makes room for a strictly more valuable one.  With an empty pool
\* (MempoolMaxSize = 0) there is no such transaction and add is refused.
Replace(t, victim) ==
    /\ Admissible(t)
    /\ Cardinality(txs) >= MempoolMaxSize
    /\ victim \in txs
    /\ \A u \in txs : values[victim] <= values[u]
    /\ TotalOut(t) > values[victim]
    /\ txs' = (txs \ {victim}) \cup {t}
    /\ in_flight' = (in_flight \ InputRefs(victim)) \cup InputRefs(t)
    /\ values' = [u \in (txs \ {victim}) \cup {t} |->
                     IF u = t THEN TotalOut(t) ELSE values[u]]
    /\ UNCHANGED utxo

\* Mempool::add, when it changes the pool.
Add(t) == Insert(t) \/ \E victim \in txs : Replace(t, victim)

\* Mutant: the value cache is not cleaned.
DropKeepsValues(hashes) ==
    LET gone == txs \cap hashes
    IN  /\ txs' = txs \ gone
        /\ in_flight' = in_flight \ UNION {InputRefs(t) : t \in gone}
        /\ UNCHANGED values

\* Mempool::remove: drop the given transactions, those that are pooled.
Drop(hashes) ==
    LET gone == txs \cap hashes
    IN  /\ txs' = txs \ gone
        /\ in_flight' = in_flight \ UNION {InputRefs(t) : t \in gone}
        /\ values' = [t \in txs \ gone |-> values[t]]

\* Mempool::remove as called after a block was applied.
RemoveIncluded(hashes) == Drop(hashes) /\ UNCHANGED utxo

\* Mempool::drain: what the proposer may be handed, most valuable first; ties
\* come in any order (sort_unstable_by).  The pool keeps everything.
Drain(max) ==
    {SubSeq(s, 1, IF Len(s) < max THEN Len(s) ELSE max) :
        s \in {q \in SetToSeqs(txs) :
                  \A i, j \in DOMAIN q : i < j => values[q[i]] >= values[q[j]]}}

-----------------------------------------------------------------------------
\* The store applies or rolls back a block.
UtxoChange ==
    /\ utxo' \in SUBSET TxOutRef
    /\ UNCHANGED poolVars

\* Mempool::new: the pool lives in memory and a restart begins with none.
Restart ==
    /\ txs' = {}
    /\ in_flight' = {}
    /\ values' = [t \in {} |-> 0]
    /\ UNCHANGED utxo

Next ==
    \/ \E t \in Tx : Add(t)
    \/ \E hashes \in SUBSET Tx : RemoveIncluded(hashes)
    \/ UtxoChange
    \/ Restart

Spec == Init /\ [][Next]_vars

-----------------------------------------------------------------------------
TypeOK ==
    /\ txs \subseteq Tx
    /\ in_flight \subseteq TxOutRef
    /\ values \in [txs -> Nat]

\* First documented invariant of the pool: no two pooled transactions consume
\* the same output, through every order of adds, evictions and removals while
\* the UTXO set moves (add, remove_one).
NoSharedInput ==
    \A t, u \in txs : t # u => InputRefs(t) \cap InputRefs(u) = {}

\* in_flight is exactly what the pooled transactions consume: a reference left
\* behind by an eviction would refuse its owner's next transfer for ever, one
\* removed too early would admit a double spend (add, remove_one).
InFlightExact == in_flight = UNION {InputRefs(t) : t \in txs}

\* The value cache is in sync with the pool, so eviction and drain order are
\* decided by the real totals (add, remove_one).
ValuesInSync == values = [t \in txs |-> TotalOut(t)]

\* Second documented invariant: the pool never exceeds max_size (add).
WithinCapacity == Cardinality(txs) <= MempoolMaxSize

\* A step that both admits and drops a transaction is an eviction, and an
\* eviction never lowers the least value in the pool: the pool at capacity
\* only ever gets more valuable (add).
EvictionRaisesFloor ==
    [][\A t \in txs' \ txs : \A v \in txs \ txs' :
          /\ \A u \in txs : TotalOut(v) <= TotalOut(u)
          /\ \A u \in txs' : TotalOut(v) <= TotalOut(u)]_vars

\* The inductive invariant: the strengthening the proofs need.
PoolInv ==
    /\ TypeOK
    /\ InFlightExact
    /\ NoSharedInput
    /\ ValuesInSync
    /\ WithinCapacity
=============================================================================
