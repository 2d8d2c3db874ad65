-------------------------------- MODULE Node --------------------------------
(***************************************************************************)
(* One bcc-node process: its sled store, its mempool, and the tasks that   *)
(* share them.  One task per peer connection handles the blocks gossiped   *)
(* to it (p2p/handler.rs dispatch), the slot ticker proposes blocks        *)
(* (slot_ticker.rs), main boots the node (main.rs, genesis.rs), and the    *)
(* HTTP API and NewTx gossip feed the mempool.  No lock spans the steps of *)
(* a handler: each access to a sled tree, each sled transaction and each   *)
(* critical section of the mempool mutex is one step, and the steps of     *)
(* different tasks interleave freely (tokio runs them on several threads). *)
(*                                                                         *)
(* The rest of the network is honest: it proposes blocks on any block it   *)
(* knows and delivers any published block to any connection, any number of *)
(* times, in any order, or never.  A block is named by its hash, a number, *)
(* so that the fork choice can compare hashes.                             *)
(***************************************************************************)
EXTENDS Ledger

CONSTANTS
    MempoolMaxSize,
    Peers,          \* the peer-connection tasks
    GenesisTxs,     \* the allocation transactions of the genesis block
    Bodies,         \* the transaction lists other proposers put in blocks
    StalePools,     \* whether those may hold transactions the parent's chain
                    \* does not support, as this node's own proposals may
    Me,             \* this node's validator address
    Elect(_, _),    \* elect_proposer: (slot, parent hash) -> address
    MaxTxs,         \* MAX_TXS_PER_BLOCK
    MaxHash,        \* bound: block hashes are 1..MaxHash, 0 is genesis
    MaxHeight,      \* bound on block heights
    MaxSlot,        \* bound on the clock, in slots
    MaxCrashes      \* bound on crashes

VARIABLES
    minted,      \* every published block: hash -> header fields and body
    slot,        \* the wall clock, in slots
    crashes,     \* crashes so far
    blocks_h,    \* sled tree: height -> block hash or NoBlock
    blocks_idx,  \* sled tree: block hash -> height or NoBlock
    tip,         \* meta["tip"]: [height, hash] or NoTip
    sentinel,    \* meta["apply_in_progress"]: height or NoBlock
    utxo,        \* sled tree: the unspent references
    spent,       \* sled tree spent_h: <<height, reference>> undo records
    validators,  \* sled tree: whether the validator set is installed
    txs, in_flight, values,   \* the mempool
    task,        \* program counter and locals of every task
    ticked       \* the last slot the ticker looked at

chainVars == <<blocks_h, blocks_idx, tip>>
utxoVars  == <<utxo, spent>>
poolVars  == <<txs, in_flight, values>>
envVars   == <<minted, slot, crashes>>
vars == <<envVars, chainVars, utxoVars, sentinel, validators, poolVars, task, ticked>>

Pool == INSTANCE Mempool

Genesis == 0
NoBlock == -1
NoTip   == [height |-> NoBlock, hash |-> NoBlock]
Hash    == 0..MaxHash
Height  == 0..MaxHeight
Tasks   == Peers \cup {"main", "ticker"}

ASSUME NodeAssumption ==
    /\ MempoolMaxSize \in Nat
    /\ MaxHash \in Nat /\ MaxHeight \in Nat /\ MaxSlot \in Nat
    /\ MaxCrashes \in Nat /\ MaxTxs \in Nat
    /\ GenesisTxs \in Seq(Tx) /\ Bodies \subseteq Seq(Tx)
    /\ Peers \cap {"main", "ticker"} = {}

Block(height, prev, s, proposer, body) ==
    [height |-> height, prev |-> prev, slot |-> s, proposer |-> proposer, txs |-> body]

\* A task with nothing in hand.  block: the block being handled; height, hash:
\* the tip it read, or the parent; old, new_tip: locals of the reorg; slot,
\* body: locals of the ticker.
Idle == [pc |-> "idle", block |-> NoBlock, height |-> NoBlock, hash |-> NoBlock,
         old |-> NoBlock, new_tip |-> NoTip, slot |-> 0, body |-> <<>>]

Init ==
    /\ minted = [h \in {Genesis} |-> Block(0, NoBlock, 0, "nobody", GenesisTxs)]
    /\ slot = 1
    /\ crashes = 0
    /\ blocks_h = [h \in Height |-> NoBlock]
    /\ blocks_idx = [h \in Hash |-> NoBlock]
    /\ tip = NoTip
    /\ sentinel = NoBlock
    /\ utxo = {} /\ spent = {}
    /\ validators = FALSE
    /\ txs = {} /\ in_flight = {} /\ values = [t \in {} |-> 0]
    /\ task = [i \in Tasks |-> IF i = "main" THEN [Idle EXCEPT !.pc = "boot"] ELSE Idle]
    /\ ticked = 0

Running == task["main"].pc = "run"

At(i, pc)   == task[i].pc = pc
Goto(i, pc) == task' = [task EXCEPT ![i].pc = pc]
Return(i)   == task' = [task EXCEPT ![i] = Idle]

-----------------------------------------------------------------------------
(* Boot: apply_genesis, then IBD (module Ibd), then the tasks are spawned. *)

BootCheck ==
    /\ At("main", "boot")
    /\ task' = [task EXCEPT !["main"] =
                   IF blocks_h[0] # NoBlock
                   THEN [Idle EXCEPT !.pc = "run"]
                   ELSE [Idle EXCEPT !.pc = "insert", !.block = Genesis]]
    /\ UNCHANGED <<envVars, chainVars, utxoVars, sentinel, validators, poolVars, ticked>>

InstallValidators ==
    /\ At("main", "validators")
    /\ validators' = TRUE
    /\ task' = [task EXCEPT !["main"] = [Idle EXCEPT !.pc = "run"]]
    /\ UNCHANGED <<envVars, chainVars, utxoVars, sentinel, poolVars, ticked>>

-----------------------------------------------------------------------------
(* dispatch(NewBlock), up to the first write.                              *)

\* get_by_hash: through blocks_idx to whatever block sits at that height.
GetByHash(b) == IF blocks_idx[b] = NoBlock THEN NoBlock ELSE blocks_h[blocks_idx[b]]

\* A block arrives and is not known yet; a known one is dropped.
Receive(p, b) ==
    /\ Running /\ At(p, "idle")
    /\ GetByHash(b) = NoBlock
    /\ task' = [task EXCEPT ![p] = [Idle EXCEPT !.pc = "tip", !.block = b]]
    /\ UNCHANGED <<envVars, chainVars, utxoVars, sentinel, validators, poolVars, ticked>>

\* Mutant: a challenger need not have the lower hash.
ReadTipAnyHash(p) ==
    LET b == task[p].block
        t == IF tip = NoTip THEN [height |-> 0, hash |-> NoBlock] ELSE tip
        read(pc) == task' = [task EXCEPT ![p].pc = pc, ![p].height = t.height]
    IN  /\ p \in Peers /\ At(p, "tip")
        /\ CASE minted[b].height = t.height + 1  -> read("parent")
             [] minted[b].height = t.height      -> read("fork_parent")
             [] OTHER                            -> Return(p)
        /\ UNCHANGED <<envVars, chainVars, utxoVars, sentinel, validators, poolVars, ticked>>

\* Read the tip and choose the path: extend it, challenge it with a lower
\* hash, or give up (tie lost, stale, or ahead: the GetBlocks sent then is
\* answered with a Blocks message that dispatch drops).
ReadTip(p) ==
    LET b == task[p].block
        t == IF tip = NoTip THEN [height |-> 0, hash |-> NoBlock] ELSE tip
        read(pc) == task' = [task EXCEPT ![p].pc = pc, ![p].height = t.height]
    IN  /\ p \in Peers /\ At(p, "tip")
        /\ CASE minted[b].height = t.height + 1            -> read("parent")
             [] minted[b].height = t.height /\ b < t.hash  -> read("fork_parent")
             [] OTHER                                      -> Return(p)
        /\ UNCHANGED <<envVars, chainVars, utxoVars, sentinel, validators, poolVars, ticked>>

\* Fetch the parent by height: the tip as read, or the block below it, which a
\* challenger must name as its parent too.
ReadParent(p) ==
    LET fork   == At(p, "fork_parent")
        h      == IF fork /\ task[p].height > 0 THEN task[p].height - 1 ELSE task[p].height
        parent == blocks_h[h]
        next   == IF fork THEN "fork_validate" ELSE "validate"
    IN  /\ At(p, "parent") \/ fork
        /\ IF parent = NoBlock \/ (fork /\ minted[task[p].block].prev # parent)
           THEN Return(p)
           ELSE task' = [task EXCEPT ![p].pc = next, ![p].hash = parent]
        /\ UNCHANGED <<envVars, chainVars, utxoVars, sentinel, validators, poolVars, ticked>>

\* Mutant: the transactions are not checked.
ValidateBlockHeaderOnly(b, parent, coins) ==
    /\ minted[b].height = minted[parent].height + 1
    /\ minted[b].prev = parent

\* Mutant: the parent link is not checked.
ValidateBlockAnyParent(b, parent, coins) ==
    /\ minted[b].height = minted[parent].height + 1
    /\ \A i \in DOMAIN minted[b].txs : ValidateTransaction(minted[b].txs[i], coins)

\* validate_block.  An honest timestamp lies in its block's slot, so slots
\* order timestamps; hashes stand for signed, untampered blocks.
ValidateBlock(b, parent, coins) ==
    /\ minted[b].height = minted[parent].height + 1
    /\ minted[b].prev = parent
    /\ minted[b].slot >= minted[parent].slot
    /\ validators
    /\ minted[b].proposer = Elect(minted[b].slot, parent)
    /\ \A i \in DOMAIN minted[b].txs : ValidateTransaction(minted[b].txs[i], coins)

\* Validate against the UTXO set as it is now: for a challenger, with the tip
\* it competes with still applied.
Validate(p) ==
    /\ At(p, "validate") \/ At(p, "fork_validate")
    /\ IF ValidateBlock(task[p].block, task[p].hash, utxo)
       THEN Goto(p, IF At(p, "validate") THEN "insert" ELSE "current")
       ELSE Return(p)
    /\ UNCHANGED <<envVars, chainVars, utxoVars, sentinel, validators, poolVars, ticked>>

-----------------------------------------------------------------------------
(* reorg_block: rollback_block(current tip), then insert and apply.        *)

\* Re-read the block to evict, by the height of the tip read before.
ReadCurrent(p) ==
    LET old == blocks_h[task[p].height]
    IN  /\ At(p, "current")
        /\ IF old = NoBlock THEN Return(p)
           ELSE task' = [task EXCEPT ![p].pc = "rollback", ![p].old = old]
        /\ UNCHANGED <<envVars, chainVars, utxoVars, sentinel, validators, poolVars, ticked>>

\* First sled transaction of rollback_block.
RollbackUtxo(p) ==
    LET old == minted[task[p].old]
        st  == RollbackBlock(old.height, old.txs, [utxo |-> utxo, spent |-> spent])
    IN  /\ At(p, "rollback")
        /\ utxo' = st.utxo /\ spent' = st.spent
        /\ Goto(p, "new_tip")
        /\ UNCHANGED <<envVars, chainVars, sentinel, validators, poolVars, ticked>>

\* Mutant: off by one, the parent's hash is filed with the evicted height.
ReadNewTipOffByOne(p) ==
    LET h == minted[task[p].old].height
        t == IF h = 0 \/ blocks_h[h - 1] = NoBlock THEN NoTip
             ELSE [height |-> h, hash |-> blocks_h[h - 1]]
    IN  /\ At(p, "new_tip")
        /\ task' = [task EXCEPT ![p].pc = "unlink", ![p].new_tip = t]
        /\ UNCHANGED <<envVars, chainVars, utxoVars, sentinel, validators, poolVars, ticked>>

\* The tip to fall back to, read outside the transactions.
ReadNewTip(p) ==
    LET h == minted[task[p].old].height
        t == IF h = 0 \/ blocks_h[h - 1] = NoBlock THEN NoTip
             ELSE [height |-> h - 1, hash |-> blocks_h[h - 1]]
    IN  /\ At(p, "new_tip")
        /\ task' = [task EXCEPT ![p].pc = "unlink", ![p].new_tip = t]
        /\ UNCHANGED <<envVars, chainVars, utxoVars, sentinel, validators, poolVars, ticked>>

\* Mutant: the evicted block stays in the hash index.
UnlinkKeepsIndex(p) ==
    /\ At(p, "unlink")
    /\ blocks_h' = [blocks_h EXCEPT ![minted[task[p].old].height] = NoBlock]
    /\ tip' = task[p].new_tip
    /\ Goto(p, "reinsert")
    /\ UNCHANGED <<envVars, blocks_idx, utxoVars, sentinel, validators, poolVars, ticked>>

\* Mutant: the tip is not moved back.
UnlinkKeepsTip(p) ==
    /\ At(p, "unlink")
    /\ blocks_h' = [blocks_h EXCEPT ![minted[task[p].old].height] = NoBlock]
    /\ blocks_idx' = [blocks_idx EXCEPT ![task[p].old] = NoBlock]
    /\ Goto(p, "reinsert")
    /\ UNCHANGED <<envVars, tip, utxoVars, sentinel, validators, poolVars, ticked>>

\* Second sled transaction of rollback_block.
Unlink(p) ==
    /\ At(p, "unlink")
    /\ blocks_h' = [blocks_h EXCEPT ![minted[task[p].old].height] = NoBlock]
    /\ blocks_idx' = [blocks_idx EXCEPT ![task[p].old] = NoBlock]
    /\ tip' = task[p].new_tip
    /\ Goto(p, "reinsert")
    /\ UNCHANGED <<envVars, utxoVars, sentinel, validators, poolVars, ticked>>

-----------------------------------------------------------------------------
(* BlockStore::insert, UtxoStore::apply_block, Mempool::remove: the tail   *)
(* shared by the handler, the reorg, the ticker and genesis.               *)

\* Mutant: the hash index is not written.
PutUnindexed(b, height) ==
    /\ blocks_h' = [blocks_h EXCEPT ![height] = b]
    /\ tip' = [height |-> height, hash |-> b]
    /\ UNCHANGED blocks_idx

\* The sled transaction of insert.
Put(b, height) ==
    /\ blocks_h' = [blocks_h EXCEPT ![height] = b]
    /\ blocks_idx' = [blocks_idx EXCEPT ![b] = height]
    /\ tip' = [height |-> height, hash |-> b]

Insert(i) ==
    /\ i # "ticker"
    /\ At(i, "insert") \/ At(i, "reinsert")
    /\ Put(task[i].block, minted[task[i].block].height)
    /\ Goto(i, "sentinel")
    /\ UNCHANGED <<envVars, utxoVars, sentinel, validators, poolVars, ticked>>

WriteSentinel(i) ==
    /\ At(i, "sentinel")
    /\ sentinel' = minted[task[i].block].height
    /\ Goto(i, "apply")
    /\ UNCHANGED <<envVars, chainVars, utxoVars, validators, poolVars, ticked>>

ApplyUtxo(i) ==
    LET b  == minted[task[i].block]
        st == ApplyBlock(b.height, b.txs, [utxo |-> utxo, spent |-> spent])
    IN  /\ At(i, "apply")
        /\ utxo' = st.utxo /\ spent' = st.spent
        /\ Goto(i, "clear")
        /\ UNCHANGED <<envVars, chainVars, sentinel, validators, poolVars, ticked>>

ClearSentinel(i) ==
    /\ At(i, "clear")
    /\ sentinel' = NoBlock
    /\ Goto(i, IF i = "main" THEN "validators" ELSE "remove")
    /\ UNCHANGED <<envVars, chainVars, utxoVars, validators, poolVars, ticked>>

\* Mutant: the block's transactions stay in the pool.
RemoveFromPoolNothing(i) ==
    /\ At(i, "remove")
    /\ Return(i)
    /\ UNCHANGED <<envVars, chainVars, utxoVars, sentinel, validators, poolVars, ticked>>

\* Drop the block's transactions from the pool and announce the block.
RemoveFromPool(i) ==
    /\ At(i, "remove")
    /\ Pool!Drop(ToSet(minted[task[i].block].txs))
    /\ Return(i)
    /\ UNCHANGED <<envVars, chainVars, utxoVars, sentinel, validators, ticked>>

-----------------------------------------------------------------------------
(* run_slot_ticker and propose_block.                                      *)

\* Mutant: the slot is counted as done before it begins.
TickAhead ==
    /\ Running /\ At("ticker", "idle") /\ ticked < slot
    /\ ticked' = slot + 1
    /\ UNCHANGED <<envVars, chainVars, utxoVars, sentinel, validators, poolVars, task>>

\* Once per slot: capture the clock and the tip.
Tick ==
    /\ Running /\ At("ticker", "idle") /\ ticked < slot
    /\ ticked' = slot
    /\ IF tip = NoTip THEN UNCHANGED task
       ELSE task' = [task EXCEPT !["ticker"] =
                        [Idle EXCEPT !.pc = "elect", !.slot = slot,
                                     !.height = tip.height, !.hash = tip.hash]]
    /\ UNCHANGED <<envVars, chainVars, utxoVars, sentinel, validators, poolVars>>

\* Skip a slot the tip covers already; otherwise propose if elected, unless
\* too little of the slot is left (MIN_PROPOSE_WINDOW_SECS).
ElectMe ==
    LET t   == task["ticker"]
        top == blocks_h[t.height]
        covered == top # NoBlock /\ minted[top].slot >= t.slot
    IN  /\ At("ticker", "elect")
        /\ \/ /\ ~covered /\ validators /\ Elect(t.slot, t.hash) = Me
              /\ t.height < MaxHeight
              /\ Goto("ticker", "drain")
           \/ Return("ticker")
        /\ UNCHANGED <<envVars, chainVars, utxoVars, sentinel, validators, poolVars, ticked>>

DrainPool ==
    /\ At("ticker", "drain")
    /\ \E body \in Pool!Drain(MaxTxs) :
          task' = [task EXCEPT !["ticker"].pc = "insert", !["ticker"].body = body]
    /\ UNCHANGED <<envVars, chainVars, utxoVars, sentinel, validators, poolVars, ticked>>

\* Build and sign the block on the tip read at the start of the slot and insert
\* it; from here on peers can be sent it.  Its hash is any hash not seen yet.
ProposeInsert(b) ==
    LET t == task["ticker"]
    IN  /\ At("ticker", "insert")
        /\ minted' = [h \in DOMAIN minted \cup {b} |->
                         IF h = b THEN Block(t.height + 1, t.hash, t.slot, Me, t.body)
                         ELSE minted[h]]
        /\ Put(b, t.height + 1)
        /\ task' = [task EXCEPT !["ticker"].pc = "sentinel", !["ticker"].block = b]
        /\ UNCHANGED <<slot, crashes, utxoVars, sentinel, validators, poolVars, ticked>>

-----------------------------------------------------------------------------
(* The environment.                                                        *)

\* POST /tx: Mempool::add under the pool's lock.
SubmitTx(t) ==
    /\ Running
    /\ Pool!Add(t)
    /\ UNCHANGED <<envVars, chainVars, spent, sentinel, validators, task, ticked>>

\* dispatch(NewTx): the same, by a peer task between two messages.
ReceiveTx(p, t) == At(p, "idle") /\ SubmitTx(t)

\* The coins of a published block's chain, genesis to that block.
CoinsAt(b) ==
    LET coins[h \in DOMAIN minted] ==
            ApplyBlock(minted[h].height, minted[h].txs,
                       IF h = Genesis THEN Empty ELSE coins[minted[h].prev])
    IN  coins[b].utxo

\* The validator elected for a slot on some block publishes its one block.
RemoteMint(b, parent, s, body) ==
    /\ s > minted[parent].slot /\ s <= slot
    /\ minted[parent].height < MaxHeight
    /\ Elect(s, parent) # Me
    /\ StalePools \/ \A i \in DOMAIN body : ValidateTransaction(body[i], CoinsAt(parent))
    /\ \A c \in DOMAIN minted : ~(minted[c].prev = parent /\ minted[c].slot = s)
    /\ minted' = [h \in DOMAIN minted \cup {b} |->
                     IF h = b
                     THEN Block(minted[parent].height + 1, parent, s, Elect(s, parent), body)
                     ELSE minted[h]]
    /\ UNCHANGED <<slot, crashes, chainVars, utxoVars, sentinel, validators, poolVars,
                   task, ticked>>

NextSlot ==
    /\ slot < MaxSlot
    /\ slot' = slot + 1
    /\ UNCHANGED <<minted, crashes, chainVars, utxoVars, sentinel, validators, poolVars,
                   task, ticked>>

\* The process dies between two steps and is started again.  Memory is lost;
\* sled keeps a prefix of what was written, which is the state of an earlier
\* such crash.
Crash ==
    /\ crashes < MaxCrashes
    /\ crashes' = crashes + 1
    /\ Pool!Restart
    /\ task' = [i \in Tasks |-> IF i = "main" THEN [Idle EXCEPT !.pc = "boot"] ELSE Idle]
    /\ ticked' = slot - 1
    /\ UNCHANGED <<minted, slot, chainVars, spent, sentinel, validators>>

FreshHash == (1..MaxHash) \ DOMAIN minted

Next ==
    \/ BootCheck \/ InstallValidators
    \/ \E p \in Peers :
          \/ \E b \in DOMAIN minted : Receive(p, b)
          \/ \E t \in Tx : ReceiveTx(p, t)
          \/ ReadTip(p) \/ ReadParent(p) \/ Validate(p)
          \/ ReadCurrent(p) \/ RollbackUtxo(p) \/ ReadNewTip(p) \/ Unlink(p)
    \/ \E i \in Tasks :
          Insert(i) \/ WriteSentinel(i) \/ ApplyUtxo(i) \/ ClearSentinel(i) \/ RemoveFromPool(i)
    \/ Tick \/ ElectMe \/ DrainPool \/ \E b \in FreshHash : ProposeInsert(b)
    \/ \E t \in Tx : SubmitTx(t)
    \/ \E b \in FreshHash, parent \in DOMAIN minted, s \in 1..MaxSlot, body \in Bodies :
          RemoteMint(b, parent, s, body)
    \/ NextSlot
    \/ Crash

Spec == Init /\ [][Next]_vars

-----------------------------------------------------------------------------
TypeOK ==
    /\ DOMAIN minted \subseteq Hash
    /\ slot \in 0..MaxSlot + 1 /\ ticked \in 0..slot /\ crashes \in 0..MaxCrashes
    /\ blocks_h \in [Height -> Hash \cup {NoBlock}]
    /\ blocks_idx \in [Hash -> Height \cup {NoBlock}]
    /\ tip \in {NoTip} \cup [height : Height, hash : Hash]
    /\ sentinel \in Height \cup {NoBlock}
    /\ utxo \subseteq TxOutRef
    /\ spent \subseteq Height \X TxOutRef
    /\ validators \in BOOLEAN
    /\ Pool!TypeOK
    /\ DOMAIN task = Tasks

\* Every tree files a block under its own height: blocks_h and blocks_idx under
\* whatever interleaving and crash, and the tip names the height of the block
\* it names.  Each is written from a block or height read in an earlier step
\* (insert, rollback_block).
FiledByHeight ==
    /\ \A h \in Height : blocks_h[h] # NoBlock =>
          blocks_h[h] \in DOMAIN minted /\ minted[blocks_h[h]].height = h
    /\ \A b \in Hash : blocks_idx[b] # NoBlock =>
          b \in DOMAIN minted /\ minted[b].height = blocks_idx[b]
    /\ tip # NoTip => tip.hash \in DOMAIN minted /\ minted[tip.hash].height = tip.height

\* The stored blocks form one chain from genesis, each naming the block below
\* it as its parent (insert, rollback_block).
ChainLinked ==
    \A h \in Height \ {0} : blocks_h[h] # NoBlock =>
        /\ blocks_h[h - 1] # NoBlock
        /\ minted[blocks_h[h]].prev = blocks_h[h - 1]

\* A stored block is always found under its hash: the dedup check at the head
\* of dispatch never misses a block that is in the store, whatever the tasks
\* interleave and wherever the node crashed (insert, rollback_block).
StoredIsIndexed ==
    \A h \in Height : blocks_h[h] # NoBlock => blocks_idx[blocks_h[h]] = h

\* A block found under its hash is that block: nothing that was evicted or
\* overwritten is still "known" (insert, rollback_block, get_by_hash).
IndexedIsStored == \A b \in Hash : GetByHash(b) \in {b, NoBlock}

\* The recorded tip is the highest stored block (insert, rollback_block).
TipIsHighest ==
    IF tip = NoTip THEN \A h \in Height : blocks_h[h] = NoBlock
    ELSE /\ blocks_h[tip.height] = tip.hash
         /\ \A h \in Height : h > tip.height => blocks_h[h] = NoBlock

\* No task is between the first and the last write of a store update.
Settled ==
    /\ Running
    /\ \A i \in Tasks :
          task[i].pc \notin {"new_tip", "unlink", "reinsert", "sentinel", "apply"}

\* What an empty store holds after the stored blocks up to a height.
ReplayTo(height) == Replay([i \in 1..height + 1 |-> minted[blocks_h[i - 1]].txs])

\* The UTXO set and the undo records are those of the stored chain, replayed
\* from genesis.
StoreIsReplay ==
    /\ tip # NoTip
    /\ \A h \in 0..tip.height : blocks_h[h] # NoBlock
    /\ LET st == ReplayTo(tip.height) IN utxo = st.utxo /\ spent = st.spent

\* Between updates, until a first crash, the coins are those of the stored
\* chain: no block is missing from them, applied twice, or half rolled back
\* (dispatch, reorg_block, apply_block, rollback_block).
UtxoIsReplay == Settled /\ crashes = 0 => StoreIsReplay

\* The comment of apply_block: a start-up that finds the crash sentinel
\* replays or rolls back the interrupted block.  So a node that runs again with
\* the sentinel still set, none of its own tasks having set it, has the coins of
\* the stored chain (apply_block, main).
StartupRecovers ==
    /\ Settled /\ crashes > 0 /\ sentinel # NoBlock
    /\ \A i \in Tasks : ~At(i, "clear")
    => StoreIsReplay

\* Between updates, the coins are worth no more than value comes from: the
\* genesis allocation and the stored transactions whose outputs wrap or that
\* list an input twice.  No reorg, and no crash within one, leaves both an output
\* and the coin that paid for it, and no stored transaction spends a coin that
\* was spent (validate_transaction, apply_block, rollback_block).
NoInflation ==
    Settled =>
        Worth(utxo) <= Worth(Sources(ToSet(GenesisTxs),
            UNION {ToSet(minted[blocks_h[h]].txs) : h \in {k \in Height : blocks_h[k] # NoBlock}}))

\* The chain as a reader of the node should see it: the stored blocks up to the
\* tip, and while a reorg has the last one unlinked, still that one.
VisibleChain ==
    LET stored == [i \in 1..tip.height + 1 |-> blocks_h[i - 1]]
        swaps  == {p \in Peers : At(p, "reinsert")}
    IN  IF swaps = {} THEN stored
        ELSE Append(stored, task[CHOOSE p \in swaps : TRUE].old)

Promise == INSTANCE Chain WITH chain <- VisibleChain, losses <- crashes

\* The steps of a handler, however small, add up to the chain module Chain
\* promises: it grows, or its last block gives way to a sibling with a lower
\* hash in one stroke, the insert of reorg_block; nothing below is touched, and
\* the last block is lost only to a crash between the unlink and that insert
\* (dispatch, insert, rollback_block, reorg_block).
ChainRefinement == Promise!Spec

\* The comment of the fork choice: of two blocks on the same parent every node
\* that sees both keeps the one with the lower hash.  So a challenger that
\* reaches validation, having the lower hash and the shared parent, is turned
\* down only if it is invalid on that parent (dispatch, validate_block).
LowerHashWins ==
    [][\A p \in Peers : At(p, "fork_validate") /\ task'[p] = Idle /\ crashes' = crashes =>
          ~ValidateBlock(task[p].block, task[p].hash, ReplayTo(task[p].height - 1).utxo)]_vars

\* Between updates, until a first crash, no pooled transaction is already part of the stored chain:
\* what the node proposes next is not a transaction it has already confirmed
\* (Mempool::remove, Mempool::add).
PoolUnconfirmed ==
    Settled /\ crashes = 0 /\ (\A i \in Tasks : task[i].pc \notin {"clear", "remove"}) =>
        \A h \in Height : blocks_h[h] # NoBlock =>
            txs \cap ToSet(minted[blocks_h[h]].txs) = {}
=============================================================================
