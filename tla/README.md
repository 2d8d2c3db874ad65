# BetterCallChain in TLA+

BetterCallChain is a small proof-of-stake UTXO blockchain in Rust: a core library (`crates/bcc-core`), a full
node (`crates/bcc-node`), a wallet (`crates/bcc-client`) and a development visualizer (`tools/bcc-visualizer`).
This directory holds TLA+ models of the parts where its correctness is decided, TLC configurations that check them
on small instances, and TLAPS proofs for every size. `PROJECT.json` maps each definition to the lines it models.

## Inventory

| Component | State | Operations | Hard about it | Correct when |
|---|---|---|---|---|
| Transactions (`types/transaction`, `validation/transaction`) | none | `validate_transaction`, hashing, signing bytes | sums at the edge of `u64`; each input checked alone | a valid transaction creates no value, unless its totals are miscounted |
| UTXO stores (`storage/sled_store`, `store/memory`) | `utxo`, `spent_h` undo records | `apply_block`, `rollback_block`, `balance`, `get` | undo in the reverse order, repeated at one height | what is rolled back leaves no trace; both stores agree |
| Block store (`storage/sled_store`) | `blocks_h`, `blocks_idx`, `meta["tip"]`, `meta["apply_in_progress"]` | `insert`, `get_by_hash`, `get_by_height`, `tip`, second half of `rollback_block` | several sled transactions per operation; crash between them | one linked chain; trees, tip and coins agree |
| Mempool (`mempool`) | `txs`, `in_flight`, `values` | `add`, `drain`, `remove` | three maps kept in step through eviction | no shared input; `in_flight` exact; bounded |
| Peer task (`p2p/handler`, `state`) | locals across awaits, outbound queue, subscription to own blocks | `run_peer`, `dispatch`, `reorg_block`, `broadcast_except` | no lock spans check, validation and writes; fork choice; full queues lose blocks; it does not read while it writes | the store is always some chain's; peers agree unless a block was lost or refused |
| Slot ticker (`slot_ticker`) | last slot | `run_slot_ticker`, `propose_block` | acts on a tip read earlier; does not validate its own block | proposes only what others accept |
| Genesis and start-up (`genesis`, `main`) | none | `apply_genesis`, spawning, shutdown | crash before it is complete | a restart recovers |
| Initial block download (`ibd`) | loop locals, one connection | `run_ibd` | timeouts, retries, stale and duplicate answers, gossip in between | every block once, ends, ends only when synced |
| Election (`consensus/pos`) | none | `elect_proposer` | boundaries of the weighted scan | all nodes agree; share in proportion to stake |
| Peer connections (`p2p/server`, `p2p/connector`, `PeerSet`) | peer map, backoff map | accept, dial, register, remove, broadcast | check and registration in different tasks; both ends dial | at most one link per address; bounded; re-dialled |
| HTTP API (`api`) | none | `POST /tx`, reads | shares the pool with the peer tasks | as the pool |
| Debug events (`debug_event`, `debug_ws`) | broadcast channel | emit, snapshot, stream | snapshot and subscription are two steps | a client sees every later event |
| Wallet (`wallet`, `split`, `keystore`) | key file | coin selection, transfer, binary splitting | rounds wait on confirmation; file check then write | a transfer balances; a split loses no value |
| CLI, RPC, configuration | none | `send`, other commands, parsing, prompts, HTTP requests | answers get lost | as the wallet |
| Visualizer | event bus, display; the locals of a scenario | event fan-in, six scenarios | each builds on what earlier runs left; nodes lag behind each other; deadlines | a pass is a confirmation everywhere; no alarm without a cause; a run ends |

Interactions: all tasks of a node share one `NodeState`. Peer tasks, the ticker and the API call the sled store
directly (it locks per transaction only) and the mempool under its mutex. A block that is accepted is gossiped to the
other peers by `broadcast_except` (which drops on a full queue); a block proposed here goes through a broadcast channel.
`run_ibd` runs before any of the tasks. The client talks to one node over HTTP.

## Modules

- **Ledger** - transactions as constants (inputs, outputs, owner, whether signed), `validate_transaction`, and what
  `apply_block` and `rollback_block` do to the pair (UTXO set, undo records), for sled and for the memory store. Output
  sums wrap at `U64`, the input total saturates there, as in a release build.
- **Mempool** - the pool with `add` (insert, replace, reject), `remove` and `drain`, while the UTXO set it validates
  against changes under it. EXTENDS Ledger.
- **Store** - both stores side by side under any sequence of apply and rollback, and the pool that validates against the sled store's
  coins. EXTENDS Mempool.
- **Header** - the pure computations behind a block header: `all_active` and `elect_proposer`, with stakes that wrap at `U64`, and
  `compute_merkle_root` over hashes that are free constructors. EXTENDS Ledger.
- **Chain** - the abstract specification of a node's chain: it grows at its end, its last block is exchanged for a sibling with a lower hash,
  and a crash may cost it the last block. Node implements it.
- **Node** - one node: the sled trees, the pool (INSTANCE Mempool), one task per peer connection, the ticker, `main`, a
  wall clock in slots, an honest network that publishes blocks and delivers them in any order, any number of times
  or never, and crashes. EXTENDS Ledger. `task[i]` is the program counter and the locals of task `i`; each read of a sled tree, each sled
  transaction and each critical section of the mempool is an action of its own, so every value a handler carries across
  such a point can be stale in the model exactly where it can be in the code.
- **Ibd** - `run_ibd` and the far end of its connection. A block is its height, since the peers agree on one chain; `applied` counts
  how often a block's effect went into the coins.
- **Links** - the connections between several nodes: the accept loop with its limit, the connector with its backoff, the
  entry and exit of `run_peer`, and the registry `PeerSet`. A connection has two ends, each in a task of its own node, which learns of
  a close at the far end only later. An address is an IP and a port: the dialer sees the listening port, the target an ephemeral one.
- **Network** - block gossip between several nodes: push of the tip and subscription on connect, the biased loop of `run_peer` with its bounded
  queues and sockets, `dispatch(NewBlock)` and `GetBlocks`, broadcasts that drop, proposals, broken connections, crashes and restarts with a download.
  Transactions are left out, so validation may refuse any block (`Decline`): one that shares a transaction with the tip it challenges, or one whose proposer did not look up its
  inputs. A handler is one step here. Where two tasks of a node may be at work at once, a step `Race` marks the node, and from then on it may keep, drop and forward what it
  receives in any way (`Muddle`) and propose on any parent: Node has what really becomes of it. A crash within a reorg may cost the tip. Connections are given (Links has how they come about).
- **Split** - the client's `split_utxo` and `build_transfer`, and the nodes they talk to: one chain of transfers (`log`), how much of it each
  node has applied (`at`), and the transfers in the pools (`pending`). A node may refuse a transfer, accept it and lose the answer, evict it, and transfers are
  included in any order. A transfer is its inputs and outputs, a coin the transfer that made it and its index, so that coins are never confused.
- **Scenario** - the visualizer's six scenarios and the client's `send`, run one after another against those nodes, spending the coins of one
  funder. A scenario is a script (which steps, which payments, to which nodes); the steps are actions. EXTENDS Split.
- **SumProofs** - induction over indices, recursive functions, and sums over finite sets: what the proofs of several components share.
- **LedgerProofs, StoreProofs** (the stores and the pool), **NodeProofs, IbdProofs, LinksProofs, NetworkProofs, SplitProofs** (Split and Scenario) - theorems and proofs.
- **MCLedgerData, MCStore, MCNode, MCIbd, MCLinks, MCNetwork, MCSplit** - instances for TLC.

| Code | Actions of Node |
|---|---|
| `apply_genesis`, `main` | BootCheck, Insert, WriteSentinel, ApplyUtxo, ClearSentinel, InstallValidators |
| `dispatch(NewBlock)` on the tip | Receive, ReadTip, ReadParent, Validate, Insert, WriteSentinel, ApplyUtxo, ClearSentinel, RemoveFromPool |
| `dispatch(NewBlock)` at the tip's height, `reorg_block` | Receive, ReadTip, ReadParent, Validate, ReadCurrent, RollbackUtxo, ReadNewTip, Unlink, Insert, ... RemoveFromPool |
| `run_slot_ticker`, `propose_block` | Tick, ElectMe, DrainPool, ProposeInsert, WriteSentinel, ... RemoveFromPool |
| `POST /tx` | SubmitTx |
| `dispatch(NewTx)` | ReceiveTx |
| other nodes, clock, process | RemoteMint, NextSlot, Crash |

| Code | Actions of Network |
|---|---|
| `run_peer`: register, push the tip; subscribe; loop | Enter; Subscribe; Send, Deliver |
| `dispatch(NewBlock)`, `dispatch(GetBlocks)`, `broadcast_except` | Deliver (HandleBlock: Take, Decline, Drop; Forward, TrySend) |
| two handlers, or a handler and the ticker, at once | Race; then Muddle in Deliver, and Propose on any parent |
| `propose_block`'s announcement | Propose |
| a broken connection, a crash, a restart with `run_ibd` | Break, Crash, Start |

| Code | Actions of Split and Scenario |
|---|---|
| `route`, `run_scenario` | Start |
| reading balances and coins | Snapshot, Fetch, RequestFails |
| `select_coins`, `build_transfer` | SelectCoins and BuildTransfer, inside Fetch and AfterSplit |
| `split_utxo` | Build, Post, Collect, Poll, Timeout, Finish (SplitStep) |
| `POST /tx`, one after the other or joined | PostPayment, AllPosted |
| `wait_until` and its predicates | WaitBlocks, Confirm, Expire |
| a request that is never answered | Hang |
| the sums of `balance_conservation` | ReadFunder, ReadRecipients, Conserved |
| proposers, pools and peers | Include, Evict, Apply |

Abstractions. Hashes are identities: a transaction is its name, a block is a number (so that hashes compare), and an altered block is a different block,
which subsumes the block signature; that a Merkle root names its transactions is checked in Header. A timestamp lies in its slot. The hash behind the
election's seed is a value chosen by slot and parent. One validation reads the UTXO set in one step, and the validators of genesis are written in one step; the code
makes several reads and writes there. In Split and Scenario the nodes agree on one growing chain: reorganisations, which `dispatch` does perform, are left out, and their properties hold only without them. One poll of the balances is one step, since on a growing chain a balance it waits for only grows;
the two kinds of balances that must add up are read in separate steps. The client's sorts by amount are any order that sorts (`order` in AfterSplit). Errors of the storage engine are not modelled. A crash keeps everything written before it;
sled may lose a suffix, which is the state of an earlier crash. The debug events, logs and HTTP status codes are left out.

## Runs

| Run | Result | What it shows |
|---|---|---|
| `store` | pass | apply and rollback of any block a proposer can build, to height 5: the sled trees equal a replay of the surviving blocks, the memory store equals the sled store, balances never exceed the allocation and what transactions add whose totals validation miscounts (one of the instance wraps, one lists an input twice, and both are accepted); a pool of two over these coins: its invariants, and an eviction only ever raises the least value |
| `node_serial` | pass | one connection, no own proposals, a crash anywhere: one linked chain, index and tip agree with it; the node implements Chain; until a crash the coins are the chain's replay, have no other source than genesis and transactions that list an input twice, and nothing pooled is confirmed |
| `node_all` | pass | two connections, the ticker, submissions and a crash interleaving freely: what still holds (heights and hashes agree, a stored block is always found). Before the node starts, over bounded inputs: every validator is elected for as many seeds as it has stake, and different bodies have different Merkle roots |
| `node_race` | violation | `UtxoIsReplay` with two connections and nothing else |
| `node_fork` | violation | `LowerHashWins` |
| `node_proposer` | violation | `NoInflation` with own proposals |
| `node_crash` | violation | `StartupRecovers` |
| `ibd` | pass | two peers, batches of 2, up to 5 blocks, timeouts, retries, disconnections, lost replies, gossip: every block once, the download continues at its tip, ends only when synced, and ends |
| `ibd_abort` | violation | `HonestNoAbort` |
| `links` | pass | three nodes, overlapping dials, broken connections and restarts: the registry is exactly the live connections, one per IP, and a pair whose dials stop colliding is linked again for good |
| `network` | pass | three nodes in a line, with a fault, with a race or with one more block, and in a triangle with a race: two peers no race has touched and between which nothing is under way agree, unless the tip of one was lost on this connection or the other refused it; without races, forwarding ends |
| `split` | pass | the scenarios and `send` on two nodes: a successful split returns exactly the wallet's coins, no round builds on a coin that is not there, never too many coins, and exactly as many as asked for where halving reaches that many; a scenario that passes has its payments on every node, conservation raises no false alarm, and every run ends unless a node never answers a request |

Bounds. Three hashes and heights up to 2 are the smallest where a challenger, the tip, their parent and a child of either
exist together; every step of the reorg, of the ticker and of the boot sequence fires within them. Two peers are
the smallest race, and they are symmetric. One crash can fall between any two writes; the second start is
explored. For the download, batches of 2 and heights 3 to 5 give full, partial and empty last batches, and two gossip frames besides the
push on connect let answers lag two requests behind. `CHECK_DEADLOCK FALSE` is set where the bounds on hashes and slots, the end of the
download, gossip that has come to rest or waits on full sockets, or the end of the last scenario really stop the model; the store, the mempool and the connections never stop.
In `links` two nodes dial each other, which is what `scripts/gen-test-configs.sh` generates, one of them with two dials in flight, and a third
node only dials; with a limit of two the limit is reached, and two faults are a crash with a broken connection besides it. In `network` the line
lets the middle node forward while its ends propose, and queues and sockets of one frame overflow and block; two hashes give siblings or a child that arrives before its parent, three a sibling and a child of either. Faults, races and the third block each have a
line of their own (`MaxFaults`, `MaxRaces`, `MaxHash` by topology). The triangle is the smallest cycle; it needs no fault. In `split` two nodes can lag behind each other. A coin of 2 is too small for most scripts, one of 4 is enough for two runs, one of 8 takes three
rounds to split; targets 0, 3 and 5 give no round, a last round that splits some of the coins, and three rounds. Amounts are scaled
down and payments cut to two per script; which scripts share recipients is kept.

Fairness. `Ibd` and `Scenario` assume weak fairness of the loop they model (`Local`, `RunStep`), which a tokio task with timers guarantees. `Ibd` assumes nothing of the
peers: every read has a timeout. The client's HTTP requests have none (`rpc.rs:54`) and its deadlines are looked at only between two requests, so in `Scenario` a node may take a request and never answer (`Hang`), and `EveryRunEnds` is about the runs to which that does not happen; of what the
answers are nothing is assumed. `Network` assumes no fairness: `ForwardingEnds` says that something happens only finitely often. `Links` assumes that every task runs, timers fire and a stopped node is started again. `StaysLinked` has a premise that is no
fairness: when two connections of a pair come up together each end may keep the one the other closes, nothing breaks that symmetry but chance
(timer phase and backoff), and so the property is about pairs whose dials eventually stop colliding. It also excepts a target that others keep full.
In `Ibd` gossip is bounded by `MaxGossip`: any frame resets the timeout counter in the code, so a peer that gossips
for ever and never answers keeps the loop alive for as long as it does so.

Every property has a mutant, a plausible slip in one definition (kept beside that definition and marked `Mutant:`) under which TLC finds the property violated.

## What the violations say

1. **Two connections, two children of the tip** (`node_race`). The dedup check, the tip read, validation, insert and
   `apply_block` are not under one lock. Two tasks validate on the same tip and both apply; the coins then contain a block
   that the store does not. `handler.rs:163` and `state.rs:56` describe the sequence as safe and atomic.
2. **The lower hash does not always win** (`node_fork`). A challenger is validated while the tip it competes with is
   applied. If both carry the same pooled transaction, which is the usual case, the challenger is refused,
   and nodes that saw the two in different orders keep different tips; `handler.rs:229` says they converge.
3. **A proposer does not validate its own block** (`node_proposer`). `Mempool::remove` drops the transactions of a received block, not those that conflict with it;
   `propose_block` later applies such a leftover although its input is gone, and its outputs are new value.
4. **The crash sentinel is never read** (`node_crash`). `sled_store.rs:172` describes a recovery at start-up that no
   code performs, so a crash between the sentinel and the UTXO transaction leaves a block without its effect.
5. **An honest peer can abort the download** (`ibd_abort`). The tip pushed on every new connection is a frame that is not the answer, so
   the loop asks again; with at least one full batch to fetch, the second copy of it is invalid and start-up fails.

## Proofs

All leaves are checked by TLAPS; nothing is assumed but the named assumptions on constants, which TLC evaluates: `LedgerAssumption`,
`MempoolAssumption`, `StoreAssumption`, `NodeAssumption`, `IbdAssumption`, `LinksAssumption`, `NetworkAssumption`, `SplitAssumption`, `ScenarioAssumption`. They give the constants their types (transactions
and accounts are finite in number, inputs and outputs are lists, amounts are naturals). `StoreAssumption` also says what
bodies a store is given: genesis consumes nothing and repeats nothing, and the transactions of a body, which come from a pool, have inputs and share none.

- **StoreProofs, the pool.** `PoolInv` is the conjunction of the type invariant, `InFlightExact`, `NoSharedInput`, `ValuesInSync` and
  `WithinCapacity`. None is inductive alone: removal keeps `in_flight` exact only if no other transaction shares an input, and
  the guard of `add` keeps inputs unshared only if `in_flight` is exact. `UnsharedMinus` is the set-theoretic heart. From `Spec => []PoolInv` follow the
  invariants and the action property `EvictionRaisesFloor`.
- **LedgerProofs.** `RollbackUndoesApply`: rolling back the transaction just applied restores coins and undo records exactly, whenever
  it was valid, not a repeat, and spent nothing recorded at that height before. `BlockRollbackUndoesApply` lifts it to blocks of any length (`BlockFresh`): `After` gives what a prefix of a block leaves in closed form, and the rollback, which
  runs through the block backwards, retraces these states. The same for the memory store, and for a replay of a list of blocks. A fact about a recursive definition is proved as the set of the indices where it
  holds (SumProofs): `Induction` says that such a set, if it has 0 and is closed under successor, is everything up to the bound, and `Recursion` that the recursive functions of Ledger exist.
  The second half is about money. `SetSums` and `ListSums` show that the folds of the code are sums in whatever order they are taken, `SumsMatch` that a list without repeats adds up to what the set of its members does.
  With them `BlockConserves`: a block whose transactions pass validation adds at most its `Sources`, the outputs of those of its transactions whose totals are not exact. These are what validation leaves open: the release build adds outputs with wrap-around, and an input
  listed twice is counted twice and spent once. No hypothesis excludes them; that validation lets nothing else create value is what is proved.
- **StoreProofs, the stores.** `StoreSpec => []SledIsReplay` and `[]StoresAgree`, for any number of blocks, transactions, applies and rollbacks. `SledIsReplay` is not inductive: that
  a rollback undoes an apply needs `BlockFresh` at that earlier moment. `StoreInv` therefore keeps a witness, the store below each block of the chain, each block fit for the one it was applied to (`Supports`), and each store `Sound`: what
  the chain consumed is gone for good and comes from the chain, so that a valid transaction is never a repeat. `StoreImplementsMempool` shows that the pool above it follows module Mempool; `[]PoolInv` is a corollary.
  `StoreNoInflation`: the same witness, with `Funded` (every block above genesis passed validation) and `BlockConserves` for each of its steps; `BalancesAddUp` bounds the balances, which saturate, by the coins.
- **NodeProofs.** `Spec => []FiledByHeight` and `Spec => []StoredIsIndexed`, for any number of peers, blocks and
  transactions and any interleaving and crash. The trees are written from values read several steps earlier, so `NodeInv` adds what each
  task may still rely on at each program point (`TaskKnows`): a block in hand is published, a height in hand is a height, the tip to fall
  back to names its own height. Published blocks never change, which keeps this knowledge stable under other tasks' steps (`OneTaskMoves`). `TypeInv` extends this to
  clock, bodies, coins and pool, and gives `TypeOK`.
- **NodeProofs, the chain.** `ChainLinked`, `IndexedIsStored`, `TipIsHighest` and the refinement `ChainRefinement`, for any number of blocks, slots and crashes, under the hypothesis `Serial`: at most one connection, and the node is
  not elected. The two violations `node_race` and `node_proposer` show that both are needed for what depends on them. `SerialInv` says how the values a handler read still relate to the trees at each of its steps: the tip it read is the tip, the block it evicts is the tip's,
  the tip it falls back to is the block below; between `rollback_block` and `insert` the stored chain ends one lower. Heights up to the tip are stored and none above (`StoredToTip`), and the hash index is exact (`IndexExact`): without the first, an
  insert could leave a gap that only a later block shows.
- **NodeProofs, the coins.** `UtxoIsReplay`, `PoolUnconfirmed` and `NoInflation` of Node, until a first crash (`node_crash` shows what a crash does to the coins), for any number of blocks, slots, transactions and reorgs. Hypotheses: `Serial`, and `Honest`, which says what blocks are
  published: genesis consumes nothing, repeats nothing and creates value; other proposers publish bodies drawn from a pool and valid on their parent (`StalePools` is false). The run `node_serial` satisfies `Serial` and `Honest`. The invariant `CoinsInv` keeps a witness,
  the coins and the transactions of the chain of every published block, on whatever fork (`Family`), and says at every program point of the one task at work of which block the trees now hold the coins (`Due`) and of which chain the pool holds nothing (`Gone`): below the tip from `insert` to
  `apply_block` and from the rollback of the coins to the unlinking, the tip's otherwise. A reorg restores the coins of the block below exactly by `BlockRollbackUndoesApply`. That a submitted transaction cannot be a confirmed one rests on `Sound`: what a chain consumed stays consumed, and every
  transaction on it consumed something or cannot be valid.
- **IbdProofs.** `AppliedOnce`, `ContinuesTip` and `SyncedWhenDone` of the download, for any number of peers, batch size, chain and gossip. `IbdInv` orders the queues: requests in flight and
  answers in the inbox ascend, and no answer is to a later request than one still unanswered. So an answer that lags behind starts at or below the tip, and what it repeats is rejected before it is applied twice.
- **LinksProofs.** `Spec => []RegistryIsLive` and `Spec => []OneLinkPerIp`, for any number of nodes, overlapping dials and faults. The exit of a task
  removes by address, so it is right only if no other open end of the node has that address; that follows from one registration per IP, which in
  turn rests on the registry listing every open end. `LinksInv` joins the two with the type invariant and `DialsAlone` (an end that only dials has no far end yet).
- **NetworkProofs.** `Converged`, for any number of nodes, any topology, any sizes of queues and sockets, any number of blocks, faults and races. Nodes prefer the higher block and
  of two equally high ones the lower hash, and no step takes a running node that no race has touched back in that order. `NetInv` therefore says of every connection between two such nodes (`Live`) that the tip its near end has and its far end lacks is in a queue, a channel or a socket of it, or was lost or
  turned down on it (`missed`), and that nothing in it is better than the sender's tip. The second is needed for the first: a node does not send a block back to where it has it from, which is right only if that peer is as far. A connection at rest has then brought its far end at least as far, in both directions. What a raced node does
  touches no connection between others.
- **SplitProofs.** `ReturnedIsWallet`, `BuiltOnUnspent`, `NeverTooMany`, `PassMeansConfirmed` and `NoFalseAlarm`, for any number of nodes, targets and runs and any first coin, with nodes that refuse, lose, delay and reorder as they like. None is inductive. The client computes the coins of its next round from
  transfers it has only submitted. That they are there and nobody else's follows from two facts: every transfer ever built, by whatever run, spends coins of the funder that node 1 had applied then (`Founded`), and therefore nobody has spent from a transfer that halves a coin still in the wallet (`Unclaimed`). So once
  node 1 shows an output of each, they are all applied and their outputs belong to this split alone (`Free`). The first coin is not: an earlier call may have left a transfer that spends it, which is why two of the properties start at the second round. `InSplit` carries this through a round with its arithmetic: what is kept and cut adds up
  (`CutSum`), and never exceeds the target. For `PassMeansConfirmed`: a run whose recipients were unpaid is the only one to pay them (`OwnRecipients`), so a balance of the right size is its own transfer (`PaidOnly`), and coins of others than the funder are never spent. For `NoFalseAlarm`: a transfer that is
  included replaces the coins it spends by fresh ones of the same worth (`IncludeMoves`), so the funder and the two recipients have together the same after every prefix of the chain (`Steady`), and at each node all but the two payments is the funder's, however far the node moves between the two reads.

Only model-checked:

- liveness (`Terminates`, `StaysLinked`, `ForwardingEnds`, `EveryRunEnds`) and everything with fairness;
- `ExactCount`, which is about how often a coin can be halved;
- `NoInflation` of Node after a crash (without one it is proved): the coins are then no longer those of a chain, and what they lack depends on where the crash was;
- `FairElection` and `RootNamesBody`, which are about sorting, folds and recursive operators over bounded inputs.

## Refinement

`Chain` has two variables, the chain and the number of crashes. Node implements it (`ChainRefinement`) with the chain that the height index leads to, where a reorg
counts when the new block is in: between `rollback_block` and `insert` the mapping still shows the evicted block, and a crash there is Chain's loss of the last block. With two connections or own proposals a node does not implement it:
`node_race` has two tasks insert siblings in either order of their hashes.

## Remarks on the code

Met while modelling, besides the violations; each is behaviour of the model.

- A block proposed between the push of the tip (`handler.rs:58`) and the subscription (`:71`) reaches nobody on that connection, although the comment at `:55` says that the push covers this race. `missed` records it.
- The loop is biased: an own block overtakes its parent if that is still in the outbound queue as gossip. The receiver is then two behind, asks with
  `GetBlocks`, and `dispatch` ignores the answer, so it stays behind until it restarts, although `handler.rs:306` says that this is how it catches up without a restart. `missed` records it.
- A task does not read while it waits to write. If both ends have more to write than the sockets buffer, both wait for ever; with the sockets of one frame of `network` this happens, and no property says that it does not.
- `validate_transaction` is documented to enforce `sum(inputs) >= sum(outputs)` (`validation/transaction.rs:57`, `docs/bcc-core.md:12`). It does not for outputs whose sum wraps at 2^64 in a release build, nor for a transaction
  that names one of its inputs twice: the input is counted twice and spent once. `NoInflation` states what does hold, with these transactions as sources of value beside genesis.
- `server.rs:9` calls `MAX_INBOUND_PEERS` a hard cap. The accept loop checks it and the peer is registered later in its own task, so a burst of connections exceeds it; outbound peers count as well.
- `MemoryStore::rollback_block` leaves the block filed; the sled store's removes it.
- A split is documented to return exactly `target_count` coins, but a round tries only its first coins. Splitting 5 into 5 gives 1, 1, 1, 2
  and stops there with success, because the first coin cannot be split, although `split.rs:16` and `:31` promise exactly the target or an error. `NeverTooMany` and `ExactCount` say what holds: never more, and exactly the target for a coin worth at least the next power of two.
- Scenarios recognise a payment by an absolute balance of a fixed recipient, so a second run passes on the balances of the first; a second `balance_conservation` counts those
  balances as well and reports a violation where there is none. Hence the premise `fresh` of `PassMeansConfirmed` and `NoFalseAlarm`. `mempool_flood` shares recipients with `concurrent_sends`.
- A split waits for node 1 only, while the payments from its coins go to all nodes; one that lags refuses them and the scenario fails.
- Stakes that add up to a multiple of 2^64 elect nobody. A Merkle root names its body only among bodies that repeat no transaction: an odd layer repeats its last hash.

## Not modelled, and the plan

In order:

1. **Proofs** - `NoInflation` of Node through crashes.
2. **Limits of the connections** - `MAX_INBOUND_PEERS` (see above): Links has both steps; the bound that holds is not stated yet.
3. **Overlapping scenarios** - the server starts a scenario whether or not another one runs; the model runs them one after another.
4. **Debug stream** - snapshot and subscription of `debug_ws` are two steps and events between them are lost; nothing depends on them.

Not planned: argument parsing, prompts, HTTP plumbing and configuration (no state of their own); encryption of the key file and its check-then-rename;
peers that change forks during a download; the event bus and the page of the visualizer.
