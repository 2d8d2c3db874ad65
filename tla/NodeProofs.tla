----------------------------- MODULE NodeProofs -----------------------------
(***************************************************************************)
(* What the block store of a node keeps to under every interleaving of its *)
(* tasks and every crash, for any number of peers, blocks and transactions. *)
(*                                                                         *)
(* The trees are written from values that tasks read several steps before, *)
(* so the invariant has to say what those values still are when they are   *)
(* used: a block in hand is a published one, a height in hand is the height *)
(* of a stored block, a tip to fall back to names its own height.          *)
(***************************************************************************)
EXTENDS Node, LedgerProofs, SequenceTheorems

\* A task has these fields.
IsTask(r) == DOMAIN r = {"pc", "block", "height", "hash", "old", "new_tip", "slot", "body"}

TasksShaped ==
    /\ task = [i \in Tasks |-> task[i]]
    /\ \A i \in Tasks : IsTask(task[i])

\* Published blocks have hashes and heights within the bounds.
MintedTyped ==
    /\ Genesis \in DOMAIN minted
    /\ DOMAIN minted \subseteq Hash
    /\ \A b \in DOMAIN minted : minted[b].height \in Height

TreesTyped ==
    /\ blocks_h \in [Height -> Hash \cup {NoBlock}]
    /\ blocks_idx \in [Hash -> Height \cup {NoBlock}]

\* A recorded tip names the height of the block it names.
TipNamesHeight(t) ==
    t # NoTip => t.hash \in DOMAIN minted /\ minted[t.hash].height = t.height

\* What a task may still rely on at each of its steps.
TaskKnows(i, r) ==
    /\ i # "ticker" /\ r.pc \notin {"idle", "boot", "run", "validators"} =>
          r.block \in DOMAIN minted
    /\ r.pc \in {"parent", "fork_parent", "validate", "fork_validate", "current", "elect"} =>
          r.height \in Height
    /\ r.pc \in {"rollback", "new_tip", "unlink"} => r.old \in DOMAIN minted
    /\ r.pc = "unlink" => TipNamesHeight(r.new_tip)
    /\ i = "ticker" /\ r.pc \in {"drain", "insert"} => r.height \in Height /\ r.height < MaxHeight

TasksKnow == \A i \in Tasks : TaskKnows(i, task[i])

\* The inductive invariant.
NodeInv ==
    /\ TasksShaped
    /\ MintedTyped
    /\ TreesTyped
    /\ FiledByHeight
    /\ StoredIsIndexed
    /\ TasksKnow

-----------------------------------------------------------------------------
\* Blocks are published, never altered or withdrawn.
MintedKept == \A c \in DOMAIN minted : c \in DOMAIN minted' /\ minted'[c] = minted[c]

\* What a task knows survives the publication of blocks.
LEMMA KnowledgeKept ==
  ASSUME MintedKept, NEW i, NEW r, TaskKnows(i, r), task'[i] = r
  PROVE  TaskKnows(i, task[i])'
  BY DEF MintedKept, TaskKnows, TipNamesHeight

\* One task moves: the others know what they knew.
LEMMA OneTaskMoves ==
  ASSUME TasksShaped, TasksKnow, NEW i \in Tasks, NEW r,
         task' = [task EXCEPT ![i] = r], IsTask(r), TaskKnows(i, r), MintedKept
  PROVE  TasksShaped' /\ TasksKnow'
  <1>1. task' = [j \in Tasks |-> IF j = i THEN r ELSE task[j]]
    BY DEF TasksShaped
  <1>2. \A j \in Tasks : task'[j] = IF j = i THEN r ELSE task[j]
    BY <1>1
  <1>3. TasksShaped'
    BY <1>1, <1>2 DEF TasksShaped, IsTask
  <1>4. ASSUME NEW j \in Tasks PROVE TaskKnows(j, task[j])'
    <2>1. CASE j = i
      BY <1>2, <2>1, KnowledgeKept
    <2>2. CASE j # i
      BY <1>2, <2>2, KnowledgeKept DEF TasksKnow
    <2> QED BY <2>1, <2>2
  <1> QED BY <1>3, <1>4 DEF TasksKnow

\* Return leaves the task idle.
LEMMA ReturnMoves ==
  ASSUME TasksShaped, TasksKnow, NEW i \in Tasks, Return(i), MintedKept
  PROVE  TasksShaped' /\ TasksKnow'
  <1>1. IsTask(Idle) /\ TaskKnows(i, Idle)
    BY DEF Idle, IsTask, TaskKnows
  <1> QED BY <1>1, OneTaskMoves DEF Return

\* A step that only changes the program counter.
LEMMA GotoMoves ==
  ASSUME TasksShaped, TasksKnow, NEW i \in Tasks, NEW pc, Goto(i, pc), MintedKept,
         TaskKnows(i, [task[i] EXCEPT !.pc = pc])
  PROVE  TasksShaped' /\ TasksKnow'
  <1> DEFINE r == [task[i] EXCEPT !.pc = pc]
  <1>1. task' = [task EXCEPT ![i] = r]
    BY DEF Goto
  <1>2. IsTask(r)
    BY DEF TasksShaped, IsTask
  <1> QED BY <1>1, <1>2, OneTaskMoves

-----------------------------------------------------------------------------
\* A step that writes neither the trees nor a block preserves the invariant as
\* soon as the tasks still know what they rely on.
LEMMA QuietPreserves ==
  ASSUME NodeInv, UNCHANGED <<minted, chainVars>>, TasksShaped' /\ TasksKnow'
  PROVE  NodeInv'
  BY DEF NodeInv, chainVars, MintedTyped, TreesTyped, FiledByHeight, StoredIsIndexed

\* A peer's task is neither main nor the ticker.
LEMMA PeerTask ==
  ASSUME NEW p \in Peers
  PROVE  p \in Tasks /\ p # "main" /\ p # "ticker"
  BY NodeAssumption DEF Tasks

\* main and the ticker are tasks.
LEMMA OwnTask == "main" \in Tasks /\ "ticker" \in Tasks
  BY DEF Tasks

\* The steps of dispatch before the first write, and the reads of the reorg.
LEMMA ReadsPreserve ==
  ASSUME NodeInv, NEW p \in Peers,
         \/ \E b \in DOMAIN minted : Receive(p, b)
         \/ ReadTip(p) \/ ReadParent(p) \/ Validate(p)
         \/ ReadCurrent(p) \/ RollbackUtxo(p) \/ ReadNewTip(p)
  PROVE  NodeInv'
  <1> USE PeerTask DEF NodeInv, envVars
  <1>0. UNCHANGED <<minted, chainVars>> /\ MintedKept
    BY DEF Receive, ReadTip, ReadParent, Validate, ReadCurrent, RollbackUtxo, ReadNewTip,
           MintedKept
  <1>a. IsTask(task[p]) /\ TaskKnows(p, task[p])
    BY DEF TasksShaped, TasksKnow
  <1> SUFFICES TasksShaped' /\ TasksKnow'
    BY <1>0, QuietPreserves
  <1>1. ASSUME NEW b \in DOMAIN minted, Receive(p, b) PROVE TasksShaped' /\ TasksKnow'
    <2> DEFINE r == [Idle EXCEPT !.pc = "tip", !.block = b]
    <2>1. task' = [task EXCEPT ![p] = r]
      BY <1>1 DEF Receive
    <2>2. IsTask(r) /\ r.pc = "tip" /\ r.block = b
      BY DEF Idle, IsTask
    <2>3. IsTask(r) /\ TaskKnows(p, r)
      BY <2>2 DEF TaskKnows
    <2> QED BY <1>0, <2>1, <2>3, OneTaskMoves
  <1>2. CASE ReadTip(p)
    <2> DEFINE t == IF tip = NoTip THEN [height |-> 0, hash |-> NoBlock] ELSE tip
               r(pc) == [task[p] EXCEPT !.pc = pc, !.height = t.height]
    <2>1. \/ Return(p)
          \/ \E pc \in {"parent", "fork_parent"} : task' = [task EXCEPT ![p] = r(pc)]
      BY <1>2 DEF ReadTip
    <2>2. task[p].block \in DOMAIN minted
      BY <1>2, <1>a DEF ReadTip, At, TaskKnows
    <2>3. t.height \in Height
      BY NodeAssumption DEF FiledByHeight, MintedTyped, Height
    <2>4. ASSUME NEW pc \in {"parent", "fork_parent"}
          PROVE  IsTask(r(pc)) /\ TaskKnows(p, r(pc))
      <3>1. /\ IsTask(r(pc)) /\ r(pc).pc = pc
            /\ r(pc).block = task[p].block /\ r(pc).height = t.height
        BY <1>a DEF IsTask
      <3> QED BY <2>2, <2>3, <3>1 DEF IsTask, TaskKnows
    <2> HIDE DEF r, t
    <2> QED BY <1>0, <2>1, <2>4, OneTaskMoves, ReturnMoves
  <1>3. CASE ReadParent(p)
    <2> DEFINE r(pc, h) == [task[p] EXCEPT !.pc = pc, !.hash = h]
    <2>1. \/ Return(p)
          \/ \E pc \in {"validate", "fork_validate"},
                h \in {blocks_h[task[p].height], blocks_h[task[p].height - 1]} :
                task' = [task EXCEPT ![p] = r(pc, h)]
      BY <1>3 DEF ReadParent
    <2>2. task[p].block \in DOMAIN minted /\ task[p].height \in Height
      BY <1>3, <1>a DEF ReadParent, At, TaskKnows
    <2>3. ASSUME NEW pc \in {"validate", "fork_validate"}, NEW h
          PROVE  IsTask(r(pc, h)) /\ TaskKnows(p, r(pc, h))
      <3>1. /\ IsTask(r(pc, h)) /\ r(pc, h).pc = pc
            /\ r(pc, h).block = task[p].block /\ r(pc, h).height = task[p].height
        BY <1>a DEF IsTask
      <3> QED BY <2>2, <3>1 DEF IsTask, TaskKnows
    <2> HIDE DEF r
    <2> QED BY <1>0, <2>1, <2>3, OneTaskMoves, ReturnMoves
  <1>4. CASE Validate(p)
    <2>1. Return(p) \/ \E pc \in {"insert", "current"} : Goto(p, pc)
      BY <1>4 DEF Validate
    <2>2. task[p].block \in DOMAIN minted /\ task[p].height \in Height
      BY <1>4, <1>a DEF Validate, At, TaskKnows
    <2>3. ASSUME NEW pc \in {"insert", "current"}
          PROVE  TaskKnows(p, [task[p] EXCEPT !.pc = pc])
      BY <1>a, <2>2 DEF IsTask, TaskKnows
    <2> QED BY <1>0, <2>1, <2>3, GotoMoves, ReturnMoves
  <1>5. CASE ReadCurrent(p)
    <2> DEFINE old == blocks_h[task[p].height]
               r == [task[p] EXCEPT !.pc = "rollback", !.old = old]
    <2>1. Return(p) \/ (old # NoBlock /\ task' = [task EXCEPT ![p] = r])
      BY <1>5 DEF ReadCurrent
    <2>2. task[p].block \in DOMAIN minted /\ task[p].height \in Height
      BY <1>5, <1>a DEF ReadCurrent, At, TaskKnows
    <2>3. old # NoBlock => old \in DOMAIN minted
      BY <2>2 DEF FiledByHeight
    <2>4. ASSUME old # NoBlock PROVE IsTask(r) /\ TaskKnows(p, r)
      <3>1. IsTask(r) /\ r.pc = "rollback" /\ r.block = task[p].block /\ r.old = old
        BY <1>a DEF IsTask
      <3> QED BY <2>2, <2>3, <2>4, <3>1 DEF IsTask, TaskKnows
    <2> HIDE DEF r, old
    <2> QED BY <1>0, <2>1, <2>4, OneTaskMoves, ReturnMoves
  <1>6. CASE RollbackUtxo(p)
    <2>1. Goto(p, "new_tip")
      BY <1>6 DEF RollbackUtxo
    <2>2. task[p].block \in DOMAIN minted /\ task[p].old \in DOMAIN minted
      BY <1>6, <1>a DEF RollbackUtxo, At, TaskKnows
    <2>3. TaskKnows(p, [task[p] EXCEPT !.pc = "new_tip"])
      BY <1>a, <2>2 DEF IsTask, TaskKnows
    <2> QED BY <1>0, <2>1, <2>3, GotoMoves
  <1>7. CASE ReadNewTip(p)
    <2> DEFINE h == minted[task[p].old].height
               t == IF h = 0 \/ blocks_h[h - 1] = NoBlock THEN NoTip
                    ELSE [height |-> h - 1, hash |-> blocks_h[h - 1]]
               r == [task[p] EXCEPT !.pc = "unlink", !.new_tip = t]
    <2>1. task' = [task EXCEPT ![p] = r]
      BY <1>7 DEF ReadNewTip
    <2>2. task[p].block \in DOMAIN minted /\ task[p].old \in DOMAIN minted
      BY <1>7, <1>a DEF ReadNewTip, At, TaskKnows
    <2>3. h \in Height
      BY <2>2 DEF MintedTyped
    <2>4. TipNamesHeight(t)
      <3>1. CASE h = 0 \/ blocks_h[h - 1] = NoBlock
        BY <3>1 DEF TipNamesHeight
      <3>2. CASE h # 0 /\ blocks_h[h - 1] # NoBlock
        <4>1. h - 1 \in Height
          BY <2>3, <3>2, NodeAssumption DEF Height
        <4>2. blocks_h[h - 1] \in DOMAIN minted /\ minted[blocks_h[h - 1]].height = h - 1
          BY <3>2, <4>1 DEF FiledByHeight
        <4> QED BY <3>2, <4>2 DEF TipNamesHeight
      <3> QED BY <3>1, <3>2
    <2> HIDE DEF t
    <2>5. /\ IsTask(r) /\ r.pc = "unlink" /\ r.block = task[p].block
          /\ r.old = task[p].old /\ r.new_tip = t
      BY <1>a DEF IsTask
    <2>6. IsTask(r) /\ TaskKnows(p, r)
      BY <2>2, <2>4, <2>5 DEF IsTask, TaskKnows
    <2> HIDE DEF r
    <2> QED BY <1>0, <2>1, <2>6, OneTaskMoves
  <1> QED BY <1>1, <1>2, <1>3, <1>4, <1>5, <1>6, <1>7

-----------------------------------------------------------------------------
\* The second transaction of rollback_block takes one block out of both trees.
LEMMA UnlinkPreserves ==
  ASSUME NodeInv, NEW p \in Peers, Unlink(p)
  PROVE  NodeInv'
  <1> DEFINE old == task[p].old
             h   == minted[old].height
  <1> USE PeerTask DEF NodeInv
  <1>1. /\ blocks_h' = [blocks_h EXCEPT ![h] = NoBlock]
        /\ blocks_idx' = [blocks_idx EXCEPT ![old] = NoBlock]
        /\ tip' = task[p].new_tip
        /\ Goto(p, "reinsert")
        /\ UNCHANGED minted /\ MintedKept
    BY DEF Unlink, envVars, MintedKept
  <1>2. IsTask(task[p]) /\ TaskKnows(p, task[p])
    BY DEF TasksShaped, TasksKnow
  <1>3. /\ task[p].block \in DOMAIN minted
        /\ old \in DOMAIN minted
        /\ TipNamesHeight(task[p].new_tip)
    BY <1>2 DEF Unlink, At, TaskKnows
  <1>4. h \in Height /\ old \in Hash
    BY <1>3 DEF MintedTyped
  <1> HIDE DEF old, h
  <1>5. TasksShaped' /\ TasksKnow'
    <2>1. TaskKnows(p, [task[p] EXCEPT !.pc = "reinsert"])
      BY <1>2, <1>3 DEF IsTask, TaskKnows
    <2> QED BY <1>1, <2>1, GotoMoves
  <1>6. TreesTyped' /\ MintedTyped'
    BY <1>1, <1>4 DEF TreesTyped, MintedTyped
  <1>7. FiledByHeight'
    <2>1. ASSUME NEW k \in Height, blocks_h'[k] # NoBlock
          PROVE  blocks_h'[k] \in DOMAIN minted /\ minted[blocks_h'[k]].height = k
      BY <1>1, <1>4, <2>1 DEF FiledByHeight, TreesTyped
    <2>2. ASSUME NEW b \in Hash, blocks_idx'[b] # NoBlock
          PROVE  b \in DOMAIN minted /\ minted[b].height = blocks_idx'[b]
      BY <1>1, <1>4, <2>2 DEF FiledByHeight, TreesTyped
    <2>3. tip' # NoTip => tip'.hash \in DOMAIN minted /\ minted[tip'.hash].height = tip'.height
      BY <1>1, <1>3 DEF TipNamesHeight
    <2> QED BY <1>1, <2>1, <2>2, <2>3 DEF FiledByHeight
  <1>8. StoredIsIndexed'
    <2> SUFFICES ASSUME NEW k \in Height, blocks_h'[k] # NoBlock
                 PROVE  blocks_idx'[blocks_h'[k]] = k
      BY DEF StoredIsIndexed
    <2>1. k # h /\ blocks_h'[k] = blocks_h[k]
      BY <1>1, <1>4 DEF TreesTyped
    <2>2. blocks_h[k] # old
      BY <2>1 DEF FiledByHeight, h
    <2>3. blocks_h[k] \in Hash /\ blocks_idx[blocks_h[k]] = k
      BY <2>1 DEF TreesTyped, StoredIsIndexed
    <2> QED BY <1>1, <2>1, <2>2, <2>3 DEF TreesTyped
  <1> QED BY <1>5, <1>6, <1>7, <1>8

\* The transaction of BlockStore::insert files a published block under its own
\* height in both trees, over whatever was there.
LEMMA PutPreserves ==
  ASSUME TreesTyped, FiledByHeight, StoredIsIndexed, MintedTyped, MintedTyped',
         MintedKept, NEW b \in DOMAIN minted', NEW h, h = minted'[b].height, Put(b, h)
  PROVE  TreesTyped' /\ FiledByHeight' /\ StoredIsIndexed'
  <1>1. /\ blocks_h' = [blocks_h EXCEPT ![h] = b]
        /\ blocks_idx' = [blocks_idx EXCEPT ![b] = h]
        /\ tip' = [height |-> h, hash |-> b]
    BY DEF Put
  <1>2. h \in Height /\ b \in Hash
    BY DEF MintedTyped
  <1>3. TreesTyped'
    BY <1>1, <1>2 DEF TreesTyped
  <1>4. ASSUME NEW k \in Height, blocks_h'[k] # NoBlock
        PROVE  blocks_h'[k] \in DOMAIN minted' /\ minted'[blocks_h'[k]].height = k
    <2>1. CASE k = h
      BY <1>1, <1>2, <2>1 DEF TreesTyped
    <2>2. CASE k # h
      <3>1. blocks_h'[k] = blocks_h[k]
        BY <1>1, <1>2, <2>2 DEF TreesTyped
      <3> QED BY <1>4, <3>1 DEF FiledByHeight, MintedKept
    <2> QED BY <2>1, <2>2
  <1>5. ASSUME NEW c \in Hash, blocks_idx'[c] # NoBlock
        PROVE  c \in DOMAIN minted' /\ minted'[c].height = blocks_idx'[c]
    <2>1. CASE c = b
      BY <1>1, <1>2, <2>1 DEF TreesTyped
    <2>2. CASE c # b
      <3>1. blocks_idx'[c] = blocks_idx[c]
        BY <1>1, <1>2, <2>2 DEF TreesTyped
      <3> QED BY <1>5, <3>1 DEF FiledByHeight, MintedKept
    <2> QED BY <2>1, <2>2
  <1>6. FiledByHeight'
    BY <1>1, <1>4, <1>5 DEF FiledByHeight
  <1>7. ASSUME NEW k \in Height, blocks_h'[k] # NoBlock
        PROVE  blocks_idx'[blocks_h'[k]] = k
    <2>1. CASE k = h
      BY <1>1, <1>2, <2>1 DEF TreesTyped
    <2>2. CASE k # h
      <3>1. blocks_h'[k] = blocks_h[k]
        BY <1>1, <1>2, <2>2 DEF TreesTyped
      <3>2. blocks_h[k] # b
        BY <1>4, <1>7, <2>2, <3>1
      <3>3. blocks_h[k] \in Hash /\ blocks_idx[blocks_h[k]] = k
        BY <1>7, <3>1 DEF TreesTyped, StoredIsIndexed
      <3> QED BY <1>1, <3>1, <3>2, <3>3 DEF TreesTyped
    <2> QED BY <2>1, <2>2
  <1>8. StoredIsIndexed'
    BY <1>7 DEF StoredIsIndexed
  <1> QED BY <1>3, <1>6, <1>8

\* insert as the handler, the reorg and genesis call it.
LEMMA InsertPreserves ==
  ASSUME NodeInv, NEW i \in Tasks, Insert(i)
  PROVE  NodeInv'
  <1> USE DEF NodeInv
  <1>1. /\ Put(task[i].block, minted[task[i].block].height)
        /\ Goto(i, "sentinel")
        /\ UNCHANGED minted /\ MintedKept
    BY DEF Insert, envVars, MintedKept
  <1>2. IsTask(task[i]) /\ TaskKnows(i, task[i])
    BY DEF TasksShaped, TasksKnow
  <1>3. task[i].block \in DOMAIN minted
    BY <1>2 DEF Insert, At, TaskKnows
  <1>4. MintedTyped'
    BY <1>1 DEF MintedTyped
  <1>5. TreesTyped' /\ FiledByHeight' /\ StoredIsIndexed'
    BY <1>1, <1>3, <1>4, PutPreserves
  <1>6. TaskKnows(i, [task[i] EXCEPT !.pc = "sentinel"])
    BY <1>2, <1>3 DEF IsTask, TaskKnows
  <1>7. TasksShaped' /\ TasksKnow'
    BY <1>1, <1>6, GotoMoves
  <1> QED BY <1>4, <1>5, <1>7

\* Publishing a block on a fresh hash.
LEMMA MintKeeps ==
  ASSUME MintedTyped, NEW b \in FreshHash, NEW blk, blk.height \in Height,
         minted' = [h \in DOMAIN minted \cup {b} |-> IF h = b THEN blk ELSE minted[h]]
  PROVE  MintedTyped' /\ MintedKept /\ b \in DOMAIN minted' /\ minted'[b] = blk
  BY NodeAssumption DEF MintedTyped, MintedKept, FreshHash, Hash

\* The slot ticker, from the start of the slot to the drained pool.
LEMMA TickerPreserves ==
  ASSUME NodeInv, Tick \/ ElectMe \/ DrainPool
  PROVE  NodeInv'
  <1> USE OwnTask DEF NodeInv, envVars
  <1>0. UNCHANGED <<minted, chainVars>> /\ MintedKept
    BY DEF Tick, ElectMe, DrainPool, MintedKept
  <1>a. IsTask(task["ticker"]) /\ TaskKnows("ticker", task["ticker"])
    BY DEF TasksShaped, TasksKnow
  <1> SUFFICES TasksShaped' /\ TasksKnow'
    BY <1>0, QuietPreserves
  <1>1. CASE Tick
    <2> DEFINE r == [Idle EXCEPT !.pc = "elect", !.slot = slot,
                                 !.height = tip.height, !.hash = tip.hash]
    <2>1. \/ UNCHANGED task
          \/ tip # NoTip /\ task' = [task EXCEPT !["ticker"] = r]
      BY <1>1 DEF Tick
    <2>2. CASE UNCHANGED task
      BY <1>0, <2>2 DEF TasksShaped, TasksKnow, TaskKnows, TipNamesHeight
    <2>3. CASE tip # NoTip /\ task' = [task EXCEPT !["ticker"] = r]
      <3>1. tip.height \in Height
        BY <2>3 DEF FiledByHeight, MintedTyped
      <3>2. IsTask(r) /\ r.pc = "elect" /\ r.height = tip.height
        BY DEF Idle, IsTask
      <3>3. TaskKnows("ticker", r)
        BY <3>1, <3>2 DEF TaskKnows
      <3> HIDE DEF r
      <3> QED BY <1>0, <2>3, <3>2, <3>3, OneTaskMoves
    <2> QED BY <2>1, <2>2, <2>3
  <1>2. CASE ElectMe
    <2>1. Return("ticker") \/ (task["ticker"].height < MaxHeight /\ Goto("ticker", "drain"))
      BY <1>2 DEF ElectMe
    <2>2. task["ticker"].height \in Height
      BY <1>2, <1>a DEF ElectMe, At, TaskKnows
    <2>3. task["ticker"].height < MaxHeight =>
             TaskKnows("ticker", [task["ticker"] EXCEPT !.pc = "drain"])
      BY <1>a, <2>2 DEF IsTask, TaskKnows
    <2> QED BY <1>0, <2>1, <2>3, GotoMoves, ReturnMoves
  <1>3. CASE DrainPool
    <2> DEFINE r(body) == [task["ticker"] EXCEPT !.pc = "insert", !.body = body]
    <2>1. \E body \in Pool!Drain(MaxTxs) : task' = [task EXCEPT !["ticker"] = r(body)]
      BY <1>3 DEF DrainPool
    <2>2. task["ticker"].height \in Height /\ task["ticker"].height < MaxHeight
      BY <1>3, <1>a DEF DrainPool, At, TaskKnows
    <2>3. ASSUME NEW body PROVE IsTask(r(body)) /\ TaskKnows("ticker", r(body))
      <3>1. IsTask(r(body)) /\ r(body).pc = "insert" /\ r(body).height = task["ticker"].height
        BY <1>a DEF IsTask
      <3> HIDE DEF r
      <3> QED BY <2>2, <3>1 DEF TaskKnows
    <2> HIDE DEF r
    <2> QED BY <1>0, <2>1, <2>3, OneTaskMoves
  <1> QED BY <1>1, <1>2, <1>3

\* The proposer publishes its block and files it above the tip it read.
LEMMA ProposePreserves ==
  ASSUME NodeInv, NEW b \in FreshHash, ProposeInsert(b)
  PROVE  NodeInv'
  <1> DEFINE t == task["ticker"]
             blk == Block(t.height + 1, t.hash, t.slot, Me, t.body)
             r == [t EXCEPT !.pc = "sentinel", !.block = b]
  <1> USE OwnTask DEF NodeInv
  <1>1. /\ minted' = [h \in DOMAIN minted \cup {b} |-> IF h = b THEN blk ELSE minted[h]]
        /\ Put(b, t.height + 1)
        /\ task' = [task EXCEPT !["ticker"] = r]
    BY DEF ProposeInsert
  <1>2. IsTask(t) /\ TaskKnows("ticker", t)
    BY DEF TasksShaped, TasksKnow
  <1>3. t.height \in Height /\ t.height < MaxHeight
    BY <1>2 DEF ProposeInsert, At, TaskKnows
  <1>4. blk.height = t.height + 1 /\ t.height + 1 \in Height
    BY <1>3, NodeAssumption DEF Block, Height
  <1>5. IsTask(r) /\ r.pc = "sentinel"
    BY <1>2 DEF IsTask
  <1> HIDE DEF t, blk, r
  <1>6. MintedTyped' /\ MintedKept /\ b \in DOMAIN minted' /\ minted'[b] = blk
    BY <1>1, <1>4, MintKeeps
  <1>7. TreesTyped' /\ FiledByHeight' /\ StoredIsIndexed'
    BY <1>1, <1>4, <1>6, PutPreserves
  <1>8. TaskKnows("ticker", r)
    BY <1>5 DEF TaskKnows
  <1>9. TasksShaped' /\ TasksKnow'
    BY <1>1, <1>5, <1>6, <1>8, OneTaskMoves
  <1> QED BY <1>6, <1>7, <1>9

\* Another validator publishes a block.
LEMMA MintPreserves ==
  ASSUME NodeInv, NEW b \in FreshHash, NEW parent \in DOMAIN minted, NEW s, NEW body,
         RemoteMint(b, parent, s, body)
  PROVE  NodeInv'
  <1> DEFINE blk == Block(minted[parent].height + 1, parent, s, Elect(s, parent), body)
  <1> USE DEF NodeInv
  <1>1. /\ minted' = [h \in DOMAIN minted \cup {b} |-> IF h = b THEN blk ELSE minted[h]]
        /\ UNCHANGED <<chainVars, task>>
        /\ minted[parent].height < MaxHeight
    BY DEF RemoteMint
  <1>2. blk.height \in Height
    BY <1>1, NodeAssumption DEF Block, Height, MintedTyped
  <1> HIDE DEF blk
  <1>3. MintedTyped' /\ MintedKept
    BY <1>1, <1>2, MintKeeps
  <1>4. TreesTyped' /\ StoredIsIndexed' /\ TasksShaped'
    BY <1>1 DEF chainVars, TreesTyped, StoredIsIndexed, TasksShaped
  <1>5. FiledByHeight'
    BY <1>1, <1>3 DEF chainVars, FiledByHeight, MintedKept
  <1>6. TasksKnow'
    BY <1>1, <1>3, KnowledgeKept DEF TasksKnow
  <1> QED BY <1>3, <1>4, <1>5, <1>6

\* apply_block and Mempool::remove, the tail of every update.
LEMMA TailPreserves ==
  ASSUME NodeInv, NEW i \in Tasks,
         WriteSentinel(i) \/ ApplyUtxo(i) \/ ClearSentinel(i) \/ RemoveFromPool(i)
  PROVE  NodeInv'
  <1> USE DEF NodeInv
  <1>0. UNCHANGED <<minted, chainVars>> /\ MintedKept
    BY DEF WriteSentinel, ApplyUtxo, ClearSentinel, RemoveFromPool, envVars, MintedKept
  <1>1. IsTask(task[i]) /\ TaskKnows(i, task[i])
    BY DEF TasksShaped, TasksKnow
  <1>2. Return(i) \/ \E pc \in {"apply", "clear", "validators", "remove"} : Goto(i, pc)
    BY DEF WriteSentinel, ApplyUtxo, ClearSentinel, RemoveFromPool
  <1>3. i # "ticker" => task[i].block \in DOMAIN minted
    BY <1>1 DEF WriteSentinel, ApplyUtxo, ClearSentinel, RemoveFromPool, At, TaskKnows
  <1>4. ASSUME NEW pc \in {"apply", "clear", "validators", "remove"}
        PROVE  TaskKnows(i, [task[i] EXCEPT !.pc = pc])
    BY <1>1, <1>3 DEF IsTask, TaskKnows
  <1>5. TasksShaped' /\ TasksKnow'
    BY <1>0, <1>2, <1>4, GotoMoves, ReturnMoves
  <1> QED BY <1>0, <1>5, QuietPreserves

\* apply_genesis, up to its insert and after its apply.
LEMMA BootPreserves ==
  ASSUME NodeInv, BootCheck \/ InstallValidators
  PROVE  NodeInv'
  <1> DEFINE up  == [Idle EXCEPT !.pc = "run"]
             gen == [Idle EXCEPT !.pc = "insert", !.block = Genesis]
  <1> USE OwnTask DEF NodeInv
  <1>0. UNCHANGED <<minted, chainVars>> /\ MintedKept
    BY DEF BootCheck, InstallValidators, envVars, MintedKept
  <1>1. task' = [task EXCEPT !["main"] = up] \/ task' = [task EXCEPT !["main"] = gen]
    BY DEF BootCheck, InstallValidators
  <1>2. IsTask(up) /\ TaskKnows("main", up)
    BY DEF Idle, IsTask, TaskKnows
  <1>3. IsTask(gen) /\ gen.pc = "insert" /\ gen.block = Genesis
    BY DEF Idle, IsTask
  <1> HIDE DEF up, gen
  <1>4. TaskKnows("main", gen)
    BY <1>3 DEF TaskKnows, MintedTyped
  <1>5. TasksShaped' /\ TasksKnow'
    BY <1>0, <1>1, <1>2, <1>3, <1>4, OneTaskMoves
  <1> QED BY <1>0, <1>5, QuietPreserves

\* Tasks that hold nothing satisfy their part of the invariant.
LEMMA AllIdle ==
  ASSUME task = [i \in Tasks |-> IF i = "main" THEN [Idle EXCEPT !.pc = "boot"] ELSE Idle]
  PROVE  TasksShaped /\ TasksKnow
  <1> DEFINE boot == [Idle EXCEPT !.pc = "boot"]
  <1>1. IsTask(boot) /\ \A i : TaskKnows(i, boot)
    BY DEF Idle, IsTask, TaskKnows
  <1>2. IsTask(Idle) /\ \A i : TaskKnows(i, Idle)
    BY DEF Idle, IsTask, TaskKnows
  <1>3. \A i \in Tasks : task[i] = IF i = "main" THEN boot ELSE Idle
    OBVIOUS
  <1>4. task = [i \in Tasks |-> task[i]]
    OBVIOUS
  <1> HIDE DEF boot
  <1> QED BY <1>1, <1>2, <1>3, <1>4 DEF TasksShaped, TasksKnow

\* A crash keeps the trees and forgets every task.
LEMMA CrashPreserves ==
  ASSUME NodeInv, Crash
  PROVE  NodeInv'
  <1> DEFINE boot == [Idle EXCEPT !.pc = "boot"]
  <1>0. UNCHANGED <<minted, chainVars>>
    BY DEF Crash
  <1>1. task' = [i \in Tasks |-> IF i = "main" THEN boot ELSE Idle]
    BY DEF Crash
  <1>2. IsTask(boot) /\ boot.pc = "boot"
    BY DEF Idle, IsTask
  <1>3. IsTask(Idle) /\ Idle.pc = "idle"
    BY DEF Idle, IsTask
  <1> HIDE DEF boot
  <1>4. \A i \in Tasks : task'[i] = boot \/ task'[i] = Idle
    BY <1>1
  <1>5. TasksShaped'
    BY <1>1, <1>2, <1>3, <1>4 DEF TasksShaped, IsTask
  <1>6. \A i \in Tasks : task'[i].pc \in {"idle", "boot"}
    BY <1>2, <1>3, <1>4
  <1>7. TasksKnow'
    BY <1>6 DEF TasksKnow, TaskKnows
  <1> QED BY <1>0, <1>5, <1>7, QuietPreserves

\* Steps that touch neither blocks nor tasks.
LEMMA ElsewherePreserves ==
  ASSUME NodeInv, UNCHANGED <<minted, chainVars, task>>
  PROVE  NodeInv'
  <1>1. TasksShaped' /\ TasksKnow'
    BY DEF NodeInv, TasksShaped, TasksKnow, TaskKnows, TipNamesHeight
  <1> QED BY <1>1, QuietPreserves

\* Every step of every task preserves the invariant.
LEMMA NodeStep ==
  ASSUME NodeInv, [Next]_vars
  PROVE  NodeInv'
  <1>1. CASE BootCheck \/ InstallValidators
    BY <1>1, BootPreserves
  <1>2. ASSUME NEW p \in Peers, NEW b \in DOMAIN minted, Receive(p, b) PROVE NodeInv'
    BY <1>2, ReadsPreserve
  <1>3. ASSUME NEW p \in Peers,
               \/ ReadTip(p) \/ ReadParent(p) \/ Validate(p)
               \/ ReadCurrent(p) \/ RollbackUtxo(p) \/ ReadNewTip(p)
        PROVE  NodeInv'
    BY <1>3, ReadsPreserve
  <1>4. ASSUME NEW p \in Peers, Unlink(p) PROVE NodeInv'
    BY <1>4, UnlinkPreserves
  <1>5. ASSUME NEW i \in Tasks, Insert(i) PROVE NodeInv'
    BY <1>5, InsertPreserves
  <1>6. ASSUME NEW i \in Tasks,
               WriteSentinel(i) \/ ApplyUtxo(i) \/ ClearSentinel(i) \/ RemoveFromPool(i)
        PROVE  NodeInv'
    BY <1>6, TailPreserves
  <1>7. CASE Tick \/ ElectMe \/ DrainPool
    BY <1>7, TickerPreserves
  <1>8. ASSUME NEW b \in FreshHash, ProposeInsert(b) PROVE NodeInv'
    BY <1>8, ProposePreserves
  <1>9. CASE (\E t \in Tx : SubmitTx(t)) \/ NextSlot \/ UNCHANGED vars
    <2>1. UNCHANGED <<minted, chainVars, task>>
      BY <1>9 DEF SubmitTx, NextSlot, vars, envVars
    <2> QED BY <2>1, ElsewherePreserves
  <1>10. ASSUME NEW b \in FreshHash, NEW parent \in DOMAIN minted, NEW s \in 1..MaxSlot,
                NEW body \in Bodies, RemoteMint(b, parent, s, body)
         PROVE  NodeInv'
    BY <1>10, MintPreserves
  <1>11. CASE Crash
    BY <1>11, CrashPreserves
  <1>12. ASSUME NEW p \in Peers, NEW t \in Tx, ReceiveTx(p, t) PROVE NodeInv'
    BY <1>9, <1>12 DEF ReceiveTx
  <1> QED BY <1>1, <1>2, <1>3, <1>4, <1>5, <1>6, <1>7, <1>8, <1>9, <1>10, <1>11, <1>12 DEF Next

\* The empty store of a first start.
LEMMA NodeStart == ASSUME Init PROVE NodeInv
  <1>1. TasksShaped /\ TasksKnow
    BY AllIdle DEF Init
  <1>2. MintedTyped
    BY NodeAssumption DEF Init, MintedTyped, Genesis, Hash, Height, Block
  <1>3. TreesTyped /\ FiledByHeight /\ StoredIsIndexed
    BY DEF Init, TreesTyped, FiledByHeight, StoredIsIndexed
  <1> QED BY <1>1, <1>2, <1>3 DEF NodeInv

-----------------------------------------------------------------------------
\* The inductive invariant holds in every reachable state of a node.
THEOREM NodeSafety == Spec => []NodeInv
  <1>1. Init => NodeInv
    BY NodeStart
  <1>2. NodeInv /\ [Next]_vars => NodeInv'
    BY NodeStep
  <1> QED BY <1>1, <1>2, PTL DEF Spec

\* Every tree files a block under its own height and the tip names the height
\* of its block, whatever the tasks interleave and wherever the node crashed.
THEOREM NodeFiledByHeight == Spec => []FiledByHeight
  <1>1. NodeInv => FiledByHeight
    BY DEF NodeInv
  <1> QED BY <1>1, NodeSafety, PTL

\* A stored block is always found under its hash, so the dedup check of
\* dispatch never misses one.
THEOREM NodeStoredIsIndexed == Spec => []StoredIsIndexed
  <1>1. NodeInv => StoredIsIndexed
    BY DEF NodeInv
  <1> QED BY <1>1, NodeSafety, PTL

-----------------------------------------------------------------------------
(* Types, and the node's use of its pool.                                   *)

\* Which steps write which variable; the others leave it alone.
LEMMA WhoWrites ==
  ASSUME [Next]_vars
  PROVE  /\ NextSlot \/ Tick \/ Crash \/ UNCHANGED <<slot, ticked, crashes>>
         /\ (\E i \in Tasks : WriteSentinel(i) \/ ClearSentinel(i)) \/ UNCHANGED sentinel
         /\ \/ \E i \in Tasks : ApplyUtxo(i)
            \/ \E p \in Peers : RollbackUtxo(p)
            \/ UNCHANGED utxoVars
         /\ InstallValidators \/ UNCHANGED validators
         /\ \/ \E b \in FreshHash : ProposeInsert(b)
            \/ \E b \in FreshHash, parent \in DOMAIN minted, s \in 1..MaxSlot, body \in Bodies :
                  RemoteMint(b, parent, s, body)
            \/ UNCHANGED minted
         /\ \/ \E i \in Tasks : Insert(i)
            \/ \E b \in FreshHash : ProposeInsert(b)
            \/ \E p \in Peers : Unlink(p)
            \/ UNCHANGED chainVars
         /\ \/ \E t \in Tx : SubmitTx(t)
            \/ \E i \in Tasks : RemoveFromPool(i)
            \/ Crash
            \/ UNCHANGED poolVars
  <1> USE DEF vars, envVars, utxoVars, poolVars
  <1>1. CASE BootCheck
    BY <1>1 DEF BootCheck
  <1>2. CASE InstallValidators
    BY <1>2 DEF InstallValidators
  <1>3. ASSUME NEW p \in Peers, NEW b \in DOMAIN minted, Receive(p, b)
        PROVE  UNCHANGED <<envVars, chainVars, utxoVars, sentinel, validators, poolVars, ticked>>
    BY <1>3 DEF Receive
  <1>4. ASSUME NEW p \in Peers,
               ReadTip(p) \/ ReadParent(p) \/ Validate(p) \/ ReadCurrent(p) \/ ReadNewTip(p)
        PROVE  UNCHANGED <<envVars, chainVars, utxoVars, sentinel, validators, poolVars, ticked>>
    BY <1>4 DEF ReadTip, ReadParent, Validate, ReadCurrent, ReadNewTip
  <1>5. ASSUME NEW p \in Peers, RollbackUtxo(p)
        PROVE  UNCHANGED <<envVars, chainVars, sentinel, validators, poolVars, ticked>>
    BY <1>5 DEF RollbackUtxo
  <1>6. ASSUME NEW p \in Peers, Unlink(p)
        PROVE  UNCHANGED <<envVars, utxoVars, sentinel, validators, poolVars, ticked>>
    BY <1>6 DEF Unlink
  <1>7. ASSUME NEW i \in Tasks, Insert(i)
        PROVE  UNCHANGED <<envVars, utxoVars, sentinel, validators, poolVars, ticked>>
    BY <1>7 DEF Insert
  <1>8. ASSUME NEW i \in Tasks, WriteSentinel(i) \/ ClearSentinel(i)
        PROVE  UNCHANGED <<envVars, chainVars, utxoVars, validators, poolVars, ticked>>
    BY <1>8 DEF WriteSentinel, ClearSentinel
  <1>9. ASSUME NEW i \in Tasks, ApplyUtxo(i)
        PROVE  UNCHANGED <<envVars, chainVars, sentinel, validators, poolVars, ticked>>
    BY <1>9 DEF ApplyUtxo
  <1>10. ASSUME NEW i \in Tasks, RemoveFromPool(i)
         PROVE  UNCHANGED <<envVars, chainVars, utxoVars, sentinel, validators, ticked>>
    BY <1>10 DEF RemoveFromPool
  <1>11. CASE Tick
    BY <1>11 DEF Tick
  <1>12. CASE ElectMe \/ DrainPool
    BY <1>12 DEF ElectMe, DrainPool
  <1>13. ASSUME NEW b \in FreshHash, ProposeInsert(b)
         PROVE  UNCHANGED <<slot, crashes, utxoVars, sentinel, validators, poolVars, ticked>>
    BY <1>13 DEF ProposeInsert
  <1>14. ASSUME NEW t \in Tx, SubmitTx(t)
         PROVE  UNCHANGED <<envVars, chainVars, utxoVars, sentinel, validators, ticked>>
    BY <1>14 DEF SubmitTx, Pool!Add, Pool!Insert, Pool!Replace
  <1>15. ASSUME NEW b, NEW parent, NEW s, NEW body, RemoteMint(b, parent, s, body)
         PROVE  UNCHANGED <<slot, crashes, chainVars, utxoVars, sentinel, validators, poolVars, ticked>>
    BY <1>15 DEF RemoteMint
  <1>16. CASE NextSlot
    BY <1>16 DEF NextSlot
  <1>17. CASE Crash
    BY <1>17 DEF Crash, Pool!Restart
  <1>18. CASE UNCHANGED vars
    BY <1>18
  <1> HIDE DEF vars, envVars, utxoVars, poolVars
  <1>a. ASSUME UNCHANGED envVars PROVE UNCHANGED <<slot, crashes, minted>>
    BY <1>a DEF envVars
  <1> QED BY <1>1, <1>2, <1>3, <1>4, <1>5, <1>6, <1>7, <1>8, <1>9, <1>10, <1>11, <1>12, <1>13,
             <1>14, <1>15, <1>16, <1>17, <1>18, <1>a DEF Next, ReceiveTx

\* The pool's view of the transactions is the node's.
LEMMA PoolView ==
  /\ Pool!TxOutRef = TxOutRef
  /\ \A t \in Tx : Pool!TotalOut(t) = TotalOut(t) /\ Pool!InputRefs(t) = InputRefs(t)
  <1>1. Pool!TxOutRef = TxOutRef
    BY DEF Pool!TxOutRef, TxOutRef
  <1>2. \A t \in Tx : Pool!InputRefs(t) = InputRefs(t)
    BY DEF Pool!InputRefs, InputRefs
  <1>3. \A t \in Tx : Pool!TotalOut(t) = TotalOut(t)
    BY DEF Pool!TotalOut, TotalOut, Pool!FoldLeft, FoldLeft, Pool!MapThenFoldSet, MapThenFoldSet, Pool!Max, Max
  <1> QED BY <1>1, <1>2, <1>3

\* A recorded tip.
TipTyped(t) == t \in {NoTip} \cup [height : Height, hash : Hash]

\* The clock and the crash count.
Clocked == slot \in 1..MaxSlot + 1 /\ ticked \in 0..slot /\ crashes \in 0..MaxCrashes

\* The bodies of published blocks, and the one the ticker is about to publish.
BodiesTyped ==
    /\ \A b \in DOMAIN minted : minted[b].txs \in Seq(Tx)
    /\ At("ticker", "insert") => task["ticker"].body \in Seq(Tx)

\* What TaskKnows leaves out: the ticker's own block, the slot and parent it
\* asks about, the tip to fall back to.
HandsTyped ==
    /\ task["ticker"].pc \in {"sentinel", "apply", "clear", "remove"} =>
          task["ticker"].block \in DOMAIN minted
    /\ At("ticker", "elect") =>
          task["ticker"].slot \in 1..MaxSlot + 1 /\ task["ticker"].hash \in Hash
    /\ \A p \in Peers : At(p, "unlink") => TipTyped(task[p].new_tip)

CoinsTyped == utxo \subseteq TxOutRef /\ spent \subseteq Height \X TxOutRef

TypeInv ==
    /\ Clocked
    /\ BodiesTyped
    /\ HandsTyped
    /\ CoinsTyped
    /\ TipTyped(tip)
    /\ sentinel \in Height \cup {NoBlock}
    /\ validators \in BOOLEAN
    /\ Pool!TypeOK

\* The pool's types, through add, remove and restart.
LEMMA PoolTyped ==
  ASSUME Pool!TypeOK, [Next]_vars
  PROVE  Pool!TypeOK'
  <1>1. ASSUME NEW t \in Tx, SubmitTx(t) PROVE Pool!TypeOK'
    <2>1. TotalOut(t) \in Nat /\ InputRefs(t) \subseteq TxOutRef
      BY LedgerAssumption
    <2>2. CASE Pool!Insert(t)
      BY <2>1, <2>2, PoolView DEF Pool!Insert, Pool!TypeOK
    <2>3. ASSUME NEW v \in txs, Pool!Replace(t, v) PROVE Pool!TypeOK'
      BY <2>1, <2>3, PoolView DEF Pool!Replace, Pool!TypeOK
    <2> QED BY <1>1, <2>2, <2>3 DEF SubmitTx, Pool!Add
  <1>2. ASSUME NEW i \in Tasks, RemoveFromPool(i) PROVE Pool!TypeOK'
    BY <1>2 DEF RemoveFromPool, Pool!Drop, Pool!TypeOK
  <1>3. CASE Crash
    BY <1>3 DEF Crash, Pool!Restart, Pool!TypeOK
  <1>4. CASE UNCHANGED poolVars
    BY <1>4 DEF poolVars, Pool!TypeOK
  <1> QED BY <1>1, <1>2, <1>3, <1>4, WhoWrites

\* A drained pool is a list of transactions.
LEMMA DrainTyped ==
  ASSUME Pool!TypeOK, NEW body \in Pool!Drain(MaxTxs)
  PROVE  body \in Seq(Tx)
  <1>1. PICK q \in Pool!SetToSeqs(txs) :
           body = SubSeq(q, 1, IF Len(q) < MaxTxs THEN Len(q) ELSE MaxTxs)
    BY DEF Pool!Drain
  <1>2. IsFiniteSet(txs) /\ Cardinality(txs) \in Nat
    BY LedgerAssumption, FS_Subset, FS_CardinalityType DEF Pool!TypeOK
  <1>3. q \in [1..Cardinality(txs) -> txs]
    BY DEF Pool!SetToSeqs, Pool!Cardinality, Cardinality, Pool!IsFiniteSet, IsFiniteSet
  <1>4. q \in Seq(Tx)
    <2>1. txs \subseteq Tx
      BY DEF Pool!TypeOK
    <2>2. q \in [1..Cardinality(txs) -> Tx]
      BY <1>3, <2>1
    <2> QED BY <1>2, <2>2
  <1> DEFINE m == IF Len(q) < MaxTxs THEN Len(q) ELSE MaxTxs
  <1>5. m \in Nat /\ m <= Len(q)
    BY <1>4, NodeAssumption
  <1>6. SubSeq(q, 1, m) \in Seq(Tx)
    BY <1>4, <1>5
  <1> QED BY <1>1, <1>6

\* Clock and crash count; after a restart the ticker looks at the current slot
\* again.
LEMMA ClockedStep == ASSUME Clocked, [Next]_vars PROVE Clocked'
  <1>1. CASE NextSlot
    <2>1. slot' = slot + 1 /\ slot < MaxSlot /\ UNCHANGED <<ticked, crashes>>
      BY <1>1 DEF NextSlot
    <2> QED BY <2>1, NodeAssumption DEF Clocked
  <1>2. CASE Tick
    <2>1. ticked' = slot /\ UNCHANGED <<slot, crashes>>
      BY <1>2 DEF Tick, envVars
    <2> QED BY <2>1, NodeAssumption DEF Clocked
  <1>3. CASE Crash
    <2>1. ticked' = slot - 1 /\ crashes' = crashes + 1 /\ crashes < MaxCrashes /\ UNCHANGED slot
      BY <1>3 DEF Crash
    <2> QED BY <2>1, NodeAssumption DEF Clocked
  <1>4. CASE UNCHANGED <<slot, ticked, crashes>>
    BY <1>4 DEF Clocked
  <1> QED BY <1>1, <1>2, <1>3, <1>4, WhoWrites

\* Who moves the ticker, and where to.
LEMMA TickerMoves ==
  ASSUME NodeInv, [Next]_vars
  PROVE  \/ task'["ticker"] = task["ticker"]
         \/ task'["ticker"].pc \in {"idle", "drain"}
         \/ /\ task'["ticker"].pc = "elect" /\ tip # NoTip
            /\ task'["ticker"].slot = slot /\ task'["ticker"].hash = tip.hash
         \/ DrainPool
         \/ \E b \in FreshHash : ProposeInsert(b)
         \/ /\ task["ticker"].pc \in {"sentinel", "apply", "clear", "remove"}
            /\ task'["ticker"].block = task["ticker"].block
            /\ task'["ticker"].pc \in {"apply", "clear", "remove"}
  <1> USE DEF At, Goto, Return, NodeInv, TasksShaped, IsTask
  <1>1. CASE BootCheck \/ InstallValidators
    BY <1>1, OwnTask DEF BootCheck, InstallValidators
  <1>2. ASSUME NEW p \in Peers, NEW b, Receive(p, b) PROVE task'["ticker"] = task["ticker"]
    BY <1>2, OwnTask, PeerTask DEF Receive
  <1>3. ASSUME NEW p \in Peers, ReadTip(p) PROVE task'["ticker"] = task["ticker"]
    BY <1>3, OwnTask, PeerTask DEF ReadTip
  <1>4. ASSUME NEW p \in Peers, ReadParent(p) PROVE task'["ticker"] = task["ticker"]
    BY <1>4, OwnTask, PeerTask DEF ReadParent
  <1>5. ASSUME NEW p \in Peers,
               Validate(p) \/ ReadCurrent(p) \/ RollbackUtxo(p) \/ ReadNewTip(p) \/ Unlink(p)
        PROVE  task'["ticker"] = task["ticker"]
    BY <1>5, OwnTask, PeerTask DEF Validate, ReadCurrent, RollbackUtxo, ReadNewTip, Unlink
  <1>6. ASSUME NEW i \in Tasks, Insert(i) PROVE task'["ticker"] = task["ticker"]
    BY <1>6, OwnTask DEF Insert
  <1>7. ASSUME NEW i \in Tasks, i # "ticker",
               WriteSentinel(i) \/ ApplyUtxo(i) \/ ClearSentinel(i) \/ RemoveFromPool(i)
        PROVE  task'["ticker"] = task["ticker"]
    BY <1>7, OwnTask DEF WriteSentinel, ApplyUtxo, ClearSentinel, RemoveFromPool
  <1>8. CASE WriteSentinel("ticker") \/ ApplyUtxo("ticker") \/ ClearSentinel("ticker")
    BY <1>8, OwnTask DEF WriteSentinel, ApplyUtxo, ClearSentinel
  <1>9. CASE RemoveFromPool("ticker")
    BY <1>9, OwnTask DEF RemoveFromPool, Idle
  <1>10. CASE Tick
    <2> DEFINE r == [Idle EXCEPT !.pc = "elect", !.slot = slot,
                                 !.height = tip.height, !.hash = tip.hash]
    <2>1. UNCHANGED task \/ (tip # NoTip /\ task' = [task EXCEPT !["ticker"] = r])
      BY <1>10 DEF Tick
    <2>2. r.pc = "elect" /\ r.slot = slot /\ r.hash = tip.hash
      BY DEF Idle
    <2> HIDE DEF r
    <2> QED BY <2>1, <2>2, OwnTask
  <1>11. CASE ElectMe
    BY <1>11, OwnTask DEF ElectMe, Idle
  <1>12. CASE DrainPool \/ \E b \in FreshHash : ProposeInsert(b)
    BY <1>12
  <1>13. ASSUME NEW t \in Tx, SubmitTx(t) PROVE UNCHANGED task
    BY <1>13 DEF SubmitTx
  <1>14. CASE NextSlot \/ (\E b, parent, s, body : RemoteMint(b, parent, s, body)) \/ UNCHANGED vars
    BY <1>14 DEF NextSlot, RemoteMint, vars
  <1>15. CASE Crash
    BY <1>15, OwnTask DEF Crash, Idle
  <1> QED BY <1>1, <1>2, <1>3, <1>4, <1>5, <1>6, <1>7, <1>8, <1>9, <1>10, <1>11, <1>12, <1>13,
             <1>14, <1>15 DEF Next, ReceiveTx

\* Only ReadNewTip leads to the second transaction of a rollback.
LEMMA UnlinkComes ==
  ASSUME NodeInv, [Next]_vars, NEW p \in Peers, At(p, "unlink")'
  PROVE  ReadNewTip(p) \/ task'[p] = task[p]
  <1> USE DEF At, Goto, Return, NodeInv, TasksShaped, IsTask, Idle
  <1>1. CASE BootCheck \/ InstallValidators
    BY <1>1, OwnTask, PeerTask DEF BootCheck, InstallValidators
  <1>2. ASSUME NEW q \in Peers, NEW b, Receive(q, b) PROVE task'[p] = task[p]
    BY <1>2, PeerTask DEF Receive
  <1>3. ASSUME NEW q \in Peers, ReadTip(q) PROVE task'[p] = task[p]
    BY <1>3, PeerTask DEF ReadTip
  <1>4. ASSUME NEW q \in Peers, ReadParent(q) PROVE task'[p] = task[p]
    <2>1. \/ Return(q)
          \/ \E pc \in {"validate", "fork_validate"},
                h \in {blocks_h[task[q].height], blocks_h[task[q].height - 1]} :
                task' = [task EXCEPT ![q] = [task[q] EXCEPT !.pc = pc, !.hash = h]]
      BY <1>4 DEF ReadParent
    <2>2. CASE Return(q)
      BY <2>2, PeerTask
    <2>3. ASSUME NEW pc \in {"validate", "fork_validate"}, NEW h,
                 task' = [task EXCEPT ![q] = [task[q] EXCEPT !.pc = pc, !.hash = h]]
          PROVE  task'[p] = task[p]
      BY <2>3, PeerTask
    <2> QED BY <2>1, <2>2, <2>3
  <1>5. ASSUME NEW q \in Peers, Validate(q) \/ ReadCurrent(q) \/ RollbackUtxo(q) \/ Unlink(q)
        PROVE  task'[p] = task[p]
    <2>1. CASE Validate(q)
      <3>1. Return(q) \/ Goto(q, "insert") \/ Goto(q, "current")
        BY <2>1 DEF Validate
      <3> QED BY <3>1, PeerTask
    <2>2. CASE ReadCurrent(q)
      BY <2>2, PeerTask DEF ReadCurrent
    <2>3. CASE RollbackUtxo(q) \/ Unlink(q)
      BY <2>3, PeerTask DEF RollbackUtxo, Unlink
    <2> QED BY <1>5, <2>1, <2>2, <2>3
  <1>6. ASSUME NEW q \in Peers, ReadNewTip(q), q # p PROVE task'[p] = task[p]
    BY <1>6, PeerTask DEF ReadNewTip
  <1>7. ASSUME NEW i \in Tasks,
               Insert(i) \/ WriteSentinel(i) \/ ApplyUtxo(i) \/ ClearSentinel(i) \/ RemoveFromPool(i)
        PROVE  task'[p] = task[p]
    BY <1>7, PeerTask DEF Insert, WriteSentinel, ApplyUtxo, ClearSentinel, RemoveFromPool
  <1>8. CASE Tick
    BY <1>8, OwnTask, PeerTask DEF Tick
  <1>9. CASE ElectMe \/ DrainPool \/ \E b \in FreshHash : ProposeInsert(b)
    BY <1>9, OwnTask, PeerTask DEF ElectMe, DrainPool, ProposeInsert
  <1>10. ASSUME NEW t \in Tx, SubmitTx(t) PROVE UNCHANGED task
    BY <1>10 DEF SubmitTx
  <1>11. CASE NextSlot \/ (\E b, parent, s, body : RemoteMint(b, parent, s, body)) \/ UNCHANGED vars
    BY <1>11 DEF NextSlot, RemoteMint, vars
  <1>12. CASE Crash
    BY <1>12, PeerTask DEF Crash
  <1> QED BY <1>1, <1>2, <1>3, <1>4, <1>5, <1>6, <1>7, <1>8, <1>9, <1>10, <1>11, <1>12
          DEF Next, ReceiveTx

\* Bodies are lists of transactions: genesis, another proposer's, or drained
\* from the pool.
LEMMA BodiesStep ==
  ASSUME NodeInv, TypeInv, [Next]_vars
  PROVE  BodiesTyped'
  <1>1. ASSUME NEW b \in DOMAIN minted' PROVE minted'[b].txs \in Seq(Tx)
    <2>1. ASSUME NEW c \in FreshHash, ProposeInsert(c) PROVE minted'[b].txs \in Seq(Tx)
      <3> DEFINE t == task["ticker"]
      <3>1. /\ minted' = [h \in DOMAIN minted \cup {c} |->
                            IF h = c THEN Block(t.height + 1, t.hash, t.slot, Me, t.body)
                            ELSE minted[h]]
            /\ t.body \in Seq(Tx)
        BY <2>1 DEF ProposeInsert, TypeInv, BodiesTyped
      <3> QED BY <3>1 DEF Block, TypeInv, BodiesTyped
    <2>2. ASSUME NEW c \in FreshHash, NEW parent \in DOMAIN minted, NEW s \in 1..MaxSlot,
                 NEW body \in Bodies, RemoteMint(c, parent, s, body)
          PROVE  minted'[b].txs \in Seq(Tx)
      <3>1. minted' = [h \in DOMAIN minted \cup {c} |->
                         IF h = c
                         THEN Block(minted[parent].height + 1, parent, s, Elect(s, parent), body)
                         ELSE minted[h]]
        BY <2>2 DEF RemoteMint
      <3> QED BY <3>1, NodeAssumption DEF Block, TypeInv, BodiesTyped
    <2>3. CASE UNCHANGED minted
      BY <2>3 DEF TypeInv, BodiesTyped
    <2> QED BY <2>1, <2>2, <2>3, WhoWrites
  <1>2. ASSUME At("ticker", "insert")' PROVE task'["ticker"].body \in Seq(Tx)
    <2>1. CASE task'["ticker"] = task["ticker"]
      BY <1>2, <2>1 DEF At, TypeInv, BodiesTyped
    <2>2. CASE DrainPool
      <3>1. PICK body \in Pool!Drain(MaxTxs) :
               task' = [task EXCEPT !["ticker"].pc = "insert", !["ticker"].body = body]
        BY <2>2 DEF DrainPool
      <3>2. task'["ticker"].body = body
        BY <3>1, OwnTask DEF NodeInv, TasksShaped, IsTask
      <3> QED BY <3>2, DrainTyped DEF TypeInv
    <2>3. ASSUME NEW b \in FreshHash, ProposeInsert(b) PROVE FALSE
      <3>1. task'["ticker"].pc = "sentinel"
        BY <2>3, OwnTask DEF ProposeInsert, NodeInv, TasksShaped, IsTask
      <3> QED BY <1>2, <3>1 DEF At
    <2> QED BY <1>2, <2>1, <2>2, <2>3, TickerMoves DEF At
  <1> QED BY <1>1, <1>2 DEF BodiesTyped

\* Blocks stay published.
LEMMA MintedStays ==
  ASSUME NodeInv, [Next]_vars
  PROVE  MintedKept
  <1>1. ASSUME NEW b \in FreshHash, ProposeInsert(b) PROVE MintedKept
    BY <1>1 DEF ProposeInsert, MintedKept, FreshHash
  <1>2. ASSUME NEW b \in FreshHash, NEW parent, NEW s, NEW body, RemoteMint(b, parent, s, body)
        PROVE  MintedKept
    BY <1>2 DEF RemoteMint, MintedKept, FreshHash
  <1>3. CASE UNCHANGED minted
    BY <1>3 DEF MintedKept
  <1> QED BY <1>1, <1>2, <1>3, WhoWrites

\* The ticker's block and the tip to fall back to.
LEMMA HandsStep ==
  ASSUME NodeInv, TypeInv, [Next]_vars
  PROVE  HandsTyped'
  <1>1. MintedKept
    BY MintedStays
  <1>2. ASSUME task'["ticker"].pc \in {"sentinel", "apply", "clear", "remove"}
        PROVE  task'["ticker"].block \in DOMAIN minted'
    <2>1. CASE task'["ticker"] = task["ticker"]
      BY <1>1, <1>2, <2>1 DEF TypeInv, HandsTyped, MintedKept
    <2>2. CASE DrainPool
      <3>1. task'["ticker"].pc = "insert"
        BY <2>2, OwnTask DEF DrainPool, NodeInv, TasksShaped, IsTask
      <3> QED BY <1>2, <3>1
    <2>3. ASSUME NEW b \in FreshHash, ProposeInsert(b) PROVE task'["ticker"].block \in DOMAIN minted'
      <3>1. task'["ticker"].block = b
        BY <2>3, OwnTask DEF ProposeInsert, NodeInv, TasksShaped, IsTask
      <3>2. b \in DOMAIN minted'
        BY <2>3 DEF ProposeInsert
      <3> QED BY <3>1, <3>2
    <2>4. CASE task["ticker"].pc \in {"sentinel", "apply", "clear", "remove"}
               /\ task'["ticker"].block = task["ticker"].block
      BY <1>1, <2>4 DEF TypeInv, HandsTyped, MintedKept
    <2> QED BY <1>2, <2>1, <2>2, <2>3, <2>4, TickerMoves
  <1>3. ASSUME NEW p \in Peers, At(p, "unlink")' PROVE TipTyped(task'[p].new_tip)
    <2>1. CASE task'[p] = task[p]
      BY <1>3, <2>1 DEF At, TypeInv, HandsTyped
    <2>2. CASE ReadNewTip(p)
      <3> DEFINE h == minted[task[p].old].height
                 t == IF h = 0 \/ blocks_h[h - 1] = NoBlock THEN NoTip
                      ELSE [height |-> h - 1, hash |-> blocks_h[h - 1]]
      <3>1. task'[p].new_tip = t
        BY <2>2, PeerTask DEF ReadNewTip, NodeInv, TasksShaped, IsTask
      <3>2. task[p].old \in DOMAIN minted
        BY <2>2, PeerTask DEF ReadNewTip, At, NodeInv, TasksKnow, TaskKnows
      <3>3. h \in Height
        BY <3>2 DEF NodeInv, MintedTyped
      <3>4. h # 0 => h - 1 \in Height
        BY <3>3, NodeAssumption DEF Height
      <3>5. TipTyped(t)
        BY <3>4 DEF TipTyped, NodeInv, TreesTyped
      <3> HIDE DEF t
      <3> QED BY <3>1, <3>5
    <2> QED BY <1>3, <2>1, <2>2, UnlinkComes
  <1>4. ASSUME At("ticker", "elect")'
        PROVE  task'["ticker"].slot \in 1..MaxSlot + 1 /\ task'["ticker"].hash \in Hash
    <2>1. CASE task'["ticker"] = task["ticker"]
      BY <1>4, <2>1 DEF At, TypeInv, HandsTyped
    <2>2. CASE tip # NoTip /\ task'["ticker"].slot = slot /\ task'["ticker"].hash = tip.hash
      BY <2>2 DEF TypeInv, Clocked, TipTyped
    <2>3. CASE DrainPool
      <3>1. task'["ticker"].pc = "insert"
        BY <2>3, OwnTask DEF DrainPool, NodeInv, TasksShaped, IsTask
      <3> QED BY <1>4, <3>1 DEF At
    <2>4. ASSUME NEW b \in FreshHash, ProposeInsert(b) PROVE FALSE
      <3>1. task'["ticker"].pc = "sentinel"
        BY <2>4, OwnTask DEF ProposeInsert, NodeInv, TasksShaped, IsTask
      <3> QED BY <1>4, <3>1 DEF At
    <2> QED BY <1>4, <2>1, <2>2, <2>3, <2>4, TickerMoves DEF At
  <1> QED BY <1>2, <1>3, <1>4 DEF HandsTyped, TipTyped

\* A task about to write a height or coins holds a published block.
LEMMA BlockInHand ==
  ASSUME NodeInv, TypeInv, NEW i \in Tasks, task[i].pc \in {"sentinel", "apply", "clear", "remove"}
  PROVE  task[i].block \in DOMAIN minted /\ minted[task[i].block].height \in Height
         /\ minted[task[i].block].txs \in Seq(Tx)
  <1>1. task[i].block \in DOMAIN minted
    <2>1. CASE i = "ticker"
      BY <2>1 DEF TypeInv, HandsTyped
    <2>2. CASE i # "ticker"
      BY <2>2 DEF NodeInv, TasksKnow, TaskKnows
    <2> QED BY <2>1, <2>2
  <1> QED BY <1>1 DEF NodeInv, MintedTyped, TypeInv, BodiesTyped

\* Coins and undo records, through apply_block and rollback_block.
LEMMA CoinsStep ==
  ASSUME NodeInv, TypeInv, [Next]_vars
  PROVE  CoinsTyped'
  <1> DEFINE st == [utxo |-> utxo, spent |-> spent]
  <1>0. Height \subseteq Nat
    BY NodeAssumption DEF Height
  <1>1. st \in Stores /\ st.spent \subseteq Height \X TxOutRef
    BY <1>0 DEF TypeInv, CoinsTyped, Stores
  <1>2. ASSUME NEW h \in Height, NEW body \in Seq(Tx)
        PROVE  /\ ApplyBlock(h, body, st).utxo \subseteq TxOutRef
               /\ ApplyBlock(h, body, st).spent \subseteq Height \X TxOutRef
               /\ RollbackBlock(h, body, st).utxo \subseteq TxOutRef
               /\ RollbackBlock(h, body, st).spent \subseteq Height \X TxOutRef
    <2> HIDE DEF st
    <2>1. ApplyBlock(h, body, st) \in Stores /\ RollbackBlock(h, body, st) \in Stores
      BY <1>0, <1>1, BlockTyped
    <2>2. {h} \X TxOutRef \subseteq Height \X TxOutRef
      OBVIOUS
    <2>3. /\ ApplyBlock(h, body, st).spent \subseteq Height \X TxOutRef
          /\ RollbackBlock(h, body, st).spent \subseteq Height \X TxOutRef
      BY <1>0, <1>1, <2>2, BlockRecords
    <2> QED BY <2>1, <2>3 DEF Stores
  <1>3. ASSUME NEW i \in Tasks, ApplyUtxo(i) PROVE CoinsTyped'
    <2>1. minted[task[i].block].height \in Height /\ minted[task[i].block].txs \in Seq(Tx)
      BY <1>3, BlockInHand DEF ApplyUtxo, At
    <2> QED BY <1>2, <1>3, <2>1 DEF ApplyUtxo, CoinsTyped
  <1>4. ASSUME NEW p \in Peers, RollbackUtxo(p) PROVE CoinsTyped'
    <2>1. task[p].old \in DOMAIN minted
      BY <1>4, PeerTask DEF RollbackUtxo, At, NodeInv, TasksKnow, TaskKnows
    <2>2. minted[task[p].old].height \in Height /\ minted[task[p].old].txs \in Seq(Tx)
      BY <2>1 DEF NodeInv, MintedTyped, TypeInv, BodiesTyped
    <2> QED BY <1>2, <1>4, <2>2 DEF RollbackUtxo, CoinsTyped
  <1>5. CASE UNCHANGED utxoVars
    BY <1>5 DEF utxoVars, TypeInv, CoinsTyped
  <1> QED BY <1>3, <1>4, <1>5, WhoWrites

\* The tip, the sentinel and the validator set.
LEMMA MetaStep ==
  ASSUME NodeInv, TypeInv, [Next]_vars
  PROVE  TipTyped(tip)' /\ sentinel' \in Height \cup {NoBlock} /\ validators' \in BOOLEAN
  <1>1. TipTyped(tip)'
    <2>1. ASSUME NEW i \in Tasks, Insert(i) PROVE TipTyped(tip')
      <3>1. task[i].block \in DOMAIN minted
        BY <2>1 DEF Insert, At, NodeInv, TasksKnow, TaskKnows
      <3>2. task[i].block \in Hash /\ minted[task[i].block].height \in Height
        BY <3>1 DEF NodeInv, MintedTyped
      <3> QED BY <2>1, <3>2 DEF Insert, Put, TipTyped
    <2>2. ASSUME NEW b \in FreshHash, ProposeInsert(b) PROVE TipTyped(tip')
      <3>1. task["ticker"].height \in Height /\ task["ticker"].height < MaxHeight
        BY <2>2, OwnTask DEF ProposeInsert, At, NodeInv, TasksKnow, TaskKnows
      <3>2. task["ticker"].height + 1 \in Height /\ b \in Hash
        BY <3>1, NodeAssumption DEF Height, FreshHash, Hash
      <3> QED BY <2>2, <3>2 DEF ProposeInsert, Put, TipTyped
    <2>3. ASSUME NEW p \in Peers, Unlink(p) PROVE TipTyped(tip')
      BY <2>3 DEF Unlink, TypeInv, HandsTyped
    <2>4. CASE UNCHANGED chainVars
      BY <2>4 DEF chainVars, TypeInv
    <2>5. TipTyped(tip')
      BY <2>1, <2>2, <2>3, <2>4, WhoWrites DEF chainVars, TypeInv
    <2> QED BY <2>5 DEF TipTyped
  <1>2. sentinel' \in Height \cup {NoBlock}
    <2>1. ASSUME NEW i \in Tasks, WriteSentinel(i) PROVE sentinel' \in Height
      BY <2>1, BlockInHand DEF WriteSentinel, At
    <2>2. ASSUME NEW i \in Tasks, ClearSentinel(i) PROVE sentinel' = NoBlock
      BY <2>2 DEF ClearSentinel
    <2> QED BY <2>1, <2>2, WhoWrites DEF TypeInv
  <1>3. validators' \in BOOLEAN
    BY WhoWrites DEF InstallValidators, TypeInv
  <1> QED BY <1>1, <1>2, <1>3

\* Types hold when the node is first started.
LEMMA TypesStart == ASSUME Init PROVE TypeInv
  <1>1. Clocked
    BY NodeAssumption DEF Init, Clocked
  <1>2. \A i \in Tasks : task[i].pc \in {"idle", "boot"}
    BY DEF Init, Idle
  <1>3. HandsTyped /\ ~At("ticker", "insert")
    BY <1>2, OwnTask, PeerTask DEF HandsTyped, At
  <1>4. BodiesTyped
    BY <1>3, NodeAssumption DEF Init, BodiesTyped, Block
  <1>5. Pool!TypeOK
    BY DEF Init, Pool!TypeOK
  <1> QED BY <1>1, <1>3, <1>4, <1>5 DEF Init, TypeInv, CoinsTyped, TipTyped

\* Both invariants hold in every reachable state of a node.
THEOREM NodeTypes == Spec => [](NodeInv /\ TypeInv)
  <1>1. Init => NodeInv /\ TypeInv
    BY NodeStart, TypesStart
  <1>2. ASSUME NodeInv, TypeInv, [Next]_vars PROVE (NodeInv /\ TypeInv)'
    <2>1. Clocked'
      BY <1>2, ClockedStep DEF TypeInv
    <2>2. Pool!TypeOK'
      BY <1>2, PoolTyped DEF TypeInv
    <2> QED BY <1>2, <2>1, <2>2, NodeStep, BodiesStep, HandsStep, CoinsStep, MetaStep DEF TypeInv
  <1>3. NodeInv /\ TypeInv /\ [Next]_vars => (NodeInv /\ TypeInv)'
    BY <1>2
  <1> QED BY <1>1, <1>3, PTL DEF Spec

\* The state of a node always has its type, whatever its tasks interleave and
\* wherever it crashed: the heights and tips a task carries from one step to a
\* later write are still heights and tips then.
THEOREM NodeTypeCorrect == Spec => []TypeOK
  <1>1. NodeInv /\ TypeInv => TypeOK
    <2> SUFFICES ASSUME NodeInv, TypeInv PROVE TypeOK
      OBVIOUS
    <2>1. slot \in 0..MaxSlot + 1
      BY NodeAssumption DEF TypeInv, Clocked
    <2>2. DOMAIN task = Tasks
      BY DEF NodeInv, TasksShaped
    <2> QED BY <2>1, <2>2 DEF TypeOK, NodeInv, MintedTyped, TreesTyped, TypeInv, Clocked, CoinsTyped, TipTyped
  <1> QED BY <1>1, NodeTypes, PTL

-----------------------------------------------------------------------------
(***************************************************************************)
(* A node with one connection that is not elected handles one block at a   *)
(* time, and then the chain it stores is what module Chain promises, with  *)
(* any number of forks and crashes.  Module Node's other runs show how     *)
(* each of the two hypotheses fails.                                       *)
(*                                                                         *)
(* The invariant says, for every step of a handler, how the values it read *)
(* still relate to the trees: the tip it read is the tip, the block it     *)
(* evicts is the tip's, the tip it falls back to is the block below.       *)
(***************************************************************************)

\* One connection at most, and no proposals of its own.
Serial ==
    /\ \A p, q \in Peers : p = q
    /\ \A s \in 1..MaxSlot + 1, parent \in Hash : Elect(s, parent) # Me

\* Genesis is the only block without a parent.
Rooted == \A b \in DOMAIN minted : minted[b].height = 0 <=> b = Genesis

\* The store holds one block for each height up to the tip, and no others.
StoredToTip ==
    /\ tip \in {NoTip} \cup [height : Height, hash : Hash]
    /\ \A h \in Height : blocks_h[h] # NoBlock <=> h <= tip.height
    /\ tip # NoTip => blocks_h[tip.height] = tip.hash

\* Every entry of the hash index leads to its block.
IndexExact == \A b \in Hash : blocks_idx[b] # NoBlock => blocks_h[blocks_idx[b]] = b

MainKnows(r) ==
    /\ r.pc \in {"boot", "insert", "sentinel", "apply", "clear", "validators", "run"}
    /\ r.pc \in {"sentinel", "apply", "clear", "validators", "run"} => tip # NoTip
    /\ r.pc = "insert" => tip = NoTip /\ r.block = Genesis

\* A block on top of the tip.
Extends(b) == minted[b].height = tip.height + 1 /\ minted[b].prev = tip.hash

\* A sibling of the tip with a lower hash.
Challenges(b) ==
    /\ tip.height > 0
    /\ minted[b].height = tip.height /\ b < tip.hash
    /\ minted[b].prev = blocks_h[tip.height - 1]

PeerKnows(r) ==
    /\ r.pc \in {"idle", "tip", "parent", "validate", "insert",
                 "fork_parent", "fork_validate", "current", "rollback", "new_tip", "unlink",
                 "reinsert", "sentinel", "apply", "clear", "remove"}
    /\ r.pc \in {"parent", "validate", "fork_parent", "fork_validate", "current"} =>
          r.height = tip.height
    /\ r.pc \in {"parent", "validate"} => minted[r.block].height = tip.height + 1
    /\ r.pc = "fork_parent" => minted[r.block].height = tip.height /\ r.block < tip.hash
    /\ r.pc = "validate" => r.hash = tip.hash
    /\ r.pc \in {"insert", "reinsert"} => Extends(r.block)
    /\ r.pc \in {"fork_validate", "current", "rollback", "new_tip", "unlink"} => Challenges(r.block)
    /\ r.pc \in {"rollback", "new_tip", "unlink"} => r.old = tip.hash
    /\ r.pc = "unlink" =>
          r.new_tip = [height |-> tip.height - 1, hash |-> blocks_h[tip.height - 1]]
    /\ r.pc = "reinsert" => r.old \in Hash /\ r.block < r.old

SerialInv ==
    /\ Rooted
    /\ StoredToTip
    /\ ChainLinked
    /\ IndexExact
    /\ MainKnows(task["main"])
    /\ task["ticker"].pc \in {"idle", "elect"}
    /\ \A p \in Peers : PeerKnows(task[p])
    /\ ~Running => \A p \in Peers : At(p, "idle")

-----------------------------------------------------------------------------
\* The others stay where they are when one task moves.
LEMMA Moved ==
  ASSUME TasksShaped, NEW i \in Tasks, NEW r, task' = [task EXCEPT ![i] = r]
  PROVE  task'[i] = r /\ \A j \in Tasks : j # i => task'[j] = task[j]
  BY DEF TasksShaped

\* A peer is at work only while main runs, and there is a tip then.
LEMMA AtWork ==
  ASSUME SerialInv, NEW p \in Peers, ~At(p, "idle") \/ Running
  PROVE  Running /\ tip \in [height : Height, hash : Hash] /\ tip # NoTip /\ tip.height >= 0
  <1>1. Running
    BY DEF SerialInv
  <1>2. tip # NoTip
    BY <1>1 DEF SerialInv, MainKnows, Running
  <1> QED BY <1>1, <1>2, NodeAssumption DEF SerialInv, StoredToTip, Height

\* A step of one task that writes neither the trees nor a block.
LEMMA SerialQuiet ==
  ASSUME NodeInv, SerialInv, UNCHANGED <<minted, chainVars>>,
         NEW i \in Tasks, NEW r, task' = [task EXCEPT ![i] = r],
         i = "main" => MainKnows(r) /\ ~Running,
         i = "ticker" => r.pc \in {"idle", "elect"},
         i \in Peers => PeerKnows(r) /\ Running
  PROVE  SerialInv'
  <1>1. task'[i] = r /\ \A j \in Tasks : j # i => task'[j] = task[j]
    BY Moved DEF NodeInv
  <1>2. \A s : (MainKnows(s) <=> MainKnows(s)') /\ (PeerKnows(s) <=> PeerKnows(s)')
    BY DEF MainKnows, PeerKnows, Extends, Challenges, chainVars
  <1>3. (Rooted /\ StoredToTip /\ ChainLinked /\ IndexExact)'
    BY DEF SerialInv, Rooted, StoredToTip, ChainLinked, IndexExact, chainVars
  <1>4. MainKnows(task["main"])'
    BY <1>1, <1>2, OwnTask DEF SerialInv
  <1>5. task'["ticker"].pc \in {"idle", "elect"}
    BY <1>1, OwnTask DEF SerialInv
  <1>6. ASSUME NEW p \in Peers PROVE PeerKnows(task[p])'
    BY <1>1, <1>2, PeerTask DEF SerialInv
  <1>7. ~Running' => \A p \in Peers : At(p, "idle")'
    <2>1. CASE i = "main"
      BY <1>1, <2>1, PeerTask DEF SerialInv, At
    <2>2. CASE i = "ticker"
      BY <1>1, <2>2, PeerTask, OwnTask DEF SerialInv, At, Running
    <2>3. CASE i \in Peers
      BY <1>1, <2>3, PeerTask, OwnTask DEF Running
    <2> QED BY <2>1, <2>2, <2>3 DEF Tasks
  <1> QED BY <1>3, <1>4, <1>5, <1>6, <1>7 DEF SerialInv

\* A task that returns holds nothing.
LEMMA SerialReturn ==
  ASSUME NodeInv, SerialInv, UNCHANGED <<minted, chainVars>>, NEW p \in Peers, Return(p),
         ~At(p, "idle")
  PROVE  SerialInv'
  <1>1. PeerKnows(Idle)
    BY DEF Idle, PeerKnows
  <1>2. task' = [task EXCEPT ![p] = Idle]
    BY DEF Return
  <1>3. Running
    BY AtWork
  <1> QED BY <1>1, <1>2, <1>3, PeerTask, SerialQuiet

\* dispatch up to the parent's lookup.
LEMMA SerialReadTip ==
  ASSUME NodeInv, SerialInv, NEW p \in Peers,
         (\E b \in DOMAIN minted : Receive(p, b)) \/ ReadTip(p)
  PROVE  SerialInv'
  <1>0. UNCHANGED <<minted, chainVars>>
    BY DEF Receive, ReadTip, envVars
  <1>a. IsTask(task[p]) /\ PeerKnows(task[p])
    BY PeerTask DEF NodeInv, TasksShaped, SerialInv
  <1>1. ASSUME NEW b \in DOMAIN minted, Receive(p, b) PROVE SerialInv'
    <2> DEFINE r == [Idle EXCEPT !.pc = "tip", !.block = b]
    <2>1. task' = [task EXCEPT ![p] = r] /\ Running
      BY <1>1 DEF Receive
    <2>2. r.pc = "tip"
      BY DEF Idle
    <2>3. PeerKnows(r)
      BY <2>2 DEF PeerKnows
    <2> HIDE DEF r
    <2> QED BY <1>0, <2>1, <2>3, PeerTask, SerialQuiet
  <1>2. CASE ReadTip(p)
    <2> DEFINE b == task[p].block
               r(pc) == [task[p] EXCEPT !.pc = pc, !.height = tip.height]
    <2>0. ~At(p, "idle") /\ Running /\ tip # NoTip
      <3>1. ~At(p, "idle")
        BY <1>2 DEF ReadTip, At
      <3> QED BY <3>1, AtWork
    <2>1. \/ Return(p)
          \/ minted[b].height = tip.height + 1 /\ task' = [task EXCEPT ![p] = r("parent")]
          \/ minted[b].height = tip.height /\ b < tip.hash
                /\ task' = [task EXCEPT ![p] = r("fork_parent")]
      BY <1>2, <2>0 DEF ReadTip
    <2>2. ASSUME NEW pc
          PROVE  r(pc).pc = pc /\ r(pc).block = b /\ r(pc).height = tip.height
      BY <1>a DEF IsTask
    <2> HIDE DEF r
    <2>3. ASSUME minted[b].height = tip.height + 1 PROVE PeerKnows(r("parent"))
      BY <2>2, <2>3 DEF PeerKnows
    <2>4. ASSUME minted[b].height = tip.height, b < tip.hash PROVE PeerKnows(r("fork_parent"))
      BY <2>2, <2>4 DEF PeerKnows
    <2> HIDE DEF b
    <2> QED BY <1>0, <2>0, <2>1, <2>3, <2>4, PeerTask, SerialQuiet, SerialReturn
  <1> QED BY <1>1, <1>2

\* A block at the height of genesis challenges nothing.
LEMMA ChallengedAboveGenesis ==
  ASSUME NodeInv, SerialInv, tip # NoTip, NEW b \in DOMAIN minted,
         minted[b].height = tip.height, b < tip.hash
  PROVE  tip.height > 0
  <1>1. tip.height \in Nat /\ tip.hash \in DOMAIN minted /\ minted[tip.hash].height = tip.height
    BY NodeAssumption DEF NodeInv, FiledByHeight, SerialInv, StoredToTip, Height
  <1>2. tip.height # 0
    BY <1>1 DEF SerialInv, Rooted, Genesis
  <1> QED BY <1>1, <1>2

\* dispatch's lookup of the parent, and validate_block.
LEMMA SerialValidate ==
  ASSUME NodeInv, SerialInv, NEW p \in Peers, ReadParent(p) \/ Validate(p)
  PROVE  SerialInv'
  <1> DEFINE b == task[p].block
             h == task[p].height
  <1>0. UNCHANGED <<minted, chainVars>>
    BY DEF ReadParent, Validate, envVars
  <1>a. IsTask(task[p]) /\ PeerKnows(task[p])
    BY PeerTask DEF NodeInv, TasksShaped, SerialInv
  <1>b. ~At(p, "idle") /\ Running /\ tip # NoTip /\ tip.height \in Nat
        /\ tip.height \in Height
    <2>1. ~At(p, "idle")
      BY DEF ReadParent, Validate, At
    <2> QED BY <2>1, AtWork, NodeAssumption DEF Height
  <1>c. b \in DOMAIN minted
    BY PeerTask DEF NodeInv, TasksKnow, TaskKnows, ReadParent, Validate, At
  <1>d. blocks_h[tip.height] = tip.hash
    BY <1>b DEF SerialInv, StoredToTip
  <1>1. CASE ReadParent(p) /\ At(p, "parent")
    <2> DEFINE r == [task[p] EXCEPT !.pc = "validate", !.hash = tip.hash]
    <2>1. h = tip.height /\ minted[b].height = tip.height + 1
      BY <1>a, <1>1 DEF PeerKnows, At
    <2>2. Return(p) \/ task' = [task EXCEPT ![p] = r]
      BY <1>1, <1>d, <2>1 DEF ReadParent, At
    <2>3. r.pc = "validate" /\ r.block = b /\ r.height = h /\ r.hash = tip.hash
      BY <1>a DEF IsTask
    <2> HIDE DEF r
    <2>4. PeerKnows(r)
      BY <2>1, <2>3 DEF PeerKnows
    <2> QED BY <1>0, <1>b, <2>2, <2>4, PeerTask, SerialQuiet, SerialReturn
  <1>2. CASE ReadParent(p) /\ At(p, "fork_parent")
    <2> DEFINE parent == blocks_h[tip.height - 1]
               r == [task[p] EXCEPT !.pc = "fork_validate", !.hash = parent]
    <2>1. h = tip.height /\ minted[b].height = tip.height /\ b < tip.hash
      BY <1>a, <1>2 DEF PeerKnows, At
    <2>2. tip.height > 0
      BY <1>b, <1>c, <2>1, ChallengedAboveGenesis
    <2>3. Return(p) \/ (minted[b].prev = parent /\ task' = [task EXCEPT ![p] = r])
      BY <1>2, <2>1, <2>2 DEF ReadParent, At
    <2>4. r.pc = "fork_validate" /\ r.block = b /\ r.height = h
      BY <1>a DEF IsTask
    <2> HIDE DEF r
    <2>5. ASSUME minted[b].prev = parent PROVE PeerKnows(r)
      BY <2>1, <2>2, <2>4, <2>5 DEF PeerKnows, Challenges
    <2> QED BY <1>0, <1>b, <2>3, <2>5, PeerTask, SerialQuiet, SerialReturn
  <1>3. CASE Validate(p)
    <2> DEFINE r(pc) == [task[p] EXCEPT !.pc = pc]
    <2>1. \/ Return(p)
          \/ At(p, "validate") /\ minted[b].prev = task[p].hash /\ task' = [task EXCEPT ![p] = r("insert")]
          \/ At(p, "fork_validate") /\ task' = [task EXCEPT ![p] = r("current")]
      BY <1>3 DEF Validate, Goto, ValidateBlock, At
    <2>2. ASSUME NEW pc PROVE r(pc).pc = pc /\ r(pc).block = b /\ r(pc).height = h
      BY <1>a DEF IsTask
    <2> HIDE DEF r
    <2>3. ASSUME At(p, "validate"), minted[b].prev = task[p].hash PROVE PeerKnows(r("insert"))
      <3>1. minted[b].height = tip.height + 1 /\ minted[b].prev = tip.hash
        BY <1>a, <2>3 DEF PeerKnows, At
      <3> QED BY <2>2, <3>1 DEF PeerKnows, Extends
    <2>4. ASSUME At(p, "fork_validate") PROVE PeerKnows(r("current"))
      <3>1. h = tip.height /\ Challenges(b)
        BY <1>a, <2>4 DEF PeerKnows, At
      <3> QED BY <2>2, <3>1 DEF PeerKnows
    <2> QED BY <1>0, <1>b, <2>1, <2>3, <2>4, PeerTask, SerialQuiet, SerialReturn
  <1> QED BY <1>1, <1>2, <1>3 DEF ReadParent

\* reorg_block up to the second transaction of rollback_block.
LEMMA SerialReorg ==
  ASSUME NodeInv, SerialInv, NEW p \in Peers, ReadCurrent(p) \/ RollbackUtxo(p) \/ ReadNewTip(p)
  PROVE  SerialInv'
  <1> DEFINE b == task[p].block
  <1>0. UNCHANGED <<minted, chainVars>>
    BY DEF ReadCurrent, RollbackUtxo, ReadNewTip, envVars
  <1>a. IsTask(task[p]) /\ PeerKnows(task[p])
    BY PeerTask DEF NodeInv, TasksShaped, SerialInv
  <1>b. /\ ~At(p, "idle") /\ Running /\ tip # NoTip /\ tip.height \in Height
        /\ blocks_h[tip.height] = tip.hash
    <2>1. ~At(p, "idle")
      BY DEF ReadCurrent, RollbackUtxo, ReadNewTip, At
    <2> QED BY <2>1, AtWork DEF SerialInv, StoredToTip
  <1>c. Challenges(b)
    BY <1>a DEF PeerKnows, ReadCurrent, RollbackUtxo, ReadNewTip, At
  <1>1. CASE ReadCurrent(p)
    <2> DEFINE r == [task[p] EXCEPT !.pc = "rollback", !.old = tip.hash]
    <2>1. task[p].height = tip.height
      BY <1>a, <1>1 DEF PeerKnows, ReadCurrent, At
    <2>2. Return(p) \/ task' = [task EXCEPT ![p] = r]
      BY <1>1, <1>b, <2>1 DEF ReadCurrent
    <2>3. r.pc = "rollback" /\ r.block = b /\ r.old = tip.hash
      BY <1>a DEF IsTask
    <2> HIDE DEF r
    <2>4. PeerKnows(r)
      BY <1>c, <2>3 DEF PeerKnows
    <2> QED BY <1>0, <1>b, <2>2, <2>4, PeerTask, SerialQuiet, SerialReturn
  <1>2. CASE RollbackUtxo(p)
    <2> DEFINE r == [task[p] EXCEPT !.pc = "new_tip"]
    <2>1. task' = [task EXCEPT ![p] = r]
      BY <1>2 DEF RollbackUtxo, Goto
    <2>2. task[p].old = tip.hash
      BY <1>a, <1>2 DEF PeerKnows, RollbackUtxo, At
    <2>3. r.pc = "new_tip" /\ r.block = b /\ r.old = tip.hash
      BY <1>a, <2>2 DEF IsTask
    <2> HIDE DEF r
    <2>4. PeerKnows(r)
      BY <1>c, <2>3 DEF PeerKnows
    <2> QED BY <1>0, <1>b, <2>1, <2>4, PeerTask, SerialQuiet
  <1>3. CASE ReadNewTip(p)
    <2> DEFINE below == [height |-> tip.height - 1, hash |-> blocks_h[tip.height - 1]]
               r == [task[p] EXCEPT !.pc = "unlink", !.new_tip = below]
    <2>1. task[p].old = tip.hash
      BY <1>a, <1>3 DEF PeerKnows, ReadNewTip, At
    <2>2. minted[tip.hash].height = tip.height
      BY <1>b DEF NodeInv, FiledByHeight
    <2>3. tip.height > 0 /\ blocks_h[tip.height - 1] # NoBlock
      <3>1. tip.height > 0 /\ tip.height - 1 \in Height /\ tip.height - 1 <= tip.height
        BY <1>b, <1>c, NodeAssumption DEF Challenges, Height
      <3> QED BY <3>1 DEF SerialInv, StoredToTip
    <2>4. task' = [task EXCEPT ![p] = r]
      <3> DEFINE h == minted[task[p].old].height
                 t == IF h = 0 \/ blocks_h[h - 1] = NoBlock THEN NoTip
                      ELSE [height |-> h - 1, hash |-> blocks_h[h - 1]]
      <3>1. h = tip.height /\ h # 0
        BY <1>b, <2>1, <2>2, <2>3, NodeAssumption DEF Height
      <3>2. t = below
        BY <2>3, <3>1
      <3>3. task' = [task EXCEPT ![p] = [task[p] EXCEPT !.pc = "unlink", !.new_tip = t]]
        BY <1>3 DEF ReadNewTip
      <3> HIDE DEF t, below
      <3> QED BY <3>2, <3>3
    <2>5. r.pc = "unlink" /\ r.block = b /\ r.old = tip.hash /\ r.new_tip = below
      BY <1>a, <2>1 DEF IsTask
    <2> HIDE DEF r
    <2>6. PeerKnows(r)
      BY <1>c, <2>5 DEF PeerKnows
    <2> QED BY <1>0, <1>b, <2>4, <2>6, PeerTask, SerialQuiet
  <1> QED BY <1>1, <1>2, <1>3

-----------------------------------------------------------------------------
\* The tail of every update: the crash sentinel, the coins and the pool.
LEMMA SerialTail ==
  ASSUME NodeInv, SerialInv, NEW i \in Tasks,
         WriteSentinel(i) \/ ApplyUtxo(i) \/ ClearSentinel(i) \/ RemoveFromPool(i)
  PROVE  SerialInv'
  <1>0. UNCHANGED <<minted, chainVars>>
    BY DEF WriteSentinel, ApplyUtxo, ClearSentinel, RemoveFromPool, envVars
  <1>a. IsTask(task[i])
    BY DEF NodeInv, TasksShaped
  <1>b. task[i].pc \in {"sentinel", "apply", "clear", "remove"}
    BY DEF WriteSentinel, ApplyUtxo, ClearSentinel, RemoveFromPool, At
  <1> DEFINE r(pc) == [task[i] EXCEPT !.pc = pc]
  <1>c. \A pc : r(pc).pc = pc /\ r(pc).block = task[i].block
    BY <1>a DEF IsTask
  <1>1. \/ Return(i) /\ task[i].pc = "remove"
        \/ \E pc \in {"apply", "clear"} : task' = [task EXCEPT ![i] = r(pc)]
        \/ i # "main" /\ task' = [task EXCEPT ![i] = r("remove")]
        \/ i = "main" /\ task' = [task EXCEPT ![i] = r("validators")]
    BY DEF WriteSentinel, ApplyUtxo, ClearSentinel, RemoveFromPool, Goto, At
  <1> HIDE DEF r
  <1>2. CASE i = "main"
    <2>1. ~Running /\ tip # NoTip /\ task[i].pc # "remove"
      BY <1>2, <1>b DEF SerialInv, MainKnows, Running
    <2>2. \A pc \in {"apply", "clear", "validators"} : MainKnows(r(pc))
      BY <1>c, <2>1 DEF MainKnows
    <2> QED BY <1>0, <1>1, <1>2, <2>1, <2>2, PeerTask, OwnTask, SerialQuiet
  <1>3. CASE i = "ticker"
    BY <1>3, <1>b DEF SerialInv
  <1>4. CASE i \in Peers
    <2>1. ~At(i, "idle")
      BY <1>b DEF At
    <2>2. Running
      BY <1>4, <2>1, AtWork
    <2>3. \A pc \in {"apply", "clear", "remove"} : PeerKnows(r(pc))
      BY <1>c DEF PeerKnows
    <2> QED BY <1>0, <1>1, <1>4, <2>1, <2>2, <2>3, PeerTask, SerialQuiet, SerialReturn
  <1> QED BY <1>2, <1>3, <1>4 DEF Tasks

\* apply_genesis up to its insert, and its end.
LEMMA SerialBoot ==
  ASSUME NodeInv, SerialInv, BootCheck \/ InstallValidators
  PROVE  SerialInv'
  <1> DEFINE up  == [Idle EXCEPT !.pc = "run"]
             gen == [Idle EXCEPT !.pc = "insert", !.block = Genesis]
  <1>0. UNCHANGED <<minted, chainVars>>
    BY DEF BootCheck, InstallValidators, envVars
  <1>1. ~Running
    BY DEF BootCheck, InstallValidators, At, Running
  <1>2. up.pc = "run" /\ gen.pc = "insert" /\ gen.block = Genesis
    BY DEF Idle
  <1>3. \/ task' = [task EXCEPT !["main"] = up] /\ (blocks_h[0] # NoBlock \/ At("main", "validators"))
        \/ task' = [task EXCEPT !["main"] = gen] /\ blocks_h[0] = NoBlock
    BY DEF BootCheck, InstallValidators
  <1> HIDE DEF up, gen
  <1>4. 0 \in Height /\ tip.height \in Height \cup {NoBlock} /\ (tip.height = NoBlock <=> tip = NoTip)
    BY NodeAssumption DEF SerialInv, StoredToTip, NoTip, NoBlock, Height
  <1>5. blocks_h[0] # NoBlock <=> tip # NoTip
    BY <1>4, NodeAssumption DEF SerialInv, StoredToTip, Height, NoBlock
  <1>6. ASSUME blocks_h[0] # NoBlock \/ At("main", "validators") PROVE MainKnows(up)
    <2>1. tip # NoTip
      BY <1>5, <1>6 DEF SerialInv, MainKnows, At
    <2> QED BY <1>2, <2>1 DEF MainKnows
  <1>7. ASSUME blocks_h[0] = NoBlock PROVE MainKnows(gen)
    BY <1>2, <1>5, <1>7 DEF MainKnows
  <1> QED BY <1>0, <1>1, <1>3, <1>6, <1>7, OwnTask, PeerTask, SerialQuiet

\* Steps that touch neither blocks nor tasks.
LEMMA SerialElsewhere ==
  ASSUME SerialInv, UNCHANGED <<minted, chainVars, task>>
  PROVE  SerialInv'
  BY DEF SerialInv, Rooted, StoredToTip, ChainLinked, IndexExact, chainVars,
         MainKnows, PeerKnows, Extends, Challenges, Running, At

\* The ticker of a node that is never elected.
LEMMA SerialTicker ==
  ASSUME Serial, NodeInv, TypeInv, SerialInv,
         Tick \/ ElectMe \/ DrainPool \/ \E b \in FreshHash : ProposeInsert(b)
  PROVE  SerialInv' /\ (Tick \/ ElectMe)
  <1> DEFINE r == [Idle EXCEPT !.pc = "elect", !.slot = slot,
                               !.height = tip.height, !.hash = tip.hash]
  <1>1. Tick \/ ElectMe
    BY DEF SerialInv, DrainPool, ProposeInsert, At
  <1>2. UNCHANGED <<minted, chainVars>>
    BY <1>1 DEF Tick, ElectMe, envVars
  <1>3. \/ UNCHANGED task
        \/ task' = [task EXCEPT !["ticker"] = r]
        \/ task' = [task EXCEPT !["ticker"] = Idle]
    BY <1>1 DEF Tick, ElectMe, Return, At, Serial, TypeInv, HandsTyped
  <1>4. r.pc = "elect" /\ Idle.pc = "idle"
    BY DEF Idle
  <1> HIDE DEF r
  <1>5. CASE UNCHANGED task
    BY <1>1, <1>2, <1>5, SerialElsewhere
  <1>7. CASE task' = [task EXCEPT !["ticker"] = r]
    <2>1. SerialInv'
      BY <1>2, <1>4, <1>7, OwnTask, PeerTask, SerialQuiet
    <2> QED BY <1>1, <2>1
  <1>8. CASE task' = [task EXCEPT !["ticker"] = Idle]
    <2>1. SerialInv'
      BY <1>2, <1>4, <1>8, OwnTask, PeerTask, SerialQuiet
    <2> QED BY <1>1, <2>1
  <1> QED BY <1>1, <1>3, <1>5, <1>7, <1>8

\* Another validator publishes a block.
LEMMA SerialMint ==
  ASSUME NodeInv, SerialInv, NEW b \in FreshHash, NEW parent \in DOMAIN minted, NEW s, NEW body,
         RemoteMint(b, parent, s, body)
  PROVE  SerialInv'
  <1> DEFINE blk == Block(minted[parent].height + 1, parent, s, Elect(s, parent), body)
  <1>1. /\ minted' = [h \in DOMAIN minted \cup {b} |-> IF h = b THEN blk ELSE minted[h]]
        /\ UNCHANGED <<chainVars, task>>
    BY DEF RemoteMint
  <1>2. blk.height = minted[parent].height + 1 /\ minted[parent].height \in Nat
    BY NodeAssumption DEF Block, NodeInv, MintedTyped, Height
  <1>3. b # Genesis /\ b \notin DOMAIN minted
    BY NodeAssumption DEF FreshHash, Genesis
  <1> HIDE DEF blk
  <1>4. MintedKept
    BY <1>1, <1>3 DEF MintedKept
  <1>5. Rooted'
    <2>1. minted'[b].height # 0
      BY <1>1, <1>2
    <2>2. \A c \in DOMAIN minted' : c = b \/ c \in DOMAIN minted
      BY <1>1
    <2> QED BY <1>3, <1>4, <2>1, <2>2 DEF SerialInv, Rooted, MintedKept
  <1>6. StoredToTip' /\ IndexExact' /\ MainKnows(task["main"])'
        /\ task'["ticker"].pc \in {"idle", "elect"}
        /\ (~Running' => \A p \in Peers : At(p, "idle")')
    BY <1>1 DEF SerialInv, StoredToTip, IndexExact, MainKnows, chainVars, Running, At
  <1>7. ChainLinked'
    <2> SUFFICES ASSUME NEW h \in Height \ {0}, blocks_h'[h] # NoBlock
                 PROVE  blocks_h'[h - 1] # NoBlock /\ minted'[blocks_h'[h]].prev = blocks_h'[h - 1]
      BY DEF ChainLinked
    <2>1. blocks_h[h] # NoBlock /\ UNCHANGED blocks_h
      BY <1>1 DEF chainVars
    <2>2. blocks_h[h] \in DOMAIN minted
      BY <2>1 DEF NodeInv, FiledByHeight
    <2> QED BY <1>4, <2>1, <2>2 DEF SerialInv, ChainLinked, MintedKept
  <1>8. ASSUME NEW p \in Peers PROVE PeerKnows(task[p])'
    <2> DEFINE r == task[p]
    <2>1. UNCHANGED <<blocks_h, tip>> /\ task'[p] = r
      BY <1>1 DEF chainVars
    <2>2. PeerKnows(r)
      BY DEF SerialInv
    <2>3. r.pc # "idle" => r.block \in DOMAIN minted /\ minted'[r.block] = minted[r.block]
      <3>1. r.pc # "idle" => r.pc \notin {"idle", "boot", "run", "validators"}
        BY <2>2 DEF PeerKnows
      <3> QED BY <1>4, <3>1, PeerTask DEF NodeInv, TasksKnow, TaskKnows, MintedKept
    <2> HIDE DEF r
    <2>4. CASE r.pc = "idle"
      BY <2>1, <2>4 DEF PeerKnows
    <2>5. CASE r.pc # "idle"
      BY <2>1, <2>2, <2>3, <2>5 DEF PeerKnows, Extends, Challenges
    <2> QED BY <2>4, <2>5
  <1> QED BY <1>5, <1>6, <1>7, <1>8 DEF SerialInv

\* A crash forgets the tasks and keeps the trees, which are in order at every
\* step.
LEMMA SerialCrash ==
  ASSUME SerialInv, Crash
  PROVE  SerialInv'
  <1> DEFINE boot == [Idle EXCEPT !.pc = "boot"]
  <1>1. UNCHANGED <<minted, chainVars>> /\ task' = [i \in Tasks |-> IF i = "main" THEN boot ELSE Idle]
    BY DEF Crash
  <1>2. boot.pc = "boot" /\ Idle.pc = "idle"
    BY DEF Idle
  <1> HIDE DEF boot
  <1>3. task'["main"] = boot /\ task'["ticker"] = Idle /\ \A p \in Peers : task'[p] = Idle
    BY <1>1, OwnTask, PeerTask
  <1>4. MainKnows(task["main"])' /\ \A p \in Peers : PeerKnows(task[p])'
    BY <1>2, <1>3 DEF MainKnows, PeerKnows
  <1>5. (Rooted /\ StoredToTip /\ ChainLinked /\ IndexExact)'
    BY <1>1 DEF SerialInv, Rooted, StoredToTip, ChainLinked, IndexExact, chainVars
  <1> QED BY <1>2, <1>3, <1>4, <1>5 DEF SerialInv, At

-----------------------------------------------------------------------------
\* The second transaction of rollback_block takes off the tip and nothing else.
LEMMA SerialUnlink ==
  ASSUME Serial, NodeInv, SerialInv, NEW p \in Peers, Unlink(p)
  PROVE  /\ SerialInv'
         /\ tip' = [height |-> tip.height - 1, hash |-> blocks_h[tip.height - 1]]
         /\ tip.height > 0 /\ tip \in [height : Height, hash : Hash]
         /\ task[p].old = tip.hash
         /\ \A h \in Height : h # tip.height => blocks_h'[h] = blocks_h[h]
  <1> DEFINE b   == task[p].block
             old == task[p].old
             n   == tip.height
             r   == [task[p] EXCEPT !.pc = "reinsert"]
  <1>a. IsTask(task[p]) /\ PeerKnows(task[p])
    BY PeerTask DEF NodeInv, TasksShaped, SerialInv
  <1>b. Running /\ tip # NoTip /\ n \in Height /\ blocks_h[n] = tip.hash
        /\ tip \in [height : Height, hash : Hash]
    <2>1. ~At(p, "idle")
      BY DEF Unlink, At
    <2> QED BY <2>1, AtWork DEF SerialInv, StoredToTip
  <1>c. /\ Challenges(b) /\ old = tip.hash
        /\ task[p].new_tip = [height |-> n - 1, hash |-> blocks_h[n - 1]]
    BY <1>a DEF PeerKnows, Unlink, At
  <1>d. n > 0 /\ n - 1 \in Height /\ n \in Nat /\ blocks_h[n - 1] \in Hash /\ tip.hash \in Hash
    <2>1. n > 0 /\ n - 1 \in Height /\ n \in Nat /\ n - 1 <= n
      BY <1>b, <1>c, NodeAssumption DEF Challenges, Height
    <2>2. blocks_h[n - 1] # NoBlock
      BY <2>1 DEF SerialInv, StoredToTip
    <2> QED BY <1>b, <2>1, <2>2 DEF NodeInv, TreesTyped
  <1>e. minted[tip.hash].height = n /\ tip.hash \in DOMAIN minted
    BY <1>b DEF NodeInv, FiledByHeight
  <1>1. /\ blocks_h' = [blocks_h EXCEPT ![n] = NoBlock]
        /\ blocks_idx' = [blocks_idx EXCEPT ![tip.hash] = NoBlock]
        /\ tip' = [height |-> n - 1, hash |-> blocks_h[n - 1]]
        /\ task' = [task EXCEPT ![p] = r]
        /\ UNCHANGED minted
    BY <1>c, <1>e DEF Unlink, Goto, envVars
  <1>2. task'[p] = r /\ \A j \in Tasks : j # p => task'[j] = task[j]
    BY <1>1, PeerTask, Moved DEF NodeInv
  <1>3. r.pc = "reinsert" /\ r.block = b /\ r.old = old
    BY <1>a DEF IsTask
  <1> HIDE DEF r
  <1>4. \A h \in Height : blocks_h'[h] = IF h = n THEN NoBlock ELSE blocks_h[h]
    BY <1>1 DEF NodeInv, TreesTyped
  <1>5. tip'.height = n - 1 /\ tip'.hash = blocks_h[n - 1] /\ tip' # NoTip
    BY <1>1, <1>d DEF NoTip, NoBlock
  <1>6. StoredToTip'
    <2>1. tip' \in [height : Height, hash : Hash]
      BY <1>1, <1>d
    <2>2. ASSUME NEW h \in Height PROVE blocks_h'[h] # NoBlock <=> h <= n - 1
      <3>1. h \in Nat /\ (blocks_h[h] # NoBlock <=> h <= n)
        BY NodeAssumption DEF SerialInv, StoredToTip, Height
      <3> QED BY <1>4, <1>d, <3>1
    <2>3. blocks_h'[n - 1] = blocks_h[n - 1]
      BY <1>4, <1>d
    <2> QED BY <1>5, <2>1, <2>2, <2>3 DEF StoredToTip
  <1>7. Rooted'
    BY <1>1 DEF SerialInv, Rooted
  <1>8. ChainLinked'
    <2> SUFFICES ASSUME NEW h \in Height \ {0}, blocks_h'[h] # NoBlock
                 PROVE  blocks_h'[h - 1] # NoBlock /\ minted'[blocks_h'[h]].prev = blocks_h'[h - 1]
      BY DEF ChainLinked
    <2>1. h <= n - 1 /\ h - 1 \in Height /\ h - 1 # n /\ h # n
      BY <1>5, <1>6, <1>d, NodeAssumption DEF StoredToTip, Height
    <2>2. blocks_h'[h] = blocks_h[h] /\ blocks_h'[h - 1] = blocks_h[h - 1]
      BY <1>4, <2>1
    <2> QED BY <1>1, <2>2 DEF SerialInv, ChainLinked
  <1>9. IndexExact'
    <2> SUFFICES ASSUME NEW c \in Hash, blocks_idx'[c] # NoBlock
                 PROVE  blocks_h'[blocks_idx'[c]] = c
      BY DEF IndexExact
    <2>1. c # tip.hash /\ blocks_idx'[c] = blocks_idx[c]
      BY <1>1, <1>d DEF NodeInv, TreesTyped
    <2>2. blocks_h[blocks_idx[c]] = c /\ blocks_idx[c] \in Height
      BY <2>1 DEF SerialInv, IndexExact, NodeInv, TreesTyped
    <2>3. blocks_idx[c] # n
      BY <1>b, <2>1, <2>2
    <2> QED BY <1>4, <2>1, <2>2, <2>3
  <1>10. MainKnows(task["main"])' /\ Running' /\ task'["ticker"].pc \in {"idle", "elect"}
    BY <1>2, <1>5, <1>b, OwnTask, PeerTask DEF SerialInv, MainKnows, Running
  <1>11. ASSUME NEW q \in Peers PROVE PeerKnows(task[q])'
    <2>1. task'[q] = r
      BY <1>2 DEF Serial
    <2>2. minted[b].prev = blocks_h[n - 1] /\ minted[b].height = n /\ b < old /\ old \in Hash
      BY <1>c, <1>d DEF Challenges
    <2>3. minted'[b].height = tip'.height + 1 /\ minted'[b].prev = tip'.hash
      BY <1>1, <1>5, <1>d, <2>2
    <2> QED BY <1>3, <2>1, <2>2, <2>3 DEF PeerKnows, Extends
  <1>12. SerialInv'
    BY <1>6, <1>7, <1>8, <1>9, <1>10, <1>11 DEF SerialInv
  <1> QED BY <1>1, <1>4, <1>12, <1>b, <1>c, <1>d

\* insert puts a block on top of the tip, or genesis into an empty store.
LEMMA SerialPut ==
  ASSUME NodeInv, SerialInv, NEW b \in DOMAIN minted, NEW h, h = minted[b].height,
         h = tip.height + 1, tip # NoTip => minted[b].prev = tip.hash,
         Put(b, h), UNCHANGED minted
  PROVE  /\ (Rooted /\ StoredToTip /\ ChainLinked /\ IndexExact)'
         /\ tip' # NoTip /\ tip' = [height |-> h, hash |-> b]
         /\ h \in Height /\ b \in Hash
         /\ \A k \in Height : blocks_h'[k] = IF k = h THEN b ELSE blocks_h[k]
  <1>1. h \in Height /\ h \in Nat /\ b \in Hash /\ b # NoBlock
        /\ \A k \in Height : k \in Nat
    <2>1. h \in Height /\ b \in Hash
      BY DEF NodeInv, MintedTyped
    <2> QED BY <2>1, NodeAssumption DEF Height, Hash, NoBlock
  <1>2. /\ blocks_h' = [blocks_h EXCEPT ![h] = b]
        /\ blocks_idx' = [blocks_idx EXCEPT ![b] = h]
        /\ tip' = [height |-> h, hash |-> b]
    BY DEF Put
  <1>3. \A k \in Height : blocks_h'[k] = IF k = h THEN b ELSE blocks_h[k]
    BY <1>1, <1>2 DEF NodeInv, TreesTyped
  <1>4. tip' # NoTip /\ tip'.height = h /\ tip'.hash = b
    BY <1>1, <1>2 DEF NoTip, NoBlock
  <1>5. tip.height \in Int /\ (tip = NoTip => tip.height = -1)
    <2>1. tip = NoTip \/ tip.height \in Height
      BY DEF SerialInv, StoredToTip
    <2>2. tip = NoTip => tip.height = -1
      BY DEF NoTip, NoBlock
    <2>3. tip.height \in Int
      <3>1. CASE tip = NoTip
        BY <2>2, <3>1
      <3>2. CASE tip.height \in Height
        BY <3>2, NodeAssumption DEF Height
      <3> QED BY <2>1, <3>1, <3>2
    <2> QED BY <2>2, <2>3
  <1>6. StoredToTip'
    <2>1. tip' \in [height : Height, hash : Hash]
      BY <1>1, <1>2
    <2>2. ASSUME NEW k \in Height PROVE blocks_h'[k] # NoBlock <=> k <= h
      <3>1. blocks_h[k] # NoBlock <=> k <= tip.height
        BY DEF SerialInv, StoredToTip
      <3>2. k <= h <=> (k = h \/ k <= tip.height)
        BY <1>1, <1>5
      <3> QED BY <1>1, <1>3, <3>1, <3>2
    <2>3. blocks_h'[h] = b
      BY <1>1, <1>3
    <2> QED BY <1>4, <2>1, <2>2, <2>3 DEF StoredToTip
  <1>7. ChainLinked'
    <2> SUFFICES ASSUME NEW k \in Height \ {0}, blocks_h'[k] # NoBlock
                 PROVE  blocks_h'[k - 1] # NoBlock /\ minted'[blocks_h'[k]].prev = blocks_h'[k - 1]
      BY DEF ChainLinked
    <2>1. k - 1 \in Height /\ k <= h
      BY <1>1, <1>4, <1>6, NodeAssumption DEF StoredToTip, Height
    <2>2. CASE k = h
      <3>1. k - 1 = tip.height /\ k - 1 # h /\ tip # NoTip
        BY <1>1, <1>5, <2>1, <2>2
      <3>2. blocks_h'[k - 1] = tip.hash /\ blocks_h'[k] = b /\ tip.hash \in Hash
        BY <1>1, <1>3, <2>1, <2>2, <3>1 DEF SerialInv, StoredToTip
      <3> QED BY <3>1, <3>2, NodeAssumption DEF Hash, NoBlock
    <2>3. CASE k # h
      <3>1. k - 1 # h
        BY <1>1, <2>1, <2>3
      <3>2. blocks_h'[k] = blocks_h[k] /\ blocks_h'[k - 1] = blocks_h[k - 1]
        BY <1>3, <2>1, <2>3, <3>1
      <3> QED BY <3>2 DEF SerialInv, ChainLinked
    <2> QED BY <2>2, <2>3
  <1>8. IndexExact'
    <2> SUFFICES ASSUME NEW c \in Hash, blocks_idx'[c] # NoBlock
                 PROVE  blocks_h'[blocks_idx'[c]] = c
      BY DEF IndexExact
    <2>1. CASE c = b
      BY <1>1, <1>2, <1>3, <2>1 DEF NodeInv, TreesTyped
    <2>2. CASE c # b
      <3>1. blocks_idx'[c] = blocks_idx[c]
        BY <1>1, <1>2, <2>2 DEF NodeInv, TreesTyped
      <3>2. blocks_h[blocks_idx[c]] = c /\ blocks_idx[c] \in Height /\ c # NoBlock
        BY <3>1, NodeAssumption DEF SerialInv, IndexExact, NodeInv, TreesTyped, Hash, NoBlock
      <3>3. blocks_idx[c] <= tip.height
        BY <3>2 DEF SerialInv, StoredToTip
      <3>4. blocks_idx[c] # h
        BY <1>1, <1>5, <3>2, <3>3
      <3> QED BY <1>3, <3>1, <3>2, <3>4
    <2> QED BY <2>1, <2>2
  <1>9. Rooted'
    BY DEF SerialInv, Rooted
  <1> QED BY <1>1, <1>2, <1>3, <1>4, <1>6, <1>7, <1>8, <1>9

\* The insert of the handler, the reorg and genesis.
LEMMA SerialInsert ==
  ASSUME Serial, NodeInv, SerialInv, NEW i \in Tasks, Insert(i)
  PROVE  /\ SerialInv'
         /\ task[i].block \in Hash /\ tip.height + 1 \in Height
         /\ tip' = [height |-> tip.height + 1, hash |-> task[i].block]
         /\ \A k \in Height : blocks_h'[k] = IF k = tip.height + 1 THEN task[i].block ELSE blocks_h[k]
  <1> DEFINE b == task[i].block
             h == minted[b].height
             r == [task[i] EXCEPT !.pc = "sentinel"]
  <1>a. IsTask(task[i]) /\ i # "ticker" /\ task[i].pc \in {"insert", "reinsert"}
    BY DEF NodeInv, TasksShaped, Insert, At
  <1>b. b \in DOMAIN minted
    BY <1>a DEF NodeInv, TasksKnow, TaskKnows
  <1>c. h = tip.height + 1 /\ (tip # NoTip => minted[b].prev = tip.hash)
    <2>1. CASE i = "main"
      <3>1. tip = NoTip /\ b = Genesis
        BY <1>a, <2>1 DEF SerialInv, MainKnows
      <3>2. h = 0
        BY <1>b, <3>1 DEF SerialInv, Rooted
      <3> QED BY <3>1, <3>2 DEF NoTip, NoBlock
    <2>2. CASE i \in Peers
      BY <1>a, <2>2 DEF SerialInv, PeerKnows, Extends
    <2> QED BY <1>a, <2>1, <2>2 DEF Tasks
  <1>d. Put(b, h) /\ UNCHANGED minted /\ task' = [task EXCEPT ![i] = r]
    BY DEF Insert, Goto, envVars
  <1>1. /\ (Rooted /\ StoredToTip /\ ChainLinked /\ IndexExact)'
        /\ tip' # NoTip /\ tip' = [height |-> h, hash |-> b]
        /\ h \in Height /\ b \in Hash
        /\ \A k \in Height : blocks_h'[k] = IF k = h THEN b ELSE blocks_h[k]
    BY <1>b, <1>c, <1>d, SerialPut
  <1>2. task'[i] = r /\ \A j \in Tasks : j # i => task'[j] = task[j]
    BY <1>d, Moved DEF NodeInv
  <1>3. r.pc = "sentinel"
    BY <1>a DEF IsTask
  <1> HIDE DEF r
  <1>4. SerialInv'
    <2>1. CASE i = "main"
      <3>1. ~Running /\ \A p \in Peers : At(p, "idle")
        BY <1>a, <2>1 DEF SerialInv, Running
      <3>2. \A p \in Peers : task'[p].pc = "idle"
        BY <1>2, <2>1, <3>1, PeerTask DEF At
      <3>3. \A p \in Peers : PeerKnows(task[p])' /\ At(p, "idle")'
        BY <3>2 DEF PeerKnows, At
      <3>4. MainKnows(task["main"])'
        BY <1>1, <1>2, <1>3, <2>1 DEF MainKnows
      <3>5. task'["ticker"].pc \in {"idle", "elect"}
        BY <1>2, <2>1, OwnTask DEF SerialInv
      <3> QED BY <1>1, <3>3, <3>4, <3>5 DEF SerialInv
    <2>2. CASE i \in Peers
      <3>1. Running /\ i # "main" /\ i # "ticker"
        BY <1>a, <2>2, AtWork, PeerTask DEF At
      <3>2. task'["main"] = task["main"] /\ task'["ticker"] = task["ticker"]
        BY <1>2, <3>1, OwnTask
      <3>3. \A p \in Peers : PeerKnows(task[p])'
        BY <1>2, <1>3, <2>2 DEF PeerKnows, Serial
      <3>4. MainKnows(task["main"])' /\ Running'
        BY <1>1, <3>1, <3>2 DEF MainKnows, Running
      <3> QED BY <1>1, <3>2, <3>3, <3>4 DEF SerialInv
    <2> QED BY <1>a, <2>1, <2>2 DEF Tasks
  <1> QED BY <1>1, <1>4, <1>c

\* Every step of a node that handles one block at a time keeps the invariant.
LEMMA SerialStep ==
  ASSUME Serial, NodeInv, TypeInv, SerialInv, [Next]_vars
  PROVE  SerialInv'
  <1>1. CASE BootCheck \/ InstallValidators
    BY <1>1, SerialBoot
  <1>2. ASSUME NEW p \in Peers, (\E b \in DOMAIN minted : Receive(p, b)) \/ ReadTip(p)
        PROVE  SerialInv'
    BY <1>2, SerialReadTip
  <1>3. ASSUME NEW p \in Peers, ReadParent(p) \/ Validate(p) PROVE SerialInv'
    BY <1>3, SerialValidate
  <1>4. ASSUME NEW p \in Peers, ReadCurrent(p) \/ RollbackUtxo(p) \/ ReadNewTip(p) PROVE SerialInv'
    BY <1>4, SerialReorg
  <1>5. ASSUME NEW p \in Peers, Unlink(p) PROVE SerialInv'
    BY <1>5, SerialUnlink
  <1>6. ASSUME NEW i \in Tasks, Insert(i) PROVE SerialInv'
    BY <1>6, SerialInsert
  <1>7. ASSUME NEW i \in Tasks,
               WriteSentinel(i) \/ ApplyUtxo(i) \/ ClearSentinel(i) \/ RemoveFromPool(i)
        PROVE  SerialInv'
    BY <1>7, SerialTail
  <1>8. CASE Tick \/ ElectMe \/ DrainPool \/ \E b \in FreshHash : ProposeInsert(b)
    BY <1>8, SerialTicker
  <1>9. CASE (\E t \in Tx : SubmitTx(t)) \/ NextSlot \/ UNCHANGED vars
    <2>1. UNCHANGED <<minted, chainVars, task>>
      BY <1>9 DEF SubmitTx, NextSlot, vars, envVars
    <2> QED BY <2>1, SerialElsewhere
  <1>10. ASSUME NEW b \in FreshHash, NEW parent \in DOMAIN minted, NEW s \in 1..MaxSlot,
                NEW body \in Bodies, RemoteMint(b, parent, s, body)
         PROVE  SerialInv'
    BY <1>10, SerialMint
  <1>11. CASE Crash
    BY <1>11, SerialCrash
  <1>12. ASSUME NEW p \in Peers, NEW t \in Tx, ReceiveTx(p, t) PROVE SerialInv'
    BY <1>9, <1>12 DEF ReceiveTx
  <1> QED BY <1>1, <1>2, <1>3, <1>4, <1>5, <1>6, <1>7, <1>8, <1>9, <1>10, <1>11, <1>12 DEF Next

\* The empty store of a first start.
LEMMA SerialStart == ASSUME Init PROVE SerialInv
  <1> DEFINE boot == [Idle EXCEPT !.pc = "boot"]
  <1>1. task = [i \in Tasks |-> IF i = "main" THEN boot ELSE Idle]
    BY DEF Init
  <1>2. boot.pc = "boot" /\ Idle.pc = "idle"
    BY DEF Idle
  <1> HIDE DEF boot
  <1>3. task["main"] = boot /\ task["ticker"] = Idle /\ \A p \in Peers : task[p] = Idle
    BY <1>1, OwnTask, PeerTask
  <1>4. MainKnows(task["main"]) /\ \A p \in Peers : PeerKnows(task[p]) /\ At(p, "idle")
    BY <1>2, <1>3 DEF MainKnows, PeerKnows, At
  <1>5. Rooted
    BY DEF Init, Rooted, Block, Genesis
  <1>6. StoredToTip
    BY NodeAssumption DEF Init, StoredToTip, NoTip, NoBlock, Height
  <1>7. ChainLinked /\ IndexExact
    BY DEF Init, ChainLinked, IndexExact
  <1> QED BY <1>2, <1>3, <1>4, <1>5, <1>6, <1>7 DEF SerialInv

-----------------------------------------------------------------------------
\* The inductive invariant of a node that handles one block at a time.
THEOREM SerialSafety == ASSUME Serial PROVE Spec => [](NodeInv /\ TypeInv /\ SerialInv)
  <1>1. Init => SerialInv
    BY SerialStart
  <1>2. NodeInv /\ TypeInv /\ SerialInv /\ [Next]_vars => SerialInv'
    BY SerialStep
  <1> QED BY <1>1, <1>2, NodeTypes, PTL DEF Spec

\* The stored blocks always form one chain from genesis (insert,
\* rollback_block).
THEOREM SerialChainLinked == ASSUME Serial PROVE Spec => []ChainLinked
  <1>1. NodeInv /\ SerialInv => ChainLinked
    BY DEF SerialInv
  <1> QED BY <1>1, SerialSafety, PTL

\* A block found under its hash is that block (get_by_hash).
THEOREM SerialIndexedIsStored == ASSUME Serial PROVE Spec => []IndexedIsStored
  <1>1. NodeInv /\ SerialInv => IndexedIsStored
    BY DEF SerialInv, IndexExact, IndexedIsStored, GetByHash
  <1> QED BY <1>1, SerialSafety, PTL

\* The recorded tip is always the highest stored block (insert,
\* rollback_block).
THEOREM SerialTipIsHighest == ASSUME Serial PROVE Spec => []TipIsHighest
  <1>1. NodeInv /\ SerialInv => TipIsHighest
    <2> SUFFICES ASSUME NodeInv, SerialInv PROVE TipIsHighest
      OBVIOUS
    <2>0. \A h \in Height : h \in Nat
      BY NodeAssumption DEF Height
    <2>1. CASE tip = NoTip
      <3>1. tip.height = -1
        BY <2>1 DEF NoTip, NoBlock
      <3> QED BY <2>0, <2>1, <3>1 DEF SerialInv, StoredToTip, TipIsHighest
    <2>2. CASE tip # NoTip
      <3>1. tip.height \in Nat
        BY <2>0, <2>2 DEF SerialInv, StoredToTip
      <3> QED BY <2>0, <2>2, <3>1 DEF SerialInv, StoredToTip, TipIsHighest
    <2> QED BY <2>1, <2>2
  <1> QED BY <1>1, SerialSafety, PTL

-----------------------------------------------------------------------------
(* The refinement of module Chain.                                          *)

\* The stored chain as a sequence.
Stored == [i \in 1..tip.height + 1 |-> blocks_h[i - 1]]

\* What a sequence is with one element more.
LEMMA OneMore ==
  ASSUME NEW S, NEW s \in Seq(S), NEW e \in S
  PROVE  /\ Append(s, e) \in Seq(S) /\ Len(Append(s, e)) = Len(s) + 1
         /\ Len(s) \in Nat /\ Append(s, e)[Len(s) + 1] = e
         /\ SubSeq(Append(s, e), 1, Len(s)) = s /\ SubSeq(s, 1, Len(s)) = s
  <1> DEFINE a == Append(s, e)
             n == Len(s)
  <1>1. a \in Seq(S) /\ Len(a) = n + 1 /\ n \in Nat /\ a[n + 1] = e /\ \A i \in 1..n : a[i] = s[i]
    OBVIOUS
  <1> HIDE DEF a
  <1>2. SubSeq(a, 1, n) = s
    <2>1. SubSeq(a, 1, n) \in Seq(S) /\ Len(SubSeq(a, 1, n)) = n
          /\ \A i \in 1..n : SubSeq(a, 1, n)[i] = a[i]
      BY <1>1
    <2> QED BY <1>1, <2>1, SeqEqual
  <1>3. SubSeq(s, 1, n) = s
    BY SubSeqFull
  <1> QED BY <1>1, <1>2, <1>3 DEF a

\* The stored chain is a sequence of hashes.
StoredShape ==
    /\ Stored \in Seq(Hash) /\ Len(Stored) = tip.height + 1
    /\ tip.height + 1 \in Nat
    /\ \A i \in 1..tip.height + 1 : Stored[i] = blocks_h[i - 1]

\* It is, whatever the tasks are doing.
LEMMA StoredSeq == NodeInv /\ SerialInv => StoredShape
  <1> SUFFICES ASSUME NodeInv, SerialInv PROVE StoredShape
    OBVIOUS
  <1> DEFINE n == tip.height + 1
  <1>1. n \in Nat /\ \A i \in 1..n : i - 1 \in Height /\ i - 1 <= tip.height
    <2>1. CASE tip = NoTip
      BY <2>1 DEF NoTip, NoBlock
    <2>2. CASE tip.height \in Height
      BY <2>2, NodeAssumption DEF Height
    <2> QED BY <2>1, <2>2 DEF SerialInv, StoredToTip
  <1>2. \A i \in 1..n : blocks_h[i - 1] \in Hash
    BY <1>1 DEF SerialInv, StoredToTip, NodeInv, TreesTyped
  <1> HIDE DEF n
  <1>3. Stored \in [1..n -> Hash]
    BY <1>2 DEF Stored, n
  <1>4. Stored \in Seq(Hash) /\ Len(Stored) = n
    BY <1>1, <1>3
  <1> QED BY <1>1, <1>4 DEF Stored, StoredShape, n

\* What the refinement mapping shows, with and without a reorg under way.
VisibleShape ==
    /\ (\A p \in Peers : ~At(p, "reinsert")) => VisibleChain = Stored
    /\ \A p \in Peers : At(p, "reinsert") => VisibleChain = Append(Stored, task[p].old)

\* With one connection there is at most one reorg.
LEMMA Visible == ASSUME Serial PROVE VisibleShape
  <1>1. ASSUME \A p \in Peers : ~At(p, "reinsert") PROVE VisibleChain = Stored
    <2>1. {p \in Peers : At(p, "reinsert")} = {}
      BY <1>1
    <2> QED BY <2>1 DEF VisibleChain, Stored
  <1>2. ASSUME NEW p \in Peers, At(p, "reinsert") PROVE VisibleChain = Append(Stored, task[p].old)
    <2>1. {q \in Peers : At(q, "reinsert")} = {p}
      BY <1>2 DEF Serial
    <2>2. (CHOOSE q \in {p} : TRUE) = p
      OBVIOUS
    <2> QED BY <2>1, <2>2 DEF VisibleChain, Stored
  <1> QED BY <1>1, <1>2 DEF VisibleShape

\* Steps that leave the trees and the middle of a reorg alone do not show.
LEMMA NotVisible ==
  ASSUME UNCHANGED <<blocks_h, tip>>,
         \A p \in Peers : At(p, "reinsert") \/ At(p, "reinsert")' => task'[p] = task[p]
  PROVE  UNCHANGED VisibleChain
  <1>1. \A p \in Peers : At(p, "reinsert") <=> At(p, "reinsert")'
    BY DEF At
  <1>2. {p \in Peers : At(p, "reinsert")} = {p \in Peers : At(p, "reinsert")'}
    BY <1>1
  <1> DEFINE swaps == {p \in Peers : At(p, "reinsert")}
             one   == CHOOSE p \in swaps : TRUE
  <1>3. swaps # {} => task'[one] = task[one]
    <2>1. swaps # {} => one \in swaps
      OBVIOUS
    <2> QED BY <2>1
  <1>4. swaps' = swaps
    BY <1>2
  <1>5. VisibleChain = IF swaps = {} THEN Stored ELSE Append(Stored, task[one].old)
    BY DEF VisibleChain, Stored
  <1>6. VisibleChain' = IF swaps' = {} THEN Stored' ELSE Append(Stored', task'[CHOOSE p \in swaps' : TRUE].old)
    BY DEF VisibleChain, Stored
  <1>7. Stored' = Stored
    BY DEF Stored
  <1> HIDE DEF swaps
  <1> QED BY <1>3, <1>4, <1>5, <1>6, <1>7

\* The steps that do not show.
LEMMA Hidden ==
  ASSUME Serial, NodeInv, TypeInv, SerialInv,
         \/ BootCheck \/ InstallValidators
         \/ \E p \in Peers :
               \/ \E b \in DOMAIN minted : Receive(p, b)
               \/ ReadTip(p) \/ ReadParent(p) \/ Validate(p)
               \/ ReadCurrent(p) \/ RollbackUtxo(p) \/ ReadNewTip(p)
         \/ \E i \in Tasks :
               WriteSentinel(i) \/ ApplyUtxo(i) \/ ClearSentinel(i) \/ RemoveFromPool(i)
         \/ Tick \/ ElectMe
         \/ (\E t \in Tx : SubmitTx(t)) \/ NextSlot \/ UNCHANGED vars
         \/ \E b, parent, s, body : RemoteMint(b, parent, s, body)
  PROVE  UNCHANGED <<VisibleChain, crashes>>
  <1>0. UNCHANGED <<blocks_h, tip, crashes>>
    BY DEF BootCheck, InstallValidators, Receive, ReadTip, ReadParent, Validate, ReadCurrent,
           RollbackUtxo, ReadNewTip, WriteSentinel, ApplyUtxo, ClearSentinel, RemoveFromPool,
           Tick, ElectMe, SubmitTx, NextSlot, RemoteMint, vars, envVars, chainVars
  <1> DEFINE Aside(i) == /\ \A j \in Tasks : j # i => task'[j] = task[j]
                         /\ ~At(i, "reinsert") /\ task'[i].pc # "reinsert"
  <1> USE DEF At, Return, Goto, Idle, IsTask, TasksShaped, NodeInv
  <1>1. CASE BootCheck \/ InstallValidators
    <2>1. Aside("main")
      BY <1>1, OwnTask DEF BootCheck, InstallValidators
    <2> QED BY <1>0, <2>1, PeerTask, OwnTask, NotVisible
  <1>2. ASSUME NEW p \in Peers, Aside(p) PROVE UNCHANGED VisibleChain
    BY <1>0, <1>2, PeerTask, NotVisible
  <1>3. ASSUME NEW p \in Peers, NEW b, Receive(p, b) PROVE Aside(p)
    BY <1>3, PeerTask DEF Receive
  <1>4. ASSUME NEW p \in Peers, ReadTip(p) PROVE Aside(p)
    BY <1>4, PeerTask DEF ReadTip
  <1>5. ASSUME NEW p \in Peers, ReadParent(p) PROVE Aside(p)
    <2>1. At(p, "parent") \/ At(p, "fork_parent")
      BY <1>5 DEF ReadParent
    <2>2. \/ Return(p)
          \/ \E pc \in {"validate", "fork_validate"}, h \in {blocks_h[task[p].height], blocks_h[task[p].height - 1]} :
                task' = [task EXCEPT ![p] = [task[p] EXCEPT !.pc = pc, !.hash = h]]
      BY <1>5 DEF ReadParent
    <2>3. CASE Return(p)
      BY <2>1, <2>3, PeerTask
    <2>4. ASSUME NEW pc \in {"validate", "fork_validate"}, NEW h,
                 task' = [task EXCEPT ![p] = [task[p] EXCEPT !.pc = pc, !.hash = h]]
          PROVE  Aside(p)
      BY <2>1, <2>4, PeerTask
    <2> QED BY <2>2, <2>3, <2>4
  <1>6. ASSUME NEW p \in Peers, Validate(p) PROVE Aside(p)
    BY <1>6, PeerTask DEF Validate
  <1>7. ASSUME NEW p \in Peers, ReadCurrent(p) PROVE Aside(p)
    BY <1>7, PeerTask DEF ReadCurrent
  <1>8. ASSUME NEW p \in Peers, RollbackUtxo(p) PROVE Aside(p)
    BY <1>8, PeerTask DEF RollbackUtxo
  <1>9. ASSUME NEW p \in Peers, ReadNewTip(p) PROVE Aside(p)
    BY <1>9, PeerTask DEF ReadNewTip
  <1>10. ASSUME NEW i \in Tasks, WriteSentinel(i) \/ ApplyUtxo(i) PROVE Aside(i)
    BY <1>10 DEF WriteSentinel, ApplyUtxo
  <1>11. ASSUME NEW i \in Tasks, ClearSentinel(i) \/ RemoveFromPool(i) PROVE Aside(i)
    BY <1>11 DEF ClearSentinel, RemoveFromPool
  <1>12. ASSUME NEW i \in Tasks, Aside(i) PROVE UNCHANGED VisibleChain
    BY <1>0, <1>12, PeerTask, NotVisible
  <1>13. CASE Tick \/ ElectMe
    <2>1. UNCHANGED task \/ Aside("ticker")
      <3> DEFINE r == [Idle EXCEPT !.pc = "elect", !.slot = slot,
                                   !.height = tip.height, !.hash = tip.hash]
      <3>1. \/ UNCHANGED task
            \/ task' = [task EXCEPT !["ticker"] = r]
            \/ task' = [task EXCEPT !["ticker"] = Idle]
        BY <1>13 DEF Tick, ElectMe, At, Serial, TypeInv, HandsTyped
      <3>2. r.pc = "elect" /\ Idle.pc = "idle" /\ ~At("ticker", "reinsert")
        BY DEF SerialInv
      <3> HIDE DEF r
      <3> QED BY <3>1, <3>2, OwnTask
    <2> QED BY <1>0, <1>12, <2>1, OwnTask, NotVisible
  <1>14. CASE (\E t \in Tx : SubmitTx(t)) \/ NextSlot \/ UNCHANGED vars
              \/ \E b, parent, s, body : RemoteMint(b, parent, s, body)
    <2>1. UNCHANGED task
      BY <1>14 DEF SubmitTx, NextSlot, vars, RemoteMint
    <2> QED BY <1>0, <2>1, NotVisible
  <1> HIDE DEF Aside
  <1> QED BY <1>0, <1>1, <1>2, <1>3, <1>4, <1>5, <1>6, <1>7, <1>8, <1>9, <1>10, <1>11, <1>12,
             <1>13, <1>14

\* insert, which grows the chain or completes a reorg.
LEMMA InsertRefines ==
  ASSUME Serial, NodeInv, SerialInv, NodeInv', NEW i \in Tasks, Insert(i)
  PROVE  Promise!Next
  <1> DEFINE n == tip.height + 1
             b == task[i].block
  <1>1. /\ SerialInv' /\ b \in Hash /\ n \in Height
        /\ tip' = [height |-> n, hash |-> b]
        /\ \A k \in Height : blocks_h'[k] = IF k = n THEN b ELSE blocks_h[k]
    BY SerialInsert
  <1>2. /\ Stored \in Seq(Hash) /\ Len(Stored) = n /\ n \in Nat
        /\ \A j \in 1..n : Stored[j] = blocks_h[j - 1]
    BY StoredSeq DEF StoredShape
  <1>3. /\ Stored' \in Seq(Hash) /\ Len(Stored') = n + 1
        /\ \A j \in 1..n + 1 : Stored'[j] = blocks_h'[j - 1]
    <2>1. NodeInv' /\ SerialInv' => StoredShape'
      BY StoredSeq, PTL
    <2> QED BY <1>1, <2>1 DEF StoredShape
  <1> HIDE DEF n, b
  <1>4. Stored' = Append(Stored, b)
    <2> DEFINE a == Append(Stored, b)
    <2>1. a \in Seq(Hash) /\ Len(a) = n + 1 /\ a[n + 1] = b /\ \A j \in 1..n : a[j] = Stored[j]
      BY <1>1, <1>2
    <2>2. ASSUME NEW j \in 1..n + 1 PROVE Stored'[j] = a[j]
      <3>1. n \in Nat /\ \A k \in 0..n : k \in Height
        BY <1>1, <1>2, NodeAssumption DEF Height
      <3>2. CASE j = n + 1
        BY <1>1, <1>3, <2>1, <3>1, <3>2
      <3>3. CASE j \in 1..n
        BY <1>1, <1>2, <1>3, <2>1, <3>1, <3>3
      <3> QED BY <1>2, <3>2, <3>3
    <2> HIDE DEF a
    <2>3. Stored' = a
      BY <1>3, <2>1, <2>2, SeqEqual
    <2> QED BY <2>3 DEF a
  <1>5. \A j \in Tasks : j # i => task'[j] = task[j]
    BY DEF Insert, Goto, NodeInv, TasksShaped
  <1>6. task'[i].pc = "sentinel" /\ UNCHANGED crashes
    BY DEF Insert, Goto, NodeInv, TasksShaped, IsTask, envVars
  <1>7. VisibleChain' = Stored'
    <2>1. \A p \in Peers : ~At(p, "reinsert")'
      <3>1. CASE i \in Peers
        BY <1>6, <3>1 DEF At, Serial
      <3>2. CASE i \notin Peers
        <4>1. i = "main"
          BY <3>2 DEF Tasks, Insert
        <4>2. \A p \in Peers : At(p, "idle")
          BY <4>1 DEF Insert, At, SerialInv, Running
        <4> QED BY <1>5, <3>2, <4>2, PeerTask DEF At
      <3> QED BY <3>1, <3>2
    <2>2. VisibleShape'
      BY Visible, PTL
    <2> QED BY <2>1, <2>2 DEF VisibleShape
  <1>8. /\ Len(Append(Stored, b)) = n + 1 /\ Append(Stored, b)[n + 1] = b
        /\ SubSeq(Append(Stored, b), 1, n) = Stored /\ SubSeq(Stored, 1, n) = Stored
    BY <1>1, <1>2, OneMore
  <1>9. CASE \A p \in Peers : ~At(p, "reinsert")
    <2>1. VisibleChain = Stored
      BY <1>9, Visible DEF VisibleShape
    <2>2. Promise!IsStrictPrefix(Stored, Append(Stored, b))
      BY <1>2, <1>8 DEF Promise!IsStrictPrefix, Promise!IsPrefix
    <2>3. Promise!Extend
      BY <1>4, <1>6, <1>7, <2>1, <2>2 DEF Promise!Extend, Promise!Grows
    <2> QED BY <2>3 DEF Promise!Next
  <1>10. CASE \E p \in Peers : At(p, "reinsert")
    <2>1. PICK p \in Peers : At(p, "reinsert")
      BY <1>10
    <2> DEFINE old == task[p].old
    <2>2. Running /\ tip # NoTip /\ tip.height >= 0 /\ tip.height \in Nat
      BY <2>1, AtWork, NodeAssumption DEF At, Height
    <2>3. i = p
      <3>1. i # "main"
        BY <2>2 DEF Running, Insert, At
      <3> QED BY <3>1 DEF Tasks, Insert, Serial
    <2>4. VisibleChain = Append(Stored, old)
      BY <2>1, Visible DEF VisibleShape
    <2>5. b < old
      BY <2>1, <2>3 DEF SerialInv, PeerKnows, At, b
    <2>6. old \in Hash
      BY <2>1 DEF SerialInv, PeerKnows, At
    <2> HIDE DEF old
    <2>7. /\ Len(Append(Stored, old)) = n + 1 /\ Append(Stored, old)[n + 1] = old
          /\ SubSeq(Append(Stored, old), 1, n) = Stored
      BY <1>2, <2>6, OneMore
    <2>8. Promise!Swap
      BY <1>2, <1>4, <1>6, <1>7, <1>8, <2>2, <2>4, <2>5, <2>7
         DEF Promise!Swap, Promise!GivesWay, Promise!Front, Promise!Last, n
    <2> QED BY <2>8 DEF Promise!Next
  <1> QED BY <1>9, <1>10

\* The evicted block shows until the new one is in: the second transaction of
\* rollback_block does not show.
LEMMA UnlinkHidden ==
  ASSUME Serial, NodeInv, SerialInv, NodeInv', NEW p \in Peers, Unlink(p)
  PROVE  UNCHANGED <<VisibleChain, crashes>>
  <1> DEFINE n == tip.height
             old == task[p].old
  <1>1. /\ SerialInv'
        /\ tip' = [height |-> n - 1, hash |-> blocks_h[n - 1]]
        /\ n > 0 /\ tip \in [height : Height, hash : Hash]
        /\ old = tip.hash
        /\ \A h \in Height : h # n => blocks_h'[h] = blocks_h[h]
    BY SerialUnlink
  <1>2. n \in Height /\ n \in Nat /\ old \in Hash /\ \A k \in 0..n : k \in Height
    BY <1>1, NodeAssumption DEF Height
  <1>3. /\ Stored \in Seq(Hash) /\ Len(Stored) = n + 1
        /\ \A j \in 1..n + 1 : Stored[j] = blocks_h[j - 1]
    BY StoredSeq DEF StoredShape
  <1>4. /\ Stored' \in Seq(Hash) /\ Len(Stored') = n
        /\ \A j \in 1..n : Stored'[j] = blocks_h'[j - 1]
    <2>1. NodeInv' /\ SerialInv' => StoredShape'
      BY StoredSeq, PTL
    <2>2. tip'.height + 1 = n
      BY <1>1, <1>2
    <2> QED BY <1>1, <2>1, <2>2 DEF StoredShape
  <1>5. blocks_h[n] = old
    <2>1. tip # NoTip
      BY <1>1, <1>2 DEF NoTip, NoBlock
    <2> QED BY <1>1, <2>1 DEF SerialInv, StoredToTip
  <1>6. At(p, "unlink") /\ task'[p].pc = "reinsert" /\ task'[p].old = old /\ UNCHANGED crashes
    BY PeerTask DEF Unlink, Goto, NodeInv, TasksShaped, IsTask, envVars
  <1>7. VisibleChain = Stored
    <2>1. \A q \in Peers : ~At(q, "reinsert")
      BY <1>6 DEF At, Serial
    <2> QED BY <2>1, Visible DEF VisibleShape
  <1>8. VisibleChain' = Append(Stored', old)
    <2>1. VisibleShape'
      BY Visible, PTL
    <2> QED BY <1>6, <2>1 DEF VisibleShape, At
  <1> HIDE DEF n, old
  <1>9. Append(Stored', old) = Stored
    <2> DEFINE a == Append(Stored', old)
    <2>1. a \in Seq(Hash) /\ Len(a) = n + 1 /\ a[n + 1] = old /\ \A j \in 1..n : a[j] = Stored'[j]
      BY <1>2, <1>4
    <2>2. ASSUME NEW j \in 1..n + 1 PROVE a[j] = Stored[j]
      <3>1. CASE j = n + 1
        BY <1>2, <1>3, <1>5, <2>1, <3>1
      <3>2. CASE j \in 1..n
        <4>1. j - 1 \in 0..n /\ j - 1 # n
          BY <1>2, <3>2
        <4>2. blocks_h'[j - 1] = blocks_h[j - 1]
          BY <1>1, <1>2, <4>1
        <4>3. a[j] = Stored'[j]
          BY <2>1, <3>2
        <4>4. Stored'[j] = blocks_h'[j - 1]
          BY <1>4, <3>2
        <4>5. Stored[j] = blocks_h[j - 1]
          BY <1>3
        <4> QED BY <4>2, <4>3, <4>4, <4>5
      <3>3. j = n + 1 \/ j \in 1..n
        <4>1. n \in Nat
          BY <1>2
        <4> QED BY <4>1
      <3> QED BY <3>1, <3>2, <3>3
    <2> HIDE DEF a
    <2>3. a = Stored
      BY <1>3, <2>1, <2>2, SeqEqual
    <2> QED BY <2>3 DEF a
  <1> QED BY <1>6, <1>7, <1>8, <1>9

\* A crash costs at most the block a reorg had just taken off.
LEMMA CrashRefines ==
  ASSUME Serial, NodeInv, SerialInv, Crash
  PROVE  Promise!Next
  <1>1. crashes' = crashes + 1 /\ UNCHANGED <<blocks_h, tip>>
    BY DEF Crash, chainVars
  <1>2. VisibleChain' = Stored
    <2>1. \A p \in Peers : task'[p] = Idle
      BY PeerTask DEF Crash
    <2>2. \A p \in Peers : ~At(p, "reinsert")'
      BY <2>1 DEF At, Idle
    <2>3. VisibleShape'
      BY Visible, PTL
    <2>4. Stored' = Stored
      BY <1>1 DEF Stored
    <2> QED BY <2>2, <2>3, <2>4 DEF VisibleShape
  <1>3. CASE \A p \in Peers : ~At(p, "reinsert")
    <2>1. VisibleChain = Stored
      BY <1>3, Visible DEF VisibleShape
    <2> QED BY <1>1, <1>2, <2>1 DEF Promise!Next, Promise!Crash
  <1>4. CASE \E p \in Peers : At(p, "reinsert")
    <2>1. PICK p \in Peers : At(p, "reinsert")
      BY <1>4
    <2> DEFINE old == task[p].old
    <2>2. VisibleChain = Append(Stored, old)
      BY <2>1, Visible DEF VisibleShape
    <2>3. old \in Hash
      BY <2>1 DEF SerialInv, PeerKnows, At
    <2>4. tip.height >= 0 /\ tip.height \in Nat
      BY <2>1, AtWork, NodeAssumption DEF At, Height
    <2>5. Stored \in Seq(Hash) /\ Len(Stored) = tip.height + 1
      BY StoredSeq DEF StoredShape
    <2> HIDE DEF old
    <2>6. Len(Append(Stored, old)) = Len(Stored) + 1 /\ SubSeq(Append(Stored, old), 1, Len(Stored)) = Stored
      BY <2>3, <2>5, OneMore
    <2>7. Len(VisibleChain) > 1 /\ VisibleChain' = Promise!Front(VisibleChain)
      BY <1>2, <2>2, <2>4, <2>5, <2>6 DEF Promise!Front
    <2> QED BY <1>1, <2>7 DEF Promise!Next, Promise!Crash
  <1> QED BY <1>3, <1>4

\* Every step of the node is a step of the promised chain, or does not show.
LEMMA ChainStep ==
  ASSUME Serial, NodeInv, TypeInv, SerialInv, NodeInv', [Next]_vars
  PROVE  [Promise!Next]_<<VisibleChain, crashes>>
  <1>1. ASSUME NEW i \in Tasks, Insert(i) PROVE Promise!Next
    BY <1>1, InsertRefines
  <1>2. ASSUME NEW p \in Peers, Unlink(p) PROVE UNCHANGED <<VisibleChain, crashes>>
    BY <1>2, UnlinkHidden
  <1>3. CASE Crash
    BY <1>3, CrashRefines
  <1>4. CASE Tick \/ ElectMe \/ DrainPool \/ \E b \in FreshHash : ProposeInsert(b)
    <2>1. Tick \/ ElectMe
      BY <1>4, SerialTicker
    <2> QED BY <2>1, Hidden
  <1>5. CASE \/ BootCheck \/ InstallValidators
             \/ \E p \in Peers :
                   \/ \E b \in DOMAIN minted : Receive(p, b)
                   \/ ReadTip(p) \/ ReadParent(p) \/ Validate(p)
                   \/ ReadCurrent(p) \/ RollbackUtxo(p) \/ ReadNewTip(p)
             \/ \E i \in Tasks :
                   WriteSentinel(i) \/ ApplyUtxo(i) \/ ClearSentinel(i) \/ RemoveFromPool(i)
             \/ (\E t \in Tx : SubmitTx(t)) \/ NextSlot \/ UNCHANGED vars
             \/ \E b, parent, s, body : RemoteMint(b, parent, s, body)
    BY <1>5, Hidden
  <1> QED BY <1>1, <1>2, <1>3, <1>4, <1>5 DEF Next, ReceiveTx

\* A node that handles one block at a time keeps the promise of module Chain:
\* its chain grows, its last block gives way to a sibling with a lower hash,
\* nothing below changes, and only a crash inside a reorg costs it that block
\* (dispatch, insert, rollback_block, reorg_block).
THEOREM SerialChainRefinement == ASSUME Serial PROVE Spec => ChainRefinement
  <1>1. Init => Promise!Init
    <2> SUFFICES ASSUME Init PROVE Promise!Init
      OBVIOUS
    <2>1. tip.height + 1 = 0 /\ crashes = 0
      BY DEF Init, NoTip, NoBlock
    <2>2. NodeInv /\ SerialInv
      BY NodeStart, SerialStart
    <2>3. Stored = <<>>
      BY <2>1, <2>2, StoredSeq DEF StoredShape
    <2>4. VisibleChain = Stored
      <3>1. \A p \in Peers : task[p] = Idle
        BY PeerTask DEF Init
      <3>2. \A p \in Peers : ~At(p, "reinsert")
        BY <3>1 DEF At, Idle
      <3> QED BY <3>2, Visible DEF VisibleShape
    <2> QED BY <2>1, <2>3, <2>4 DEF Promise!Init
  <1>2. NodeInv /\ TypeInv /\ SerialInv /\ NodeInv' /\ [Next]_vars =>
          [Promise!Next]_<<VisibleChain, crashes>>
    BY ChainStep
  <1> QED BY <1>1, <1>2, SerialSafety, PTL DEF Spec, ChainRefinement, Promise!Spec

-----------------------------------------------------------------------------
(***************************************************************************)
(* The coins of a node that handles one block at a time: until a crash,    *)
(* between updates, they are those of the stored chain, and nothing pooled *)
(* is on that chain.                                                       *)
(*                                                                         *)
(* Every published block has coins of its own, those its ancestors and it  *)
(* lead to.  The invariant says, for every step of a handler, of which     *)
(* block the trees hold the coins, and of which the pool holds no          *)
(* ancestor's transaction.                                                 *)
(***************************************************************************)

\* A transaction is not valid unless it spends something: it creates value.
MustSpend(t) == InputRefs(t) # {} \/ ~(TotalIn(t) >= TotalOut(t))

\* What the blocks are made of.  Genesis consumes nothing, repeats nothing and
\* creates value; other proposers draw a body from a pool and publish it on a
\* parent that supports it.
Honest ==
    /\ ~StalePools
    /\ \A i \in 1..Len(GenesisTxs) :
          InputRefs(GenesisTxs[i]) = {} /\ MustSpend(GenesisTxs[i])
    /\ \A i, j \in 1..Len(GenesisTxs) : i # j => GenesisTxs[i] # GenesisTxs[j]
    /\ \A body \in Bodies : Drawn(body)

\* What is below a block: the coins it is applied to, the transactions there.
CoinsBelow(coins, b) == IF b = Genesis THEN Empty ELSE coins[minted[b].prev]
KnownBelow(known, b) == IF b = Genesis THEN {} ELSE known[minted[b].prev]

\* A published block and its place in the tree of blocks.
Grown(b) ==
    /\ b # Genesis => /\ minted[b].prev \in DOMAIN minted
                      /\ minted[b].height = minted[minted[b].prev].height + 1
    /\ b = Genesis => minted[b].height = 0 /\ minted[b].txs = GenesisTxs
    /\ minted[b].txs \in Seq(Tx)
    /\ b # Genesis => \A i \in 1..Len(minted[b].txs) :
                        TotalIn(minted[b].txs[i]) >= TotalOut(minted[b].txs[i])
    /\ \A t \in Body(minted[b].txs) : MustSpend(t)

\* coins and known are the coins and the transactions of every published
\* block's chain, and every block is fit for the coins below it.
Family(coins, known) ==
    \A b \in DOMAIN minted :
        /\ Grown(b)
        /\ coins[b] \in Stores
        /\ coins[b] = ApplyBlock(minted[b].height, minted[b].txs, CoinsBelow(coins, b))
        /\ BlockFresh(minted[b].height, CoinsBelow(coins, b), minted[b].txs)
        /\ known[b] = KnownBelow(known, b) \cup Body(minted[b].txs)
        /\ Sound(coins[b], known[b], minted[b].height + 1)
        /\ \A t \in known[b] : MustSpend(t)

Within(pcs) == \E i \in Tasks : task[i].pc \in pcs

\* Where a handler has filed the tip without applying it, or taken it back
\* without unlinking it, and where its transactions may still be pooled.
Unapplied == {"new_tip", "unlink", "sentinel", "apply"}
Unpruned  == Unapplied \cup {"clear", "remove"}

\* The coins the trees hold, and the transactions the pool does not.
Due(coins) ==
    IF tip = NoTip THEN Empty
    ELSE IF Within(Unapplied) THEN CoinsBelow(coins, tip.hash) ELSE coins[tip.hash]

Gone(known) ==
    IF tip = NoTip THEN {}
    ELSE IF Within(Unpruned) THEN KnownBelow(known, tip.hash) ELSE known[tip.hash]

\* The state as a node that has not crashed has it.
Steady(coins, known) ==
    /\ At("main", "boot") => tip = NoTip
    /\ \A i \in Tasks : task[i].pc \in {"sentinel", "apply", "clear", "remove"} =>
          task[i].block = tip.hash
    /\ [utxo |-> utxo, spent |-> spent] = Due(coins)
    /\ ~Running => txs = {}
    /\ txs \cap Gone(known) = {}

CoinsInv ==
    \E coins, known : Family(coins, known) /\ (crashes = 0 => Steady(coins, known))

-----------------------------------------------------------------------------
(* The handlers, one at a time.                                             *)

\* At most one task is at work.
LEMMA Alone ==
  ASSUME Serial, SerialInv, NEW i \in Tasks, NEW j \in Tasks,
         task[i].pc \notin {"idle", "elect", "run"}, task[j].pc \notin {"idle", "elect", "run"}
  PROVE  i = j
  <1>1. i # "ticker" /\ j # "ticker"
    BY DEF SerialInv
  <1>2. CASE i \in Peers /\ j \in Peers
    BY <1>2 DEF Serial
  <1>3. CASE i = "main" \/ j = "main"
    <2>1. \A p \in Peers : At(p, "idle")
      BY <1>3 DEF SerialInv, Running
    <2> QED BY <1>1, <1>3, <2>1 DEF Tasks, At
  <1> QED BY <1>1, <1>2, <1>3 DEF Tasks

\* So where the one at work is tells where a block is half done.
LEMMA WithinAlone ==
  ASSUME Serial, SerialInv, NEW i \in Tasks, task[i].pc \notin {"idle", "elect", "run"}, NEW pcs,
         "idle" \notin pcs, "elect" \notin pcs, "run" \notin pcs
  PROVE  Within(pcs) <=> task[i].pc \in pcs
  BY Alone DEF Within

\* The steps that move one task and neither blocks, coins nor pool.
LEMMA SteadyQuiet ==
  ASSUME NEW coins, NEW known, Steady(coins, known), UNCHANGED <<minted, tip, utxo, spent, txs>>,
         NEW i \in Tasks, \A j \in Tasks : j # i => task'[j] = task[j],
         i = "main" => ~Running /\ task'[i].pc # "boot",
         task'[i].pc \in Unapplied <=> task[i].pc \in Unapplied,
         i # "main" => (task'[i].pc \in Unpruned <=> task[i].pc \in Unpruned),
         task'[i].pc \in {"sentinel", "apply", "clear", "remove"} => task'[i].block = tip.hash
  PROVE  Steady(coins, known)'
  <1>1. (At("main", "boot") => tip = NoTip)'
    BY OwnTask DEF Steady, At
  <1>2. \A j \in Tasks : task'[j].pc \in {"sentinel", "apply", "clear", "remove"} =>
           task'[j].block = tip'.hash
    BY DEF Steady
  <1>3. Within(Unapplied)' <=> Within(Unapplied)
    BY DEF Within, Unapplied
  <1>4. [utxo |-> utxo, spent |-> spent]' = Due(coins)'
    BY <1>3 DEF Steady, Due, CoinsBelow
  <1>5. (~Running => txs = {})'
    BY OwnTask DEF Steady, Running
  <1>6. (txs \cap Gone(known) = {})'
    <2>1. CASE i = "main"
      BY <2>1 DEF Steady
    <2>2. CASE i # "main"
      <3>1. Within(Unpruned)' <=> Within(Unpruned)
        BY <2>2 DEF Within, Unpruned, Unapplied
      <3> QED BY <3>1 DEF Steady, Gone, KnownBelow
    <2> QED BY <2>1, <2>2
  <1> QED BY <1>1, <1>2, <1>4, <1>5, <1>6 DEF Steady

\* The tip and its place in the chain.
LEMMA TipGrown ==
  ASSUME NodeInv, SerialInv, tip # NoTip, NEW coins, NEW known, Family(coins, known)
  PROVE  /\ tip.hash \in DOMAIN minted /\ Grown(tip.hash) /\ tip.height \in Nat
         /\ minted[tip.hash].height = tip.height
         /\ tip.hash = Genesis <=> tip.height = 0
         /\ tip.height > 0 => minted[tip.hash].prev = blocks_h[tip.height - 1]
  <1>1. tip.hash \in DOMAIN minted /\ minted[tip.hash].height = tip.height
    BY DEF NodeInv, FiledByHeight
  <1>2. tip.height \in Height /\ tip.height \in Nat
    BY NodeAssumption DEF SerialInv, StoredToTip, Height
  <1>3. blocks_h[tip.height] = tip.hash /\ blocks_h[tip.height] # NoBlock
    BY <1>2 DEF SerialInv, StoredToTip
  <1>4. tip.hash = Genesis <=> tip.height = 0
    BY <1>1 DEF SerialInv, Rooted
  <1>5. tip.height > 0 => minted[tip.hash].prev = blocks_h[tip.height - 1]
    <2> SUFFICES ASSUME tip.height > 0 PROVE minted[tip.hash].prev = blocks_h[tip.height - 1]
      OBVIOUS
    <2> QED BY <1>2, <1>3 DEF SerialInv, ChainLinked
  <1>6. Grown(tip.hash)
    BY <1>1 DEF Family
  <1> QED BY <1>1, <1>2, <1>4, <1>5, <1>6

\* The coins a published block is applied to, and the transactions below it.
LEMMA BelowIsSound ==
  ASSUME NodeInv, NEW coins, NEW known, Family(coins, known), NEW b \in DOMAIN minted
  PROVE  /\ CoinsBelow(coins, b) \in Stores
         /\ minted[b].height \in Nat /\ minted[b].txs \in Seq(Tx)
         /\ Sound(CoinsBelow(coins, b), KnownBelow(known, b), minted[b].height)
         /\ KnownBelow(known, b) \subseteq known[b]
         /\ \A t \in KnownBelow(known, b) : MustSpend(t)
  <1>1. minted[b].height \in Nat /\ minted[b].txs \in Seq(Tx) /\ Grown(b)
    BY NodeAssumption DEF Family, Grown, NodeInv, MintedTyped, Height
  <1>2. CASE b = Genesis
    BY <1>1, <1>2, EmptyTyped DEF CoinsBelow, KnownBelow, Sound, Empty, Family
  <1>3. CASE b # Genesis
    BY <1>1, <1>3 DEF CoinsBelow, KnownBelow, Family, Grown
  <1> QED BY <1>1, <1>2, <1>3

-----------------------------------------------------------------------------
(* The steps that write blocks, coins or the pool.                          *)

\* The first transaction of rollback_block takes the tip's coins back exactly.
LEMMA SteadyRollback ==
  ASSUME Serial, NodeInv, SerialInv, NEW coins, NEW known, Family(coins, known), Steady(coins, known),
         NEW p \in Peers, RollbackUtxo(p)
  PROVE  Steady(coins, known)'
  <1> DEFINE b == tip.hash
             st == [utxo |-> utxo, spent |-> spent]
  <1>0. p \in Tasks /\ p # "main" /\ task[p].pc = "rollback"
    BY PeerTask DEF RollbackUtxo, At
  <1>1. task[p].old = b /\ tip.height > 0 /\ tip # NoTip /\ Running
    <2>1. PeerKnows(task[p]) /\ ~At(p, "idle")
      BY <1>0 DEF SerialInv, At
    <2> QED BY <1>0, <2>1, AtWork DEF PeerKnows, Challenges
  <1>2. task'[p].pc = "new_tip" /\ \A j \in Tasks : j # p => task'[j] = task[j]
    BY <1>0 DEF RollbackUtxo, Goto, NodeInv, TasksShaped, IsTask
  <1>3. ~Within(Unapplied) /\ ~Within(Unpruned)
    BY <1>0, WithinAlone DEF Unapplied, Unpruned
  <1>4. Within(Unapplied)' /\ Within(Unpruned)'
    BY <1>0, <1>2 DEF Within, Unapplied, Unpruned
  <1>5. b \in DOMAIN minted
    BY <1>1, TipGrown
  <1>6. st = ApplyBlock(minted[b].height, minted[b].txs, CoinsBelow(coins, b))
    BY <1>1, <1>3, <1>5 DEF Steady, Due, Family
  <1>7. RollbackBlock(minted[b].height, minted[b].txs, st) = CoinsBelow(coins, b)
    <2>1. BlockFresh(minted[b].height, CoinsBelow(coins, b), minted[b].txs)
      BY <1>5 DEF Family
    <2> HIDE DEF st, b
    <2> QED BY <1>5, <1>6, <2>1, BelowIsSound, BlockRollbackUndoesApply
  <1>8. CoinsBelow(coins, b) \in Stores /\ KnownBelow(known, b) \subseteq known[b]
    BY <1>5, BelowIsSound
  <1>9. /\ utxo' = CoinsBelow(coins, b).utxo /\ spent' = CoinsBelow(coins, b).spent
        /\ UNCHANGED <<minted, tip, txs>>
    BY <1>1, <1>7 DEF RollbackUtxo, envVars, chainVars, poolVars
  <1>10. [utxo |-> utxo, spent |-> spent]' = Due(coins)'
    <2>1. CoinsBelow(coins, b)
            = [utxo |-> CoinsBelow(coins, b).utxo, spent |-> CoinsBelow(coins, b).spent]
      BY <1>8 DEF Stores
    <2>2. Due(coins)' = CoinsBelow(coins, b)
      BY <1>1, <1>4, <1>9 DEF Due, CoinsBelow
    <2> QED BY <1>9, <2>1, <2>2
  <1>11. (txs \cap Gone(known) = {})'
    BY <1>1, <1>3, <1>4, <1>8, <1>9 DEF Steady, Gone, KnownBelow
  <1>12. \A j \in Tasks : task'[j].pc \in {"sentinel", "apply", "clear", "remove"} =>
            task'[j].block = tip'.hash
    BY <1>2, <1>9 DEF Steady
  <1>13. task'["main"] = task["main"]
    BY <1>0, <1>2, OwnTask
  <1> QED BY <1>1, <1>10, <1>11, <1>12, <1>13 DEF Steady, At, Running

\* The second transaction of rollback_block makes the block below the tip.
LEMMA SteadyUnlink ==
  ASSUME Serial, NodeInv, SerialInv, NEW coins, NEW known, Family(coins, known), Steady(coins, known),
         NEW p \in Peers, Unlink(p)
  PROVE  Steady(coins, known)'
  <1>0. p \in Tasks /\ p # "main" /\ task[p].pc = "unlink"
    BY PeerTask DEF Unlink, At
  <1>1. /\ tip' = [height |-> tip.height - 1, hash |-> blocks_h[tip.height - 1]]
        /\ tip.height > 0 /\ SerialInv'
    BY SerialUnlink
  <1>2. tip # NoTip /\ Running
    BY <1>0, AtWork DEF At
  <1>3. task'[p].pc = "reinsert" /\ \A j \in Tasks : j # p => task'[j] = task[j]
    BY <1>0 DEF Unlink, Goto, NodeInv, TasksShaped, IsTask
  <1>4. /\ tip.height \in Nat /\ tip.hash # Genesis
        /\ minted[tip.hash].prev = blocks_h[tip.height - 1]
    BY <1>1, <1>2, TipGrown
  <1>5. tip'.hash = minted[tip.hash].prev /\ tip' # NoTip
    BY <1>1, <1>4 DEF NoTip, NoBlock
  <1>6. Within(Unapplied) /\ Within(Unpruned)
    BY <1>0 DEF Within, Unapplied, Unpruned
  <1>7. ~Within(Unapplied)' /\ ~Within(Unpruned)'
    <2>1. ASSUME NEW j \in Tasks, task'[j].pc \in Unpruned PROVE FALSE
      <3>1. j # p /\ task[j].pc \in Unpruned
        BY <1>3, <2>1 DEF Unpruned, Unapplied
      <3> QED BY <1>0, <3>1, Alone DEF Unpruned, Unapplied
    <2> QED BY <2>1 DEF Within, Unpruned
  <1>8. UNCHANGED <<minted, utxo, spent, txs>>
    BY DEF Unlink, envVars, utxoVars, poolVars
  <1>9. [utxo |-> utxo, spent |-> spent]' = Due(coins)'
    BY <1>2, <1>4, <1>5, <1>6, <1>7, <1>8 DEF Steady, Due, CoinsBelow
  <1>10. (txs \cap Gone(known) = {})'
    BY <1>2, <1>4, <1>5, <1>6, <1>7, <1>8 DEF Steady, Gone, KnownBelow
  <1>11. \A j \in Tasks : task'[j].pc \notin {"sentinel", "apply", "clear", "remove"}
    BY <1>7 DEF Within, Unpruned, Unapplied
  <1>12. task'["main"] = task["main"]
    BY <1>0, <1>3, OwnTask
  <1> QED BY <1>2, <1>8, <1>9, <1>10, <1>11, <1>12 DEF Steady, At, Running

\* insert puts a block on top, whose coins are still to come.
LEMMA SteadyInsert ==
  ASSUME Serial, NodeInv, SerialInv, NEW coins, NEW known, Family(coins, known), Steady(coins, known),
         NEW i \in Tasks, Insert(i)
  PROVE  Steady(coins, known)'
  <1> DEFINE b == task[i].block
  <1>0. task[i].pc \in {"insert", "reinsert"} /\ i # "ticker"
    BY DEF Insert, At
  <1>1. b \in DOMAIN minted /\ tip' = [height |-> tip.height + 1, hash |-> b] /\ tip.height + 1 \in Height
    <2>1. b \in DOMAIN minted
      BY <1>0 DEF NodeInv, TasksKnow, TaskKnows
    <2> QED BY <2>1, SerialInsert
  <1>2. tip' # NoTip
    BY <1>1, NodeAssumption DEF NoTip, NoBlock, Height
  <1>3. /\ task'[i].pc = "sentinel" /\ task'[i].block = b
        /\ \A j \in Tasks : j # i => task'[j] = task[j]
    BY DEF Insert, Goto, NodeInv, TasksShaped, IsTask
  <1>4. Within(Unapplied)' /\ Within(Unpruned)'
    BY <1>3 DEF Within, Unapplied, Unpruned
  <1>5. ~Within(Unapplied) /\ ~Within(Unpruned)
    BY <1>0, WithinAlone DEF Unapplied, Unpruned
  <1>6. UNCHANGED <<minted, utxo, spent, txs>>
    BY DEF Insert, envVars, utxoVars, poolVars
  <1>7. CoinsBelow(coins, b) = Due(coins) /\ KnownBelow(known, b) = Gone(known)
    <2>1. CASE i = "main"
      <3>1. tip = NoTip /\ b = Genesis
        BY <1>0, <2>1 DEF SerialInv, MainKnows
      <3> QED BY <3>1 DEF CoinsBelow, KnownBelow, Due, Gone
    <2>2. CASE i \in Peers
      <3>1. PeerKnows(task[i]) /\ ~At(i, "idle")
        BY <1>0, <2>2 DEF SerialInv, At
      <3>2. tip # NoTip
        BY <2>2, <3>1, AtWork
      <3>3. minted[b].height = tip.height + 1 /\ minted[b].prev = tip.hash
        BY <1>0, <3>1 DEF PeerKnows, Extends
      <3>4. b # Genesis
        <4>1. tip.height \in Nat
          BY <3>2, TipGrown
        <4>2. minted[b].height # 0
          BY <3>3, <4>1
        <4> QED BY <1>1, <4>2 DEF Family, Grown
      <3> QED BY <1>5, <3>2, <3>3, <3>4 DEF CoinsBelow, KnownBelow, Due, Gone
    <2> QED BY <1>0, <2>1, <2>2 DEF Tasks
  <1>8. Due(coins)' = CoinsBelow(coins, b) /\ Gone(known)' = KnownBelow(known, b)
    BY <1>1, <1>2, <1>4, <1>6 DEF Due, Gone, CoinsBelow, KnownBelow
  <1>9. [utxo |-> utxo, spent |-> spent]' = Due(coins)' /\ (txs \cap Gone(known) = {})'
    BY <1>6, <1>7, <1>8 DEF Steady
  <1>10. ASSUME NEW j \in Tasks, task'[j].pc \in {"sentinel", "apply", "clear", "remove"}
         PROVE  task'[j].block = tip'.hash
    <2>1. CASE j = i
      BY <1>1, <1>3, <2>1
    <2>2. CASE j # i
      BY <1>3, <1>5, <1>10, <2>2 DEF Within, Unpruned, Unapplied
    <2> QED BY <2>1, <2>2
  <1>11. ~At("main", "boot")' /\ (~Running' => ~Running)
    BY <1>0, <1>3, OwnTask, AtWork DEF At, Running, Tasks
  <1> QED BY <1>6, <1>9, <1>10, <1>11 DEF Steady

\* apply_block brings the coins of the new tip.
LEMMA SteadyApply ==
  ASSUME Serial, NodeInv, SerialInv, NEW coins, NEW known, Family(coins, known), Steady(coins, known),
         NEW i \in Tasks, ApplyUtxo(i)
  PROVE  Steady(coins, known)'
  <1> DEFINE b == tip.hash
             st == [utxo |-> utxo, spent |-> spent]
  <1>0. task[i].pc = "apply" /\ task[i].block = b
    BY DEF ApplyUtxo, At, Steady
  <1>1. tip # NoTip
    <2>1. i # "ticker"
      BY <1>0 DEF SerialInv
    <2>2. CASE i = "main"
      BY <1>0, <2>2 DEF SerialInv, MainKnows
    <2>3. CASE i \in Peers
      BY <1>0, <2>3, AtWork DEF At
    <2> QED BY <2>1, <2>2, <2>3 DEF Tasks
  <1>2. /\ task'[i].pc = "clear" /\ task'[i].block = b
        /\ \A j \in Tasks : j # i => task'[j] = task[j]
    BY <1>0 DEF ApplyUtxo, Goto, NodeInv, TasksShaped, IsTask
  <1>3. Within(Unapplied) /\ Within(Unpruned) /\ Within(Unpruned)'
    BY <1>0, <1>2 DEF Within, Unapplied, Unpruned
  <1>4. ~Within(Unapplied)'
    <2>1. ASSUME NEW j \in Tasks, task'[j].pc \in Unapplied PROVE FALSE
      <3>1. j # i /\ task[j].pc \in Unapplied
        BY <1>2, <2>1 DEF Unapplied
      <3> QED BY <1>0, <3>1, Alone DEF Unapplied
    <2> QED BY <2>1 DEF Within
  <1>5. b \in DOMAIN minted
    BY <1>1, TipGrown
  <1>6. st = CoinsBelow(coins, b)
    BY <1>1, <1>3 DEF Steady, Due
  <1>7. coins[b] \in Stores /\ coins[b] = ApplyBlock(minted[b].height, minted[b].txs, st)
    BY <1>5, <1>6 DEF Family
  <1>8. utxo' = coins[b].utxo /\ spent' = coins[b].spent /\ UNCHANGED <<minted, tip, txs>>
    BY <1>0, <1>7 DEF ApplyUtxo, envVars, chainVars, poolVars
  <1>9. [utxo |-> utxo, spent |-> spent]' = Due(coins)'
    <2>1. coins[b] = [utxo |-> coins[b].utxo, spent |-> coins[b].spent]
      BY <1>7 DEF Stores
    <2>2. Due(coins)' = coins[b]
      BY <1>1, <1>4, <1>8 DEF Due
    <2> QED BY <1>8, <2>1, <2>2
  <1>10. (txs \cap Gone(known) = {})'
    BY <1>1, <1>3, <1>8 DEF Steady, Gone, KnownBelow
  <1>11. \A j \in Tasks : task'[j].pc \in {"sentinel", "apply", "clear", "remove"} =>
            task'[j].block = tip'.hash
    BY <1>2, <1>8 DEF Steady
  <1>12. ~At("main", "boot")' \/ task'["main"] = task["main"]
    BY <1>2, OwnTask DEF At
  <1>13. ~Running' => ~Running
    BY <1>0, <1>2, OwnTask DEF Running
  <1> QED BY <1>8, <1>9, <1>10, <1>11, <1>12, <1>13 DEF Steady, At

\* Mempool::remove drops the tip's transactions from the pool.
LEMMA SteadyRemove ==
  ASSUME Serial, NodeInv, SerialInv, NEW coins, NEW known, Family(coins, known), Steady(coins, known),
         NEW i \in Tasks, RemoveFromPool(i)
  PROVE  Steady(coins, known)'
  <1> DEFINE b == tip.hash
  <1>0. task[i].pc = "remove" /\ task[i].block = b
    BY DEF RemoveFromPool, At, Steady
  <1>1. i \in Peers /\ i # "main" /\ Running /\ tip # NoTip
    <2>1. i \in Peers
      BY <1>0 DEF SerialInv, MainKnows, Tasks
    <2> QED BY <1>0, <2>1, AtWork, PeerTask DEF At
  <1>2. task'[i].pc = "idle" /\ \A j \in Tasks : j # i => task'[j] = task[j]
    BY DEF RemoveFromPool, Return, Idle, NodeInv, TasksShaped
  <1>3. Within(Unpruned) /\ ~Within(Unapplied)
    BY <1>0, WithinAlone DEF Unpruned, Unapplied
  <1>4. ~Within(Unpruned)' /\ ~Within(Unapplied)'
    <2>1. ASSUME NEW j \in Tasks, task'[j].pc \in Unpruned PROVE FALSE
      <3>1. j # i /\ task[j].pc \in Unpruned
        BY <1>2, <2>1 DEF Unpruned, Unapplied
      <3> QED BY <1>0, <3>1, Alone DEF Unpruned, Unapplied
    <2> QED BY <2>1 DEF Within, Unpruned
  <1>5. b \in DOMAIN minted /\ known[b] = KnownBelow(known, b) \cup Body(minted[b].txs)
        /\ minted[b].txs \in Seq(Tx)
    BY <1>1, TipGrown DEF Family, Grown
  <1>6. txs' = txs \ Body(minted[b].txs) /\ UNCHANGED <<minted, tip, utxo, spent>>
    <2>1. ToSet(minted[b].txs) = Body(minted[b].txs)
      BY <1>5 DEF ToSet, Body
    <2> QED BY <1>0, <2>1 DEF RemoveFromPool, Pool!Drop, envVars, chainVars, utxoVars
  <1>7. [utxo |-> utxo, spent |-> spent]' = Due(coins)'
    BY <1>1, <1>3, <1>4, <1>6 DEF Steady, Due
  <1>8. (txs \cap Gone(known) = {})'
    BY <1>1, <1>3, <1>4, <1>5, <1>6 DEF Steady, Gone
  <1>9. \A j \in Tasks : task'[j].pc \notin {"sentinel", "apply", "clear", "remove"}
    BY <1>4 DEF Within, Unpruned, Unapplied
  <1>10. task'["main"] = task["main"]
    BY <1>1, <1>2, OwnTask
  <1> QED BY <1>1, <1>6, <1>7, <1>8, <1>9, <1>10 DEF Steady, At, Running

\* The pool validates as a block does.
LEMMA PoolValidates ==
  ASSUME NEW t, NEW coins, Pool!ValidateTransaction(t, coins)
  PROVE  ValidateTransaction(t, coins)
  <1>1. Pool!TotalIn(t) = TotalIn(t) /\ Pool!TotalOut(t) = TotalOut(t)
    BY DEF Pool!TotalIn, TotalIn, Pool!TotalOut, TotalOut, Pool!Output, Output,
           Pool!FoldLeft, FoldLeft, Pool!MapThenFoldSet, MapThenFoldSet, Pool!Max, Max
  <1>2. \A r : Pool!Output(r) = Output(r)
    BY DEF Pool!Output, Output
  <1> QED BY <1>1, <1>2 DEF Pool!ValidateTransaction, ValidateTransaction

\* A transaction that is valid on sound coins is not among those that led to
\* them: it would spend what is gone, or nothing at all.
LEMMA ValidIsUnconfirmed ==
  ASSUME NEW t \in Tx, NEW st, NEW known, NEW height, Sound(st, known, height),
         \A u \in known : MustSpend(u),
         ValidateTransaction(t, st.utxo)
  PROVE  t \notin known
  <1>1. InputRefs(t) \subseteq st.utxo
    BY ValidSpendsUnspent
  <1>2. TotalIn(t) >= TotalOut(t)
    BY DEF ValidateTransaction
  <1> QED BY <1>1, <1>2 DEF Sound, MustSpend

\* Mempool::add takes only what is not on the chain the coins are of.
LEMMA SteadySubmit ==
  ASSUME Serial, NodeInv, SerialInv, NEW coins, NEW known, Family(coins, known), Steady(coins, known),
         NEW t \in Tx, SubmitTx(t)
  PROVE  Steady(coins, known)'
  <1> DEFINE b == tip.hash
             st == [utxo |-> utxo, spent |-> spent]
  <1>0. Running /\ tip # NoTip
    BY DEF SubmitTx, SerialInv, MainKnows, Running
  <1>1. b \in DOMAIN minted
    BY <1>0, TipGrown
  <1>2. ValidateTransaction(t, utxo) /\ txs' \subseteq txs \cup {t}
    <2>1. Pool!ValidateTransaction(t, utxo) /\ txs' \subseteq txs \cup {t}
      BY DEF SubmitTx, Pool!Add, Pool!Insert, Pool!Replace, Pool!Admissible
    <2> QED BY <2>1, PoolValidates
  <1>3. UNCHANGED <<minted, tip, utxo, spent, task>>
    BY DEF SubmitTx, Pool!Add, Pool!Insert, Pool!Replace, envVars, chainVars
  <1>4. /\ Sound(coins[b], known[b], minted[b].height + 1)
        /\ Sound(CoinsBelow(coins, b), KnownBelow(known, b), minted[b].height)
        /\ KnownBelow(known, b) \subseteq known[b] /\ \A u \in known[b] : MustSpend(u)
    BY <1>1, BelowIsSound DEF Family
  <1>5. t \notin Gone(known)
    <2>1. CASE Within(Unapplied)
      <3>1. Within(Unpruned)
        BY <2>1 DEF Within, Unpruned
      <3>2. utxo = CoinsBelow(coins, b).utxo
        <4>1. st = CoinsBelow(coins, b)
          BY <1>0, <2>1 DEF Steady, Due
        <4> QED BY <4>1
      <3>3. t \notin KnownBelow(known, b)
        BY <1>2, <1>4, <3>2, ValidIsUnconfirmed
      <3> QED BY <1>0, <3>1, <3>3 DEF Gone
    <2>2. CASE ~Within(Unapplied)
      <3>1. utxo = coins[b].utxo
        <4>1. st = coins[b]
          BY <1>0, <2>2 DEF Steady, Due
        <4> QED BY <4>1
      <3>2. t \notin known[b]
        BY <1>2, <1>4, <3>1, ValidIsUnconfirmed
      <3> QED BY <1>0, <1>4, <3>2 DEF Gone
    <2> QED BY <2>1, <2>2
  <1>6. Due(coins)' = Due(coins) /\ Gone(known)' = Gone(known)
    BY <1>3 DEF Due, Gone, CoinsBelow, KnownBelow, Within
  <1> QED BY <1>0, <1>2, <1>3, <1>5, <1>6 DEF Steady, At, Running

-----------------------------------------------------------------------------
(* The steps that write none of these.                                      *)

\* dispatch up to the first write, and the tip to fall back to.
LEMMA SteadyHandler ==
  ASSUME NodeInv, SerialInv, NEW coins, NEW known, Steady(coins, known), NEW p \in Peers,
         \/ \E b \in DOMAIN minted : Receive(p, b)
         \/ ReadTip(p) \/ ReadParent(p) \/ Validate(p) \/ ReadCurrent(p) \/ ReadNewTip(p)
  PROVE  Steady(coins, known)'
  <1> USE DEF At, Goto, Return, Idle, NodeInv, TasksShaped, IsTask
  <1>0. p \in Tasks /\ p # "main"
    BY PeerTask
  <1>1. UNCHANGED <<minted, tip, utxo, spent, txs>>
    BY DEF Receive, ReadTip, ReadParent, Validate, ReadCurrent, ReadNewTip, envVars, chainVars,
           utxoVars, poolVars
  <1>2. \A j \in Tasks : j # p => task'[j] = task[j]
    BY <1>0 DEF Receive, ReadTip, ReadParent, Validate, ReadCurrent, ReadNewTip
  <1>3. \/ task[p].pc = "new_tip" /\ task'[p].pc = "unlink"
        \/ task[p].pc \notin Unpruned /\ task'[p].pc \notin Unpruned
    <2>1. CASE \E b \in DOMAIN minted : Receive(p, b)
      BY <1>0, <2>1 DEF Receive, Unpruned, Unapplied
    <2>2. CASE ReadTip(p)
      BY <1>0, <2>2 DEF ReadTip, Unpruned, Unapplied
    <2>3. CASE ReadParent(p)
      BY <1>0, <2>3 DEF ReadParent, Unpruned, Unapplied
    <2>4. CASE Validate(p)
      BY <1>0, <2>4 DEF Validate, Unpruned, Unapplied
    <2>5. CASE ReadCurrent(p)
      BY <1>0, <2>5 DEF ReadCurrent, Unpruned, Unapplied
    <2>6. CASE ReadNewTip(p)
      BY <1>0, <2>6 DEF ReadNewTip
    <2> QED BY <2>1, <2>2, <2>3, <2>4, <2>5, <2>6
  <1>4. /\ task'[p].pc \in Unapplied <=> task[p].pc \in Unapplied
        /\ task'[p].pc \in Unpruned <=> task[p].pc \in Unpruned
        /\ task'[p].pc \notin {"sentinel", "apply", "clear", "remove"}
    BY <1>3 DEF Unpruned, Unapplied
  <1> QED BY <1>0, <1>1, <1>2, <1>4, SteadyQuiet

\* The crash sentinel.
LEMMA SteadySentinel ==
  ASSUME NodeInv, SerialInv, NEW coins, NEW known, Steady(coins, known), NEW i \in Tasks,
         WriteSentinel(i) \/ ClearSentinel(i)
  PROVE  Steady(coins, known)'
  <1> USE DEF At, Goto, NodeInv, TasksShaped, IsTask
  <1>1. UNCHANGED <<minted, tip, utxo, spent, txs>>
    BY DEF WriteSentinel, ClearSentinel, envVars, chainVars, utxoVars, poolVars
  <1>2. /\ \A j \in Tasks : j # i => task'[j] = task[j]
        /\ task'[i].block = task[i].block
    BY DEF WriteSentinel, ClearSentinel
  <1>3. \/ task[i].pc = "sentinel" /\ task'[i].pc = "apply"
        \/ task[i].pc = "clear" /\ task'[i].pc = IF i = "main" THEN "validators" ELSE "remove"
    BY DEF WriteSentinel, ClearSentinel
  <1>4. /\ task'[i].pc \in Unapplied <=> task[i].pc \in Unapplied
        /\ i # "main" => (task'[i].pc \in Unpruned <=> task[i].pc \in Unpruned)
        /\ i = "main" => ~Running /\ task'[i].pc # "boot"
    BY <1>3 DEF Unpruned, Unapplied, Running
  <1>5. task[i].block = tip.hash
    BY <1>3 DEF Steady
  <1> QED BY <1>1, <1>2, <1>4, <1>5, SteadyQuiet

\* Start-up and the ticker.
LEMMA SteadyOther ==
  ASSUME NodeInv, SerialInv, NEW coins, NEW known, Steady(coins, known),
         BootCheck \/ InstallValidators \/ Tick \/ (ElectMe /\ task'["ticker"].pc = "idle")
  PROVE  Steady(coins, known)'
  <1> USE DEF At, Return, Idle, NodeInv, TasksShaped, IsTask
  <1>1. UNCHANGED <<minted, tip, utxo, spent, txs>>
    BY DEF BootCheck, InstallValidators, Tick, ElectMe, envVars, chainVars, utxoVars, poolVars
  <1>2. CASE BootCheck
    <2>1. \A j \in Tasks : j # "main" => task'[j] = task[j]
      BY <1>2, OwnTask DEF BootCheck
    <2>2. task["main"].pc = "boot" /\ task'["main"].pc \in {"run", "insert"}
      BY <1>2, OwnTask DEF BootCheck
    <2>3. /\ task'["main"].pc \in Unapplied <=> task["main"].pc \in Unapplied
          /\ task'["main"].pc \notin {"boot", "sentinel", "apply", "clear", "remove"} /\ ~Running
      BY <2>2 DEF Unapplied, Running
    <2> QED BY <1>1, <2>1, <2>3, OwnTask, SteadyQuiet
  <1>3. CASE InstallValidators
    <2>1. \A j \in Tasks : j # "main" => task'[j] = task[j]
      BY <1>3, OwnTask DEF InstallValidators
    <2>2. task["main"].pc = "validators" /\ task'["main"].pc = "run"
      BY <1>3, OwnTask DEF InstallValidators
    <2>3. /\ task'["main"].pc \in Unapplied <=> task["main"].pc \in Unapplied
          /\ task'["main"].pc \notin {"boot", "sentinel", "apply", "clear", "remove"} /\ ~Running
      BY <2>2 DEF Unapplied, Running
    <2> QED BY <1>1, <2>1, <2>3, OwnTask, SteadyQuiet
  <1>4. CASE Tick \/ (ElectMe /\ task'["ticker"].pc = "idle")
    <2>1. \A j \in Tasks : j # "ticker" => task'[j] = task[j]
      BY <1>4, OwnTask DEF Tick, ElectMe, Goto
    <2>2. task["ticker"].pc \in {"idle", "elect"} /\ task'["ticker"].pc \in {"idle", "elect"}
      BY <1>4, OwnTask DEF Tick, ElectMe
    <2>3. /\ task'["ticker"].pc \in Unapplied <=> task["ticker"].pc \in Unapplied
          /\ task'["ticker"].pc \in Unpruned <=> task["ticker"].pc \in Unpruned
          /\ task'["ticker"].pc \notin {"sentinel", "apply", "clear", "remove"}
      BY <2>2 DEF Unapplied, Unpruned
    <2> QED BY <1>1, <2>1, <2>3, OwnTask, SteadyQuiet
  <1> QED BY <1>2, <1>3, <1>4

-----------------------------------------------------------------------------
(* New blocks.                                                              *)

\* The coins another proposer sees on a block are that block's coins.
LEMMA CoinsAtBlock ==
  ASSUME NodeInv, NEW coins, NEW known, Family(coins, known), NEW b \in DOMAIN minted
  PROVE  CoinsAt(b) = coins[b].utxo
  <1> DEFINE Def(g) == g = [h \in DOMAIN minted |->
                              ApplyBlock(minted[h].height, minted[h].txs,
                                         IF h = Genesis THEN Empty ELSE g[minted[h].prev])]
             f == CHOOSE g : Def(g)
             c == [h \in DOMAIN minted |-> coins[h]]
             P == {k \in 0..MaxHeight : \A h \in DOMAIN minted : minted[h].height = k => f[h] = coins[h]}
  <1>0. MaxHeight \in Nat /\ \A h \in DOMAIN minted : minted[h].height \in 0..MaxHeight
    BY NodeAssumption DEF NodeInv, MintedTyped, Height
  <1>1. \A h \in DOMAIN minted : h # Genesis =>
           minted[h].prev \in DOMAIN minted /\ minted[h].height = minted[minted[h].prev].height + 1
    BY DEF Family, Grown
  <1>2. Def(c)
    <2>1. ASSUME NEW h \in DOMAIN minted
          PROVE  coins[h] = ApplyBlock(minted[h].height, minted[h].txs,
                                       IF h = Genesis THEN Empty ELSE c[minted[h].prev])
      <3>1. CoinsBelow(coins, h) = IF h = Genesis THEN Empty ELSE c[minted[h].prev]
        BY <1>1 DEF CoinsBelow
      <3> QED BY <3>1 DEF Family
    <2> QED BY <2>1
  <1>3. Def(f)
    <2> HIDE DEF Def, c
    <2> QED BY <1>2
  <1>4. CoinsAt(b) = f[b].utxo
    BY DEF CoinsAt
  <1> HIDE DEF f
  <1>5. \A h \in DOMAIN minted :
           f[h] = ApplyBlock(minted[h].height, minted[h].txs,
                             IF h = Genesis THEN Empty ELSE f[minted[h].prev])
    BY <1>3
  <1> HIDE DEF Def, c
  <1>6. 0 \in P
    <2>1. ASSUME NEW h \in DOMAIN minted, minted[h].height = 0 PROVE f[h] = coins[h]
      <3>1. h = Genesis
        <4> SUFFICES ASSUME h # Genesis PROVE FALSE
          OBVIOUS
        <4>1. minted[minted[h].prev].height \in Nat /\ minted[minted[h].prev].height + 1 = 0
          BY <1>0, <1>1, <2>1
        <4> QED BY <4>1
      <3>2. CoinsBelow(coins, h) = Empty
        BY <3>1 DEF CoinsBelow
      <3>3. coins[h] = ApplyBlock(minted[h].height, minted[h].txs, Empty)
        BY <3>2 DEF Family
      <3> QED BY <1>5, <3>1, <3>3
    <2> QED BY <1>0, <2>1
  <1>7. ASSUME NEW k \in 1..MaxHeight, k - 1 \in P PROVE k \in P
    <2>1. ASSUME NEW h \in DOMAIN minted, minted[h].height = k PROVE f[h] = coins[h]
      <3>1. CASE h = Genesis
        <4>1. CoinsBelow(coins, h) = Empty
          BY <3>1 DEF CoinsBelow
        <4>2. coins[h] = ApplyBlock(minted[h].height, minted[h].txs, Empty)
          BY <4>1 DEF Family
        <4> QED BY <1>5, <3>1, <4>2
      <3>2. CASE h # Genesis
        <4>1. minted[h].prev \in DOMAIN minted /\ minted[minted[h].prev].height = k - 1
          <5>1. /\ minted[h].prev \in DOMAIN minted /\ minted[minted[h].prev].height \in Nat
                /\ k = minted[minted[h].prev].height + 1
            BY <1>0, <1>1, <2>1, <3>2
          <5> QED BY <5>1
        <4>2. f[minted[h].prev] = coins[minted[h].prev]
          BY <1>7, <4>1
        <4>3. CoinsBelow(coins, h) = f[minted[h].prev]
          BY <3>2, <4>2 DEF CoinsBelow
        <4>4. coins[h] = ApplyBlock(minted[h].height, minted[h].txs, f[minted[h].prev])
          BY <4>3 DEF Family
        <4> QED BY <1>5, <3>2, <4>4
      <3> QED BY <3>1, <3>2
    <2>2. k \in 0..MaxHeight
      BY <1>0
    <2> QED BY <2>1, <2>2
  <1>8. \A k \in 0..MaxHeight : k \in P
    <2> HIDE DEF P
    <2> QED BY <1>0, <1>6, <1>7, Induction
  <1>9. f[b] = coins[b]
    BY <1>0, <1>8
  <1> QED BY <1>4, <1>9

\* Blocks stay what they are, so their coins do.
LEMMA FamilyKept ==
  ASSUME NEW coins, NEW known, Family(coins, known), UNCHANGED minted
  PROVE  Family(coins, known)'
  BY DEF Family, Grown, CoinsBelow, KnownBelow

\* A block that is published has coins too, and the others keep theirs.
LEMMA CoinsMint ==
  ASSUME Honest, NodeInv, SerialInv, CoinsInv, NEW b \in FreshHash, NEW parent \in DOMAIN minted,
         NEW s, NEW body \in Bodies, RemoteMint(b, parent, s, body)
  PROVE  CoinsInv'
  <1> DEFINE blk == Block(minted[parent].height + 1, parent, s, Elect(s, parent), body)
             n == minted[parent].height + 1
  <1>1. PICK coins, known : Family(coins, known) /\ (crashes = 0 => Steady(coins, known))
    BY DEF CoinsInv
  <1>2. /\ minted' = [h \in DOMAIN minted \cup {b} |-> IF h = b THEN blk ELSE minted[h]]
        /\ UNCHANGED <<crashes, chainVars, utxoVars, poolVars, task>>
    BY DEF RemoteMint
  <1>3. blk.height = n /\ blk.prev = parent /\ blk.txs = body /\ minted[parent].height \in Nat
    BY NodeAssumption DEF Block, NodeInv, MintedTyped, Height
  <1>4. b # Genesis /\ b \notin DOMAIN minted /\ Genesis \in DOMAIN minted
    BY NodeAssumption DEF FreshHash, Genesis, NodeInv, MintedTyped
  <1>5. body \in Seq(Tx) /\ Drawn(body)
    BY NodeAssumption DEF Honest
  <1>6. \A i \in 1..Len(body) : ValidateTransaction(body[i], coins[parent].utxo)
    <2>1. \A i \in DOMAIN body : ValidateTransaction(body[i], CoinsAt(parent))
      BY DEF RemoteMint, Honest
    <2>2. CoinsAt(parent) = coins[parent].utxo
      BY <1>1, CoinsAtBlock
    <2> QED BY <1>5, <2>1, <2>2
  <1>7. coins[parent] \in Stores /\ Sound(coins[parent], known[parent], n)
    BY <1>1 DEF Family
  <1>8. n \in Nat /\ BlockFresh(n, coins[parent], body) /\ Body(body) \cap known[parent] = {}
    <2>1. n \in Nat
      BY <1>3
    <2> HIDE DEF n
    <2> QED BY <1>5, <1>6, <1>7, <2>1, ValidIsFresh
  <1> DEFINE new == ApplyBlock(n, body, coins[parent])
             all == known[parent] \cup Body(body)
  <1>9. new \in Stores /\ Sound(new, all, n + 1)
    <2> HIDE DEF n
    <2> QED BY <1>5, <1>7, <1>8, BlockTyped, SoundStep
  <1>10. PICK coins2, known2 :
           /\ coins2[b] = new /\ known2[b] = all
           /\ \A h \in DOMAIN minted : coins2[h] = coins[h] /\ known2[h] = known[h]
    <2> DEFINE c == [h \in DOMAIN minted \cup {b} |-> IF h = b THEN new ELSE coins[h]]
               k == [h \in DOMAIN minted \cup {b} |-> IF h = b THEN all ELSE known[h]]
    <2> HIDE DEF new, all
    <2>1. c[b] = new /\ k[b] = all /\ \A h \in DOMAIN minted : c[h] = coins[h] /\ k[h] = known[h]
      BY <1>4
    <2> HIDE DEF c, k
    <2> QED BY <2>1
  <1>11. /\ DOMAIN minted' = DOMAIN minted \cup {b} /\ minted'[b] = blk
         /\ \A h \in DOMAIN minted : minted'[h] = minted[h]
    BY <1>2, <1>4
  <1> HIDE DEF new, all, blk, n
  <1>12. Family(coins2, known2)'
    <2> DEFINE Good(h) ==
                 /\ Grown(h)'
                 /\ coins2[h] \in Stores
                 /\ coins2[h] = ApplyBlock(minted'[h].height, minted'[h].txs, CoinsBelow(coins2, h)')
                 /\ BlockFresh(minted'[h].height, CoinsBelow(coins2, h)', minted'[h].txs)
                 /\ known2[h] = KnownBelow(known2, h)' \cup Body(minted'[h].txs)
                 /\ Sound(coins2[h], known2[h], minted'[h].height + 1)
                 /\ \A t \in known2[h] : MustSpend(t)
    <2>1. ASSUME NEW h \in DOMAIN minted PROVE Good(h)
      <3>1. Grown(h) /\ (h # Genesis => minted[h].prev \in DOMAIN minted)
        BY <1>1 DEF Family, Grown
      <3>2. CoinsBelow(coins2, h)' = CoinsBelow(coins, h) /\ KnownBelow(known2, h)' = KnownBelow(known, h)
        BY <1>10, <1>11, <3>1 DEF CoinsBelow, KnownBelow
      <3>3. Grown(h)'
        BY <1>11, <3>1 DEF Grown
      <3> QED BY <1>1, <1>10, <1>11, <3>2, <3>3 DEF Family
    <2>2. Good(b)
      <3>1. CoinsBelow(coins2, b)' = coins[parent] /\ KnownBelow(known2, b)' = known[parent]
        BY <1>3, <1>4, <1>10, <1>11 DEF CoinsBelow, KnownBelow
      <3>2. \A t \in Body(body) : MustSpend(t)
        BY <1>5 DEF Drawn, Body, MustSpend
      <3>3. \A t \in all : MustSpend(t)
        BY <1>1, <3>2 DEF Family, all
      <3>4. Grown(b)'
        <4>1. \A i \in 1..Len(body) : TotalIn(body[i]) >= TotalOut(body[i])
          BY <1>6 DEF ValidateTransaction
        <4> QED BY <1>3, <1>4, <1>5, <1>11, <3>2, <4>1 DEF Grown, n
      <3> QED BY <1>3, <1>8, <1>9, <1>10, <1>11, <3>1, <3>3, <3>4 DEF new, all
    <2> HIDE DEF Good
    <2>3. \A h \in DOMAIN minted' : Good(h)
      BY <1>11, <2>1, <2>2
    <2> QED BY <2>3 DEF Good, Family
  <1>13. ASSUME crashes' = 0 PROVE Steady(coins2, known2)'
    <2>1. Steady(coins, known) /\ UNCHANGED <<tip, utxo, spent, txs, task>>
      BY <1>1, <1>2, <1>13 DEF chainVars, utxoVars, poolVars
    <2>2. Due(coins2)' = Due(coins) /\ Gone(known2)' = Gone(known)
      <3>1. Within(Unapplied)' = Within(Unapplied) /\ Within(Unpruned)' = Within(Unpruned)
        BY <2>1 DEF Within
      <3>2. CASE tip = NoTip
        BY <2>1, <3>2 DEF Due, Gone
      <3>3. CASE tip # NoTip
        <4>1. tip.hash \in DOMAIN minted /\ Grown(tip.hash)
          BY <1>1, <3>3, TipGrown
        <4>2. /\ CoinsBelow(coins2, tip.hash)' = CoinsBelow(coins, tip.hash)
              /\ KnownBelow(known2, tip.hash)' = KnownBelow(known, tip.hash)
          BY <1>10, <1>11, <2>1, <4>1 DEF CoinsBelow, KnownBelow, Grown
        <4> QED BY <1>10, <2>1, <3>1, <3>3, <4>1, <4>2 DEF Due, Gone
      <3> QED BY <3>2, <3>3
    <2> QED BY <2>1, <2>2 DEF Steady, At, Running
  <1> QED BY <1>12, <1>13 DEF CoinsInv

-----------------------------------------------------------------------------
(* The invariant.                                                           *)

\* The empty store of a first start, before the genesis block.
LEMMA CoinsStart == ASSUME Honest, Init PROVE CoinsInv
  <1> DEFINE st    == ApplyBlock(0, GenesisTxs, Empty)
             coins == [h \in {Genesis} |-> st]
             known == [h \in {Genesis} |-> Body(GenesisTxs)]
  <1>0. GenesisTxs \in Seq(Tx) /\ Empty \in Stores
    BY NodeAssumption, EmptyTyped
  <1>1. BlockFresh(0, Empty, GenesisTxs)
    BY DEF Honest, BlockFresh, Fresh, Empty
  <1>2. Sound(Empty, {}, 0)
    BY DEF Sound, Empty
  <1>3. st \in Stores /\ Sound(st, {} \cup Body(GenesisTxs), 0 + 1)
    BY <1>0, <1>1, <1>2, BlockTyped, SoundStep
  <1>4. \A t \in Body(GenesisTxs) : MustSpend(t)
    BY DEF Honest, Body
  <1>5. DOMAIN minted = {Genesis} /\ minted[Genesis].height = 0 /\ minted[Genesis].txs = GenesisTxs
    BY DEF Init, Block
  <1>6. coins[Genesis] = st /\ known[Genesis] = {} \cup Body(GenesisTxs)
    OBVIOUS
  <1> HIDE DEF coins, known
  <1>7. CoinsBelow(coins, Genesis) = Empty /\ KnownBelow(known, Genesis) = {}
    BY DEF CoinsBelow, KnownBelow
  <1>8. Grown(Genesis)
    BY <1>0, <1>4, <1>5 DEF Grown
  <1>9. Family(coins, known)
    BY <1>1, <1>3, <1>4, <1>5, <1>6, <1>7, <1>8 DEF Family
  <1>10. Steady(coins, known)
    <2>1. task = [i \in Tasks |-> IF i = "main" THEN [Idle EXCEPT !.pc = "boot"] ELSE Idle]
      BY DEF Init
    <2>2. \A i \in Tasks : task[i].pc \in {"idle", "boot"}
      BY <2>1 DEF Idle
    <2> QED BY <2>2 DEF Steady, Init, Due, Gone, Empty
  <1> QED BY <1>9, <1>10 DEF CoinsInv

\* Every step keeps the blocks' coins and, until a crash, those of the trees.
LEMMA CoinsInvStep ==
  ASSUME Serial, Honest, NodeInv, TypeInv, SerialInv, CoinsInv, [Next]_vars
  PROVE  CoinsInv'
  <1>1. CASE \E b \in FreshHash, parent \in DOMAIN minted, s \in 1..MaxSlot, body \in Bodies :
               RemoteMint(b, parent, s, body)
    BY <1>1, CoinsMint
  <1>2. PICK coins, known : Family(coins, known) /\ (crashes = 0 => Steady(coins, known))
    BY DEF CoinsInv
  <1>3. ASSUME UNCHANGED minted, UNCHANGED crashes, Steady(coins, known) => Steady(coins, known)'
        PROVE  CoinsInv'
    BY <1>2, <1>3, FamilyKept DEF CoinsInv
  <1>4. ASSUME NEW p \in Peers,
               \/ \E b \in DOMAIN minted : Receive(p, b)
               \/ ReadTip(p) \/ ReadParent(p) \/ Validate(p) \/ ReadCurrent(p) \/ ReadNewTip(p)
        PROVE  CoinsInv'
    <2>1. UNCHANGED <<minted, crashes>>
      BY <1>4 DEF Receive, ReadTip, ReadParent, Validate, ReadCurrent, ReadNewTip, envVars
    <2> QED BY <1>3, <1>4, <2>1, SteadyHandler
  <1>5. ASSUME NEW p \in Peers, RollbackUtxo(p) \/ Unlink(p) PROVE CoinsInv'
    <2>1. UNCHANGED <<minted, crashes>>
      BY <1>5 DEF RollbackUtxo, Unlink, envVars
    <2> QED BY <1>2, <1>3, <1>5, <2>1, SteadyRollback, SteadyUnlink
  <1>6. ASSUME NEW i \in Tasks, Insert(i) \/ ApplyUtxo(i) \/ RemoveFromPool(i) PROVE CoinsInv'
    <2>1. UNCHANGED <<minted, crashes>>
      BY <1>6 DEF Insert, ApplyUtxo, RemoveFromPool, envVars
    <2> QED BY <1>2, <1>3, <1>6, <2>1, SteadyInsert, SteadyApply, SteadyRemove
  <1>7. ASSUME NEW i \in Tasks, WriteSentinel(i) \/ ClearSentinel(i) PROVE CoinsInv'
    <2>1. UNCHANGED <<minted, crashes>>
      BY <1>7 DEF WriteSentinel, ClearSentinel, envVars
    <2> QED BY <1>3, <1>7, <2>1, SteadySentinel
  <1>8. CASE BootCheck \/ InstallValidators
    <2>1. UNCHANGED <<minted, crashes>>
      BY <1>8 DEF BootCheck, InstallValidators, envVars
    <2> QED BY <1>3, <1>8, <2>1, SteadyOther
  <1>9. CASE Tick \/ ElectMe \/ DrainPool \/ \E b \in FreshHash : ProposeInsert(b)
    <2>1. SerialInv' /\ (Tick \/ ElectMe)
      BY <1>9, SerialTicker
    <2>2. UNCHANGED <<minted, crashes>>
      BY <2>1 DEF Tick, ElectMe, envVars
    <2>3. ElectMe => task'["ticker"].pc = "idle"
      <3>1. ElectMe => task'["ticker"].pc \in {"drain", "idle"}
        BY OwnTask DEF ElectMe, Goto, Return, Idle, NodeInv, TasksShaped, IsTask
      <3> QED BY <2>1, <3>1 DEF SerialInv
    <2> QED BY <1>3, <2>1, <2>2, <2>3, SteadyOther
  <1>10. ASSUME NEW t \in Tx, SubmitTx(t) PROVE CoinsInv'
    <2>1. UNCHANGED <<minted, crashes>>
      BY <1>10 DEF SubmitTx, envVars
    <2> QED BY <1>2, <1>3, <1>10, <2>1, SteadySubmit
  <1>11. CASE NextSlot \/ UNCHANGED vars
    <2>1. UNCHANGED <<minted, crashes, tip, utxo, spent, txs, task>>
      BY <1>11 DEF NextSlot, vars, envVars, chainVars, utxoVars, poolVars
    <2>2. Steady(coins, known) => Steady(coins, known)'
      BY <2>1 DEF Steady, Due, Gone, CoinsBelow, KnownBelow, Within, At, Running
    <2> QED BY <1>3, <2>1, <2>2
  <1>12. CASE Crash
    <2>1. UNCHANGED minted /\ crashes' = crashes + 1 /\ crashes \in Nat
      BY <1>12, NodeAssumption DEF Crash, TypeInv, Clocked
    <2>2. crashes' # 0
      BY <2>1
    <2> QED BY <1>2, <2>1, <2>2, FamilyKept DEF CoinsInv
  <1>13. ASSUME NEW p \in Peers, NEW t \in Tx, ReceiveTx(p, t) PROVE CoinsInv'
    BY <1>10, <1>13 DEF ReceiveTx
  <1> QED BY <1>1, <1>4, <1>5, <1>6, <1>7, <1>8, <1>9, <1>10, <1>11, <1>12, <1>13 DEF Next

\* The inductive invariant of the coins.
THEOREM CoinsSafety ==
  ASSUME Serial, Honest PROVE Spec => [](NodeInv /\ TypeInv /\ SerialInv /\ CoinsInv)
  <1>1. Init => CoinsInv
    BY CoinsStart
  <1>2. NodeInv /\ TypeInv /\ SerialInv /\ CoinsInv /\ [Next]_vars => CoinsInv'
    BY CoinsInvStep
  <1> QED BY <1>1, <1>2, SerialSafety, PTL DEF Spec

-----------------------------------------------------------------------------
(* The coins and the stored chain.                                          *)

\* The stored blocks, from genesis up.
LEMMA StoredBlock ==
  ASSUME NodeInv, SerialInv, tip # NoTip, NEW h \in 0..tip.height
  PROVE  /\ h \in Height /\ blocks_h[h] # NoBlock /\ blocks_h[h] \in DOMAIN minted
         /\ minted[blocks_h[h]].height = h
         /\ blocks_h[h] = Genesis <=> h = 0
         /\ h > 0 => minted[blocks_h[h]].prev = blocks_h[h - 1]
  <1>1. tip.height \in Height
    BY DEF SerialInv, StoredToTip
  <1>2. h \in Height /\ h <= tip.height
    BY <1>1, NodeAssumption DEF Height
  <1>3. blocks_h[h] # NoBlock
    BY <1>2 DEF SerialInv, StoredToTip
  <1>4. blocks_h[h] \in DOMAIN minted /\ minted[blocks_h[h]].height = h
    BY <1>2, <1>3 DEF NodeInv, FiledByHeight
  <1>5. blocks_h[h] = Genesis <=> h = 0
    BY <1>4 DEF SerialInv, Rooted
  <1>6. h > 0 => minted[blocks_h[h]].prev = blocks_h[h - 1]
    BY <1>2, <1>3 DEF SerialInv, ChainLinked
  <1> QED BY <1>2, <1>3, <1>4, <1>5, <1>6

\* The coins of the tip's block are those of the stored chain, replayed.
LEMMA ReplayIsCoins ==
  ASSUME NodeInv, SerialInv, tip # NoTip, NEW coins, NEW known, Family(coins, known)
  PROVE  ReplayTo(tip.height) = coins[tip.hash]
  <1> DEFINE n      == tip.height + 1
             bodies == [i \in 1..n |-> minted[blocks_h[i - 1]].txs]
             after  == [k \in 0..n |-> IF k = 0 THEN Empty ELSE coins[blocks_h[k - 1]]]
  <1>0. tip.height \in Nat /\ n \in Nat
    BY TipGrown
  <1>1. ASSUME NEW k \in 1..n
        PROVE  /\ k - 1 \in Nat /\ k - 1 \in 0..tip.height
               /\ blocks_h[k - 1] \in DOMAIN minted /\ minted[blocks_h[k - 1]].height = k - 1
               /\ bodies[k] = minted[blocks_h[k - 1]].txs /\ bodies[k] \in Seq(Tx)
    <2>1. k - 1 \in Nat /\ k - 1 \in 0..tip.height
      BY <1>0
    <2>2. blocks_h[k - 1] \in DOMAIN minted /\ minted[blocks_h[k - 1]].height = k - 1
      BY <2>1, StoredBlock
    <2>3. bodies[k] = minted[blocks_h[k - 1]].txs
      <3> HIDE DEF n
      <3> QED OBVIOUS
    <2> QED BY <2>1, <2>2, <2>3 DEF Family, Grown
  <1>2. bodies \in Seq(Seq(Tx)) /\ Len(bodies) = n
    <2>1. bodies = [i \in 1..n |-> bodies[i]] /\ \A i \in 1..n : bodies[i] \in Seq(Tx)
      BY <1>1
    <2> HIDE DEF bodies, n
    <2>2. bodies \in [1..n -> Seq(Tx)]
      BY <2>1
    <2> QED BY <1>0, <2>2
  <1>3. after \in [0..n -> Stores] /\ after[0] = Empty
    <2>1. ASSUME NEW k \in 0..n PROVE (IF k = 0 THEN Empty ELSE coins[blocks_h[k - 1]]) \in Stores
      <3>1. CASE k = 0
        BY <3>1, EmptyTyped
      <3>2. CASE k # 0
        <4>1. k \in 1..n
          BY <1>0, <3>2
        <4> QED BY <1>1, <3>2, <4>1 DEF Family
      <3> QED BY <3>1, <3>2
    <2>2. 0 \in 0..n
      BY <1>0
    <2> HIDE DEF n
    <2> QED BY <2>1, <2>2
  <1>4. ASSUME NEW k \in 1..n PROVE after[k] = ApplyBlock(k - 1, bodies[k], after[k - 1])
    <2> DEFINE b == blocks_h[k - 1]
    <2>1. k \in 0..n /\ k - 1 \in 0..n /\ k # 0 /\ k - 1 \in 0..tip.height
      BY <1>0
    <2>2. after[k] = coins[b] /\ after[k - 1] = IF k - 1 = 0 THEN Empty ELSE coins[blocks_h[k - 1 - 1]]
      <3> HIDE DEF n
      <3> QED BY <2>1
    <2>3. coins[b] = ApplyBlock(k - 1, bodies[k], CoinsBelow(coins, b))
      <3> HIDE DEF bodies, n
      <3> QED BY <1>1 DEF Family
    <2>4. CoinsBelow(coins, b) = after[k - 1]
      <3> HIDE DEF after, bodies
      <3>1. b = Genesis <=> k - 1 = 0
        BY <2>1, StoredBlock
      <3>2. k - 1 > 0 => minted[b].prev = blocks_h[k - 1 - 1]
        BY <2>1, StoredBlock
      <3>3. k - 1 = 0 \/ k - 1 > 0
        BY <1>0
      <3> QED BY <2>2, <3>1, <3>2, <3>3 DEF CoinsBelow
    <2> QED BY <2>2, <2>3, <2>4
  <1>5. after[n] = coins[tip.hash]
    <2>1. n \in 0..n /\ n # 0 /\ n - 1 = tip.height
      BY <1>0
    <2>2. after[n] = coins[blocks_h[n - 1]]
      <3> HIDE DEF n
      <3> QED BY <2>1
    <2> QED BY <2>1, <2>2 DEF SerialInv, StoredToTip
  <1>6. ReplayTo(tip.height) = Replay(bodies)
    BY DEF ReplayTo
  <1> HIDE DEF bodies, after, n
  <1>7. Replays(after, bodies)
    BY <1>2, <1>3, <1>4 DEF Replays
  <1> QED BY <1>2, <1>5, <1>6, <1>7, ReplaysToReplay

\* The transactions of the stored blocks are those of the tip's chain.
LEMMA StoredIsKnown ==
  ASSUME NodeInv, SerialInv, tip # NoTip, NEW coins, NEW known, Family(coins, known),
         NEW h \in Height, blocks_h[h] # NoBlock
  PROVE  ToSet(minted[blocks_h[h]].txs) \subseteq known[tip.hash]
  <1> DEFINE n == tip.height
             P == {k \in 0..n : known[blocks_h[n - k]] \subseteq known[tip.hash]}
  <1>0. n \in Nat /\ h \in 0..n
    <2>1. n \in Nat /\ h \in Nat
      BY TipGrown, NodeAssumption DEF Height
    <2>2. h <= n
      BY DEF SerialInv, StoredToTip
    <2> QED BY <2>1, <2>2
  <1>1. 0 \in P
    <2>1. n - 0 = n /\ 0 \in 0..n
      BY <1>0
    <2> QED BY <2>1 DEF SerialInv, StoredToTip
  <1>2. ASSUME NEW k \in 1..n, k - 1 \in P PROVE k \in P
    <2> DEFINE m == n - (k - 1)
    <2>1. m \in 0..n /\ m > 0 /\ m - 1 = n - k /\ k \in 0..n
      BY <1>0
    <2>2. /\ blocks_h[m] \in DOMAIN minted /\ blocks_h[m] # Genesis
          /\ minted[blocks_h[m]].prev = blocks_h[m - 1]
      <3>1. m # 0
        BY <1>0
      <3> HIDE DEF m
      <3> QED BY <2>1, <3>1, StoredBlock
    <2>3. known[blocks_h[m - 1]] \subseteq known[blocks_h[m]]
      <3> HIDE DEF m, P
      <3> QED BY <2>2 DEF Family, KnownBelow
    <2>4. known[blocks_h[m]] \subseteq known[tip.hash]
      BY <1>2
    <2> QED BY <2>1, <2>3, <2>4
  <1>3. \A k \in 0..n : k \in P
    <2> HIDE DEF P, n
    <2> QED BY <1>0, <1>1, <1>2, Induction
  <1>4. known[blocks_h[h]] \subseteq known[tip.hash]
    <2>1. n - h \in 0..n /\ n - (n - h) = h
      BY <1>0
    <2>2. n - h \in P
      BY <1>3, <2>1
    <2> QED BY <2>1, <2>2
  <1>5. blocks_h[h] \in DOMAIN minted
    BY DEF NodeInv, FiledByHeight
  <1>6. Body(minted[blocks_h[h]].txs) \subseteq known[blocks_h[h]] /\ minted[blocks_h[h]].txs \in Seq(Tx)
    BY <1>5 DEF Family, Grown
  <1>7. ToSet(minted[blocks_h[h]].txs) = Body(minted[blocks_h[h]].txs)
    BY <1>6 DEF ToSet, Body
  <1> QED BY <1>4, <1>6, <1>7

\* Between updates, until a first crash, the coins and the undo records of a
\* node that handles one block at a time are those of the stored chain,
\* replayed from genesis, however often the tip gave way to a sibling
\* (dispatch, reorg_block, apply_block, rollback_block).
THEOREM CoinsUtxoIsReplay == ASSUME Serial, Honest PROVE Spec => []UtxoIsReplay
  <1>1. NodeInv /\ SerialInv /\ CoinsInv => UtxoIsReplay
    <2> SUFFICES ASSUME NodeInv, SerialInv, CoinsInv, Settled, crashes = 0 PROVE StoreIsReplay
      BY DEF UtxoIsReplay
    <2>1. PICK coins, known : Family(coins, known) /\ Steady(coins, known)
      BY DEF CoinsInv
    <2>2. tip # NoTip
      BY DEF Settled, Running, SerialInv, MainKnows
    <2>3. ~Within(Unapplied)
      BY DEF Settled, Within, Unapplied
    <2>4. [utxo |-> utxo, spent |-> spent] = coins[tip.hash]
      BY <2>1, <2>2, <2>3 DEF Steady, Due
    <2>5. ReplayTo(tip.height) = coins[tip.hash]
      BY <2>1, <2>2, ReplayIsCoins
    <2>6. utxo = ReplayTo(tip.height).utxo /\ spent = ReplayTo(tip.height).spent
      <3> DEFINE st == ReplayTo(tip.height)
      <3> HIDE DEF st
      <3>1. [utxo |-> utxo, spent |-> spent] = st
        BY <2>4, <2>5 DEF st
      <3>2. utxo = st.utxo /\ spent = st.spent
        BY <3>1
      <3> QED BY <3>2 DEF st
    <2>7. \A h \in 0..tip.height : blocks_h[h] # NoBlock
      BY <2>2, StoredBlock
    <2> QED BY <2>2, <2>6, <2>7 DEF StoreIsReplay
  <1> QED BY <1>1, CoinsSafety, PTL

\* Between updates, until a first crash, the pool of a node that handles one
\* block at a time holds nothing that is on the stored chain (Mempool::remove,
\* Mempool::add, rollback_block).
THEOREM CoinsPoolUnconfirmed == ASSUME Serial, Honest PROVE Spec => []PoolUnconfirmed
  <1>1. NodeInv /\ SerialInv /\ CoinsInv => PoolUnconfirmed
    <2> SUFFICES ASSUME NodeInv, SerialInv, CoinsInv, Settled, crashes = 0,
                        \A i \in Tasks : task[i].pc \notin {"clear", "remove"},
                        NEW h \in Height, blocks_h[h] # NoBlock
                 PROVE  txs \cap ToSet(minted[blocks_h[h]].txs) = {}
      BY DEF PoolUnconfirmed
    <2>1. PICK coins, known : Family(coins, known) /\ Steady(coins, known)
      BY DEF CoinsInv
    <2>2. tip # NoTip
      BY DEF Settled, Running, SerialInv, MainKnows
    <2>3. ~Within(Unpruned)
      BY DEF Settled, Within, Unpruned, Unapplied
    <2>4. txs \cap known[tip.hash] = {}
      BY <2>1, <2>2, <2>3 DEF Steady, Gone
    <2>5. ToSet(minted[blocks_h[h]].txs) \subseteq known[tip.hash]
      BY <2>1, <2>2, StoredIsKnown
    <2> QED BY <2>4, <2>5
  <1> QED BY <1>1, CoinsSafety, PTL

\* The transactions of the tip's chain are those of the stored blocks.
LEMMA KnownIsStored ==
  ASSUME NodeInv, SerialInv, tip # NoTip, NEW coins, NEW known, Family(coins, known)
  PROVE  known[tip.hash] \subseteq
             UNION {ToSet(minted[blocks_h[h]].txs) : h \in {k \in Height : blocks_h[k] # NoBlock}}
  <1> DEFINE n == tip.height
             H == {k \in Height : blocks_h[k] # NoBlock}
             S == UNION {ToSet(minted[blocks_h[h]].txs) : h \in H}
             P == {k \in 0..n : known[blocks_h[k]] \subseteq S}
  <1>0. n \in Nat /\ 0..n \subseteq Height
    <2>1. n \in Height
      BY DEF SerialInv, StoredToTip
    <2>2. Height = 0..MaxHeight /\ MaxHeight \in Nat
      BY NodeAssumption DEF Height
    <2> HIDE DEF n
    <2> QED BY <2>1, <2>2
  <1>1. ASSUME NEW k \in 0..n
        PROVE  /\ blocks_h[k] \in DOMAIN minted
               /\ known[blocks_h[k]] = KnownBelow(known, blocks_h[k]) \cup Body(minted[blocks_h[k]].txs)
               /\ Body(minted[blocks_h[k]].txs) \subseteq S
    <2>1. blocks_h[k] \in DOMAIN minted /\ blocks_h[k] # NoBlock
      BY StoredBlock DEF SerialInv, StoredToTip
    <2>2. minted[blocks_h[k]].txs \in Seq(Tx)
      BY <2>1 DEF Family, Grown
    <2>3. ToSet(minted[blocks_h[k]].txs) = Body(minted[blocks_h[k]].txs)
      BY <2>2 DEF ToSet, Body
    <2>4. k \in H
      BY <1>0, <2>1
    <2>5. ToSet(minted[blocks_h[k]].txs) \subseteq S
      <3> HIDE DEF H
      <3> QED BY <2>4
    <2>6. known[blocks_h[k]] = KnownBelow(known, blocks_h[k]) \cup Body(minted[blocks_h[k]].txs)
      BY <2>1 DEF Family
    <2> QED BY <2>1, <2>3, <2>5, <2>6
  <1> HIDE DEF S
  <1>2. 0 \in P
    <2>1. 0 \in 0..n
      BY <1>0
    <2>2. blocks_h[0] = Genesis
      BY <2>1, StoredBlock
    <2>3. known[blocks_h[0]] \subseteq S
      BY <1>1, <2>1, <2>2 DEF KnownBelow
    <2> QED BY <2>1, <2>3
  <1>3. ASSUME NEW k \in 1..n, k - 1 \in P PROVE k \in P
    <2>1. k \in 0..n /\ k # 0 /\ k > 0
      BY <1>0
    <2>2. blocks_h[k] # Genesis /\ minted[blocks_h[k]].prev = blocks_h[k - 1]
      BY <2>1, StoredBlock
    <2>3. known[blocks_h[k - 1]] \subseteq S
      BY <1>3
    <2>4. known[blocks_h[k]] \subseteq S
      BY <1>1, <2>1, <2>2, <2>3 DEF KnownBelow
    <2> QED BY <2>1, <2>4
  <1>4. n \in P
    <2>1. \A k \in 0..n : k \in P
      <3> HIDE DEF P, n
      <3> QED BY <1>0, <1>2, <1>3, Induction
    <2> HIDE DEF P
    <2> QED BY <1>0, <2>1
  <1>5. blocks_h[n] = tip.hash
    BY DEF SerialInv, StoredToTip
  <1> QED BY <1>4, <1>5 DEF S

\* No chain of blocks is worth more than its genesis and what those of its
\* transactions pay out whose outputs wrap or that list an input twice.
LEMMA CoinsConserved ==
  ASSUME NodeInv, NEW coins, NEW known, Family(coins, known), NEW b \in DOMAIN minted
  PROVE  /\ coins[b].utxo \in SUBSET TxOutRef /\ known[b] \in SUBSET Tx
         /\ Worth(coins[b].utxo) <= Worth(Sources(ToSet(GenesisTxs), known[b]))
  <1> DEFINE genesis == ToSet(GenesisTxs)
             Bounded(h) == /\ known[h] \in SUBSET Tx /\ genesis \subseteq known[h]
                           /\ Worth(coins[h].utxo) <= Worth(Sources(genesis, known[h]))
             P == {k \in 0..MaxHeight : \A h \in DOMAIN minted : minted[h].height = k => Bounded(h)}
  <1>0. MaxHeight \in Nat /\ \A h \in DOMAIN minted : minted[h].height \in 0..MaxHeight
    BY NodeAssumption DEF NodeInv, MintedTyped, Height
  <1>1. \A h \in DOMAIN minted : coins[h].utxo \in SUBSET TxOutRef /\ Worth(coins[h].utxo) \in Nat
    <2> TAKE h \in DOMAIN minted
    <2>1. coins[h].utxo \in SUBSET TxOutRef
      BY DEF Family, Stores
    <2> QED BY <2>1, WorthApart
  <1>2. ASSUME NEW h \in DOMAIN minted, h = Genesis PROVE Bounded(h)
    <2>1. /\ coins[h] = ApplyBlock(0, GenesisTxs, Empty)
          /\ BlockFresh(0, Empty, GenesisTxs)
          /\ known[h] = Body(GenesisTxs)
      BY <1>2 DEF Family, Grown, CoinsBelow, KnownBelow
    <2>2. GenesisTxs \in Seq(Tx)
      BY NodeAssumption
    <2>3. /\ coins[h].utxo = Sources(genesis, Body(GenesisTxs))
          /\ genesis = Body(GenesisTxs) /\ Body(GenesisTxs) \in SUBSET Tx
      BY <2>1, <2>2, GenesisSources
    <2>4. Worth(coins[h].utxo) <= Worth(Sources(genesis, known[h]))
      <3>1. Worth(Sources(genesis, known[h])) = Worth(coins[h].utxo) /\ Worth(coins[h].utxo) \in Nat
        BY <1>1, <2>1, <2>3
      <3> HIDE DEF genesis
      <3> QED BY <3>1
    <2> QED BY <2>1, <2>3, <2>4
  <1>3. ASSUME NEW h \in DOMAIN minted, h # Genesis
        PROVE  /\ minted[h].prev \in DOMAIN minted
               /\ minted[h].height = minted[minted[h].prev].height + 1
               /\ Bounded(minted[h].prev) => Bounded(h)
    <2> DEFINE q == minted[h].prev
               body == minted[h].txs
    <2>1. Grown(h) /\ coins[h] = ApplyBlock(minted[h].height, body, coins[q])
          /\ BlockFresh(minted[h].height, coins[q], body)
          /\ known[h] = known[q] \cup Body(body)
      BY <1>3 DEF Family, CoinsBelow, KnownBelow
    <2>2. /\ q \in DOMAIN minted /\ minted[h].height = minted[q].height + 1
          /\ body \in Seq(Tx)
          /\ \A i \in 1..Len(body) : TotalIn(body[i]) >= TotalOut(body[i])
          /\ \A t \in Body(body) : MustSpend(t)
      BY <1>3, <2>1 DEF Grown
    <2>3. coins[q] \in Stores /\ minted[h].height \in Nat /\ Sound(coins[q], known[q], minted[q].height + 1)
      BY <1>0, <2>2 DEF Family
    <2> HIDE DEF q, body
    <2>4. Body(body) \cap known[q] = {} /\ Body(body) \in SUBSET Tx
      <3>1. ASSUME NEW i \in 1..Len(body), body[i] \in known[q] PROVE FALSE
        <4>1. InputRefs(body[i]) \subseteq coins[q].utxo
          BY <2>1 DEF BlockFresh, Fresh
        <4>2. \A r \in InputRefs(body[i]) : r \notin coins[q].utxo
          BY <2>3, <3>1 DEF Sound
        <4>3. body[i] \in Body(body)
          BY DEF Body
        <4>4. InputRefs(body[i]) # {}
          BY <2>2, <4>3 DEF MustSpend
        <4> QED BY <4>1, <4>2, <4>4
      <3> QED BY <2>2, <3>1 DEF Body
    <2>5. ASSUME Bounded(q) PROVE Bounded(h)
      <3> HIDE DEF genesis
      <3>1. Worth(coins[h].utxo) <= Worth(Sources(genesis, known[q] \cup Body(body)))
        BY <2>1, <2>2, <2>3, <2>4, <2>5, BlockWithinSources
      <3> QED BY <2>1, <2>4, <2>5, <3>1
    <2> QED BY <2>2, <2>5 DEF q
  <1> HIDE DEF Bounded
  <1>6. 0 \in P
    <2>1. ASSUME NEW h \in DOMAIN minted, minted[h].height = 0 PROVE Bounded(h)
      <3>1. h = Genesis
        <4> SUFFICES ASSUME h # Genesis PROVE FALSE
          OBVIOUS
        <4>1. minted[minted[h].prev].height \in Nat /\ minted[minted[h].prev].height + 1 = 0
          BY <1>0, <1>3, <2>1
        <4> QED BY <4>1
      <3> QED BY <1>2, <3>1
    <2> QED BY <1>0, <2>1
  <1>7. ASSUME NEW k \in 1..MaxHeight, k - 1 \in P PROVE k \in P
    <2>1. ASSUME NEW h \in DOMAIN minted, minted[h].height = k PROVE Bounded(h)
      <3>1. CASE h = Genesis
        BY <1>2, <3>1
      <3>2. CASE h # Genesis
        <4> DEFINE q == minted[h].prev
        <4>1. q \in DOMAIN minted /\ minted[q].height = k - 1
          <5>1. q \in DOMAIN minted /\ minted[q].height \in Nat /\ k = minted[q].height + 1
            BY <1>0, <1>3, <2>1, <3>2
          <5> QED BY <5>1
        <4>2. Bounded(q)
          BY <1>7, <4>1
        <4> QED BY <1>3, <3>2, <4>2
      <3> QED BY <3>1, <3>2
    <2>2. k \in 0..MaxHeight
      BY <1>0
    <2> QED BY <2>1, <2>2
  <1>8. \A k \in 0..MaxHeight : k \in P
    <2> HIDE DEF P
    <2> QED BY <1>0, <1>6, <1>7, Induction
  <1>9. Bounded(b)
    BY <1>0, <1>8
  <1> QED BY <1>1, <1>9 DEF Bounded

\* Between updates, until a first crash, the coins of a node that handles one
\* block at a time are worth no more than the genesis allocation and the outputs
\* of those stored transactions that wrap or list an input twice
\* (validate_transaction, apply_block, rollback_block).
THEOREM CoinsNoInflation ==
  ASSUME Serial, Honest PROVE Spec => [](crashes = 0 => NoInflation)
  <1>1. NodeInv /\ SerialInv /\ CoinsInv => (crashes = 0 => NoInflation)
    <2> DEFINE genesis == ToSet(GenesisTxs)
               stored == UNION {ToSet(minted[blocks_h[h]].txs) : h \in {k \in Height : blocks_h[k] # NoBlock}}
    <2> SUFFICES ASSUME NodeInv, SerialInv, CoinsInv, Settled, crashes = 0
                 PROVE  Worth(utxo) <= Worth(Sources(genesis, stored))
      BY DEF NoInflation
    <2>1. PICK coins, known : Family(coins, known) /\ Steady(coins, known)
      BY DEF CoinsInv
    <2>2. tip # NoTip
      BY DEF Settled, Running, SerialInv, MainKnows
    <2>3. ~Within(Unapplied)
      BY DEF Settled, Within, Unapplied
    <2>4. [utxo |-> utxo, spent |-> spent] = coins[tip.hash]
      BY <2>1, <2>2, <2>3 DEF Steady, Due
    <2>5. tip.hash \in DOMAIN minted
      BY <2>1, <2>2, TipGrown
    <2>6. /\ coins[tip.hash].utxo \in SUBSET TxOutRef
          /\ Worth(coins[tip.hash].utxo) <= Worth(Sources(genesis, known[tip.hash]))
      BY <2>1, <2>5, CoinsConserved
    <2>7. coins[tip.hash].utxo = utxo
      BY <2>4
    <2>8. known[tip.hash] \subseteq stored
      BY <2>1, <2>2, KnownIsStored
    <2>9. stored \in SUBSET Tx /\ genesis \in SUBSET Tx
      <3>1. ASSUME NEW h \in Height, blocks_h[h] # NoBlock PROVE ToSet(minted[blocks_h[h]].txs) \subseteq Tx
        <4>1. blocks_h[h] \in DOMAIN minted
          BY <3>1 DEF NodeInv, FiledByHeight
        <4>2. minted[blocks_h[h]].txs \in Seq(Tx)
          BY <2>1, <4>1 DEF Family, Grown
        <4> QED BY <4>2 DEF ToSet
      <3>2. genesis \in SUBSET Tx
        BY NodeAssumption DEF ToSet
      <3> QED BY <3>1, <3>2
    <2> HIDE DEF stored, genesis
    <2>10. /\ Sources(genesis, stored) \in SUBSET TxOutRef
           /\ Sources(genesis, known[tip.hash]) \in SUBSET Sources(genesis, stored)
      <3>1. \A t \in Tx : OutputRefs(t) \subseteq TxOutRef
        BY DEF OutputRefs, TxOutRef
      <3> QED BY <2>8, <2>9, <3>1 DEF Sources
    <2>11. Worth(Sources(genesis, known[tip.hash])) <= Worth(Sources(genesis, stored))
      BY <2>10, WorthSubset
    <2>12. /\ Worth(utxo) \in Nat /\ Worth(Sources(genesis, stored)) \in Nat
           /\ Worth(Sources(genesis, known[tip.hash])) \in Nat
      BY <2>6, <2>7, <2>10, WorthApart
    <2> QED BY <2>6, <2>7, <2>11, <2>12
  <1> QED BY <1>1, CoinsSafety, PTL
=============================================================================
