---------------------------- MODULE LedgerProofs ----------------------------
(***************************************************************************)
(* rollback_block undoes apply_block: for one transaction, for every UTXO   *)
(* set and every set of undo records; for a block, by induction over its    *)
(* transactions.                                                            *)
(***************************************************************************)
EXTENDS Ledger, SumProofs

\* What the two trees can hold.
Stores == [utxo : SUBSET TxOutRef, spent : SUBSET (Nat \X TxOutRef)]

\* Applying and rolling back a transaction keeps the trees' types.
LEMMA StepTyped ==
  ASSUME NEW height \in Nat, NEW st \in Stores, NEW t \in Tx
  PROVE  ApplyTx(height, st, t) \in Stores /\ RollbackTx(height, st, t) \in Stores
  <1>1. InputRefs(t) \subseteq TxOutRef
    BY LedgerAssumption
  <1>2. OutputRefs(t) \subseteq TxOutRef
    BY DEF OutputRefs, TxOutRef
  <1> QED BY <1>1, <1>2 DEF Stores, ApplyTx, RollbackTx

\* The trees as apply_block goes through its transactions, oldest first, and
\* as rollback_block does, newest first.
Applies(after, height, txs, st) ==
    /\ after \in [0..Len(txs) -> Stores] /\ after[0] = st
    /\ \A i \in 1..Len(txs) : after[i] = ApplyTx(height, after[i - 1], txs[i])

Undoes(undone, height, txs, st) ==
    /\ undone \in [0..Len(txs) -> Stores] /\ undone[0] = st
    /\ \A i \in 1..Len(txs) : undone[i] = RollbackTx(height, undone[i - 1], txs[Len(txs) + 1 - i])

\* What apply_block computes is the last of its steps.
LEMMA ApplySteps ==
  ASSUME NEW height \in Nat, NEW txs \in Seq(Tx), NEW st \in Stores
  PROVE  \E after : Applies(after, height, txs, st) /\ ApplyBlock(height, txs, st) = after[Len(txs)]
  <1> DEFINE n == Len(txs)
             Def(g) == g = [i \in 0..n |-> IF i = 0 THEN st ELSE ApplyTx(height, g[i - 1], txs[i])]
             f == CHOOSE g : Def(g)
             step == [i \in 1..n |-> [s \in Stores |-> ApplyTx(height, s, txs[i])]]
  <1>0. n \in Nat /\ \A i \in 1..n : txs[i] \in Tx
    OBVIOUS
  <1>1. step \in [1..n -> [Stores -> Stores]]
    BY <1>0, StepTyped
  <1>2. PICK g : Iterates(g, n, Stores, st, step)
    <2> HIDE DEF step, n
    <2> QED BY <1>0, <1>1, Recursion
  <1>3. ASSUME NEW i \in 1..n PROVE g[i] = ApplyTx(height, g[i - 1], txs[i])
    <2>1. g[i - 1] \in Stores /\ g[i] = step[i][g[i - 1]]
      <3> HIDE DEF step, n
      <3> QED BY <1>0, <1>2 DEF Iterates
    <2>2. step[i] = [s \in Stores |-> ApplyTx(height, s, txs[i])]
      <3> HIDE DEF n
      <3> QED OBVIOUS
    <2> QED BY <2>1, <2>2
  <1>4. Def(g)
    BY <1>0, <1>2, <1>3 DEF Iterates
  <1>5. Def(f)
    <2> HIDE DEF Def
    <2> QED BY <1>4
  <1>6. ApplyBlock(height, txs, st) = f[n]
    BY DEF ApplyBlock
  <1> HIDE DEF f
  <1>7. f[0] = st /\ \A i \in 1..n : f[i] = ApplyTx(height, f[i - 1], txs[i])
    BY <1>0, <1>5
  <1>8. \A i \in 0..n : f[i] \in Stores
    <2> DEFINE P == {i \in 0..n : f[i] \in Stores}
    <2>1. 0 \in P
      BY <1>0, <1>7
    <2>2. ASSUME NEW i \in 1..n, i - 1 \in P PROVE i \in P
      <3>1. f[i - 1] \in Stores /\ txs[i] \in Tx
        BY <1>0, <2>2
      <3>2. ApplyTx(height, f[i - 1], txs[i]) \in Stores
        BY <3>1, StepTyped
      <3> QED BY <1>7, <3>2
    <2> HIDE DEF P, n
    <2>3. \A i \in 0..n : i \in P
      BY <1>0, <2>1, <2>2, Induction
    <2> QED BY <2>3 DEF P
  <1>9. Applies(f, height, txs, st)
    BY <1>5, <1>7, <1>8 DEF Applies
  <1> QED BY <1>6, <1>9

\* What rollback_block computes is the last of its steps.
LEMMA RollbackSteps ==
  ASSUME NEW height \in Nat, NEW txs \in Seq(Tx), NEW st \in Stores
  PROVE  \E undone : Undoes(undone, height, txs, st)
                     /\ RollbackBlock(height, txs, st) = undone[Len(txs)]
  <1> DEFINE n == Len(txs)
             Def(g) == g = [i \in 0..n |-> IF i = 0 THEN st
                                           ELSE RollbackTx(height, g[i - 1], txs[n + 1 - i])]
             f == CHOOSE g : Def(g)
             step == [i \in 1..n |-> [s \in Stores |-> RollbackTx(height, s, txs[n + 1 - i])]]
  <1>0. n \in Nat /\ \A i \in 1..n : txs[n + 1 - i] \in Tx
    OBVIOUS
  <1>1. step \in [1..n -> [Stores -> Stores]]
    BY <1>0, StepTyped
  <1>2. PICK g : Iterates(g, n, Stores, st, step)
    <2> HIDE DEF step, n
    <2> QED BY <1>0, <1>1, Recursion
  <1>3. ASSUME NEW i \in 1..n PROVE g[i] = RollbackTx(height, g[i - 1], txs[n + 1 - i])
    <2>1. g[i - 1] \in Stores /\ g[i] = step[i][g[i - 1]]
      <3> HIDE DEF step, n
      <3> QED BY <1>0, <1>2 DEF Iterates
    <2>2. step[i] = [s \in Stores |-> RollbackTx(height, s, txs[n + 1 - i])]
      <3> HIDE DEF n
      <3> QED OBVIOUS
    <2> QED BY <2>1, <2>2
  <1>4. Def(g)
    BY <1>0, <1>2, <1>3 DEF Iterates
  <1>5. Def(f)
    <2> HIDE DEF Def
    <2> QED BY <1>4
  <1>6. RollbackBlock(height, txs, st) = f[n]
    BY DEF RollbackBlock
  <1> HIDE DEF f
  <1>7. f[0] = st /\ \A i \in 1..n : f[i] = RollbackTx(height, f[i - 1], txs[n + 1 - i])
    <2> HIDE DEF n
    <2>1. \A i \in 0..n : f[i] = IF i = 0 THEN st ELSE RollbackTx(height, f[i - 1], txs[n + 1 - i])
      BY <1>5
    <2>2. 0 \in 0..n /\ \A i \in 1..n : i \in 0..n /\ i # 0
      BY <1>0
    <2> QED BY <2>1, <2>2
  <1>8. \A i \in 0..n : f[i] \in Stores
    <2> DEFINE P == {i \in 0..n : f[i] \in Stores}
    <2>1. 0 \in P
      BY <1>0, <1>7
    <2>2. ASSUME NEW i \in 1..n, i - 1 \in P PROVE i \in P
      <3>1. f[i - 1] \in Stores /\ txs[n + 1 - i] \in Tx
        BY <1>0, <2>2
      <3>2. RollbackTx(height, f[i - 1], txs[n + 1 - i]) \in Stores
        BY <3>1, StepTyped
      <3> QED BY <1>7, <3>2
    <2> HIDE DEF P, n
    <2>3. \A i \in 0..n : i \in P
      BY <1>0, <2>1, <2>2, Induction
    <2> QED BY <2>3 DEF P
  <1>9. Undoes(f, height, txs, st)
    BY <1>5, <1>7, <1>8 DEF Undoes
  <1> QED BY <1>6, <1>9

\* Applying and rolling back a block keeps the trees' types.
LEMMA BlockTyped ==
  ASSUME NEW height \in Nat, NEW txs \in Seq(Tx), NEW st \in Stores
  PROVE  ApplyBlock(height, txs, st) \in Stores /\ RollbackBlock(height, txs, st) \in Stores
  <1>1. Len(txs) \in 0..Len(txs)
    OBVIOUS
  <1>2. PICK after : Applies(after, height, txs, st) /\ ApplyBlock(height, txs, st) = after[Len(txs)]
    BY ApplySteps
  <1>3. PICK undone : Undoes(undone, height, txs, st) /\ RollbackBlock(height, txs, st) = undone[Len(txs)]
    BY RollbackSteps
  <1> QED BY <1>1, <1>2, <1>3 DEF Applies, Undoes

\* Undo records are written under the block's own height, and only by apply.
LEMMA BlockRecords ==
  ASSUME NEW height \in Nat, NEW txs \in Seq(Tx), NEW st \in Stores,
         NEW R, st.spent \subseteq R, {height} \X TxOutRef \subseteq R
  PROVE  /\ ApplyBlock(height, txs, st).spent \subseteq R
         /\ RollbackBlock(height, txs, st).spent \subseteq R
  <1> DEFINE n == Len(txs)
  <1>0. n \in Nat
    OBVIOUS
  <1>1. PICK after : Applies(after, height, txs, st) /\ ApplyBlock(height, txs, st) = after[n]
    BY ApplySteps
  <1>2. PICK undone : Undoes(undone, height, txs, st) /\ RollbackBlock(height, txs, st) = undone[n]
    BY RollbackSteps
  <1> DEFINE P == {i \in 0..n : after[i].spent \subseteq R}
             Q == {i \in 0..n : undone[i].spent \subseteq R}
  <1>3. 0 \in P /\ 0 \in Q
    BY <1>0, <1>1, <1>2 DEF Applies, Undoes
  <1>4. ASSUME NEW i \in 1..n, i - 1 \in P PROVE i \in P
    <2>1. after[i] = ApplyTx(height, after[i - 1], txs[i]) /\ txs[i] \in Tx
      BY <1>1 DEF Applies
    <2>2. InputRefs(txs[i]) \subseteq TxOutRef
      BY <2>1, LedgerAssumption
    <2>3. after[i].spent \subseteq after[i - 1].spent \cup ({height} \X TxOutRef)
      BY <2>1, <2>2 DEF ApplyTx
    <2> QED BY <1>0, <1>4, <2>3
  <1>5. ASSUME NEW i \in 1..n, i - 1 \in Q PROVE i \in Q
    <2>1. undone[i] = RollbackTx(height, undone[i - 1], txs[n + 1 - i])
      BY <1>2 DEF Undoes
    <2>2. undone[i].spent \subseteq undone[i - 1].spent
      BY <2>1 DEF RollbackTx
    <2> QED BY <1>0, <1>5, <2>2
  <1> HIDE DEF P, Q, n
  <1>6. \A i \in 0..n : i \in P
    BY <1>0, <1>3, <1>4, Induction
  <1>7. \A i \in 0..n : i \in Q
    BY <1>0, <1>3, <1>5, Induction
  <1>8. n \in P /\ n \in Q
    BY <1>0, <1>6, <1>7
  <1> QED BY <1>1, <1>2, <1>8 DEF P, Q

-----------------------------------------------------------------------------
\* A transaction a block may carry at a height: what it spends is unspent, it
\* is not a repeat of one whose outputs are still unspent, and nothing it
\* spends was spent at that height before.
Fresh(height, st, t) ==
    /\ InputRefs(t) \subseteq st.utxo
    /\ OutputRefs(t) \cap st.utxo = {}
    /\ \A r \in InputRefs(t) : <<height, r>> \notin st.spent

\* A block fit for a store at a height: each of its transactions is, and no two
\* are the same or spend the same coin.
BlockFresh(height, st, txs) ==
    /\ \A i \in 1..Len(txs) : Fresh(height, st, txs[i])
    /\ \A i, j \in 1..Len(txs) : i # j =>
          txs[i] # txs[j] /\ InputRefs(txs[i]) \cap InputRefs(txs[j]) = {}

\* A valid transaction spends only what is unspent (validate_transaction).
LEMMA ValidSpendsUnspent ==
  ASSUME NEW t, NEW utxo, ValidateTransaction(t, utxo)
  PROVE  InputRefs(t) \subseteq utxo
  BY DEF ValidateTransaction, InputRefs

\* Rolling back the transaction just applied restores both trees exactly: no
\* coin and no undo record is left behind or lost (rollback_block, apply_block).
THEOREM RollbackUndoesApply ==
  ASSUME NEW height, NEW st, NEW t,
         st = [utxo |-> st.utxo, spent |-> st.spent], Fresh(height, st, t)
  PROVE  RollbackTx(height, ApplyTx(height, st, t), t) = st
  <1> DEFINE in  == InputRefs(t)
             out == OutputRefs(t)
             rec == {<<height, r>> : r \in in}
  <1>0. in \subseteq st.utxo
    BY DEF Fresh
  <1>1. ApplyTx(height, st, t) = [utxo  |-> (st.utxo \ in) \cup out,
                                  spent |-> st.spent \cup rec]
    <2>1. in \cap st.utxo = in
      BY <1>0
    <2> QED BY <2>1 DEF ApplyTx
  <1> DEFINE new == [utxo |-> (st.utxo \ in) \cup out, spent |-> st.spent \cup rec]
             back == {r \in in : <<height, r>> \in new.spent}
  <1>2. back = in
    OBVIOUS
  <1>3. RollbackTx(height, new, t) = [utxo  |-> (new.utxo \ out) \cup in,
                                      spent |-> new.spent \ rec]
    BY <1>2 DEF RollbackTx
  <1>4. (new.utxo \ out) \cup in = st.utxo
    BY <1>0 DEF Fresh
  <1>5. new.spent \ rec = st.spent
    BY DEF Fresh
  <1> HIDE DEF new
  <1> QED BY <1>1, <1>3, <1>4, <1>5 DEF new
\* What the first k transactions of a block spend and create.
Ins(txs, k)  == UNION {InputRefs(txs[i]) : i \in 1..k}
Outs(txs, k) == UNION {OutputRefs(txs[i]) : i \in 1..k}

\* The trees a block fit for a store leads to, in one stroke.
After(height, st, txs, k) ==
    [utxo  |-> (st.utxo \ Ins(txs, k)) \cup Outs(txs, k),
     spent |-> st.spent \cup {<<height, r>> : r \in Ins(txs, k)}]

\* One transaction more spends and creates its own besides.
LEMMA InsOutsStep ==
  ASSUME NEW txs, NEW k \in Nat, k >= 1
  PROVE  /\ Ins(txs, k)  = Ins(txs, k - 1) \cup InputRefs(txs[k])
         /\ Outs(txs, k) = Outs(txs, k - 1) \cup OutputRefs(txs[k])
  <1>1. 1..k = 1..(k - 1) \cup {k}
    OBVIOUS
  <1> QED BY <1>1 DEF Ins, Outs

\* A reference names the transaction that created it.
LEMMA OutputsApart ==
  ASSUME NEW t, NEW u, t # u
  PROVE  OutputRefs(t) \cap OutputRefs(u) = {}
  BY DEF OutputRefs

\* Step by step, apply_block does what After says (apply_block).
LEMMA AppliesAfter ==
  ASSUME NEW height \in Nat, NEW txs \in Seq(Tx), NEW st \in Stores, NEW after,
         BlockFresh(height, st, txs), Applies(after, height, txs, st)
  PROVE  \A k \in 0..Len(txs) : after[k] = After(height, st, txs, k)
  <1> DEFINE n == Len(txs)
             P == {k \in 0..n : after[k] = After(height, st, txs, k)}
  <1>0. n \in Nat
    OBVIOUS
  <1>1. 0 \in P
    <2>1. Ins(txs, 0) = {} /\ Outs(txs, 0) = {}
      BY DEF Ins, Outs
    <2>2. st = [utxo |-> st.utxo, spent |-> st.spent]
      BY DEF Stores
    <2>3. After(height, st, txs, 0) = st
      BY <2>1, <2>2 DEF After
    <2> QED BY <1>0, <2>3 DEF Applies
  <1>2. ASSUME NEW k \in 1..n, k - 1 \in P PROVE k \in P
    <2> DEFINE in == InputRefs(txs[k])
               out == OutputRefs(txs[k])
               was == after[k - 1]
    <2>1. after[k] = [utxo  |-> (was.utxo \ in) \cup out,
                      spent |-> was.spent \cup {<<height, r>> : r \in in \cap was.utxo}]
      BY DEF Applies, ApplyTx
    <2>2. /\ was.utxo = (st.utxo \ Ins(txs, k - 1)) \cup Outs(txs, k - 1)
          /\ was.spent = st.spent \cup {<<height, r>> : r \in Ins(txs, k - 1)}
      BY <1>2 DEF After
    <2>3. in \subseteq st.utxo
      BY DEF BlockFresh, Fresh
    <2>4. in \cap Ins(txs, k - 1) = {}
      <3>1. ASSUME NEW i \in 1..(k - 1) PROVE in \cap InputRefs(txs[i]) = {}
        <4>1. i \in 1..n /\ i # k
          OBVIOUS
        <4> QED BY <4>1 DEF BlockFresh
      <3> QED BY <3>1 DEF Ins
    <2>5. in \cap Outs(txs, k - 1) = {}
      <3>1. ASSUME NEW i \in 1..(k - 1) PROVE OutputRefs(txs[i]) \cap st.utxo = {}
        <4>1. i \in 1..n
          OBVIOUS
        <4> QED BY <4>1 DEF BlockFresh, Fresh
      <3> QED BY <2>3, <3>1 DEF Outs
    <2>6. /\ Ins(txs, k)  = Ins(txs, k - 1) \cup in
          /\ Outs(txs, k) = Outs(txs, k - 1) \cup out
      BY InsOutsStep
    <2> HIDE DEF in, out, was
    <2>7. in \cap was.utxo = in
      BY <2>2, <2>3, <2>4
    <2>8. (was.utxo \ in) \cup out = (st.utxo \ Ins(txs, k)) \cup Outs(txs, k)
      BY <2>2, <2>5, <2>6
    <2>9. was.spent \cup {<<height, r>> : r \in in} = st.spent \cup {<<height, r>> : r \in Ins(txs, k)}
      BY <2>2, <2>6
    <2>10. after[k] = After(height, st, txs, k)
      <3>1. after[k] = [utxo  |-> (was.utxo \ in) \cup out,
                        spent |-> was.spent \cup {<<height, r>> : r \in in}]
        BY <2>1, <2>7
      <3> QED BY <3>1, <2>8, <2>9 DEF After
    <2> QED BY <2>10
  <1> HIDE DEF P, n
  <1>3. \A k \in 0..n : k \in P
    BY <1>0, <1>1, <1>2, Induction
  <1> QED BY <1>3 DEF P, n

\* A block fit for a store has the effect After says (apply_block).
LEMMA ApplyBlockIsAfter ==
  ASSUME NEW height \in Nat, NEW txs \in Seq(Tx), NEW st \in Stores, BlockFresh(height, st, txs)
  PROVE  ApplyBlock(height, txs, st) = After(height, st, txs, Len(txs))
  <1>1. PICK after : Applies(after, height, txs, st) /\ ApplyBlock(height, txs, st) = after[Len(txs)]
    BY ApplySteps
  <1>2. Len(txs) \in 0..Len(txs)
    OBVIOUS
  <1> QED BY <1>1, <1>2, AppliesAfter

\* Rolling back the block just applied restores both trees exactly, whatever
\* its transactions (rollback_block, apply_block).
THEOREM BlockRollbackUndoesApply ==
  ASSUME NEW height \in Nat, NEW txs \in Seq(Tx), NEW st \in Stores, BlockFresh(height, st, txs)
  PROVE  RollbackBlock(height, txs, ApplyBlock(height, txs, st)) = st
  <1> DEFINE n == Len(txs)
  <1>0. n \in Nat /\ n \in 0..n
    OBVIOUS
  <1>1. PICK after : Applies(after, height, txs, st) /\ ApplyBlock(height, txs, st) = after[n]
    BY ApplySteps
  <1>2. after[n] \in Stores
    BY <1>0, <1>1 DEF Applies
  <1>3. PICK undone : Undoes(undone, height, txs, after[n])
                      /\ RollbackBlock(height, txs, after[n]) = undone[n]
    BY <1>2, RollbackSteps
  <1> DEFINE P == {i \in 0..n : undone[i] = after[n - i]}
  <1>4. 0 \in P
    BY <1>0, <1>3 DEF Undoes
  <1>5. ASSUME NEW i \in 1..n, i - 1 \in P PROVE i \in P
    <2> DEFINE k == n - i
               t == txs[k + 1]
    <2>1. k \in 0..n /\ k + 1 \in 1..n /\ n + 1 - i = k + 1 /\ n - (i - 1) = k + 1 /\ (k + 1) - 1 = k
      BY <1>0
    <2>2. undone[i] = RollbackTx(height, after[k + 1], t)
      BY <1>3, <1>5, <2>1 DEF Undoes
    <2>3. after[k + 1] = ApplyTx(height, after[k], t)
      BY <1>1, <2>1 DEF Applies
    <2>4. after[k] \in Stores /\ after[k] = After(height, st, txs, k)
      BY <1>1, <2>1, AppliesAfter DEF Applies
    <2>5. Fresh(height, after[k], t)
      <3>1. /\ Fresh(height, st, t)
            /\ \A j \in 1..k : txs[j] # t /\ InputRefs(txs[j]) \cap InputRefs(t) = {}
        <4>1. \A j \in 1..k : j \in 1..n /\ j # k + 1
          BY <1>0, <2>1
        <4> QED BY <2>1, <4>1 DEF BlockFresh
      <3>2. Ins(txs, k) \cap InputRefs(t) = {}
        BY <3>1 DEF Ins
      <3>3. Outs(txs, k) \cap OutputRefs(t) = {}
        BY <3>1, OutputsApart DEF Outs
      <3> HIDE DEF t, k
      <3>4. /\ after[k].utxo = (st.utxo \ Ins(txs, k)) \cup Outs(txs, k)
            /\ after[k].spent = st.spent \cup {<<height, r>> : r \in Ins(txs, k)}
        BY <2>4 DEF After
      <3> QED BY <3>1, <3>2, <3>3, <3>4 DEF Fresh
    <2>6. after[k] = [utxo |-> after[k].utxo, spent |-> after[k].spent]
      BY <2>4 DEF Stores
    <2> HIDE DEF k, t
    <2>7. undone[i] = after[k]
      BY <2>2, <2>3, <2>5, <2>6, RollbackUndoesApply
    <2> QED BY <2>7 DEF k
  <1> HIDE DEF P, n
  <1>6. \A i \in 0..n : i \in P
    BY <1>0, <1>4, <1>5, Induction
  <1>7. undone[n] = after[n - n] /\ n - n = 0
    BY <1>0, <1>6 DEF P
  <1>8. after[0] = st
    BY <1>1 DEF Applies
  <1> QED BY <1>1, <1>3, <1>7, <1>8
-----------------------------------------------------------------------------
(* The MemoryStore does the same, as long as the height has no list yet.    *)

\* No undo record under a height.
NoRecords(height, st) == \A e \in st.spent : e[1] # height

\* MemoryStore's apply_block against SledStore's.
LEMMA MemApplyAgrees ==
  ASSUME NEW height \in Nat, NEW txs \in Seq(Tx), NEW st \in Stores,
         BlockFresh(height, st, txs), NoRecords(height, st)
  PROVE  MemApplyBlock(height, txs, st) = ApplyBlock(height, txs, st)
  <1> DEFINE bare == [utxo |-> st.utxo, spent |-> {}]
             n == Len(txs)
  <1>1. bare \in Stores
    BY DEF Stores
  <1>2. BlockFresh(height, bare, txs)
    BY DEF BlockFresh, Fresh
  <1>3. ApplyBlock(height, txs, bare) = After(height, bare, txs, n)
    <2> HIDE DEF bare
    <2> QED BY <1>1, <1>2, ApplyBlockIsAfter
  <1>4. ApplyBlock(height, txs, st) = After(height, st, txs, n)
    BY ApplyBlockIsAfter
  <1>5. {e \in st.spent : e[1] # height} = st.spent
    BY DEF NoRecords
  <1>6. /\ After(height, bare, txs, n).utxo = After(height, st, txs, n).utxo
        /\ After(height, st, txs, n).spent = st.spent \cup After(height, bare, txs, n).spent
    BY DEF After
  <1>7. MemApplyBlock(height, txs, st) = [utxo  |-> After(height, st, txs, n).utxo,
                                          spent |-> After(height, st, txs, n).spent]
    BY <1>3, <1>5, <1>6 DEF MemApplyBlock
  <1> QED BY <1>4, <1>7 DEF After

\* MemoryStore's rollback_block undoes it.
LEMMA MemRollbackUndoes ==
  ASSUME NEW height \in Nat, NEW txs \in Seq(Tx), NEW st \in Stores,
         BlockFresh(height, st, txs), NoRecords(height, st)
  PROVE  MemRollbackBlock(height, txs, ApplyBlock(height, txs, st)) = st
  <1> DEFINE n   == Len(txs)
             new == After(height, st, txs, n)
             in  == Ins(txs, n)
             out == Outs(txs, n)
  <1>1. ApplyBlock(height, txs, st) = new
    BY ApplyBlockIsAfter
  <1>2. new.utxo = (st.utxo \ in) \cup out /\ new.spent = st.spent \cup {<<height, r>> : r \in in}
    BY DEF After
  <1>3. UNION {OutputRefs(txs[i]) : i \in DOMAIN txs} = out
    BY DEF Outs
  <1>4. in \subseteq st.utxo /\ out \cap st.utxo = {}
    BY DEF BlockFresh, Fresh, Ins, Outs
  <1>5. st.utxo \subseteq TxOutRef /\ st = [utxo |-> st.utxo, spent |-> st.spent]
    BY DEF Stores
  <1> HIDE DEF new, in, out
  <1>6. {r \in TxOutRef : <<height, r>> \in new.spent} = in
    <2>1. \A r : <<height, r>> \notin st.spent
      BY DEF NoRecords
    <2> QED BY <1>2, <1>4, <1>5, <2>1
  <1>7. (new.utxo \ out) \cup in = st.utxo
    BY <1>2, <1>4
  <1>8. {e \in new.spent : e[1] # height} = st.spent
    BY <1>2 DEF NoRecords
  <1> QED BY <1>1, <1>3, <1>5, <1>6, <1>7, <1>8 DEF MemRollbackBlock

-----------------------------------------------------------------------------
(* A chain of blocks.                                                      *)

\* The stores that lead from an empty one to the replay of some bodies.
Replays(after, bodies) ==
    /\ after \in [0..Len(bodies) -> Stores] /\ after[0] = Empty
    /\ \A k \in 1..Len(bodies) : after[k] = ApplyBlock(k - 1, bodies[k], after[k - 1])

\* The empty store is one.
LEMMA EmptyTyped == Empty \in Stores
  BY DEF Empty, Stores

\* The replay is the last of its steps.
LEMMA ReplaySteps ==
  ASSUME NEW bodies \in Seq(Seq(Tx))
  PROVE  \E after : Replays(after, bodies) /\ Replay(bodies) = after[Len(bodies)]
  <1> DEFINE n == Len(bodies)
             Def(g) == g = [k \in 0..n |-> IF k = 0 THEN Empty
                                           ELSE ApplyBlock(k - 1, bodies[k], g[k - 1])]
             f == CHOOSE g : Def(g)
             step == [k \in 1..n |-> [s \in Stores |-> ApplyBlock(k - 1, bodies[k], s)]]
  <1>0. n \in Nat /\ \A k \in 1..n : bodies[k] \in Seq(Tx)
    OBVIOUS
  <1>1. step \in [1..n -> [Stores -> Stores]]
    BY <1>0, BlockTyped
  <1>2. PICK g : Iterates(g, n, Stores, Empty, step)
    <2> HIDE DEF step, n
    <2> QED BY <1>0, <1>1, Recursion, EmptyTyped
  <1>3. ASSUME NEW k \in 1..n PROVE g[k] = ApplyBlock(k - 1, bodies[k], g[k - 1])
    <2>1. g[k - 1] \in Stores /\ g[k] = step[k][g[k - 1]]
      <3> HIDE DEF step, n
      <3> QED BY <1>0, <1>2 DEF Iterates
    <2>2. step[k] = [s \in Stores |-> ApplyBlock(k - 1, bodies[k], s)]
      <3> HIDE DEF n
      <3> QED OBVIOUS
    <2> QED BY <2>1, <2>2
  <1>4. Def(g)
    BY <1>0, <1>2, <1>3 DEF Iterates
  <1>5. Def(f)
    <2> HIDE DEF Def
    <2> QED BY <1>4
  <1>6. Replay(bodies) = f[n]
    BY DEF Replay
  <1> HIDE DEF f
  <1>7. f[0] = Empty /\ \A k \in 1..n : f[k] = ApplyBlock(k - 1, bodies[k], f[k - 1])
    <2>1. 0 \in 0..n /\ \A k \in 1..n : k \in 0..n /\ k # 0
      BY <1>0
    <2> HIDE DEF n
    <2> QED BY <1>5, <2>1
  <1>8. \A k \in 0..n : f[k] \in Stores
    <2> DEFINE P == {k \in 0..n : f[k] \in Stores}
    <2>1. 0 \in P
      BY <1>0, <1>7, EmptyTyped
    <2>2. ASSUME NEW k \in 1..n, k - 1 \in P PROVE k \in P
      <3>1. f[k - 1] \in Stores /\ bodies[k] \in Seq(Tx) /\ k - 1 \in Nat
        BY <1>0, <2>2
      <3>2. ApplyBlock(k - 1, bodies[k], f[k - 1]) \in Stores
        BY <3>1, BlockTyped
      <3> QED BY <1>7, <3>2
    <2> HIDE DEF P, n
    <2>3. \A k \in 0..n : k \in P
      BY <1>0, <2>1, <2>2, Induction
    <2> QED BY <2>3 DEF P
  <1>9. Replays(f, bodies)
    BY <1>5, <1>7, <1>8 DEF Replays
  <1> QED BY <1>6, <1>9

\* Chains with the same first m bodies have the same first m replays.
LEMMA ReplaysAgree ==
  ASSUME NEW a, NEW b, NEW bodies, NEW others, NEW m \in Nat, m <= Len(bodies), m <= Len(others),
         Len(bodies) \in Nat, Len(others) \in Nat,
         Replays(a, bodies), Replays(b, others), \A k \in 1..m : bodies[k] = others[k]
  PROVE  \A k \in 0..m : a[k] = b[k]
  <1> DEFINE P == {k \in 0..m : a[k] = b[k]}
  <1>1. 0 \in P
    BY DEF Replays
  <1>2. ASSUME NEW k \in 1..m, k - 1 \in P PROVE k \in P
    <2>1. k \in 1..Len(bodies) /\ k \in 1..Len(others)
      OBVIOUS
    <2> QED BY <1>2, <2>1 DEF Replays
  <1> HIDE DEF P
  <1>3. \A k \in 0..m : k \in P
    BY <1>1, <1>2, Induction
  <1> QED BY <1>3 DEF P

\* Any way from an empty store along a chain ends at its replay.
LEMMA ReplaysToReplay ==
  ASSUME NEW bodies \in Seq(Seq(Tx)), NEW after, Replays(after, bodies)
  PROVE  Replay(bodies) = after[Len(bodies)]
  <1>1. PICK b : Replays(b, bodies) /\ Replay(bodies) = b[Len(bodies)]
    BY ReplaySteps
  <1>2. Len(bodies) \in Nat /\ Len(bodies) \in 0..Len(bodies)
    OBVIOUS
  <1>3. \A k \in 0..Len(bodies) : after[k] = b[k]
    BY <1>1, <1>2, ReplaysAgree
  <1> QED BY <1>1, <1>2, <1>3

-----------------------------------------------------------------------------
(* What a chain of blocks leaves behind.                                    *)

Body(txlist) == {txlist[i] : i \in 1..Len(txlist)}

\* A body drawn from a pool: its transactions have inputs and share none.
Drawn(body) ==
    /\ \A i \in 1..Len(body) : InputRefs(body[i]) # {}
    /\ \A i, j \in 1..Len(body) : i # j => InputRefs(body[i]) \cap InputRefs(body[j]) = {}

\* A store that blocks below a height, with the given transactions, lead to.
Sound(st, known, height) ==
    /\ \A e \in st.spent : e[1] < height
    /\ \A r \in st.utxo : r[1] \in known
    /\ \A t \in known : \A r \in InputRefs(t) : r \notin st.utxo /\ r[1] \in known

\* A body of valid transactions is fit for a sound store, and none of them is
\* on the chain yet (validate_block, apply_block).
LEMMA ValidIsFresh ==
  ASSUME NEW st \in Stores, NEW known, NEW height \in Nat, Sound(st, known, height),
         NEW body \in Seq(Tx), Drawn(body),
         \A i \in 1..Len(body) : ValidateTransaction(body[i], st.utxo)
  PROVE  BlockFresh(height, st, body) /\ Body(body) \cap known = {}
  <1>1. ASSUME NEW i \in 1..Len(body)
        PROVE  InputRefs(body[i]) \subseteq st.utxo /\ InputRefs(body[i]) # {}
    BY ValidSpendsUnspent DEF Drawn
  <1>2. ASSUME NEW i \in 1..Len(body) PROVE body[i] \notin known
    BY <1>1 DEF Sound
  <1>3. ASSUME NEW i \in 1..Len(body) PROVE Fresh(height, st, body[i])
    <2>1. OutputRefs(body[i]) \cap st.utxo = {}
      BY <1>2 DEF Sound, OutputRefs
    <2>2. \A r : <<height, r>> \notin st.spent
      <3> SUFFICES ASSUME NEW r, <<height, r>> \in st.spent PROVE FALSE
        OBVIOUS
      <3>1. <<height, r>>[1] < height
        BY DEF Sound
      <3> QED BY <3>1
    <2> QED BY <1>1, <2>1, <2>2 DEF Fresh
  <1>4. ASSUME NEW i \in 1..Len(body), NEW j \in 1..Len(body), i # j
        PROVE  body[i] # body[j] /\ InputRefs(body[i]) \cap InputRefs(body[j]) = {}
    <2>1. InputRefs(body[i]) \cap InputRefs(body[j]) = {}
      BY <1>4 DEF Drawn
    <2> QED BY <1>1, <2>1
  <1> QED BY <1>2, <1>3, <1>4 DEF BlockFresh, Body

\* A block that is fit for a sound store and repeats nothing leads to a sound
\* store (apply_block).
LEMMA SoundStep ==
  ASSUME NEW st \in Stores, NEW known, NEW height \in Nat, Sound(st, known, height),
         NEW body \in Seq(Tx), BlockFresh(height, st, body), Body(body) \cap known = {}
  PROVE  Sound(ApplyBlock(height, body, st), known \cup Body(body), height + 1)
  <1> DEFINE n   == Len(body)
             new == ApplyBlock(height, body, st)
             in  == Ins(body, n)
             out == Outs(body, n)
  <1>1. new.utxo = (st.utxo \ in) \cup out /\ new.spent = st.spent \cup {<<height, r>> : r \in in}
    BY ApplyBlockIsAfter DEF After
  <1>2. in \subseteq st.utxo
    BY DEF BlockFresh, Fresh, Ins
  <1>3. \A r \in out : r[1] \in Body(body)
    BY DEF Outs, OutputRefs, Body
  <1>4. \A t \in Body(body) : InputRefs(t) \subseteq in
    BY DEF Ins, Body
  <1>5. st.spent \subseteq Nat \X TxOutRef
    BY DEF Stores
  <1> HIDE DEF new, in, out
  <1>6. \A e \in new.spent : e[1] < height + 1
    <2>1. ASSUME NEW e \in st.spent PROVE e[1] < height + 1
      <3>1. e[1] < height /\ e[1] \in Nat
        BY <1>5 DEF Sound
      <3> QED BY <3>1
    <2>2. ASSUME NEW r \in in PROVE <<height, r>>[1] < height + 1
      OBVIOUS
    <2> QED BY <1>1, <2>1, <2>2
  <1>7. \A r \in new.utxo : r[1] \in known \cup Body(body)
    BY <1>1, <1>3 DEF Sound
  <1>8. ASSUME NEW t \in known \cup Body(body), NEW r \in InputRefs(t)
        PROVE  r \notin new.utxo /\ r[1] \in known \cup Body(body)
    <2>1. r[1] \in known /\ r \notin st.utxo \ in
      BY <1>2, <1>4, <1>8 DEF Sound
    <2> QED BY <1>1, <1>3, <2>1
  <1> QED BY <1>6, <1>7, <1>8 DEF Sound, new

-----------------------------------------------------------------------------
(* What coins are worth.                                                    *)

Amounts == [r \in TxOutRef |-> Output(r).amount]

\* There are finitely many coins.
LEMMA CoinsFinite == IsFiniteSet(TxOutRef)
  <1> DEFINE Of(t) == {<<t, i>> : i \in DOMAIN TxOutputs[t]}
             All == {Of(t) : t \in Tx}
  <1>1. ASSUME NEW t \in Tx PROVE IsFiniteSet(Of(t))
    <2> DEFINE D == DOMAIN TxOutputs[t]
               f == [i \in D |-> <<t, i>>]
    <2>1. IsFiniteSet(D)
      <3>1. Len(TxOutputs[t]) \in Nat /\ D = 1..Len(TxOutputs[t])
        BY LedgerAssumption
      <3>2. ASSUME NEW m \in Nat PROVE IsFiniteSet(1..m)
        <4>1. 1 \in Int /\ m \in Int
          OBVIOUS
        <4> QED BY <4>1, FS_Interval
      <3> QED BY <3>1, <3>2
    <2>2. f \in Surjection(D, Of(t))
      BY DEF Surjection
    <2> HIDE DEF f, D
    <2> QED BY <2>1, <2>2, FS_Surjection
  <1>2. IsFiniteSet(All)
    <2> DEFINE f == [t \in Tx |-> Of(t)]
    <2>1. f \in Surjection(Tx, All)
      BY DEF Surjection
    <2> HIDE DEF f, All
    <2> QED BY <2>1, LedgerAssumption, FS_Surjection
  <1>3. \A T \in All : IsFiniteSet(T)
    <2> HIDE DEF Of
    <2> QED BY <1>1
  <1>4. IsFiniteSet(UNION All)
    <2> HIDE DEF All
    <2> QED BY <1>2, <1>3, FS_UNION
  <1> QED BY <1>4 DEF TxOutRef

\* The worth of coins is the sum of their amounts.
LEMMA WorthIsSum ==
  \E total : Sums(total, TxOutRef, Amounts) /\ \A A \in SUBSET TxOutRef : Worth(A) = total[A]
  <1>0. Amounts \in [TxOutRef -> Nat]
    BY LedgerAssumption DEF Amounts
  <1>1. ASSUME NEW A \in SUBSET TxOutRef
        PROVE  \E g : Sums(g, A, [r \in A |-> Amounts[r]]) /\ Worth(A) = g[A]
    <2> DEFINE w == [r \in A |-> Amounts[r]]
               Def(g) == g = [s \in SUBSET A |-> IF s = {} THEN 0
                                ELSE Output(CHOOSE x \in s : TRUE).amount + g[s \ {CHOOSE x \in s : TRUE}]]
               f == CHOOSE g : Def(g)
    <2>1. Worth(A) = f[A]
      BY DEF Worth, MapThenSumSet, MapThenFoldSet
    <2>2. \A x \in A : w[x] = Output(x).amount
      BY DEF Amounts
    <2>3. w \in [A -> Nat] /\ IsFiniteSet(A)
      BY <1>0, CoinsFinite, FS_Subset
    <2> HIDE DEF w
    <2>4. \A g : Def(g) <=> FoldsSet(g, A, w)
      <3> TAKE g
      <3>1. ASSUME NEW s \in SUBSET A, s # {}
            PROVE  w[CHOOSE x \in s : TRUE] = Output(CHOOSE x \in s : TRUE).amount
        BY <2>2, <3>1
      <3> QED BY <3>1 DEF FoldsSet
    <2> HIDE DEF Def
    <2>5. Def(f)
      BY <2>3, <2>4, SetSums
    <2> HIDE DEF f
    <2>6. Sums(f, A, w)
      BY <2>3, <2>4, <2>5, SetSums
    <2> QED BY <2>1, <2>6 DEF w
  <1>2. PICK total : Sums(total, TxOutRef, [r \in TxOutRef |-> Amounts[r]])
    BY <1>1
  <1>3. Sums(total, TxOutRef, Amounts)
    <2>1. [r \in TxOutRef |-> Amounts[r]] = Amounts
      BY <1>0
    <2> QED BY <1>2, <2>1
  <1>4. ASSUME NEW A \in SUBSET TxOutRef PROVE Worth(A) = total[A]
    <2> DEFINE w == [r \in A |-> Amounts[r]]
               id == [r \in A |-> r]
    <2>1. PICK g : Sums(g, A, w) /\ Worth(A) = g[A]
      BY <1>1
    <2>2. /\ id \in [A -> TxOutRef] /\ \A r \in A : id[r] = r /\ w[r] = Amounts[id[r]]
          /\ IsFiniteSet(A) /\ {id[r] : r \in A} = A
      BY CoinsFinite, FS_Subset
    <2> HIDE DEF id, w
    <2>3. Sums(g, A, w) /\ OneToOne(id, A, w, TxOutRef, Amounts)
      BY <2>1, <2>2 DEF OneToOne
    <2>4. \A B \in SUBSET A : g[B] = total[Img(id, B)]
      BY <1>3, <2>2, <2>3, SumsMatch
    <2>5. Img(id, A) = A
      BY <2>2 DEF Img
    <2> QED BY <2>1, <2>4, <2>5
  <1> QED BY <1>3, <1>4
\* A list is added from its end; a set of its places has a last one.
LEMMA LastPlace ==
  ASSUME NEW n \in Nat, NEW A \in SUBSET (1..n), A # {}
  PROVE  Max(A) \in A
  <1> DEFINE B == {n - i : i \in A}
  <1>0. \A i \in A : i \in Int /\ n - i \in Nat
    OBVIOUS
  <1>1. B \in SUBSET Nat /\ B # {}
    BY <1>0
  <1>2. PICK m \in B : \A k \in B : m <= k
    <2> HIDE DEF B
    <2> QED BY <1>1, LeastNat
  <1>3. PICK i \in A : m = n - i
    BY <1>2
  <1>4. \A j \in A : i >= j
    <2> SUFFICES ASSUME NEW j \in A PROVE i >= j
      OBVIOUS
    <2>1. n - j \in B
      OBVIOUS
    <2>2. m <= n - j
      <3> HIDE DEF B
      <3> QED BY <1>2, <2>1
    <2>3. i \in Int /\ j \in Int
      BY <1>0
    <2> HIDE DEF B
    <2> QED BY <1>3, <2>2, <2>3
  <1> QED BY <1>3, <1>4 DEF Max

\* The fold of a list with n places.
FoldsList(g, n, v) ==
    g = [A \in SUBSET (1..n) |-> IF A = {} THEN 0 ELSE g[A \ {Max(A)}] + v[Max(A)]]

\* It exists and is the sum of its places.
LEMMA ListSums ==
  ASSUME NEW n \in Nat, NEW v \in [1..n -> Nat]
  PROVE  (\E g : FoldsList(g, n, v)) /\ \A f : FoldsList(f, n, v) => Sums(f, 1..n, v)
  <1> DEFINE I  == 1..n
             ch == [A \in SUBSET I |-> Max(A)]
  <1>1. IsFiniteSet(I) /\ v \in [I -> Nat]
    <2>1. IsFiniteSet(1..n)
      BY FS_Interval
    <2> QED BY <2>1
  <1>2. \A A \in SUBSET I : ch[A] = Max(A) /\ (A # {} => ch[A] \in A)
    <2>1. \A A \in SUBSET I : A # {} => Max(A) \in A
      BY LastPlace
    <2> HIDE DEF I
    <2> QED BY <2>1
  <1> HIDE DEF ch, I
  <1>3. PICK g : Adds(g, I, v, ch)
    BY <1>1, <1>2, AddsExists
  <1>4. Sums(g, I, v)
    <2>1. Accumulates(g, I, v, ch)
      BY <1>3 DEF Adds, Accumulates
    <2> QED BY <1>1, <1>2, <2>1, AccumulatesSums
  <1>5. FoldsList(g, n, v)
    <2>1. ASSUME NEW A \in SUBSET I, A # {} PROVE g[A] = g[A \ {Max(A)}] + v[Max(A)]
      <3>1. Max(A) \in A /\ Max(A) \in I
        BY <1>2, <2>1
      <3>2. g[A] = v[Max(A)] + g[A \ {Max(A)}]
        BY <1>4, <3>1 DEF Sums
      <3>3. v[Max(A)] \in Nat /\ g[A \ {Max(A)}] \in Nat
        BY <1>1, <1>4, <3>1 DEF Sums
      <3> QED BY <3>2, <3>3
    <2>2. g[{}] = 0 /\ g = [A \in SUBSET I |-> g[A]]
      BY <1>4 DEF Sums
    <2>3. g = [A \in SUBSET I |-> IF A = {} THEN 0 ELSE g[A \ {Max(A)}] + v[Max(A)]]
      BY <2>1, <2>2
    <2> QED BY <2>3 DEF I, FoldsList
  <1>6. ASSUME NEW f, FoldsList(f, n, v) PROVE Sums(f, 1..n, v)
    <2>1. f = [A \in SUBSET I |-> IF A = {} THEN 0 ELSE f[A \ {Max(A)}] + v[Max(A)]]
      BY <1>6 DEF FoldsList, I
    <2>2. Accumulates(f, I, v, ch)
      BY <1>2, <2>1 DEF Accumulates
    <2>3. Sums(f, I, v)
      BY <1>1, <1>2, <2>2, AccumulatesSums
    <2> QED BY <2>3 DEF I
  <1> QED BY <1>5, <1>6

\* The coins at the places of a list, each once, are worth its fold.
LEMMA ListWorth ==
  ASSUME NEW n \in Nat, NEW refs \in [1..n -> TxOutRef], \A i, j \in 1..n : refs[i] = refs[j] => i = j,
         NEW v, v = [i \in 1..n |-> Output(refs[i]).amount], NEW f, FoldsList(f, n, v)
  PROVE  /\ Worth({refs[i] : i \in 1..n}) = f[1..n]
         /\ f[1..n] \in Nat
  <1> DEFINE I == 1..n
  <1>1. PICK total : Sums(total, TxOutRef, Amounts) /\ \A A \in SUBSET TxOutRef : Worth(A) = total[A]
    BY WorthIsSum
  <1>2. /\ \A i \in I : v[i] = Amounts[refs[i]]
        /\ v \in [I -> Nat]
    BY LedgerAssumption DEF Amounts
  <1>3. Sums(f, I, v) /\ IsFiniteSet(I)
    <2>1. IsFiniteSet(1..n)
      BY FS_Interval
    <2>2. Sums(f, 1..n, v)
      BY <1>2, ListSums
    <2> QED BY <2>1, <2>2
  <1>4. refs \in [I -> TxOutRef] /\ \A i, j \in I : refs[i] = refs[j] => i = j
    OBVIOUS
  <1> HIDE DEF I
  <1>5. \A A \in SUBSET I : f[A] = total[Img(refs, A)]
    <2>1. Sums(total, TxOutRef, Amounts) /\ OneToOne(refs, I, v, TxOutRef, Amounts)
      BY <1>1, <1>2, <1>4 DEF OneToOne
    <2> QED BY <1>3, <2>1, SumsMatch
  <1>6. Img(refs, I) = {refs[i] : i \in I} /\ Img(refs, I) \in SUBSET TxOutRef
    BY <1>4 DEF Img
  <1>7. Worth({refs[i] : i \in I}) = f[I] /\ f[I] \in Nat
    BY <1>1, <1>3, <1>5, <1>6 DEF Sums
  <1> QED BY <1>7 DEF I

\* A transaction that passes the comparison of the totals creates no value,
\* if neither total is off (validate_transaction).
LEMMA TxConserves ==
  ASSUME NEW t \in Tx, ExactTotals(t), TotalIn(t) >= TotalOut(t)
  PROVE  Worth(OutputRefs(t)) <= Worth(InputRefs(t))
  <1> DEFINE n    == Len(TxInputs[t])
             ins  == [i \in 1..n |-> TxInputs[t][i].out_ref]
             v    == [i \in 1..n |-> Output(ins[i]).amount]
             Def(g) == g = [s \in SUBSET (DOMAIN TxInputs[t]) |-> IF s = {} THEN 0
                               ELSE g[s \ {Max(s)}] + Output(TxInputs[t][Max(s)].out_ref).amount]
             f    == CHOOSE g : Def(g)
             m    == Len(TxOutputs[t])
             outs == [i \in 1..m |-> <<t, i>>]
             u    == [i \in 1..m |-> Output(outs[i]).amount]
             Def2(g) == g = [s \in SUBSET (DOMAIN TxOutputs[t]) |-> IF s = {} THEN 0
                               ELSE g[s \ {Max(s)}] + TxOutputs[t][Max(s)].amount]
             h    == CHOOSE g : Def2(g)
  <1>0. n \in Nat /\ m \in Nat /\ DOMAIN TxInputs[t] = 1..n /\ DOMAIN TxOutputs[t] = 1..m
    BY LedgerAssumption
  <1>1. TotalIn(t) = IF f[DOMAIN TxInputs[t]] >= U64 THEN U64 - 1 ELSE f[DOMAIN TxInputs[t]]
    BY DEF TotalIn, FoldLeft, MapThenFoldSet
  <1>2. TotalOut(t) = h[DOMAIN TxOutputs[t]] % U64
    BY DEF TotalOut, FoldLeft, MapThenFoldSet
  <1>3. h[DOMAIN TxOutputs[t]] < U64
    BY DEF ExactTotals, FoldLeft, MapThenFoldSet
  <1>4. /\ {ins[i] : i \in 1..n} = InputRefs(t) /\ ins \in [1..n -> TxOutRef]
        /\ \A i, j \in 1..n : ins[i] = ins[j] => i = j
    <2> HIDE DEF n
    <2>1. {ins[i] : i \in 1..n} = InputRefs(t)
      BY <1>0 DEF InputRefs
    <2>2. InputRefs(t) \subseteq TxOutRef
      BY LedgerAssumption
    <2> QED BY <1>0, <2>1, <2>2 DEF ExactTotals
  <1>5. /\ {outs[i] : i \in 1..m} = OutputRefs(t) /\ outs \in [1..m -> TxOutRef]
        /\ \A i, j \in 1..m : outs[i] = outs[j] => i = j
    <2> HIDE DEF m
    <2>1. {outs[i] : i \in 1..m} = OutputRefs(t)
      BY <1>0 DEF OutputRefs
    <2>2. OutputRefs(t) \subseteq TxOutRef
      BY DEF OutputRefs, TxOutRef
    <2> QED BY <1>0, <2>1, <2>2
  <1>6. FoldsList(f, n, v)
    <2>1. \A g : Def(g) <=> FoldsList(g, n, v)
      <3> TAKE g
      <3>1. ASSUME NEW s \in SUBSET (1..n), s # {}
            PROVE  v[Max(s)] = Output(TxInputs[t][Max(s)].out_ref).amount
        BY <1>0, <3>1, LastPlace
      <3> HIDE DEF v, n
      <3> QED BY <1>0, <3>1 DEF FoldsList
    <2>2. \E g : FoldsList(g, n, v)
      <3>1. v \in [1..n -> Nat]
        BY <1>4, LedgerAssumption
      <3> HIDE DEF v, n
      <3> QED BY <1>0, <3>1, ListSums
    <2> HIDE DEF Def, v, n
    <2> QED BY <2>1, <2>2
  <1>7. FoldsList(h, m, u)
    <2>1. \A g : Def2(g) <=> FoldsList(g, m, u)
      <3> TAKE g
      <3>1. ASSUME NEW s \in SUBSET (1..m), s # {}
            PROVE  u[Max(s)] = TxOutputs[t][Max(s)].amount
        BY <1>0, <3>1, LastPlace DEF Output
      <3> HIDE DEF u, m
      <3> QED BY <1>0, <3>1 DEF FoldsList
    <2>2. \E g : FoldsList(g, m, u)
      <3>1. u \in [1..m -> Nat]
        BY <1>5, LedgerAssumption
      <3> HIDE DEF u, m
      <3> QED BY <1>0, <3>1, ListSums
    <2> HIDE DEF Def2, u, m
    <2> QED BY <2>1, <2>2
  <1> HIDE DEF f, h
  <1>8. Worth(InputRefs(t)) = f[1..n] /\ f[1..n] \in Nat
    <2>1. v = [i \in 1..n |-> Output(ins[i]).amount]
      OBVIOUS
    <2> HIDE DEF v, ins, n
    <2>2. Worth({ins[i] : i \in 1..n}) = f[1..n] /\ f[1..n] \in Nat
      BY <1>0, <1>4, <1>6, <2>1, ListWorth
    <2> QED BY <1>4, <2>2
  <1>9. Worth(OutputRefs(t)) = h[1..m] /\ h[1..m] \in Nat
    <2>1. u = [i \in 1..m |-> Output(outs[i]).amount]
      OBVIOUS
    <2> HIDE DEF u, outs, m
    <2>2. Worth({outs[i] : i \in 1..m}) = h[1..m] /\ h[1..m] \in Nat
      BY <1>0, <1>5, <1>7, <2>1, ListWorth
    <2> QED BY <1>5, <2>2
  <1>10. h[1..m] < U64 /\ U64 \in Nat /\ TotalOut(t) = h[1..m] % U64
    BY <1>0, <1>2, <1>3, LedgerAssumption
  <1>11. TotalOut(t) = h[1..m]
    BY <1>9, <1>10
  <1>12. TotalIn(t) <= f[1..n]
    BY <1>0, <1>1, <1>8, <1>10
  <1>13. TotalIn(t) \in Int
    BY <1>0, <1>1, <1>8, <1>10
  <1> QED BY <1>8, <1>9, <1>11, <1>12, <1>13

\* Coins apart are worth what each set is.
LEMMA WorthApart ==
  ASSUME NEW A \in SUBSET TxOutRef, NEW B \in SUBSET TxOutRef
  PROVE  /\ Worth(A) \in Nat
         /\ A \cap B = {} => Worth(A \cup B) = Worth(A) + Worth(B)
  <1>1. PICK total : Sums(total, TxOutRef, Amounts) /\ \A C \in SUBSET TxOutRef : Worth(C) = total[C]
    BY WorthIsSum
  <1>2. Amounts \in [TxOutRef -> Nat]
    BY LedgerAssumption DEF Amounts
  <1>3. ASSUME A \cap B = {} PROVE total[A \cup B] = total[A] + total[B]
    <2>1. Sums(total, TxOutRef, Amounts)
      BY <1>1
    <2> QED BY <1>2, <1>3, <2>1, CoinsFinite, SumsUnion
  <1>4. total[A] \in Nat
    BY <1>1 DEF Sums
  <1>5. Worth(A) = total[A] /\ Worth(B) = total[B] /\ Worth(A \cup B) = total[A \cup B]
    BY <1>1
  <1> QED BY <1>3, <1>4, <1>5

\* The outputs of those of the first k transactions that validation passed on
\* totals that are not theirs.
Loose(txs, k) == UNION {OutputRefs(txs[i]) : i \in {j \in 1..k : ~ExactTotals(txs[j])}}

\* One transaction more.
LEMMA LooseStep ==
  ASSUME NEW txs, NEW k \in Nat, k >= 1
  PROVE  /\ Loose(txs, k) = IF ExactTotals(txs[k]) THEN Loose(txs, k - 1)
                            ELSE Loose(txs, k - 1) \cup OutputRefs(txs[k])
         /\ Loose(txs, k) \subseteq Outs(txs, k)
  <1> DEFINE J(m) == {j \in 1..m : ~ExactTotals(txs[j])}
  <1>1. 1..k = (1..(k - 1)) \cup {k}
    OBVIOUS
  <1>2. J(k) = IF ExactTotals(txs[k]) THEN J(k - 1) ELSE J(k - 1) \cup {k}
    BY <1>1
  <1>3. J(k) \subseteq 1..k
    OBVIOUS
  <1> HIDE DEF J
  <1>4. \A m : Loose(txs, m) = UNION {OutputRefs(txs[i]) : i \in J(m)}
    BY DEF Loose, J
  <1>5. Loose(txs, k) \subseteq Outs(txs, k)
    BY <1>3, <1>4 DEF Outs
  <1>6. CASE ExactTotals(txs[k])
    BY <1>2, <1>4, <1>5, <1>6
  <1>7. CASE ~ExactTotals(txs[k])
    <2>1. J(k) = J(k - 1) \cup {k}
      BY <1>2, <1>7
    <2>2. Loose(txs, k) = Loose(txs, k - 1) \cup OutputRefs(txs[k])
      BY <1>4, <2>1
    <2> QED BY <1>5, <1>7, <2>2
  <1> QED BY <1>6, <1>7

\* A block of transactions that pass validation on its parent adds no value,
\* whatever its length, but what those of them pay out whose outputs wrap or
\* that list an input twice (validate_block, apply_block).
THEOREM BlockConserves ==
  ASSUME NEW height \in Nat, NEW txs \in Seq(Tx), NEW st \in Stores,
         BlockFresh(height, st, txs), \A i \in 1..Len(txs) : TotalIn(txs[i]) >= TotalOut(txs[i])
  PROVE  Worth(ApplyBlock(height, txs, st).utxo) <= Worth(st.utxo) + Worth(Sources({}, Body(txs)))
  <1> DEFINE n == Len(txs)
             P == {k \in 0..n : /\ Ins(txs, k) \subseteq st.utxo /\ Outs(txs, k) \subseteq TxOutRef
                                /\ Outs(txs, k) \cap st.utxo = {}
                                /\ Loose(txs, k) \subseteq Outs(txs, k)
                                /\ Worth(Outs(txs, k)) <= Worth(Ins(txs, k)) + Worth(Loose(txs, k))}
  <1>0. n \in Nat /\ st.utxo \subseteq TxOutRef
    BY DEF Stores
  <1>1. 0 \in P
    <2>1. Ins(txs, 0) = {} /\ Outs(txs, 0) = {} /\ Loose(txs, 0) = {}
      BY DEF Ins, Outs, Loose
    <2>2. Worth({}) \in Nat
      BY WorthApart
    <2>3. Worth({}) <= Worth({}) + Worth({})
      BY <2>2
    <2>4. Worth(Outs(txs, 0)) <= Worth(Ins(txs, 0)) + Worth(Loose(txs, 0))
      BY <2>1, <2>3, Zenon
    <2>5. /\ Ins(txs, 0) \subseteq st.utxo /\ Outs(txs, 0) \subseteq TxOutRef
          /\ Outs(txs, 0) \cap st.utxo = {} /\ Loose(txs, 0) \subseteq Outs(txs, 0)
      BY <2>1
    <2>6. 0 \in 0..n
      BY <1>0
    <2> HIDE DEF n
    <2> QED BY <2>4, <2>5, <2>6
  <1>2. ASSUME NEW k \in 1..n, k - 1 \in P PROVE k \in P
    <2> DEFINE t   == txs[k]
               in  == Ins(txs, k - 1)
               out == Outs(txs, k - 1)
               loose == Loose(txs, k - 1)
    <2>1. t \in Tx /\ k \in Nat /\ k >= 1 /\ TotalIn(t) >= TotalOut(t)
      OBVIOUS
    <2>2. /\ in \subseteq st.utxo /\ out \subseteq TxOutRef /\ out \cap st.utxo = {} /\ loose \subseteq out
          /\ Worth(out) <= Worth(in) + Worth(loose)
      BY <1>2
    <2>3. InputRefs(t) \subseteq st.utxo /\ OutputRefs(t) \cap st.utxo = {}
      BY DEF BlockFresh, Fresh
    <2>4. OutputRefs(t) \subseteq TxOutRef
      BY <2>1 DEF OutputRefs, TxOutRef
    <2>5. in \cap InputRefs(t) = {} /\ out \cap OutputRefs(t) = {}
      <3>1. ASSUME NEW i \in 1..(k - 1)
            PROVE  InputRefs(txs[i]) \cap InputRefs(t) = {} /\ OutputRefs(txs[i]) \cap OutputRefs(t) = {}
        <4>1. i \in 1..n /\ i # k
          OBVIOUS
        <4>2. txs[i] # t /\ InputRefs(txs[i]) \cap InputRefs(t) = {}
          BY <4>1 DEF BlockFresh
        <4> QED BY <4>2, OutputsApart
      <3> QED BY <3>1 DEF Ins, Outs
    <2>6. Ins(txs, k) = in \cup InputRefs(t) /\ Outs(txs, k) = out \cup OutputRefs(t)
      BY <2>1, InsOutsStep
    <2>7. ExactTotals(t) => Worth(OutputRefs(t)) <= Worth(InputRefs(t))
      BY <2>1, TxConserves
    <2>13. /\ Loose(txs, k) = IF ExactTotals(t) THEN loose ELSE loose \cup OutputRefs(t)
           /\ Loose(txs, k) \subseteq Outs(txs, k)
      BY <2>1, LooseStep
    <2> HIDE DEF t, in, out, loose
    <2>8. /\ Worth(in \cup InputRefs(t)) = Worth(in) + Worth(InputRefs(t))
          /\ Worth(in) \in Nat /\ Worth(InputRefs(t)) \in Nat
      BY <1>0, <2>2, <2>3, <2>5, WorthApart
    <2>9. /\ Worth(out \cup OutputRefs(t)) = Worth(out) + Worth(OutputRefs(t))
          /\ Worth(out) \in Nat /\ Worth(OutputRefs(t)) \in Nat
      BY <2>2, <2>4, <2>5, WorthApart
    <2>14. /\ Worth(loose \cup OutputRefs(t)) = Worth(loose) + Worth(OutputRefs(t))
           /\ Worth(loose) \in Nat
      BY <2>2, <2>4, <2>5, WorthApart
    <2>15. Worth(Outs(txs, k)) = Worth(out) + Worth(OutputRefs(t))
           /\ Worth(Ins(txs, k)) = Worth(in) + Worth(InputRefs(t))
      BY <2>6, <2>8, <2>9
    <2>16. Worth(Loose(txs, k)) = IF ExactTotals(t) THEN Worth(loose)
                                  ELSE Worth(loose) + Worth(OutputRefs(t))
      BY <2>13, <2>14
    <2>10. Worth(Outs(txs, k)) <= Worth(Ins(txs, k)) + Worth(Loose(txs, k))
      <3>1. CASE ExactTotals(t)
        <4>1. Worth(OutputRefs(t)) <= Worth(InputRefs(t)) /\ Worth(Loose(txs, k)) = Worth(loose)
          BY <2>7, <2>16, <3>1
        <4> QED BY <2>2, <2>8, <2>9, <2>14, <2>15, <4>1
      <3>2. CASE ~ExactTotals(t)
        <4>1. Worth(Loose(txs, k)) = Worth(loose) + Worth(OutputRefs(t))
          BY <2>16, <3>2
        <4> QED BY <2>2, <2>8, <2>9, <2>14, <2>15, <4>1
      <3> QED BY <3>1, <3>2
    <2>11. Ins(txs, k) \subseteq st.utxo /\ Outs(txs, k) \subseteq TxOutRef /\ Outs(txs, k) \cap st.utxo = {}
      BY <2>2, <2>3, <2>4, <2>6
    <2>12. k \in 0..n
      BY <1>0
    <2> QED BY <2>10, <2>11, <2>12, <2>13
  <1>3. \A k \in 0..n : k \in P
    <2> HIDE DEF P, n
    <2> QED BY <1>0, <1>1, <1>2, Induction
  <1>4. n \in P
    <2> HIDE DEF P
    <2> QED BY <1>0, <1>3
  <1> DEFINE in  == Ins(txs, n)
             out == Outs(txs, n)
             loose == Loose(txs, n)
  <1>5. /\ in \subseteq st.utxo /\ out \subseteq TxOutRef /\ out \cap st.utxo = {} /\ loose \subseteq out
        /\ Worth(out) <= Worth(in) + Worth(loose)
    BY <1>4
  <1>10. loose = Sources({}, Body(txs))
    <2>1. {j \in 1..n : ~ExactTotals(txs[j])} \subseteq 1..n
      OBVIOUS
    <2>2. Body(txs) = {txs[i] : i \in 1..n}
      BY DEF Body
    <2> HIDE DEF n
    <2> QED BY <2>1, <2>2 DEF Sources, Loose
  <1>6. ApplyBlock(height, txs, st).utxo = (st.utxo \ in) \cup out
    BY ApplyBlockIsAfter DEF After
  <1> HIDE DEF in, out, loose, n, P
  <1>7. Worth((st.utxo \ in) \cup out) = Worth(st.utxo \ in) + Worth(out)
    BY <1>0, <1>5, WorthApart
  <1>8. Worth(st.utxo) = Worth(st.utxo \ in) + Worth(in)
    <2>1. st.utxo = (st.utxo \ in) \cup in /\ (st.utxo \ in) \cap in = {}
      BY <1>5
    <2>2. Worth((st.utxo \ in) \cup in) = Worth(st.utxo \ in) + Worth(in)
      BY <1>0, <1>5, <2>1, WorthApart
    <2> QED BY <2>1, <2>2
  <1>9. Worth(st.utxo \ in) \in Nat /\ Worth(in) \in Nat /\ Worth(out) \in Nat /\ Worth(loose) \in Nat
    BY <1>0, <1>5, WorthApart
  <1>11. Worth((st.utxo \ in) \cup out) <= Worth(st.utxo) + Worth(loose)
    BY <1>5, <1>7, <1>8, <1>9
  <1> QED BY <1>6, <1>10, <1>11

\* Some coins are worth no more than all of them.
LEMMA WorthSubset ==
  ASSUME NEW A \in SUBSET TxOutRef, NEW B \in SUBSET A
  PROVE  Worth(B) <= Worth(A)
  <1>1. A = B \cup (A \ B) /\ B \cap (A \ B) = {}
    OBVIOUS
  <1>2. Worth(B \cup (A \ B)) = Worth(B) + Worth(A \ B)
    BY <1>1, WorthApart
  <1>3. Worth(B) \in Nat /\ Worth(A \ B) \in Nat
    BY WorthApart
  <1>4. Worth(A) = Worth(B) + Worth(A \ B)
    BY <1>1, <1>2
  <1> QED BY <1>3, <1>4

\* The balances of any accounts add up to no more than the coins are worth
\* (balance).
LEMMA BalancesAddUp ==
  ASSUME NEW addresses, IsFiniteSet(addresses), NEW coins \in SUBSET TxOutRef
  PROVE  /\ MapThenSumSet(LAMBDA a : Balance(a, coins), addresses) \in Nat
         /\ MapThenSumSet(LAMBDA a : Balance(a, coins), addresses) <= Worth(coins)
  <1> DEFINE n == Cardinality(addresses)
             Owned(A) == {r \in coins : Output(r).address \in A}
             w == [a \in addresses |-> Balance(a, coins)]
             Def(g) == g = [s \in SUBSET addresses |-> IF s = {} THEN 0
                              ELSE Balance(CHOOSE x \in s : TRUE, coins) + g[s \ {CHOOSE x \in s : TRUE}]]
             f == CHOOSE g : Def(g)
             P == {k \in 0..n : \A A \in SUBSET addresses : Cardinality(A) <= k => f[A] <= Worth(Owned(A))}
  <1>0. n \in Nat
    BY Sizes
  <1>1. MapThenSumSet(LAMBDA a : Balance(a, coins), addresses) = f[addresses]
    BY DEF MapThenSumSet, MapThenFoldSet
  <1>2. ASSUME NEW a PROVE Balance(a, coins) \in Nat /\ Balance(a, coins) <= Worth(Owned({a}))
    <2>1. Owned({a}) = {r \in coins : Output(r).address = a}
      OBVIOUS
    <2>2. Balance(a, coins) = IF Worth(Owned({a})) >= U64 THEN U64 - 1 ELSE Worth(Owned({a}))
      BY <2>1 DEF Balance, Worth
    <2>3. Worth(Owned({a})) \in Nat
      BY WorthApart
    <2>4. U64 \in Nat \ {0}
      BY LedgerAssumption
    <2> HIDE DEF Owned
    <2> QED BY <2>2, <2>3, <2>4
  <1>3. w \in [addresses -> Nat] /\ \A a \in addresses : w[a] = Balance(a, coins)
    BY <1>2
  <1> HIDE DEF w
  <1>4. Sums(f, addresses, w)
    <2>1. \A g : Def(g) <=> FoldsSet(g, addresses, w)
      <3> TAKE g
      <3>1. ASSUME NEW s \in SUBSET addresses, s # {}
            PROVE  w[CHOOSE x \in s : TRUE] = Balance(CHOOSE x \in s : TRUE, coins)
        BY <1>3, <3>1
      <3> QED BY <3>1 DEF FoldsSet
    <2> HIDE DEF Def
    <2>2. Def(f)
      BY <1>3, <2>1, SetSums
    <2> HIDE DEF f
    <2> QED BY <1>3, <2>1, <2>2, SetSums
  <1> HIDE DEF f, Def
  <1>5. \A A : Owned(A) \in SUBSET TxOutRef /\ Owned(A) \in SUBSET coins /\ Worth(Owned(A)) \in Nat
    <2> TAKE A
    <2>1. Owned(A) \in SUBSET coins /\ Owned(A) \in SUBSET TxOutRef
      OBVIOUS
    <2> HIDE DEF Owned
    <2> QED BY <2>1, WorthApart
  <1>6. 0 \in P
    <2>1. ASSUME NEW A \in SUBSET addresses, Cardinality(A) <= 0 PROVE f[A] <= Worth(Owned(A))
      <3>1. A = {}
        BY <2>1, Sizes
      <3>2. f[A] = 0 /\ Worth(Owned(A)) \in Nat
        BY <1>4, <1>5, <3>1 DEF Sums
      <3> HIDE DEF Owned
      <3> QED BY <3>2
    <2>2. 0 \in 0..n
      BY <1>0
    <2> HIDE DEF Owned, n
    <2> QED BY <2>1, <2>2
  <1>7. ASSUME NEW k \in 1..n, k - 1 \in P PROVE k \in P
    <2>1. ASSUME NEW A \in SUBSET addresses, Cardinality(A) <= k PROVE f[A] <= Worth(Owned(A))
      <3>1. CASE A = {}
        <4>1. f[A] = 0 /\ Worth(Owned(A)) \in Nat
          BY <1>4, <1>5, <3>1 DEF Sums
        <4> HIDE DEF Owned
        <4> QED BY <4>1
      <3>2. CASE A # {}
        <4>1. PICK a : a \in A
          BY <3>2
        <4> DEFINE B == A \ {a}
        <4>2. B \in SUBSET addresses /\ a \in addresses
          BY <4>1
        <4>3. f[A] = Balance(a, coins) + f[B] /\ f[B] \in Nat
          BY <1>3, <1>4, <4>1, <4>2 DEF Sums
        <4>4. Cardinality(B) <= k - 1
          <5>1. Cardinality(B) = Cardinality(A) - 1 /\ Cardinality(A) \in Nat
            BY <1>0, <4>1, Sizes
          <5> HIDE DEF B
          <5> QED BY <1>0, <2>1, <5>1
        <4>5. Owned(A) = Owned({a}) \cup Owned(B) /\ Owned({a}) \cap Owned(B) = {}
          BY <4>1
        <4> HIDE DEF B, Owned
        <4>6. f[B] <= Worth(Owned(B))
          BY <1>7, <4>2, <4>4
        <4>7. Worth(Owned({a}) \cup Owned(B)) = Worth(Owned({a})) + Worth(Owned(B))
          BY <1>5, <4>5, WorthApart
        <4>8. Worth(Owned(A)) = Worth(Owned({a})) + Worth(Owned(B))
          BY <4>5, <4>7
        <4>9. Balance(a, coins) \in Nat /\ Balance(a, coins) <= Worth(Owned({a}))
          BY <1>2
        <4>10. Worth(Owned({a})) \in Nat /\ Worth(Owned(B)) \in Nat
          BY <1>5
        <4> QED BY <4>3, <4>6, <4>8, <4>9, <4>10
      <3> QED BY <3>1, <3>2
    <2>2. k \in 0..n
      BY <1>0
    <2> HIDE DEF Owned, n
    <2> QED BY <2>1, <2>2
  <1> HIDE DEF Owned
  <1>8. \A k \in 0..n : k \in P
    <2> HIDE DEF P, n
    <2> QED BY <1>0, <1>6, <1>7, Induction
  <1>9. f[addresses] <= Worth(Owned(addresses))
    <2>1. n \in P
      <3> HIDE DEF P
      <3> QED BY <1>0, <1>8
    <2>2. Cardinality(addresses) <= n
      BY <1>0
    <2> HIDE DEF n
    <2> QED BY <2>1, <2>2
  <1>10. Worth(Owned(addresses)) <= Worth(coins) /\ Worth(coins) \in Nat /\ f[addresses] \in Nat
         /\ Worth(Owned(addresses)) \in Nat
    <2>1. Worth(Owned(addresses)) <= Worth(coins)
      BY <1>5, WorthSubset
    <2>2. Worth(coins) \in Nat
      BY WorthApart
    <2>3. f[addresses] \in Nat
      BY <1>4 DEF Sums
    <2> QED BY <1>5, <2>1, <2>2, <2>3
  <1> QED BY <1>1, <1>9, <1>10

\* A genesis allocation leaves its outputs and nothing else (apply_genesis).
LEMMA GenesisCoins ==
  ASSUME NEW txs \in Seq(Tx), BlockFresh(0, Empty, txs)
  PROVE  ApplyBlock(0, txs, Empty).utxo = UNION {OutputRefs(txs[i]) : i \in DOMAIN txs}
  <1>1. ApplyBlock(0, txs, Empty).utxo = ({} \ Ins(txs, Len(txs))) \cup Outs(txs, Len(txs))
    <2>1. 0 \in Nat
      OBVIOUS
    <2>2. ApplyBlock(0, txs, Empty) = After(0, Empty, txs, Len(txs))
      BY <2>1, EmptyTyped, ApplyBlockIsAfter
    <2>3. After(0, Empty, txs, Len(txs)).utxo = ({} \ Ins(txs, Len(txs))) \cup Outs(txs, Len(txs))
      BY DEF After, Empty
    <2> QED BY <2>2, <2>3
  <1>2. DOMAIN txs = 1..Len(txs)
    OBVIOUS
  <1> QED BY <1>1, <1>2 DEF Outs

\* A block none of whose transactions is on the chain adds no more to the coins
\* than to where value comes from (validate_block, apply_block).
LEMMA BlockWithinSources ==
  ASSUME NEW height \in Nat, NEW txs \in Seq(Tx), NEW st \in Stores,
         BlockFresh(height, st, txs), \A i \in 1..Len(txs) : TotalIn(txs[i]) >= TotalOut(txs[i]),
         NEW genesis, NEW known \in SUBSET Tx, genesis \subseteq known, Body(txs) \cap known = {},
         Worth(st.utxo) <= Worth(Sources(genesis, known))
  PROVE  Worth(ApplyBlock(height, txs, st).utxo) <= Worth(Sources(genesis, known \cup Body(txs)))
  <1> DEFINE old == Sources(genesis, known)
             new == Sources({}, Body(txs))
             coins == ApplyBlock(height, txs, st).utxo
  <1>1. Body(txs) \subseteq Tx
    BY DEF Body
  <1>2. \A t \in Tx : OutputRefs(t) \subseteq TxOutRef
    BY DEF OutputRefs, TxOutRef
  <1>3. old \in SUBSET TxOutRef /\ new \in SUBSET TxOutRef
    BY <1>1, <1>2 DEF Sources
  <1>4. Sources(genesis, known \cup Body(txs)) = old \cup new
    BY DEF Sources
  <1>5. old \cap new = {}
    <2> SUFFICES ASSUME NEW r, r \in old, r \in new PROVE FALSE
      OBVIOUS
    <2>1. PICK t \in known : r \in OutputRefs(t)
      BY DEF Sources
    <2>2. PICK u \in Body(txs) : r \in OutputRefs(u)
      BY DEF Sources
    <2>3. r[1] = t /\ r[1] = u
      BY <2>1, <2>2 DEF OutputRefs
    <2> QED BY <2>3
  <1>6. coins \in SUBSET TxOutRef /\ st.utxo \in SUBSET TxOutRef
    <2>1. ApplyBlock(height, txs, st) \in Stores
      BY BlockTyped
    <2> QED BY <2>1 DEF Stores
  <1>7. Worth(coins) <= Worth(st.utxo) + Worth(new)
    BY BlockConserves
  <1> HIDE DEF old, new, coins
  <1>8. Worth(old \cup new) = Worth(old) + Worth(new)
    BY <1>3, <1>5, WorthApart
  <1>9. Worth(old) \in Nat /\ Worth(new) \in Nat /\ Worth(coins) \in Nat /\ Worth(st.utxo) \in Nat
    BY <1>3, <1>6, WorthApart
  <1>10. Worth(st.utxo) <= Worth(old)
    BY DEF old
  <1>11. Worth(coins) <= Worth(old \cup new)
    BY <1>7, <1>8, <1>9, <1>10
  <1> QED BY <1>4, <1>11 DEF coins

\* The coins of the genesis block are the first source of value (apply_genesis).
LEMMA GenesisSources ==
  ASSUME NEW txs \in Seq(Tx), BlockFresh(0, Empty, txs)
  PROVE  /\ ApplyBlock(0, txs, Empty).utxo = Sources(ToSet(txs), Body(txs))
         /\ ToSet(txs) = Body(txs) /\ Body(txs) \in SUBSET Tx
  <1>1. ToSet(txs) = Body(txs) /\ Body(txs) \in SUBSET Tx
    BY DEF ToSet, Body
  <1>2. UNION {OutputRefs(txs[i]) : i \in DOMAIN txs} = UNION {OutputRefs(t) : t \in ToSet(txs)}
    BY DEF ToSet
  <1>3. Sources(ToSet(txs), Body(txs)) = UNION {OutputRefs(t) : t \in ToSet(txs)}
    <2>1. ToSet(txs) \cup {u \in Body(txs) : ~ExactTotals(u)} = ToSet(txs)
      BY <1>1
    <2> QED BY <2>1 DEF Sources
  <1> QED BY <1>1, <1>2, <1>3, GenesisCoins
=============================================================================
