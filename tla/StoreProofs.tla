---------------------------- MODULE StoreProofs -----------------------------
(***************************************************************************)
(* The mempool, and the two stores that sit on the same ledger.            *)
(***************************************************************************)
EXTENDS Store, LedgerProofs

-----------------------------------------------------------------------------
(***************************************************************************)
(* The pool's invariants, for every set of transactions and every size.    *)
(* None of the four is inductive alone: removing a transaction keeps        *)
(* in_flight exact only if no other pooled transaction shares its inputs,   *)
(* and the in_flight guard of add keeps inputs unshared only if in_flight   *)
(* is exact.  PoolInv carries them together.                                *)
(***************************************************************************)

\* A pool is a finite set, so its size is a number.
LEMMA PoolFinite == ASSUME TypeOK PROVE IsFiniteSet(txs) /\ Cardinality(txs) \in Nat
  BY LedgerAssumption, FS_Subset, FS_CardinalityType DEF TypeOK

\* What a set of transactions that share no input consumes, less what some of
\* them consume, is what the others consume.
LEMMA UnsharedMinus ==
  ASSUME NEW S, NEW D,
         \A t, u \in S : t # u => InputRefs(t) \cap InputRefs(u) = {}
  PROVE  (UNION {InputRefs(t) : t \in S}) \ (UNION {InputRefs(t) : t \in S \cap D})
           = UNION {InputRefs(t) : t \in S \ D}
  <1> DEFINE All  == UNION {InputRefs(t) : t \in S}
             Gone == UNION {InputRefs(t) : t \in S \cap D}
             Kept == UNION {InputRefs(t) : t \in S \ D}
  <1>1. ASSUME NEW r \in Kept PROVE r \in All \ Gone
    <2>1. PICK t \in S \ D : r \in InputRefs(t)
      OBVIOUS
    <2>2. ASSUME NEW u \in S \cap D, r \in InputRefs(u) PROVE FALSE
      BY <2>1, <2>2
    <2> QED BY <2>1, <2>2
  <1>2. ASSUME NEW r \in All \ Gone PROVE r \in Kept
    <2>1. PICK t \in S : r \in InputRefs(t)
      OBVIOUS
    <2>2. t \notin D
      BY <2>1
    <2> QED BY <2>1, <2>2
  <1> HIDE DEF All, Gone, Kept
  <1>3. All \ Gone = Kept
    BY <1>1, <1>2
  <1> QED BY <1>3 DEF All, Gone, Kept

\* One more transaction consumes its inputs besides.
LEMMA UnionPlus ==
  ASSUME NEW S, NEW t
  PROVE  UNION {InputRefs(u) : u \in S \cup {t}}
           = (UNION {InputRefs(u) : u \in S}) \cup InputRefs(t)
  OBVIOUS

\* The empty pool satisfies every invariant.
LEMMA EmptyPool ==
  ASSUME txs = {}, in_flight = {}, values = [t \in {} |-> 0]
  PROVE  PoolInv
  <1>1. TypeOK /\ InFlightExact /\ NoSharedInput /\ ValuesInSync
    BY DEF TypeOK, InFlightExact, NoSharedInput, ValuesInSync
  <1>2. WithinCapacity
    BY MempoolAssumption, FS_EmptySet DEF WithinCapacity
  <1> QED BY <1>1, <1>2 DEF PoolInv

\* Mempool::add with room left preserves the invariant.
LEMMA InsertPreserves ==
  ASSUME PoolInv, NEW t \in Tx, Insert(t)
  PROVE  PoolInv'
  <1> USE DEF PoolInv, Insert, Admissible
  <1>1. TypeOK'
    BY LedgerAssumption DEF TypeOK
  <1>2. InFlightExact'
    BY DEF InFlightExact
  <1>3. NoSharedInput'
    BY DEF NoSharedInput, InFlightExact
  <1>4. ValuesInSync'
    BY DEF ValuesInSync
  <1>5. WithinCapacity'
    <2>1. Cardinality(txs \cup {t}) = Cardinality(txs) + 1
      BY PoolFinite, FS_AddElement
    <2> QED BY <2>1, PoolFinite, MempoolAssumption DEF WithinCapacity
  <1> QED BY <1>1, <1>2, <1>3, <1>4, <1>5

\* Mempool::add at capacity preserves the invariant: one out, one in.
LEMMA ReplacePreserves ==
  ASSUME PoolInv, NEW t \in Tx, NEW victim \in txs, Replace(t, victim)
  PROVE  PoolInv'
  <1> USE DEF PoolInv, Replace, Admissible
  <1>1. TypeOK'
    BY LedgerAssumption DEF TypeOK
  <1>2. InFlightExact'
    <2>1. in_flight \ InputRefs(victim) = UNION {InputRefs(u) : u \in txs \ {victim}}
      <3>1. UNION {InputRefs(u) : u \in txs \cap {victim}} = InputRefs(victim)
        OBVIOUS
      <3> QED BY <3>1, UnsharedMinus DEF InFlightExact, NoSharedInput
    <2>2. UNION {InputRefs(u) : u \in (txs \ {victim}) \cup {t}}
            = (UNION {InputRefs(u) : u \in txs \ {victim}}) \cup InputRefs(t)
      BY UnionPlus
    <2> QED BY <2>1, <2>2 DEF InFlightExact
  <1>3. NoSharedInput'
    BY DEF NoSharedInput, InFlightExact
  <1>4. ValuesInSync'
    BY DEF ValuesInSync
  <1>5. WithinCapacity'
    <2>1. /\ IsFiniteSet(txs \ {victim})
          /\ Cardinality(txs \ {victim}) = Cardinality(txs) - 1
      BY PoolFinite, FS_RemoveElement
    <2>2. Cardinality((txs \ {victim}) \cup {t}) = Cardinality(txs)
      <3>1. t \notin txs \ {victim}
        OBVIOUS
      <3>2. Cardinality((txs \ {victim}) \cup {t}) = Cardinality(txs \ {victim}) + 1
        BY <2>1, <3>1, FS_AddElement
      <3> QED BY <2>1, <3>2, PoolFinite
    <2> QED BY <2>2 DEF WithinCapacity
  <1> QED BY <1>1, <1>2, <1>3, <1>4, <1>5

\* Mempool::remove preserves the invariant.
LEMMA DropPreserves ==
  ASSUME PoolInv, NEW hashes, Drop(hashes)
  PROVE  PoolInv'
  <1> USE DEF PoolInv, Drop
  <1>1. TypeOK'
    BY DEF TypeOK
  <1>2. InFlightExact'
    <2>1. in_flight' = UNION {InputRefs(u) : u \in txs \ hashes}
      BY UnsharedMinus DEF InFlightExact, NoSharedInput
    <2>2. txs' = txs \ hashes
      OBVIOUS
    <2> QED BY <2>1, <2>2 DEF InFlightExact
  <1>3. NoSharedInput'
    BY DEF NoSharedInput
  <1>4. ValuesInSync'
    BY DEF ValuesInSync
  <1>5. WithinCapacity'
    <2>1. Cardinality(txs \ (txs \cap hashes)) <= Cardinality(txs)
      BY PoolFinite, FS_Subset
    <2>2. Cardinality(txs \ (txs \cap hashes)) \in Nat
      BY PoolFinite, FS_Subset, FS_CardinalityType
    <2> QED BY <2>1, <2>2, PoolFinite, MempoolAssumption DEF WithinCapacity
  <1> QED BY <1>1, <1>2, <1>3, <1>4, <1>5

\* A step that leaves the pool alone leaves its invariant alone.
LEMMA IdlePreserves ==
  ASSUME PoolInv, UNCHANGED poolVars
  PROVE  PoolInv'
  BY DEF PoolInv, poolVars, TypeOK, InFlightExact, NoSharedInput, ValuesInSync,
         WithinCapacity

\* Every operation of the pool preserves the invariant, whatever it does to
\* the UTXO set.
LEMMA StepPreserves ==
  ASSUME PoolInv, [Next]_vars
  PROVE  PoolInv'
  <1>1. CASE \E t \in Tx : Add(t)
    BY <1>1, InsertPreserves, ReplacePreserves DEF Add
  <1>2. CASE \E hashes \in SUBSET Tx : RemoveIncluded(hashes)
    BY <1>2, DropPreserves DEF RemoveIncluded
  <1>3. CASE UtxoChange
    BY <1>3, IdlePreserves DEF UtxoChange
  <1>4. CASE Restart
    <2>1. txs' = {} /\ in_flight' = {} /\ values' = [t \in {} |-> 0]
      BY <1>4 DEF Restart
    <2>2. TypeOK' /\ InFlightExact' /\ NoSharedInput' /\ ValuesInSync'
      BY <2>1 DEF TypeOK, InFlightExact, NoSharedInput, ValuesInSync
    <2>3. WithinCapacity'
      BY <2>1, MempoolAssumption, FS_EmptySet DEF WithinCapacity
    <2> QED BY <2>2, <2>3 DEF PoolInv
  <1>5. CASE UNCHANGED vars
    BY <1>5, IdlePreserves DEF vars, poolVars
  <1> QED BY <1>1, <1>2, <1>3, <1>4, <1>5 DEF Next

-----------------------------------------------------------------------------
\* The inductive invariant holds in every reachable state of the pool.
THEOREM PoolSafety == Spec => []PoolInv
  <1>1. Init => PoolInv
    BY EmptyPool DEF Init
  <1>2. PoolInv /\ [Next]_vars => PoolInv'
    BY StepPreserves
  <1> QED BY <1>1, <1>2, PTL DEF Spec

\* The pool's state always has its type.
THEOREM PoolTypeCorrect == Spec => []TypeOK
  <1>1. PoolInv => TypeOK
    BY DEF PoolInv
  <1> QED BY <1>1, PoolSafety, PTL

\* No two pooled transactions ever consume the same output.
THEOREM PoolNoDoubleSpend == Spec => []NoSharedInput
  <1>1. PoolInv => NoSharedInput
    BY DEF PoolInv
  <1> QED BY <1>1, PoolSafety, PTL

\* in_flight is always exactly what the pooled transactions consume.
THEOREM PoolInFlightExact == Spec => []InFlightExact
  <1>1. PoolInv => InFlightExact
    BY DEF PoolInv
  <1> QED BY <1>1, PoolSafety, PTL

\* The stored value of every pooled transaction is always the total of its
\* outputs, so the eviction compares what it means to compare.
THEOREM PoolValuesInSync == Spec => []ValuesInSync
  <1>1. PoolInv => ValuesInSync
    BY DEF PoolInv
  <1> QED BY <1>1, PoolSafety, PTL

\* The pool never holds more than mempool_max_size transactions.
THEOREM PoolBounded == Spec => []WithinCapacity
  <1>1. PoolInv => WithinCapacity
    BY DEF PoolInv
  <1> QED BY <1>1, PoolSafety, PTL

\* A step of the pool that admits one transaction and drops another drops one
\* of least value, and the pool's least value does not fall.
THEOREM PoolEvictionFloor == Spec => EvictionRaisesFloor
  <1> DEFINE Floor == \A t \in txs' \ txs : \A v \in txs \ txs' :
                         /\ \A u \in txs : TotalOut(v) <= TotalOut(u)
                         /\ \A u \in txs' : TotalOut(v) <= TotalOut(u)
  <1>1. ASSUME PoolInv, [Next]_vars PROVE Floor
    <2>1. ASSUME NEW t \in Tx, NEW w \in txs, Replace(t, w) PROVE Floor
      <3>1. /\ \A u \in txs : values[u] = TotalOut(u)
            /\ \A u \in txs : TotalOut(u) \in Nat
            /\ TotalOut(t) \in Nat
        BY <1>1, LedgerAssumption DEF PoolInv, ValuesInSync, TypeOK
      <3>2. /\ \A u \in txs : TotalOut(w) <= TotalOut(u)
            /\ TotalOut(w) <= TotalOut(t)
            /\ txs' = (txs \ {w}) \cup {t}
        BY <2>1, <3>1 DEF Replace
      <3> QED BY <3>2
    <2>2. ASSUME NEW t \in Tx, Insert(t) PROVE Floor
      BY <2>2 DEF Insert
    <2>3. ASSUME NEW hashes, Drop(hashes) PROVE Floor
      BY <2>3 DEF Drop
    <2>4. CASE UtxoChange \/ Restart \/ UNCHANGED vars
      BY <2>4 DEF UtxoChange, Restart, vars, poolVars
    <2> QED BY <1>1, <2>1, <2>2, <2>3, <2>4 DEF Next, Add, RemoveIncluded
  <1>2. PoolInv /\ [Next]_vars => [Floor]_vars
    BY <1>1
  <1> QED BY <1>2, PoolSafety, PTL DEF Spec, EvictionRaisesFloor

-----------------------------------------------------------------------------
(***************************************************************************)
(* The two stores, for every genesis allocation, every set of bodies and   *)
(* every sequence of applies and rollbacks.  That the trees are the replay *)
(* of the chain is not inductive: a rollback lands on the replay of the    *)
(* shorter chain only if the block it undoes was fit for that replay, so   *)
(* the invariant keeps, for every block of the chain, the store it was     *)
(* applied to and that it was fit for it (Supports).  A new block is fit   *)
(* because of what Sound says of a replayed store: every coin was created  *)
(* by a transaction of the chain, and no transaction of the chain has an   *)
(* input left to spend, so that a valid transaction is not a repeat.       *)
(***************************************************************************)

\* The transactions of the first k bodies.
Known(bodies, k) == UNION {Body(bodies[j]) : j \in 1..k}

\* after[k] is the store below the block at height k, each block is fit for the
\* store it is applied to, and each store is sound.
Supports(after, bodies) ==
    /\ Replays(after, bodies)
    /\ \A k \in 1..Len(bodies) :
          /\ BlockFresh(k - 1, after[k - 1], bodies[k])
          /\ Sound(after[k], Known(bodies, k), k)

StoreInv ==
    /\ chain \in Seq(Seq(Tx)) /\ Len(chain) >= 1
    /\ \E after : Supports(after, chain) /\ Sled = after[Len(chain)]
    /\ memory = Sled

-----------------------------------------------------------------------------
\* A prefix of the bodies has the transactions it has.
LEMMA KnownStep ==
  ASSUME NEW bodies, NEW k \in Nat
  PROVE  Known(bodies, k + 1) = Known(bodies, k) \cup Body(bodies[k + 1])
  <1>1. 1..(k + 1) = 1..k \cup {k + 1}
    OBVIOUS
  <1> QED BY <1>1 DEF Known

\* What supports a chain supports it without its last block (rollback_block).
LEMMA SupportsPrefix ==
  ASSUME NEW bodies \in Seq(Seq(Tx)), NEW shorter \in Seq(Seq(Tx)), NEW after, Supports(after, bodies),
         Len(bodies) = Len(shorter) + 1, \A k \in 1..Len(shorter) : shorter[k] = bodies[k]
  PROVE  Supports([k \in 0..Len(shorter) |-> after[k]], shorter)
  <1> DEFINE n == Len(shorter)
             less == [k \in 0..n |-> after[k]]
  <1>0. n \in Nat /\ 0..n \subseteq 0..Len(bodies)
    OBVIOUS
  <1>1. after \in [0..Len(bodies) -> Stores] /\ after[0] = Empty
    BY DEF Supports, Replays
  <1>2. less \in [0..n -> Stores] /\ less[0] = Empty
    BY <1>0, <1>1
  <1>3. ASSUME NEW k \in 1..n
        PROVE  /\ less[k] = ApplyBlock(k - 1, shorter[k], less[k - 1])
               /\ BlockFresh(k - 1, less[k - 1], shorter[k])
               /\ Sound(less[k], Known(shorter, k), k)
    <2>1. k \in 1..Len(bodies) /\ k \in 0..n /\ k - 1 \in 0..n /\ shorter[k] = bodies[k]
      BY <1>0
    <2>2. less[k] = after[k] /\ less[k - 1] = after[k - 1]
      BY <2>1
    <2>3. Known(shorter, k) = Known(bodies, k)
      <3>1. \A j \in 1..k : j \in 1..Len(shorter)
        BY <1>0
      <3>2. \A j \in 1..k : shorter[j] = bodies[j]
        BY <3>1
      <3> QED BY <3>2 DEF Known
    <2> HIDE DEF less, n
    <2> QED BY <2>1, <2>2, <2>3 DEF Supports, Replays
  <1> HIDE DEF less
  <1>4. Supports(less, shorter)
    BY <1>2, <1>3 DEF Supports, Replays
  <1> QED BY <1>4 DEF less

\* What supports a chain supports, with one store more, the chain a fitting
\* block was appended to (apply_block).
LEMMA SupportsAppend ==
  ASSUME NEW bodies \in Seq(Seq(Tx)), NEW body \in Seq(Tx), NEW after, Supports(after, bodies),
         BlockFresh(Len(bodies), after[Len(bodies)], body),
         Sound(ApplyBlock(Len(bodies), body, after[Len(bodies)]),
               Known(bodies, Len(bodies)) \cup Body(body), Len(bodies) + 1)
  PROVE  \E more : /\ Supports(more, Append(bodies, body))
                   /\ more[Len(bodies) + 1] = ApplyBlock(Len(bodies), body, after[Len(bodies)])
  <1> DEFINE n == Len(bodies)
             longer == Append(bodies, body)
             new == ApplyBlock(n, body, after[n])
             more == [k \in 0..(n + 1) |-> IF k = n + 1 THEN new ELSE after[k]]
  <1>0. n \in Nat /\ longer \in Seq(Seq(Tx)) /\ Len(longer) = n + 1 /\ longer[n + 1] = body
        /\ \A k \in 1..n : longer[k] = bodies[k]
    OBVIOUS
  <1>1. after \in [0..n -> Stores] /\ after[0] = Empty
    BY DEF Supports, Replays
  <1>2. new \in Stores
    <2>1. after[n] \in Stores
      BY <1>0, <1>1
    <2> QED BY <1>0, <2>1, BlockTyped
  <1>3. more \in [0..(n + 1) -> Stores] /\ more[0] = Empty
    BY <1>0, <1>1, <1>2
  <1>4. more[n + 1] = new /\ \A k \in 0..n : more[k] = after[k]
    BY <1>0
  <1>5. ASSUME NEW k \in 1..(n + 1)
        PROVE  /\ more[k] = ApplyBlock(k - 1, longer[k], more[k - 1])
               /\ BlockFresh(k - 1, more[k - 1], longer[k])
               /\ Sound(more[k], Known(longer, k), k)
    <2>1. \A j \in 0..n : Known(longer, j) = Known(bodies, j)
      BY <1>0 DEF Known
    <2>2. CASE k = n + 1
      <3>1. Known(longer, n + 1) = Known(bodies, n) \cup Body(body)
        <4>1. Known(longer, n + 1) = Known(longer, n) \cup Body(longer[n + 1])
          BY <1>0, KnownStep
        <4> QED BY <1>0, <2>1, <4>1
      <3>2. k - 1 = n /\ longer[k] = body /\ more[k - 1] = after[n] /\ more[k] = new
        BY <1>0, <1>4, <2>2
      <3> HIDE DEF more, longer
      <3>3. Sound(new, Known(bodies, n) \cup Body(body), n + 1)
        OBVIOUS
      <3> QED BY <2>2, <3>1, <3>2, <3>3
    <2>3. CASE k \in 1..n
      <3>1. k \in 0..n /\ k - 1 \in 0..n
        BY <1>0, <2>3
      <3>2. longer[k] = bodies[k] /\ more[k - 1] = after[k - 1] /\ more[k] = after[k]
            /\ Known(longer, k) = Known(bodies, k)
        BY <1>0, <1>4, <2>1, <2>3, <3>1
      <3> HIDE DEF more, longer
      <3> QED BY <2>3, <3>2 DEF Supports, Replays
    <2> QED BY <1>0, <2>2, <2>3
  <1> HIDE DEF more, longer, new
  <1>6. Supports(more, longer)
    BY <1>0, <1>3, <1>5 DEF Supports, Replays
  <1>7. more[n + 1] = new
    BY <1>4
  <1> QED BY <1>6, <1>7 DEF longer, new
-----------------------------------------------------------------------------
(* The steps.                                                               *)

\* The genesis allocation is fit for an empty store (apply_genesis).
LEMMA GenesisSupported == ASSUME StoreInit PROVE StoreInv
  <1> DEFINE st  == ApplyBlock(0, GenesisTxs, Empty)
             none == [k \in 0..0 |-> Empty]
  <1>0. GenesisTxs \in Seq(Tx) /\ DOMAIN GenesisTxs = 1..Len(GenesisTxs) /\ Empty \in Stores
    BY StoreAssumption, EmptyTyped
  <1>1. /\ \A i \in 1..Len(GenesisTxs) : InputRefs(GenesisTxs[i]) = {}
        /\ \A i, j \in 1..Len(GenesisTxs) : i # j => GenesisTxs[i] # GenesisTxs[j]
    BY <1>0, StoreAssumption
  <1>2. BlockFresh(0, Empty, GenesisTxs)
    BY <1>1 DEF BlockFresh, Fresh, Empty
  <1>3. Sound(Empty, {}, 0)
    BY DEF Sound, Empty
  <1>4. Sound(st, Body(GenesisTxs), 1)
    <2>1. Sound(st, {} \cup Body(GenesisTxs), 0 + 1)
      BY <1>0, <1>2, <1>3, SoundStep
    <2> QED BY <2>1
  <1>5. Supports(none, <<>>)
    BY <1>0 DEF Supports, Replays
  <1>6. \E more : Supports(more, <<GenesisTxs>>) /\ more[1] = st
    <2>1. Known(<<>>, 0) = {} /\ Len(<<>>) = 0 /\ none[0] = Empty
          /\ Append(<<>>, GenesisTxs) = <<GenesisTxs>> /\ <<>> \in Seq(Seq(Tx))
      BY DEF Known
    <2>2. Sound(ApplyBlock(0, GenesisTxs, none[0]), {} \cup Body(GenesisTxs), 0 + 1)
      BY <1>4, <2>1
    <2> HIDE DEF none
    <2>3. \E more : Supports(more, Append(<<>>, GenesisTxs))
                    /\ more[Len(<<>>) + 1] = ApplyBlock(Len(<<>>), GenesisTxs, none[Len(<<>>)])
      BY <1>0, <1>2, <1>5, <2>1, <2>2, SupportsAppend
    <2> QED BY <2>1, <2>3
  <1>7. st \in Stores /\ memory = st
    <2>1. st \in Stores
      BY <1>0, BlockTyped
    <2>2. NoRecords(0, Empty)
      BY DEF NoRecords, Empty
    <2> QED BY <1>0, <1>2, <2>1, <2>2, MemApplyAgrees DEF StoreInit
  <1>8. Sled = st /\ chain = <<GenesisTxs>>
    <2>1. st = [utxo |-> st.utxo, spent |-> st.spent]
      BY <1>7 DEF Stores
    <2> QED BY <2>1 DEF StoreInit, Sled
  <1> HIDE DEF st
  <1> QED BY <1>0, <1>6, <1>7, <1>8 DEF StoreInv

\* A block goes on top (apply_block).
LEMMA ApplySupported ==
  ASSUME StoreInv, NEW body \in Bodies, Apply(body)
  PROVE  StoreInv' /\ Sled' \in Stores
  <1> DEFINE n  == Len(chain)
             st == ApplyBlock(n, body, Sled)
  <1>0. body \in Seq(Tx) /\ n \in Nat /\ n >= 1 /\ chain \in Seq(Seq(Tx))
    BY StoreAssumption DEF StoreInv
  <1>1. PICK after : Supports(after, chain) /\ Sled = after[n]
    BY DEF StoreInv
  <1>2. Sled \in Stores /\ Sound(Sled, Known(chain, n), n)
    <2>1. after \in [0..n -> Stores] /\ n \in 0..n /\ n \in 1..n
      BY <1>0, <1>1 DEF Supports, Replays
    <2> QED BY <1>1, <2>1 DEF Supports
  <1>3. BlockFresh(n, Sled, body) /\ Body(body) \cap Known(chain, n) = {}
    <2>1. \A i \in 1..Len(body) : ValidateTransaction(body[i], Sled.utxo)
      BY <1>0 DEF Apply, Sled, BodyValid
    <2>2. Drawn(body)
      <3>1. DOMAIN body = 1..Len(body)
        BY <1>0
      <3> QED BY <3>1, StoreAssumption DEF Drawn
    <2> QED BY <1>0, <1>2, <2>1, <2>2, ValidIsFresh
  <1>4. Sound(st, Known(chain, n) \cup Body(body), n + 1)
    BY <1>0, <1>2, <1>3, SoundStep
  <1>5. \E more : Supports(more, Append(chain, body)) /\ more[n + 1] = st
    BY <1>0, <1>1, <1>3, <1>4, SupportsAppend
  <1>6. st \in Stores /\ MemApplyBlock(n, body, Sled) = st
    <2>1. NoRecords(n, Sled)
      <3>1. Sled.spent \subseteq Nat \X TxOutRef
        BY <1>2 DEF Stores
      <3>2. \A e \in Sled.spent : e[1] < n /\ e[1] \in Nat
        BY <1>2, <3>1 DEF Sound
      <3> QED BY <1>0, <3>2 DEF NoRecords
    <2> QED BY <1>0, <1>2, <1>3, <2>1, MemApplyAgrees, BlockTyped
  <1>7. /\ Sled' = st /\ memory' = st
        /\ chain' = Append(chain, body) /\ Len(chain') = n + 1 /\ chain' \in Seq(Seq(Tx))
    <2>1. st = [utxo |-> st.utxo, spent |-> st.spent]
      BY <1>6 DEF Stores
    <2>2. Sled' = st
      BY <2>1 DEF Apply, Sled
    <2>3. memory' = st
      BY <1>6 DEF Apply, StoreInv
    <2> QED BY <1>0, <2>2, <2>3 DEF Apply
  <1> HIDE DEF st
  <1> QED BY <1>0, <1>5, <1>6, <1>7 DEF StoreInv

\* The last block comes off (rollback_block).
LEMMA RollbackSupported ==
  ASSUME StoreInv, Rollback
  PROVE  StoreInv' /\ Sled' \in Stores
  <1> DEFINE n    == Len(chain)
             body == chain[n]
  <1>0. n \in Nat /\ n > 1 /\ chain \in Seq(Seq(Tx)) /\ body \in Seq(Tx) /\ n - 1 \in Nat
    BY DEF StoreInv, Rollback
  <1>1. PICK after : Supports(after, chain) /\ Sled = after[n]
    BY DEF StoreInv
  <1> DEFINE st   == after[n - 1]
             less == [k \in 0..(n - 1) |-> after[k]]
  <1>2. st \in Stores /\ Sled = ApplyBlock(n - 1, body, st) /\ BlockFresh(n - 1, st, body)
        /\ Sound(st, Known(chain, n - 1), n - 1)
    <2>1. after \in [0..n -> Stores] /\ n - 1 \in 0..n /\ n \in 1..n /\ n - 1 \in 1..n
      BY <1>0, <1>1 DEF Supports, Replays
    <2> QED BY <1>1, <2>1 DEF Supports, Replays
  <1>3. RollbackBlock(n - 1, body, Sled) = st
    BY <1>0, <1>2, BlockRollbackUndoesApply
  <1>4. MemRollbackBlock(n - 1, body, Sled) = st
    <2>1. NoRecords(n - 1, st)
      <3>1. st.spent \subseteq Nat \X TxOutRef
        BY <1>2 DEF Stores
      <3>2. \A e \in st.spent : e[1] < n - 1 /\ e[1] \in Nat
        BY <1>2, <3>1 DEF Sound
      <3> QED BY <1>0, <3>2 DEF NoRecords
    <2> QED BY <1>0, <1>2, <2>1, MemRollbackUndoes
  <1>5. /\ chain' \in Seq(Seq(Tx)) /\ Len(chain') = n - 1
        /\ \A k \in 1..(n - 1) : chain'[k] = chain[k]
        /\ Last(chain) = body
    BY <1>0 DEF Rollback, Front, Last
  <1>6. Sled' = st /\ memory' = st
    <2>1. st = [utxo |-> st.utxo, spent |-> st.spent]
      BY <1>2 DEF Stores
    <2>2. Sled' = st
      BY <1>3, <1>5, <2>1 DEF Rollback, Sled
    <2>3. memory' = st
      BY <1>4, <1>5 DEF Rollback, StoreInv
    <2> QED BY <2>2, <2>3
  <1>7. Supports(less, chain') /\ less[n - 1] = st
    <2>1. Len(chain) = Len(chain') + 1
      BY <1>0, <1>5
    <2>2. Supports([k \in 0..Len(chain') |-> after[k]], chain')
      BY <1>0, <1>1, <1>5, <2>1, SupportsPrefix
    <2> QED BY <1>0, <1>5, <2>2
  <1> HIDE DEF st, less
  <1> QED BY <1>0, <1>2, <1>5, <1>6, <1>7 DEF StoreInv

\* Every step keeps the invariant, and is a step of module Mempool.
LEMMA StoreStep ==
  ASSUME StoreInv, [StoreNext]_<<vars, chain, spent, memory>>
  PROVE  StoreInv' /\ [Next]_vars
  <1>1. ASSUME NEW body \in Bodies, Apply(body) PROVE StoreInv' /\ UtxoChange
    <2>1. StoreInv' /\ Sled' \in Stores
      BY <1>1, ApplySupported
    <2> QED BY <1>1, <2>1 DEF Apply, UtxoChange, Stores, Sled
  <1>2. CASE Rollback
    <2>1. StoreInv' /\ Sled' \in Stores
      BY <1>2, RollbackSupported
    <2>2. UtxoChange
      BY <1>2, <2>1 DEF Rollback, UtxoChange, Stores, Sled
    <2> QED BY <2>1, <2>2 DEF Next
  <1>3. CASE PoolStep
    <2>1. UNCHANGED <<chain, spent, memory, utxo>>
      BY <1>3 DEF PoolStep, Add, Insert, Replace, RemoveIncluded, Restart
    <2>2. StoreInv'
      BY <2>1 DEF StoreInv, Sled
    <2>3. ToSet(Last(chain)) \in SUBSET Tx
      BY DEF StoreInv, Last, ToSet
    <2> QED BY <1>3, <2>2, <2>3 DEF PoolStep, Next
  <1>4. CASE UNCHANGED <<vars, chain, spent, memory>>
    BY <1>4 DEF StoreInv, Sled, vars
  <1> QED BY <1>1, <1>2, <1>3, <1>4 DEF StoreNext, Next

-----------------------------------------------------------------------------
\* The inductive invariant holds in every reachable state of the stores.
THEOREM StoreSafety == StoreSpec => []StoreInv
  <1>1. StoreInit => StoreInv
    BY GenesisSupported
  <1>2. StoreInv /\ [StoreNext]_<<vars, chain, spent, memory>> => StoreInv'
    BY StoreStep
  <1> QED BY <1>1, <1>2, PTL DEF StoreSpec

\* However often blocks are applied and rolled back, the sled trees are always
\* those of a store that applied the chain and nothing else (apply_block,
\* rollback_block).
THEOREM StoreIsReplayed == StoreSpec => []SledIsReplay
  <1>1. StoreInv => SledIsReplay
    BY ReplaysToReplay DEF StoreInv, Supports, SledIsReplay
  <1> QED BY <1>1, StoreSafety, PTL

\* MemoryStore and SledStore, which keep their undo records differently, are
\* always in the same state.
THEOREM StoreImplementationsAgree == StoreSpec => []StoresAgree
  <1>1. StoreInv => StoresAgree
    BY DEF StoreInv, StoresAgree
  <1> QED BY <1>1, StoreSafety, PTL

\* A store with a pool on it uses the pool as module Mempool says.
THEOREM StoreImplementsMempool == StoreSpec => Spec
  <1>1. StoreInit => Init
    BY DEF StoreInit
  <1>2. StoreInv /\ [StoreNext]_<<vars, chain, spent, memory>> => [Next]_vars
    BY StoreStep
  <1> QED BY <1>1, <1>2, StoreSafety, PTL DEF StoreSpec, Spec

\* So every invariant of the pool holds above a store that applies and rolls
\* back blocks under it.
COROLLARY StorePoolSafety == StoreSpec => []PoolInv
  BY StoreImplementsMempool, PoolSafety, PTL

-----------------------------------------------------------------------------
(* Value.                                                                   *)

\* The chain starts with the genesis allocation, and what was put on top of it
\* consumes coins and had passed the comparison of the totals.
Funded ==
    /\ chain[1] = GenesisTxs
    /\ \A k \in 2..Len(chain) : \A i \in 1..Len(chain[k]) :
          TotalIn(chain[k][i]) >= TotalOut(chain[k][i]) /\ InputRefs(chain[k][i]) # {}

\* Blocks are only put on top after validation (validate_block).
LEMMA FundedStep ==
  ASSUME StoreInv, Funded, [StoreNext]_<<vars, chain, spent, memory>>
  PROVE  Funded'
  <1>0. chain \in Seq(Seq(Tx)) /\ Len(chain) \in Nat /\ Len(chain) >= 1
    BY DEF StoreInv
  <1>1. ASSUME NEW body \in Bodies, Apply(body) PROVE Funded'
    <2> DEFINE n == Len(chain)
    <2>1. chain' = Append(chain, body) /\ body \in Seq(Tx)
      BY <1>1, StoreAssumption DEF Apply
    <2>2. /\ Len(chain') = n + 1 /\ chain'[n + 1] = body
          /\ \A k \in 1..n : chain'[k] = chain[k]
      BY <1>0, <2>1
    <2>3. \A i \in 1..Len(body) : TotalIn(body[i]) >= TotalOut(body[i]) /\ InputRefs(body[i]) # {}
      <3>1. DOMAIN body = 1..Len(body)
        BY <2>1
      <3> QED BY <1>1, <3>1, StoreAssumption DEF Apply, BodyValid, ValidateTransaction
    <2>4. ASSUME NEW k \in 2..Len(chain'), NEW i \in 1..Len(chain'[k])
          PROVE  TotalIn(chain'[k][i]) >= TotalOut(chain'[k][i]) /\ InputRefs(chain'[k][i]) # {}
      <3>1. CASE k = n + 1
        BY <2>2, <2>3, <3>1
      <3>2. CASE k # n + 1
        <4>1. k \in 1..n /\ k \in 2..n
          BY <1>0, <2>2, <3>2
        <4>2. chain'[k] = chain[k]
          BY <2>2, <4>1
        <4> QED BY <4>1, <4>2 DEF Funded
      <3> QED BY <3>1, <3>2
    <2>5. chain'[1] = GenesisTxs
      <3>1. 1 \in 1..n
        BY <1>0
      <3> QED BY <2>2, <3>1 DEF Funded
    <2> QED BY <2>4, <2>5 DEF Funded
  <1>2. CASE Rollback
    <2> DEFINE n == Len(chain)
    <2>1. /\ n > 1 /\ Len(chain') = n - 1 /\ \A k \in 1..(n - 1) : chain'[k] = chain[k]
      BY <1>0, <1>2 DEF Rollback, Front
    <2>2. ASSUME NEW k \in 2..Len(chain'), NEW i \in 1..Len(chain'[k])
          PROVE  TotalIn(chain'[k][i]) >= TotalOut(chain'[k][i]) /\ InputRefs(chain'[k][i]) # {}
      <3>1. k \in 1..(n - 1) /\ k \in 2..n
        BY <1>0, <2>1
      <3>2. chain'[k] = chain[k]
        BY <2>1, <3>1
      <3> QED BY <3>1, <3>2 DEF Funded
    <2>3. chain'[1] = GenesisTxs
      <3>1. 1 \in 1..(n - 1)
        BY <1>0, <2>1
      <3> QED BY <2>1, <3>1 DEF Funded
    <2> QED BY <2>2, <2>3 DEF Funded
  <1>3. CASE PoolStep \/ UNCHANGED <<vars, chain, spent, memory>>
    <2>1. UNCHANGED chain
      BY <1>3 DEF PoolStep
    <2> QED BY <2>1 DEF Funded
  <1> QED BY <1>1, <1>2, <1>3 DEF StoreNext

\* What is put on a genesis allocation is worth no more than value comes from.
LEMMA ChainConserves ==
  ASSUME StoreInv, Funded
  PROVE  /\ utxo \in SUBSET TxOutRef
         /\ Worth(utxo) <= Worth(Sources(ToSet(GenesisTxs), Known(chain, Len(chain))))
         /\ Known(chain, Len(chain)) \in SUBSET Tx /\ ToSet(GenesisTxs) \subseteq Known(chain, Len(chain))
  <1> DEFINE n == Len(chain)
             genesis == ToSet(GenesisTxs)
  <1>0. n \in Nat /\ n >= 1 /\ chain \in Seq(Seq(Tx))
    BY DEF StoreInv
  <1>1. PICK after : Supports(after, chain) /\ Sled = after[n]
    BY DEF StoreInv
  <1> DEFINE P == {k \in 0..(n - 1) :
                     /\ Known(chain, k + 1) \in SUBSET Tx /\ genesis \subseteq Known(chain, k + 1)
                     /\ Worth(after[k + 1].utxo) <= Worth(Sources(genesis, Known(chain, k + 1)))}
  <1>2. after \in [0..n -> Stores] /\ after[0] = Empty
    BY <1>1 DEF Supports, Replays
  <1>3. ASSUME NEW k \in 1..n
        PROVE  /\ after[k] \in Stores /\ after[k - 1] \in Stores /\ k - 1 \in Nat /\ chain[k] \in Seq(Tx)
               /\ after[k] = ApplyBlock(k - 1, chain[k], after[k - 1])
               /\ BlockFresh(k - 1, after[k - 1], chain[k])
               /\ Sound(after[k], Known(chain, k), k)
    <2>1. k \in 0..n /\ k - 1 \in 0..n /\ k - 1 \in Nat
      BY <1>0
    <2>2. after[k] \in Stores /\ after[k - 1] \in Stores
      BY <1>2, <2>1
    <2>3. chain[k] \in Seq(Tx)
      BY <1>0
    <2>4. k \in 1..Len(chain)
      OBVIOUS
    <2>5. after[k] = ApplyBlock(k - 1, chain[k], after[k - 1])
      BY <1>1, <2>4 DEF Supports, Replays
    <2>6. BlockFresh(k - 1, after[k - 1], chain[k]) /\ Sound(after[k], Known(chain, k), k)
      BY <1>1, <2>4 DEF Supports
    <2> QED BY <2>1, <2>2, <2>3, <2>5, <2>6
  <1>4. 0 \in P
    <2>1. 1 \in 1..n /\ 1 - 1 = 0 /\ 0 \in 0..(n - 1) /\ 0 + 1 = 1
      BY <1>0
    <2>2. /\ after[1] = ApplyBlock(0, GenesisTxs, Empty) /\ BlockFresh(0, Empty, GenesisTxs)
          /\ GenesisTxs \in Seq(Tx) /\ after[1] \in Stores
      BY <1>2, <1>3, <2>1 DEF Funded
    <2>3. /\ after[1].utxo = Sources(genesis, Body(GenesisTxs))
          /\ genesis = Body(GenesisTxs) /\ Body(GenesisTxs) \in SUBSET Tx
      BY <2>2, GenesisSources
    <2>4. Known(chain, 1) = Body(GenesisTxs)
      <3>1. 1..1 = {1}
        OBVIOUS
      <3>2. Known(chain, 1) = Body(chain[1])
        BY <3>1 DEF Known
      <3> QED BY <3>2 DEF Funded
    <2>5. Worth(after[1].utxo) \in Nat
      <3>1. after[1].utxo \in SUBSET TxOutRef
        BY <2>2 DEF Stores
      <3> QED BY <3>1, WorthApart
    <2>6. Worth(after[1].utxo) <= Worth(Sources(genesis, Known(chain, 1)))
      <3>1. Worth(Sources(genesis, Known(chain, 1))) = Worth(after[1].utxo)
        BY <2>3, <2>4
      <3> HIDE DEF genesis
      <3> QED BY <2>5, <3>1
    <2> HIDE DEF genesis
    <2> QED BY <2>1, <2>3, <2>4, <2>6
  <1>5. ASSUME NEW k \in 1..(n - 1), k - 1 \in P PROVE k \in P
    <2>1. k + 1 \in 1..n /\ k + 1 \in 2..n /\ k \in 1..n /\ k \in 0..(n - 1)
          /\ (k + 1) - 1 = k /\ (k - 1) + 1 = k
      BY <1>0
    <2>2. /\ after[k] \in Stores /\ k \in Nat /\ chain[k + 1] \in Seq(Tx)
          /\ after[k + 1] = ApplyBlock(k, chain[k + 1], after[k])
          /\ BlockFresh(k, after[k], chain[k + 1])
          /\ Sound(after[k], Known(chain, k), k)
      BY <1>3, <2>1
    <2>3. \A i \in 1..Len(chain[k + 1]) : /\ TotalIn(chain[k + 1][i]) >= TotalOut(chain[k + 1][i])
                                          /\ InputRefs(chain[k + 1][i]) # {}
      BY <2>1 DEF Funded
    <2>4. Body(chain[k + 1]) \cap Known(chain, k) = {}
      <3>1. ASSUME NEW i \in 1..Len(chain[k + 1]), chain[k + 1][i] \in Known(chain, k) PROVE FALSE
        <4>1. InputRefs(chain[k + 1][i]) \subseteq after[k].utxo
          BY <2>2 DEF BlockFresh, Fresh
        <4>2. \A r \in InputRefs(chain[k + 1][i]) : r \notin after[k].utxo
          BY <2>2, <3>1 DEF Sound
        <4> QED BY <2>3, <4>1, <4>2
      <3> QED BY <3>1 DEF Body
    <2>5. /\ Known(chain, k) \in SUBSET Tx /\ genesis \subseteq Known(chain, k)
          /\ Worth(after[k].utxo) <= Worth(Sources(genesis, Known(chain, k)))
      BY <1>5, <2>1
    <2>6. Known(chain, k + 1) = Known(chain, k) \cup Body(chain[k + 1])
      BY <2>2, KnownStep
    <2>7. Worth(after[k + 1].utxo) <= Worth(Sources(genesis, Known(chain, k) \cup Body(chain[k + 1])))
      <3> HIDE DEF genesis
      <3> QED BY <2>2, <2>3, <2>4, <2>5, BlockWithinSources
    <2>8. Body(chain[k + 1]) \in SUBSET Tx
      BY <2>2 DEF Body
    <2> HIDE DEF genesis
    <2> QED BY <2>1, <2>5, <2>6, <2>7, <2>8
  <1>6. n - 1 \in P
    <2>1. n - 1 \in Nat /\ n - 1 \in 0..(n - 1)
      BY <1>0
    <2>2. \A k \in 0..(n - 1) : k \in P
      <3> HIDE DEF P, n
      <3> QED BY <1>4, <1>5, <2>1, Induction
    <2> HIDE DEF P
    <2> QED BY <2>1, <2>2
  <1>7. utxo = after[n].utxo /\ after[n].utxo \in SUBSET TxOutRef
    <2>1. Sled.utxo = utxo
      BY DEF Sled
    <2>2. after[n] \in Stores
      BY <1>0, <1>2
    <2> QED BY <1>1, <2>1, <2>2 DEF Stores
  <1>8. (n - 1) + 1 = n
    BY <1>0
  <1> QED BY <1>6, <1>7, <1>8

\* However often blocks are applied and rolled back, the balances never add up
\* to more than the genesis allocation and the outputs of those transactions on
\* the chain that wrap or list an input twice (validate_transaction,
\* apply_block, balance).
THEOREM StoreNoInflation == StoreSpec => []NoInflation
  <1>1. StoreInit => Funded
    <2> SUFFICES ASSUME StoreInit PROVE Funded
      OBVIOUS
    <2>1. chain = <<GenesisTxs>>
      BY DEF StoreInit
    <2>2. Len(chain) = 1 /\ chain[1] = GenesisTxs /\ 2..1 = {}
      BY <2>1
    <2> QED BY <2>2 DEF Funded
  <1>2. StoreInv /\ Funded /\ [StoreNext]_<<vars, chain, spent, memory>> => Funded'
    BY FundedStep
  <1>3. StoreInv /\ Funded => NoInflation
    <2> SUFFICES ASSUME StoreInv, Funded PROVE NoInflation
      OBVIOUS
    <2> DEFINE known == Known(chain, Len(chain))
               sources == Sources(ToSet(GenesisTxs), known)
               balances == MapThenSumSet(LAMBDA a : Balance(a, utxo), Accounts)
    <2>1. /\ utxo \in SUBSET TxOutRef /\ Worth(utxo) <= Worth(sources)
          /\ known \in SUBSET Tx /\ ToSet(GenesisTxs) \subseteq known
      BY ChainConserves
    <2>2. balances \in Nat /\ balances <= Worth(utxo)
      BY <2>1, StoreAssumption, BalancesAddUp
    <2>3. sources \in SUBSET TxOutRef
      <3>1. \A t \in Tx : OutputRefs(t) \subseteq TxOutRef
        BY DEF OutputRefs, TxOutRef
      <3> HIDE DEF known
      <3> QED BY <2>1, <3>1 DEF Sources
    <2>4. Worth(utxo) \in Nat /\ Worth(sources) \in Nat
      <3> HIDE DEF sources
      <3> QED BY <2>1, <2>3, WorthApart
    <2>5. known = UNION {ToSet(chain[k]) : k \in DOMAIN chain}
      <3>1. chain \in Seq(Seq(Tx)) /\ DOMAIN chain = 1..Len(chain)
        BY DEF StoreInv
      <3>2. \A k \in 1..Len(chain) : Body(chain[k]) = ToSet(chain[k])
        BY <3>1 DEF Body, ToSet
      <3> QED BY <3>1, <3>2 DEF Known
    <2>6. balances <= Worth(sources)
      <3> HIDE DEF balances, sources
      <3> QED BY <2>1, <2>2, <2>4
    <2> HIDE DEF known
    <2> QED BY <2>5, <2>6 DEF NoInflation
  <1> QED BY <1>1, <1>2, <1>3, StoreSafety, PTL DEF StoreSpec
=============================================================================
