-------------------------------- MODULE Split -------------------------------
(***************************************************************************)
(* The client's split_utxo (bcc-client/src/split.rs): cut one coin of a    *)
(* wallet into target_count coins, round by round.  A round submits one    *)
(* transfer per coin to be halved, all in parallel, and waits until node 1 *)
(* shows them before the next one.                                         *)
(*                                                                         *)
(* A transfer is its own hash: a coin names the transfer that made it, as  *)
(* it does by its hash in the code.  The nodes agree on one growing chain  *)
(* (no reorganisations) and each has applied a prefix of it.  They may     *)
(* refuse a transfer, lose the answer, drop it from their pools, and       *)
(* include pooled transfers in any order and at any time.                  *)
(***************************************************************************)
EXTENDS Integers, Sequences, SequencesExt, FiniteSetsExt

CONSTANTS NodeCount, Amounts   \* how many nodes; the values of the first coin

ASSUME SplitAssumption == NodeCount \in Nat \ {0} /\ Amounts \subseteq Nat

VARIABLES
    input_utxo, target_count,   \* the arguments
    current, next,              \* coins of this round and of the next
    built,                      \* the transfers this round submits
    posted, refused,            \* the answers to the POST requests so far
    pc,
    pending,                    \* the nodes: accepted transfers, not included
    log,                        \* the nodes: the transfers of the chain
    at                          \* the nodes: how much of it each has applied

args    == <<input_utxo, target_count>>
locals  == <<current, next, built, posted, refused, pc>>
network == <<pending, log, at>>

Nodes  == 1..NodeCount
Funder == 0                    \* the address of the wallet; others are its recipients

Sum(coins) == MapThenSumSet(LAMBDA c : c.amount, coins)

\* The members of a list that are in a set, in their order.
Sift(list, set) ==
    LET sifted[i \in 0..Len(list)] ==
            IF i = 0 THEN <<>>
            ELSE IF list[i] \in set THEN Append(sifted[i - 1], list[i])
            ELSE sifted[i - 1]
    IN  sifted[Len(list)]

\* build_transfer: what the inputs are worth beyond the amount comes back.
BuildTransfer(coins, to, amount) ==
    [inputs |-> coins, to |-> to, amount |-> amount, signed |-> TRUE,
     change |-> IF Sum(coins) > amount THEN Sum(coins) - amount ELSE 0]

Coin(tx, index, amount) == [tx |-> tx, index |-> index, amount |-> amount]

\* The coins a transfer creates: its amount, and the change if there is any.
Outputs(tx) ==
    {Coin(tx, 0, tx.amount)} \cup IF tx.change > 0 THEN {Coin(tx, 1, tx.change)} ELSE {}

Owner(coin) == IF coin.index = 0 THEN coin.tx.to ELSE Funder

-----------------------------------------------------------------------------
(* The nodes.                                                              *)

\* The coins after the first k transfers of the chain.
Unspent(k) ==
    LET txs == {log[i] : i \in 1..k}
    IN  (UNION {Outputs(tx) : tx \in txs}) \ (UNION {tx.inputs : tx \in txs})

\* GET /utxos and GET /balance of an address at a node.
Utxos(n, address)   == {c \in Unspent(at[n]) : Owner(c) = address}
Balance(n, address) == Sum(Utxos(n, address))

\* What a node accepts: signed, spending coins it has, and no more than them.
Valid(n, tx) ==
    /\ tx.signed
    /\ tx.inputs \subseteq Unspent(at[n])
    /\ Sum(tx.inputs) >= tx.amount + tx.change

\* POST /tx.  A full pool, an input in flight at that node or a lost request
\* refuse a valid transfer too, and the answer to an accepted one may be lost.
Submit(n, tx, ok) ==
    \/ Valid(n, tx) /\ pending' = pending \cup {tx}
    \/ ~ok /\ pending' = pending

\* A block the nodes agree on includes a pooled transfer: its inputs are unspent.
Include(tx) ==
    /\ tx \in pending /\ tx.inputs \subseteq Unspent(Len(log))
    /\ pending' = pending \ {tx}
    /\ log' = Append(log, tx)
    /\ UNCHANGED <<args, locals, at>>

\* A pooled transfer is evicted, lost in a restart, or its input is spent.
Evict(tx) ==
    /\ tx \in pending
    /\ pending' = pending \ {tx}
    /\ UNCHANGED <<args, locals, log, at>>

\* A node applies the next block.
Apply(n) ==
    /\ at[n] < Len(log)
    /\ at' = [at EXCEPT ![n] = @ + 1]
    /\ UNCHANGED <<args, locals, pending, log>>

Network == (\E tx \in pending : Include(tx) \/ Evict(tx)) \/ \E n \in Nodes : Apply(n)

NetworkInit ==
    /\ \E a \in Amounts : log = <<BuildTransfer({}, Funder, a)>>   \* genesis
    /\ at = [n \in Nodes |-> 1] /\ pending = {}

-----------------------------------------------------------------------------
(* The client.                                                             *)

\* The call: below a target of 2 nothing is split.
Call(coin, target) ==
    /\ input_utxo' = coin /\ target_count' = target
    /\ current' = <<coin>> /\ next' = <<>> /\ built' = <<>>
    /\ posted' = {} /\ refused' = {}
    /\ pc' = "round"

\* No call under way, and the return from one: its variables are gone.
NoCoin == Coin(BuildTransfer({}, Funder, 0), 0, 0)

NoCall ==
    /\ input_utxo = NoCoin /\ target_count = 0
    /\ current = <<>> /\ next = <<>> /\ built = <<>>
    /\ posted = {} /\ refused = {} /\ pc = "idle"

Return ==
    /\ input_utxo' = NoCoin /\ target_count' = 0
    /\ current' = <<>> /\ next' = <<>> /\ built' = <<>>
    /\ posted' = {} /\ refused' = {} /\ pc' = "idle"

\* Half of a coin to its owner, and the two outputs the client expects of it.
Halve(coin) == BuildTransfer({coin}, Funder, coin.amount \div 2)
Expected(tx) ==
    LET coin == CHOOSE c \in tx.inputs : TRUE
        half == coin.amount \div 2
    IN  <<Coin(tx, 0, half), Coin(tx, 1, coin.amount - half)>>

\* Mutant: every coin is split in every round.
ToSplitAll == Len(current)

\* How many coins to split this round: just enough.
ToSplit == Min({target_count - Len(current), Len(current)})

\* Enough coins: return them.
Finish ==
    /\ pc = "round" /\ Len(current) >= target_count
    /\ pc' = "done"
    /\ UNCHANGED <<args, current, next, built, posted, refused, network>>

\* Begin a round: coins of less than 2 are passed on unsplit, and if that is
\* all there is to split, the coins are returned as they are.
Build ==
    LET splitting == SubSeq(current, 1, ToSplit)
        keeping   == SubSeq(current, ToSplit + 1, Len(current))
        dust      == {coin \in Range(splitting) : coin.amount < 2}
        large     == Sift(splitting, Range(splitting) \ dust)
    IN  /\ pc = "round" /\ Len(current) < target_count
        /\ built' = [i \in DOMAIN large |-> Halve(large[i])]
        /\ next' = keeping \o Sift(splitting, dust)
        /\ pc' = IF built' = <<>> THEN "done" ELSE "post"
        /\ posted' = {} /\ refused' = {}
        /\ UNCHANGED <<args, current, network>>

\* The answers come in any order.
Post(i) ==
    /\ pc = "post" /\ i \in DOMAIN built \ posted
    /\ posted' = posted \cup {i}
    /\ \E ok \in BOOLEAN :
          /\ Submit(1, built[i], ok)
          /\ refused' = IF ok THEN refused ELSE refused \cup {i}
    /\ UNCHANGED <<args, current, next, built, pc, log, at>>

\* Mutant: an output is forgotten.
CollectOneOutput ==
    /\ pc = "post" /\ posted = DOMAIN built
    /\ pc' = IF refused = {} THEN "wait" ELSE "failed"
    /\ next' = next \o [i \in DOMAIN built |-> Expected(built[i])[2]]
    /\ UNCHANGED <<args, current, built, posted, refused, network>>

\* All answers are in: give up on the first error, else expect the outputs.
Collect ==
    /\ pc = "post" /\ posted = DOMAIN built
    /\ pc' = IF refused = {} THEN "wait" ELSE "failed"
    /\ next' = next \o FlattenSeq([i \in DOMAIN built |-> Expected(built[i])])
    /\ UNCHANGED <<args, current, built, posted, refused, network>>

\* Mutant: one transfer that shows is taken for all of them.
VisibleAny == \E i \in DOMAIN built : \E u \in Utxos(1, Funder) : u.tx = built[i]

\* A poll of the wallet's coins shows an output of every transfer.
Visible == \A i \in DOMAIN built : \E u \in Utxos(1, Funder) : u.tx = built[i]

Poll ==
    /\ pc = "wait" /\ Visible
    /\ current' = next
    /\ pc' = "round"
    /\ UNCHANGED <<args, next, built, posted, refused, network>>

\* Mutant: no deadline.
TimeoutNever == FALSE /\ UNCHANGED <<args, locals, network>>

\* A poll that is answered after CONFIRM_TIMEOUT_SECS does not show them all; a
\* poll that fails counts as an empty answer, so the coins may be there.
Timeout ==
    /\ pc = "wait"
    /\ pc' = "failed"
    /\ UNCHANGED <<args, current, next, built, posted, refused, network>>

Client == Finish \/ Build \/ (\E i \in DOMAIN built : Post(i)) \/ Collect \/ Poll \/ Timeout

-----------------------------------------------------------------------------
\* A split that succeeds returns coins that node 1 holds, each once, and
\* together worth what went in: the client's picture of its outputs, computed
\* before anything was confirmed, is what the chain holds, whatever earlier
\* calls left behind.  (A coin returned unsplit may be taken by a transfer that
\* an earlier call left behind.)  (split_utxo, build_transfer)
ReturnedIsWallet ==
    pc = "done" /\ current # <<input_utxo>> =>
                   /\ Range(current) \subseteq Utxos(1, Funder)
                   /\ Len(current) = Cardinality(Range(current))
                   /\ Sum(Range(current)) = input_utxo.amount

\* No transfer is built on a coin that is not there: from the second round on,
\* the coins not submitted yet are unspent and not in flight.  The first coin
\* may be taken by a transfer that an earlier call left behind (split_utxo).
BuiltOnUnspent ==
    pc = "post" /\ Len(current) > 1 =>
        \A i \in DOMAIN built \ posted :
            Valid(1, built[i]) /\ \A tx \in pending : tx.inputs \cap built[i].inputs = {}

\* A split that succeeds never has more coins than asked for, so the final take
\* drops none (split_utxo).
NeverTooMany == pc = "done" /\ target_count > 0 => Len(current) <= target_count

\* A split that succeeds has exactly target_count coins if halving reaches that
\* many: the first coin is worth at least the next power of two to the target.
\* The comment of split_utxo promises them, or an error, for every coin; a smaller
\* one may end with fewer and no error, its dust passed on as it is (split_utxo).
ExactCount ==
    /\ pc = "done" /\ target_count >= 1
    /\ \E k \in 0..target_count : target_count <= 2^k /\ 2^k <= input_utxo.amount
    => Len(current) = target_count
=============================================================================
