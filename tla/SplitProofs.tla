----------------------------- MODULE SplitProofs ----------------------------
(***************************************************************************)
(* The client's split and the scenarios, for any number of nodes, any      *)
(* first coin, any targets and any number of runs, with nodes that refuse, *)
(* lose, delay and reorder whatever they like.                             *)
(*                                                                         *)
(* The client computes the coins of the next round from transfers it has   *)
(* only submitted.  That they are there, and nobody else's, rests on two   *)
(* facts: every transfer ever built spends coins of the funder that node 1 *)
(* had applied when it was built, and nobody has spent from the transfers  *)
(* of the round under way, because node 1 had not applied them when the    *)
(* coins they spend were read.                                             *)
(***************************************************************************)
EXTENDS Scenario, SumProofs, SequenceTheorems


Coins(S) == IsFiniteSet(S) /\ \A c \in S : c.amount \in Nat

\* The first k transfers of the chain, and all that nodes have or had.
Applied(k) == {log[i] : i \in 1..k}
Sent       == pending \cup Applied(Len(log))
Made       == Sent \cup Range(built) \cup Range(txs)

Listed(s) == s \in Seq(Range(s))
Apart(s)  == \A i, j \in DOMAIN s : s[i] = s[j] => i = j

NetTyped == Listed(log) /\ Len(log) >= 1 /\ at \in [Nodes -> 1..Len(log)]

\* A transfer spends coins of the funder that node 1 has applied, and leaves
\* nothing of them behind.
Founded(tx) ==
    /\ tx.amount \in Nat /\ tx.change \in Nat /\ Coins(tx.inputs)
    /\ tx.signed => tx.amount + tx.change >= Sum(tx.inputs)
    /\ \A c \in tx.inputs : c.tx \in Applied(at[1]) /\ Owner(c) = Funder

-----------------------------------------------------------------------------
(* The split.                                                              *)

Splitting == step = "split" /\ pc \in {"round", "post", "wait", "done"}

\* Node 1 has had the coin, and it is the wallet's.
Mine(c) == c \in Outputs(c.tx) /\ c.tx \in Applied(at[1]) /\ Owner(c) = Funder

\* Nobody spends from the transfer that halves the coin.
Unclaimed(c) == \A t \in Sent : \A d \in t.inputs : d.tx # Halve(c)

\* From the second round on, nobody but this round spends the coin.
Free(c) ==
    \A t \in Sent : c \in t.inputs =>
        pc \in {"post", "wait"} /\ \E i \in posted : t = built[i]

CoinsHeld ==
    /\ Listed(current) /\ Apart(current) /\ Len(current) >= 1
    /\ Len(current) = 1 => current = <<input_utxo>>
    /\ \A c \in Range(current) : Mine(c) /\ Unclaimed(c)
    /\ \A c, d \in Range(current) : c.tx # Halve(d)
    /\ Len(current) > 1 => \A c \in Range(current) : Free(c)
    /\ Sum(Range(current)) = input_utxo.amount

\* The coins a round cuts, and those it keeps.
Cut  == {c \in Range(current) : Halve(c) \in Range(built)}
Kept == Range(current) \ Cut
New  == UNION {Outputs(built[i]) : i \in DOMAIN built}

RoundBuilt ==
    /\ Listed(built) /\ Apart(built) /\ Len(built) >= 1 /\ posted \subseteq DOMAIN built
    /\ \A i \in DOMAIN built : \E c \in Range(current) : built[i] = Halve(c) /\ c.amount >= 2
    /\ Listed(next) /\ Apart(next)

PostBuilt ==
    RoundBuilt /\ Range(next) = Kept /\ Len(next) + 2 * Len(built) <= target_count

WaitBuilt ==
    /\ RoundBuilt /\ Range(next) = Kept \cup New /\ Len(next) <= target_count /\ Len(next) >= 2
    /\ Sum(Range(next)) = input_utxo.amount

InSplit ==
    /\ CoinsHeld /\ target_count \in Nat
    /\ target_count > 0 => Len(current) <= target_count
    /\ pc = "post" => PostBuilt
    /\ pc = "wait" => WaitBuilt
    /\ pc = "done" /\ Len(current) < target_count => \A i \in 1..ToSplit : current[i].amount < 2

SplitInv ==
    /\ step # "split" => pc = "idle" /\ built = <<>>
    /\ step = "split" => pc \in {"round", "post", "wait", "done", "failed"}
    /\ Splitting => InSplit

-----------------------------------------------------------------------------
(* The transfers.                                                          *)

\* Nothing is spent twice, and nothing but genesis creates value.
Balanced(tx) == tx.inputs # {} /\ Sum(tx.inputs) = tx.amount + tx.change

Chained ==
    /\ log[1].inputs = {}
    /\ \A i \in 2..Len(log) : Balanced(log[i]) /\ log[i].inputs \subseteq Unspent(i - 1)

Grounded == NetTyped /\ \A tx \in Made : Founded(tx)

TransfersInv == Grounded /\ Chained /\ \A tx \in pending : Balanced(tx)

-----------------------------------------------------------------------------
(* The scenarios.                                                          *)

Steps == {"snapshot", "fetch", "split", "post", "blocks", "confirm", "conserve", "recipients"} \cup Ended

\* Transfers a run can submit, and if it awaits them, can tell by recipient.
Ready(list) ==
    /\ Listed(list)
    /\ \A t \in Range(list) : Founded(t) /\ t.inputs # {}
    /\ script.waits =>
          /\ \A t \in Range(list) : \E i \in DOMAIN script.pays :
                t.to = script.pays[i].to /\ t.amount = script.pays[i].amount
          /\ \A t, r \in Range(list) : t.to = r.to => t = r

\* Only this run pays its recipients.
OwnRecipients ==
    script.waits /\ fresh =>
        \A t \in Sent : \A i \in DOMAIN script.pays :
            t.to = script.pays[i].to => t \in Range(txs)

Arrived ==
    step \in {"conserve", "recipients", "pass", "alarm"} /\ script.waits /\ fresh =>
        \A i \in Checked : \A n \in Nodes : Coin(txs[i], 0, txs[i].amount) \in Unspent(at[n])

RunInv ==
    /\ script \in Scripts \cup {Plain} /\ step \in Steps
    /\ step \in {"snapshot", "conserve", "recipients", "alarm"} => script.sums
    /\ step \in {"snapshot", "fetch", "split"} => txs = <<>>
    /\ answered \subseteq DOMAIN txs /\ accepted \subseteq DOMAIN txs
    /\ Ready(txs) /\ OwnRecipients /\ Arrived

-----------------------------------------------------------------------------
(* The sums of balance_conservation.                                       *)

\* The coins of the funder and of the two recipients of balance_conservation,
\* after the first k transfers.
Ours    == {Funder, 6, 7}
Held(k) == {c \in Unspent(k) : Owner(c) \in Ours}

Quiet == pending = {} /\ \A n \in Nodes : at[n] = Len(log)

\* Whatever is included does not change what they have together.
Steady == \A n \in Nodes : \A k \in at[n]..Len(log) : Sum(Held(k)) = initial_total

Paying == {"post", "blocks", "confirm", "conserve", "recipients"}

AllPaid == \A i \in DOMAIN script.pays : \E t \in Range(txs) : t.to = script.pays[i].to

SumsHold ==
    /\ step = "snapshot" => Quiet
    /\ \A t \in pending : t.to \in Ours
    /\ step \notin {"snapshot", "fail"} => Steady
    /\ step \in Paying => AllPaid
    /\ step = "recipients" => funder_bal + 3 = initial_total /\ ni \in Nodes
    /\ ni \in Nat \ {0} /\ violations = {} /\ step # "alarm"

SumsInv == script.sums /\ fresh /\ settled => SumsHold

ScenarioInv == TransfersInv /\ SplitInv /\ RunInv /\ SumsInv
-----------------------------------------------------------------------------
(* What coins are worth.                                                   *)

\* A subset of coins is coins.
LEMMA CoinsSubset ==
  ASSUME NEW S, Coins(S), NEW A \in SUBSET S
  PROVE  Coins(A)
  BY FS_Subset DEF Coins

\* And so are two sets of coins together.
LEMMA CoinsUnion ==
  ASSUME NEW S, Coins(S), NEW T, Coins(T)
  PROVE  Coins(S \cup T)
  BY FS_Union DEF Coins

\* A coin and no coin are coins.
LEMMA CoinsOne ==
  ASSUME NEW c, c.amount \in Nat
  PROVE  Coins({c}) /\ Coins({})
  BY FS_Singleton, FS_EmptySet DEF Coins

\* Sum is the sum of the amounts of the set it is given.
LEMMA SumSelf ==
  ASSUME NEW S, Coins(S)
  PROVE  \E g : Sums(g, S, [c \in S |-> c.amount]) /\ Sum(S) = g[S]
  <1> DEFINE w == [c \in S |-> c.amount]
             Def(g) == g = [s \in SUBSET S |-> IF s = {} THEN 0
                              ELSE (CHOOSE x \in s : TRUE).amount + g[s \ {CHOOSE x \in s : TRUE}]]
             f == CHOOSE g : Def(g)
  <1>1. Sum(S) = f[S]
    BY DEF Sum, MapThenSumSet, MapThenFoldSet
  <1>2. \A x \in S : w[x] = x.amount
    OBVIOUS
  <1>3. w \in [S -> Nat] /\ IsFiniteSet(S)
    BY DEF Coins
  <1> HIDE DEF w
  <1>4. \A g : Def(g) <=> FoldsSet(g, S, w)
    <2> TAKE g
    <2>1. ASSUME NEW s \in SUBSET S, s # {}
          PROVE  w[CHOOSE x \in s : TRUE] = (CHOOSE x \in s : TRUE).amount
      BY <1>2, <2>1
    <2> QED BY <2>1 DEF FoldsSet
  <1> HIDE DEF Def
  <1>5. Def(f)
    BY <1>3, <1>4, SetSums
  <1> HIDE DEF f
  <1>6. Sums(f, S, w)
    BY <1>3, <1>4, <1>5, SetSums
  <1> QED BY <1>1, <1>6 DEF w

\* ... and of all its subsets.
LEMMA SumParts ==
  ASSUME NEW S, Coins(S)
  PROVE  \E g : Sums(g, S, [c \in S |-> c.amount]) /\ \A A \in SUBSET S : Sum(A) = g[A]
  <1> DEFINE v == [c \in S |-> c.amount]
  <1>1. PICK g : Sums(g, S, v)
    BY SumSelf
  <1>2. ASSUME NEW A \in SUBSET S PROVE Sum(A) = g[A]
    <2> DEFINE w == [c \in A |-> c.amount]
               id == [c \in A |-> c]
    <2>1. PICK h : Sums(h, A, w) /\ Sum(A) = h[A]
      BY CoinsSubset, SumSelf
    <2>2. IsFiniteSet(A)
      BY CoinsSubset DEF Coins
    <2>3. OneToOne(id, A, w, S, v)
      BY DEF OneToOne
    <2>4. Img(id, A) = A
      BY DEF Img
    <2> HIDE DEF id, w, v
    <2>5. \A B \in SUBSET A : h[B] = g[Img(id, B)]
      BY <1>1, <2>1, <2>2, <2>3, SumsMatch
    <2> QED BY <2>1, <2>4, <2>5
  <1> QED BY <1>1, <1>2

\* Sums are numbers.
LEMMA SumType ==
  ASSUME NEW S, Coins(S)
  PROVE  Sum(S) \in Nat
  <1>1. PICK g : Sums(g, S, [c \in S |-> c.amount]) /\ Sum(S) = g[S]
    BY SumSelf
  <1>2. g \in [SUBSET S -> Nat] /\ S \in SUBSET S
    BY <1>1 DEF Sums
  <1> QED BY <1>1, <1>2

\* No coins are worth nothing.
LEMMA SumEmpty == Sum({}) = 0
  <1>1. Coins({})
    BY FS_EmptySet DEF Coins
  <1> QED BY <1>1, SumSelf DEF Sums

\* One coin.
LEMMA SumOne ==
  ASSUME NEW c, c.amount \in Nat
  PROVE  Sum({c}) = c.amount
  <1>1. PICK g : Sums(g, {c}, [d \in {c} |-> d.amount]) /\ Sum({c}) = g[{c}]
    BY CoinsOne, SumSelf
  <1>2. g[{c}] = c.amount + g[{c} \ {c}] /\ g[{}] = 0 /\ {c} \ {c} = {}
    BY <1>1 DEF Sums
  <1> QED BY <1>1, <1>2

\* Coins of two sets apart.
LEMMA SumUnion ==
  ASSUME NEW A, Coins(A), NEW B, Coins(B), A \cap B = {}
  PROVE  Sum(A \cup B) = Sum(A) + Sum(B)
  <1>1. PICK S : S = A \cup B
    OBVIOUS
  <1>2. Coins(S) /\ A \in SUBSET S /\ B \in SUBSET S /\ S \in SUBSET S
    BY <1>1, CoinsUnion
  <1>3. PICK g : Sums(g, S, [c \in S |-> c.amount]) /\ \A T \in SUBSET S : Sum(T) = g[T]
    BY <1>2, SumParts
  <1>4. IsFiniteSet(S) /\ [c \in S |-> c.amount] \in [S -> Nat]
    BY <1>2 DEF Coins
  <1>5. g[A \cup B] = g[A] + g[B]
    BY <1>2, <1>3, <1>4, SumsUnion
  <1> QED BY <1>1, <1>2, <1>3, <1>5

\* Taking coins away.
LEMMA SumMinus ==
  ASSUME NEW S, Coins(S), NEW A \in SUBSET S
  PROVE  Sum(S) = Sum(S \ A) + Sum(A)
  <1>1. PICK B : B = S \ A
    OBVIOUS
  <1>2. Coins(A) /\ Coins(B) /\ B \cap A = {} /\ B \cup A = S
    BY <1>1, CoinsSubset
  <1>3. Sum(B \cup A) = Sum(B) + Sum(A)
    BY <1>2, SumUnion
  <1> QED BY <1>1, <1>2, <1>3
-----------------------------------------------------------------------------
(* Lists.                                                                  *)

\* A list has its places, and its members are those of its places.
LEMMA ListOf ==
  ASSUME NEW s, Listed(s)
  PROVE  /\ Len(s) \in Nat /\ DOMAIN s = 1..Len(s)
         /\ \A i \in 1..Len(s) : s[i] \in Range(s)
         /\ \A x \in Range(s) : \E i \in 1..Len(s) : x = s[i]
  <1>1. PICK R : R = Range(s)
    OBVIOUS
  <1>2. s \in Seq(R)
    BY <1>1 DEF Listed
  <1>3. Len(s) \in Nat /\ DOMAIN s = 1..Len(s)
    BY <1>2
  <1> QED BY <1>3 DEF Range

\* A sequence over any set is a list.
LEMMA SeqListed ==
  ASSUME NEW S, NEW s \in Seq(S)
  PROVE  Listed(s) /\ Range(s) \subseteq S
  <1>1. Len(s) \in Nat /\ DOMAIN s = 1..Len(s) /\ s \in [1..Len(s) -> S]
    OBVIOUS
  <1>2. PICK R : R = Range(s)
    OBVIOUS
  <1>3. \A i \in 1..Len(s) : s[i] \in R
    BY <1>1, <1>2 DEF Range
  <1>4. s \in [1..Len(s) -> R]
    BY <1>1, <1>3
  <1>5. s \in Seq(R)
    BY <1>1, <1>4, SeqDef
  <1> QED BY <1>1, <1>2, <1>5 DEF Listed, Range

\* A function on 1..n is a list.
LEMMA ListMade ==
  ASSUME NEW n \in Nat, NEW s, s = [i \in 1..n |-> s[i]]
  PROVE  Listed(s) /\ Len(s) = n
  <1>1. PICK R : R = {s[i] : i \in 1..n}
    OBVIOUS
  <1>2. s \in [1..n -> R]
    <2>1. \A i \in 1..n : s[i] \in R
      BY <1>1
    <2> QED BY <2>1
  <1>3. s \in Seq(R)
    BY <1>2, SeqDef
  <1>4. DOMAIN s = 1..n
    OBVIOUS
  <1>5. Len(s) = n
    BY <1>3, <1>4
  <1> QED BY <1>3, <1>5, SeqListed

\* Lists one after the other.
LEMMA ListConcat ==
  ASSUME NEW s, Listed(s), NEW t, Listed(t)
  PROVE  /\ Listed(s \o t) /\ Len(s \o t) = Len(s) + Len(t)
         /\ Range(s \o t) = Range(s) \cup Range(t)
         /\ Apart(s) /\ Apart(t) /\ Range(s) \cap Range(t) = {} => Apart(s \o t)
  <1>1. PICK R : R = Range(s) \cup Range(t)
    OBVIOUS
  <1>2. s \in Seq(R) /\ t \in Seq(R)
    <2>1. Range(s) \subseteq R /\ Range(t) \subseteq R
      BY <1>1
    <2> QED BY <2>1, SeqMonotonic DEF Listed
  <1>3. PICK u : u = s \o t
    OBVIOUS
  <1>4. /\ u \in Seq(R) /\ Len(u) = Len(s) + Len(t)
        /\ \A i \in 1..(Len(s) + Len(t)) : u[i] = IF i <= Len(s) THEN s[i] ELSE t[i - Len(s)]
    BY <1>2, <1>3, ConcatProperties
  <1>5. /\ Len(s) \in Nat /\ Len(t) \in Nat /\ DOMAIN s = 1..Len(s) /\ DOMAIN t = 1..Len(t)
        /\ DOMAIN u = 1..(Len(s) + Len(t))
    BY <1>2, <1>4
  <1>6. \A i \in 1..Len(s) : u[i] = s[i] /\ i \in DOMAIN u
    BY <1>4, <1>5
  <1>7. \A i \in 1..Len(t) : u[i + Len(s)] = t[i] /\ i + Len(s) \in DOMAIN u
    <2> TAKE i \in 1..Len(t)
    <2>1. i + Len(s) \in 1..(Len(s) + Len(t)) /\ ~(i + Len(s) <= Len(s)) /\ i + Len(s) - Len(s) = i
      BY <1>5
    <2> QED BY <1>4, <1>5, <2>1
  <1>8. \A j \in DOMAIN u : \/ j \in 1..Len(s) /\ u[j] = s[j]
                            \/ j - Len(s) \in 1..Len(t) /\ u[j] = t[j - Len(s)] /\ ~(j <= Len(s))
    BY <1>4, <1>5
  <1>9. Range(u) = R
    <2>1. ASSUME NEW x \in R PROVE x \in Range(u)
      <3>1. CASE x \in Range(s)
        BY <1>5, <1>6, <3>1 DEF Range
      <3>2. CASE x \in Range(t)
        BY <1>5, <1>7, <3>2 DEF Range
      <3> QED BY <1>1, <3>1, <3>2
    <2>2. ASSUME NEW x \in Range(u) PROVE x \in R
      <3>1. PICK j \in DOMAIN u : x = u[j]
        BY DEF Range
      <3> QED BY <1>1, <1>5, <1>8, <3>1 DEF Range
    <2> QED BY <2>1, <2>2
  <1>10. ASSUME Apart(s), Apart(t), Range(s) \cap Range(t) = {} PROVE Apart(u)
    <2> SUFFICES ASSUME NEW i \in DOMAIN u, NEW j \in DOMAIN u, u[i] = u[j] PROVE i = j
      BY DEF Apart
    <2>1. CASE i \in 1..Len(s) /\ j \in 1..Len(s)
      BY <1>5, <1>6, <1>10, <2>1 DEF Apart
    <2>2. CASE ~(i <= Len(s)) /\ ~(j <= Len(s))
      <3>1. i - Len(s) = j - Len(s)
        <4>1. i - Len(s) \in DOMAIN t /\ j - Len(s) \in DOMAIN t /\ t[i - Len(s)] = t[j - Len(s)]
          BY <1>5, <1>8, <2>2
        <4> QED BY <1>10, <4>1 DEF Apart
      <3> QED BY <1>5, <3>1
    <2>3. CASE i \in 1..Len(s) /\ ~(j <= Len(s))
      <3>1. u[i] \in Range(s) /\ u[j] \in Range(t)
        BY <1>5, <1>8, <2>3 DEF Range
      <3> QED BY <1>10, <3>1
    <2>4. CASE j \in 1..Len(s) /\ ~(i <= Len(s))
      <3>1. u[j] \in Range(s) /\ u[i] \in Range(t)
        BY <1>5, <1>8, <2>4 DEF Range
      <3> QED BY <1>10, <3>1
    <2> QED BY <1>5, <2>1, <2>2, <2>3, <2>4
  <1>11. Listed(u)
    BY <1>4, SeqListed
  <1> QED BY <1>1, <1>3, <1>4, <1>9, <1>10, <1>11

Stretch(s, m, n) == SubSeq(s, m, n)

\* What a stretch of a list is.
Taken(u, s, m, n) ==
    /\ Listed(u) /\ Len(u) = n - m + 1
    /\ \A i \in 1..Len(u) : u[i] = s[m + i - 1]
    /\ \A x : x \in Range(u) <=> \E i \in m..n : x = s[i]
    /\ Apart(s) => Apart(u)

\* A stretch of a list.
LEMMA ListPart ==
  ASSUME NEW s, Listed(s), NEW m \in Nat, NEW n \in Nat, 1 <= m, m <= n + 1, n <= Len(s),
         NEW u, u = Stretch(s, m, n)
  PROVE  Taken(u, s, m, n)
  <1>1. Len(s) \in Nat /\ DOMAIN s = 1..Len(s)
    BY ListOf
  <1>2. /\ u \in Seq(Range(s)) /\ Len(u) = n - m + 1
        /\ \A i \in 1..(n - m + 1) : u[i] = s[m + i - 1]
    <2>1. m \in Int /\ n \in Int /\ \A i \in m..n : s[i] \in Range(s)
      BY <1>1, ListOf
    <2>2. PICK R : R = Range(s)
      OBVIOUS
    <2>3. /\ u \in Seq(R) /\ Len(u) = IF m <= n THEN n - m + 1 ELSE 0
          /\ \A i \in 1..(n - m + 1) : u[i] = s[m + i - 1]
      BY <2>1, <2>2, SubSeqProperties DEF Stretch
    <2>4. ~(m <= n) => n - m + 1 = 0
      BY <1>1
    <2> QED BY <2>2, <2>3, <2>4
  <1>3. Listed(u) /\ DOMAIN u = 1..Len(u)
    BY <1>2, SeqListed, ListOf
  <1>4. Range(u) = {s[i] : i \in m..n}
    <2>1. ASSUME NEW i \in m..n PROVE s[i] \in Range(u)
      <3>1. i - m + 1 \in DOMAIN u /\ m + (i - m + 1) - 1 = i
        BY <1>1, <1>2, <1>3
      <3>2. u[i - m + 1] = s[i]
        BY <1>2, <1>3, <3>1
      <3> QED BY <3>1, <3>2 DEF Range
    <2>2. ASSUME NEW x \in Range(u) PROVE x \in {s[i] : i \in m..n}
      <3>1. PICK j \in DOMAIN u : x = u[j]
        BY DEF Range
      <3>2. j \in 1..(n - m + 1)
        BY <1>2, <1>3
      <3>3. m + j - 1 \in m..n
        BY <3>2
      <3>4. u[j] = s[m + j - 1]
        BY <1>2, <3>2
      <3> QED BY <3>1, <3>3, <3>4
    <2> QED BY <2>1, <2>2
  <1>5. ASSUME Apart(s) PROVE Apart(u)
    <2> SUFFICES ASSUME NEW i \in DOMAIN u, NEW j \in DOMAIN u, u[i] = u[j] PROVE i = j
      BY DEF Apart
    <2>1. m + i - 1 \in DOMAIN s /\ m + j - 1 \in DOMAIN s /\ s[m + i - 1] = s[m + j - 1]
      BY <1>1, <1>2, <1>3
    <2>2. m + i - 1 = m + j - 1
      BY <1>5, <2>1 DEF Apart
    <2> QED BY <1>1, <1>2, <1>3, <2>2
  <1>6. \A x : x \in Range(u) <=> \E i \in m..n : x = s[i]
    BY <1>4
  <1>7. \A i \in 1..Len(u) : u[i] = s[m + i - 1]
    BY <1>2
  <1> QED BY <1>2, <1>3, <1>5, <1>6, <1>7 DEF Taken

\* A list up to its i-th place, sifted.
Sifts(g, s, A) ==
    g = [i \in 0..Len(s) |-> IF i = 0 THEN <<>>
                             ELSE IF s[i] \in A THEN Append(g[i - 1], s[i]) ELSE g[i - 1]]

\* Such a list exists.
LEMMA SiftsExists ==
  ASSUME NEW s, Listed(s), NEW A
  PROVE  \E g : Sifts(g, s, A)
  <1>1. PICK n : n = Len(s)
    OBVIOUS
  <1>2. PICK S : S = Seq(Range(s))
    OBVIOUS
  <1>3. n \in Nat /\ <<>> \in S /\ \A i \in 1..n : \A x \in S : Append(x, s[i]) \in S
    BY <1>1, <1>2, ListOf
  <1> DEFINE take == [i \in 1..n |-> [x \in S |-> IF s[i] \in A THEN Append(x, s[i]) ELSE x]]
  <1>4. take \in [1..n -> [S -> S]]
    <2>1. ASSUME NEW i \in 1..n PROVE [x \in S |-> IF s[i] \in A THEN Append(x, s[i]) ELSE x] \in [S -> S]
      BY <1>3
    <2> QED BY <2>1
  <1>5. \A i \in 1..n : \A x \in S : take[i][x] = IF s[i] \in A THEN Append(x, s[i]) ELSE x
    OBVIOUS
  <1> HIDE DEF take
  <1>6. PICK g : Iterates(g, n, S, <<>>, take)
    BY <1>3, <1>4, Recursion
  <1>7. g \in [0..n -> S] /\ g[0] = <<>> /\ \A i \in 1..n : g[i] = take[i][g[i - 1]]
    BY <1>6 DEF Iterates
  <1>8. ASSUME NEW i \in 1..n
        PROVE  g[i] = IF s[i] \in A THEN Append(g[i - 1], s[i]) ELSE g[i - 1]
    <2>1. i - 1 \in 0..n
      BY <1>3
    <2> QED BY <1>5, <1>7, <2>1
  <1>9. \A i \in 0..n : g[i] = IF i = 0 THEN <<>> ELSE IF s[i] \in A THEN Append(g[i - 1], s[i]) ELSE g[i - 1]
    <2> TAKE i \in 0..n
    <2>1. CASE i = 0
      BY <1>7, <2>1
    <2>2. CASE i # 0
      <3>1. i \in 1..n
        BY <1>3, <2>2
      <3> QED BY <1>8, <2>2, <3>1
    <2> QED BY <2>1, <2>2
  <1>10. g = [i \in 0..n |-> g[i]]
    BY <1>7
  <1> QED BY <1>1, <1>9, <1>10 DEF Sifts

\* Sift keeps the members in the set, each where it was, and all the others
\* are in the list sifted by the rest.
LEMMA SiftOf ==
  ASSUME NEW s, Listed(s), NEW A, NEW u, u = Sift(s, A)
  PROVE  /\ Listed(u) /\ Range(u) = {x \in Range(s) : x \in A}
         /\ Apart(s) => Apart(u)
  <1> DEFINE f == CHOOSE g : Sifts(g, s, A)
  <1>1. u = f[Len(s)]
    BY DEF Sift, Sifts
  <1>2. Sifts(f, s, A)
    BY SiftsExists
  <1> HIDE DEF f
  <1>3. PICK n : n = Len(s)
    OBVIOUS
  <1>4. n \in Nat /\ DOMAIN s = 1..n /\ \A i \in 1..n : s[i] \in Range(s)
    BY <1>3, ListOf
  <1>5. f[0] = <<>> /\ \A i \in 1..n : f[i] = IF s[i] \in A THEN Append(f[i - 1], s[i]) ELSE f[i - 1]
    <2>1. \A i \in 0..n : f[i] = IF i = 0 THEN <<>> ELSE IF s[i] \in A THEN Append(f[i - 1], s[i]) ELSE f[i - 1]
      BY <1>2, <1>3 DEF Sifts
    <2>2. 0 \in 0..n /\ \A i \in 1..n : i \in 0..n /\ i # 0
      BY <1>4
    <2> QED BY <2>1, <2>2
  <1> DEFINE Upto(i) == {s[j] : j \in 1..i}
             Good(i) == /\ f[i] \in Seq(Range(s)) /\ Range(f[i]) = {x \in Upto(i) : x \in A}
                        /\ Apart(s) => Apart(f[i])
             P == {i \in 0..n : Good(i)}
  <1>6. 0 \in P
    <2>1. Range(<<>>) = {} /\ Apart(<<>>) /\ <<>> \in Seq(Range(s))
      BY DEF Range, Apart
    <2>2. {x \in Upto(0) : x \in A} = {}
      OBVIOUS
    <2>3. Good(0)
      <3> HIDE DEF Upto
      <3> QED BY <1>5, <2>1, <2>2
    <2> HIDE DEF Good
    <2> QED BY <1>4, <2>3
  <1>7. ASSUME NEW i \in 1..n, i - 1 \in P PROVE i \in P
    <2>0. Good(i - 1) /\ i \in 0..n /\ s[i] \in Range(s) /\ i - 1 \in Nat
      BY <1>4, <1>7
    <2>1. Upto(i) = Upto(i - 1) \cup {s[i]}
      <3>1. 1..i = 1..(i - 1) \cup {i}
        BY <1>4
      <3> QED BY <3>1
    <2>2. CASE s[i] \notin A
      <3>1. f[i] = f[i - 1]
        BY <1>5, <2>2
      <3>2. {x \in Upto(i) : x \in A} = {x \in Upto(i - 1) : x \in A}
        BY <2>1, <2>2
      <3> HIDE DEF Upto
      <3> QED BY <2>0, <3>1, <3>2
    <2>3. CASE s[i] \in A
      <3>1. PICK t : t = f[i - 1]
        OBVIOUS
      <3>2. t \in Seq(Range(s)) /\ Range(t) = {x \in Upto(i - 1) : x \in A} /\ (Apart(s) => Apart(t))
        BY <2>0, <3>1
      <3>3. f[i] = Append(t, s[i])
        BY <1>5, <2>3, <3>1
      <3>4. PICK v : v = Append(t, s[i])
        OBVIOUS
      <3>5. /\ v \in Seq(Range(s)) /\ Len(v) = Len(t) + 1 /\ v[Len(t) + 1] = s[i]
            /\ \A j \in 1..Len(t) : v[j] = t[j]
            /\ Len(t) \in Nat /\ DOMAIN t = 1..Len(t) /\ DOMAIN v = 1..(Len(t) + 1)
        BY <2>0, <3>2, <3>4
      <3>6. Range(v) = Range(t) \cup {s[i]}
        <4>1. DOMAIN v = DOMAIN t \cup {Len(t) + 1}
          BY <3>5
        <4> QED BY <3>5, <4>1 DEF Range
      <3>7. Range(v) = {x \in Upto(i) : x \in A}
        <4> HIDE DEF Upto
        <4> QED BY <2>1, <2>3, <3>2, <3>6
      <3>8. ASSUME Apart(s) PROVE Apart(v)
        <4>1. s[i] \notin Range(t)
          <5>1. ASSUME NEW j \in 1..(i - 1) PROVE s[j] # s[i]
            <6>1. j \in DOMAIN s /\ i \in DOMAIN s /\ j # i
              BY <1>4
            <6> QED BY <3>8, <6>1 DEF Apart
          <5> QED BY <3>2, <5>1
        <4> SUFFICES ASSUME NEW j \in DOMAIN v, NEW k \in DOMAIN v, v[j] = v[k] PROVE j = k
          BY DEF Apart
        <4>2. \A j1 \in 1..Len(t) : v[j1] \in Range(t)
          BY <3>5 DEF Range
        <4>3. (j \in 1..Len(t) \/ j = Len(t) + 1) /\ (k \in 1..Len(t) \/ k = Len(t) + 1)
          BY <3>5
        <4>4. CASE j \in 1..Len(t) /\ k \in 1..Len(t)
          <5>1. t[j] = t[k] /\ Apart(t)
            BY <3>2, <3>5, <3>8, <4>4
          <5> QED BY <3>5, <4>4, <5>1 DEF Apart
        <4> QED BY <3>5, <4>1, <4>2, <4>3, <4>4
      <3> HIDE DEF Upto
      <3> QED BY <2>0, <3>3, <3>4, <3>5, <3>7, <3>8
    <2> QED BY <2>2, <2>3
  <1>8. n \in P
    <2> HIDE DEF P
    <2>1. \A i \in 0..n : i \in P
      BY <1>4, <1>6, <1>7, Induction
    <2> QED BY <1>4, <2>1
  <1>9. Good(n)
    BY <1>8
  <1>10. Upto(n) = Range(s)
    BY <1>4 DEF Range
  <1>11. u \in Seq(Range(s)) /\ Range(u) = {x \in Range(s) : x \in A} /\ (Apart(s) => Apart(u))
    <2> HIDE DEF Upto
    <2> QED BY <1>1, <1>3, <1>9, <1>10
  <1> QED BY <1>11, SeqListed

\* The members of a list apart are as many as its places.
LEMMA ListSize ==
  ASSUME NEW s, Listed(s), Apart(s)
  PROVE  IsFiniteSet(Range(s)) /\ Cardinality(Range(s)) = Len(s)
  <1>1. PICK n : n = Len(s)
    OBVIOUS
  <1>2. n \in Nat /\ DOMAIN s = 1..n /\ s \in [1..n -> Range(s)]
    <2>1. PICK R : R = Range(s)
      OBVIOUS
    <2>2. s \in Seq(R)
      BY <2>1 DEF Listed
    <2> QED BY <1>1, <2>1, <2>2
  <1>3. PICK R : R = Range(s)
    OBVIOUS
  <1>4. s \in Bijection(1..n, R)
    <2>1. s \in Surjection(1..n, R)
      BY <1>2, <1>3 DEF Surjection, Range
    <2>2. s \in Injection(1..n, R)
      BY <1>2, <1>3 DEF Injection, IsInjective, Apart
    <2> QED BY <2>1, <2>2 DEF Bijection
  <1>5. PICK I : I = 1..n
    OBVIOUS
  <1>6. IsFiniteSet(I) /\ Cardinality(I) = n
    BY <1>2, <1>5, FS_Interval
  <1>7. IsFiniteSet(R) /\ Cardinality(R) = Cardinality(I)
    BY <1>4, <1>5, <1>6, FS_Bijection DEF ExistsBijection
  <1> QED BY <1>1, <1>3, <1>6, <1>7

\* The lists one after the other, up to the i-th.
Flattens(g, ss) ==
    g = [i \in 1..Len(ss) |-> IF i = 1 THEN ss[i] ELSE g[i - 1] \o ss[i]]

\* Lists of two, all of whose members differ, are twice as many members.
LEMMA FlatOf ==
  ASSUME NEW n \in Nat \ {0}, NEW ss, Listed(ss), Len(ss) = n,
         \A i \in 1..n : Listed(ss[i]) /\ Len(ss[i]) = 2 /\ Apart(ss[i]),
         \A i, j \in 1..n : i # j => Range(ss[i]) \cap Range(ss[j]) = {},
         NEW u, u = FlattenSeq(ss)
  PROVE  /\ Listed(u) /\ Len(u) = 2 * n /\ Apart(u)
         /\ Range(u) = UNION {Range(ss[i]) : i \in 1..n}
  <1> DEFINE f == CHOOSE g : Flattens(g, ss)
  <1>1. u = f[n]
    BY DEF FlattenSeq, Flattens
  <1>2. \E g : Flattens(g, ss)
    <2>1. PICK R : R = UNION {Range(ss[i]) : i \in 1..n}
      OBVIOUS
    <2>2. PICK S : S = Seq(R)
      OBVIOUS
    <2>3. \A i \in 1..n : ss[i] \in S
      <3> TAKE i \in 1..n
      <3>1. Range(ss[i]) \subseteq R
        BY <2>1
      <3> QED BY <2>2, <3>1, SeqMonotonic DEF Listed
    <2>4. <<>> \in S /\ \A x \in S : \A i \in 1..n : x \o ss[i] \in S
      BY <2>2, <2>3, ConcatProperties
    <2> DEFINE take == [i \in 1..n |-> [x \in S |-> x \o ss[i]]]
    <2>5. take \in [1..n -> [S -> S]]
      BY <2>4
    <2>6. \A i \in 1..n : \A x \in S : take[i][x] = x \o ss[i]
      OBVIOUS
    <2> HIDE DEF take
    <2>7. PICK g : Iterates(g, n, S, <<>>, take)
      BY <2>4, <2>5, Recursion
    <2>8. g \in [0..n -> S] /\ g[0] = <<>> /\ \A i \in 1..n : g[i] = take[i][g[i - 1]]
      BY <2>7 DEF Iterates
    <2>9. \A i \in 1..n : i - 1 \in 0..n /\ g[i] = g[i - 1] \o ss[i]
      <3> TAKE i \in 1..n
      <3>1. i - 1 \in 0..n
        OBVIOUS
      <3>2. g[i - 1] \in S /\ g[i] = take[i][g[i - 1]]
        BY <2>8, <3>1
      <3> QED BY <2>6, <3>1, <3>2
    <2> DEFINE h == [i \in 1..n |-> g[i]]
    <2>10. ASSUME NEW i \in 1..n PROVE h[i] = IF i = 1 THEN ss[i] ELSE h[i - 1] \o ss[i]
      <3>1. CASE i = 1
        <4>0. 1 \in 1..n /\ 1 - 1 = 0
          OBVIOUS
        <4>1. g[1] = <<>> \o ss[1] /\ ss[1] \in Seq(R)
          BY <2>2, <2>3, <2>8, <2>9, <4>0
        <4>2. g[1] = ss[1]
          BY <4>1, ConcatEmptySeq
        <4> QED BY <3>1, <4>2
      <3>2. CASE i # 1
        <4>1. i - 1 \in 1..n
          BY <3>2
        <4> QED BY <2>9, <3>2, <4>1
      <3> QED BY <3>1, <3>2
    <2>11. h = [i \in 1..n |-> h[i]]
      OBVIOUS
    <2> HIDE DEF h
    <2>12. h = [i \in 1..n |-> IF i = 1 THEN ss[i] ELSE h[i - 1] \o ss[i]]
      BY <2>10, <2>11
    <2>13. Flattens(h, ss)
      BY <2>12 DEF Flattens
    <2> QED BY <2>13
  <1>3. Flattens(f, ss)
    BY <1>2
  <1> HIDE DEF f
  <1>4. \A i \in 1..n : f[i] = IF i = 1 THEN ss[i] ELSE f[i - 1] \o ss[i]
    BY <1>3 DEF Flattens
  <1> DEFINE Upto(i) == UNION {Range(ss[j]) : j \in 1..i}
             Good(i) == Listed(f[i]) /\ Len(f[i]) = 2 * i /\ Apart(f[i]) /\ Range(f[i]) = Upto(i)
             P == {i \in 0..n : i # 0 => Good(i)}
  <1>5. 0 \in P
    OBVIOUS
  <1>6. ASSUME NEW i \in 1..n, i - 1 \in P PROVE i \in P
    <2>1. Upto(i) = Upto(i - 1) \cup Range(ss[i])
      <3>1. 1..i = 1..(i - 1) \cup {i}
        OBVIOUS
      <3> QED BY <3>1
    <2>2. CASE i = 1
      <3>1. Upto(0) = {} /\ f[1] = ss[1]
        BY <1>4, <2>2
      <3>2. Upto(1) = Range(ss[1])
        BY <2>1, <2>2, <3>1
      <3>3. Good(1)
        <4> HIDE DEF Upto
        <4> QED BY <2>2, <3>1, <3>2
      <3> HIDE DEF Good
      <3> QED BY <2>2, <3>3
    <2>3. CASE i # 1
      <3>1. Good(i - 1) /\ i - 1 # 0
        BY <1>6, <2>3
      <3>2. PICK s : s = f[i - 1]
        OBVIOUS
      <3>3. PICK t : t = ss[i]
        OBVIOUS
      <3>4. Listed(s) /\ Apart(s) /\ Listed(t) /\ Apart(t) /\ Len(t) = 2 /\ Len(s) = 2 * (i - 1)
        BY <3>1, <3>2, <3>3
      <3>5. Range(s) \cap Range(t) = {}
        <4>1. ASSUME NEW j \in 1..(i - 1) PROVE Range(ss[j]) \cap Range(ss[i]) = {}
          BY <4>1
        <4>2. Range(s) = Upto(i - 1)
          BY <3>1, <3>2
        <4> QED BY <3>3, <4>1, <4>2
      <3>6. /\ Listed(s \o t) /\ Len(s \o t) = Len(s) + Len(t)
            /\ Range(s \o t) = Range(s) \cup Range(t) /\ Apart(s \o t)
        BY <3>4, <3>5, ListConcat
      <3>7. f[i] = s \o t
        BY <1>4, <2>3, <3>2, <3>3
      <3>8. Range(f[i]) = Upto(i)
        <4>1. Range(s) = Upto(i - 1)
          BY <3>1, <3>2
        <4> HIDE DEF Upto
        <4> QED BY <2>1, <3>3, <3>6, <3>7, <4>1
      <3>9. Len(f[i]) = 2 * i
        BY <3>4, <3>6, <3>7
      <3>10. Good(i)
        <4> HIDE DEF Upto
        <4> QED BY <3>6, <3>7, <3>8, <3>9
      <3> HIDE DEF Good
      <3> QED BY <3>10
    <2> QED BY <2>2, <2>3
  <1>7. n \in P
    <2> HIDE DEF P
    <2>1. \A i \in 0..n : i \in P
      BY <1>5, <1>6, Induction
    <2> QED BY <2>1
  <1> QED BY <1>1, <1>7

\* The lesser of two numbers.
LEMMA MinTwo ==
  ASSUME NEW a \in Int, NEW b \in Int
  PROVE  Min({a, b}) = IF a <= b THEN a ELSE b
  <1>1. \E x \in {a, b} : \A y \in {a, b} : x <= y
    OBVIOUS
  <1>2. PICK m : m = Min({a, b})
    OBVIOUS
  <1>3. m \in {a, b} /\ \A y \in {a, b} : m <= y
    BY <1>1, <1>2 DEF Min
  <1> QED BY <1>2, <1>3

-----------------------------------------------------------------------------
(* Transfers.                                                              *)

\* What build_transfer builds: no less than its inputs goes out, and no more
\* unless they do not suffice.
LEMMA TransferOf ==
  ASSUME NEW S, Coins(S), NEW to, NEW a \in Nat, NEW t, t = BuildTransfer(S, to, a)
  PROVE  /\ t.inputs = S /\ t.to = to /\ t.amount = a /\ t.signed
         /\ t.change \in Nat /\ t.amount + t.change >= Sum(S)
         /\ Sum(S) >= a => t.amount + t.change = Sum(S)
  <1>1. Sum(S) \in Nat
    BY SumType
  <1>2. /\ t.inputs = S /\ t.to = to /\ t.amount = a /\ t.signed
        /\ t.change = IF Sum(S) > a THEN Sum(S) - a ELSE 0
    BY DEF BuildTransfer
  <1> QED BY <1>1, <1>2

\* The coins of a transfer.
LEMMA OutputsOf ==
  ASSUME NEW t, t.amount \in Nat, t.change \in Nat
  PROVE  /\ Coins(Outputs(t)) /\ Sum(Outputs(t)) = t.amount + t.change
         /\ \A c \in Outputs(t) : /\ c.tx = t /\ c.amount \in Nat /\ c.index \in {0, 1}
                                  /\ c.index = 0 => c = Coin(t, 0, t.amount)
         /\ Coin(t, 0, t.amount) \in Outputs(t)
  <1>1. PICK c : c = Coin(t, 0, t.amount)
    OBVIOUS
  <1>2. PICK d : d = Coin(t, 1, t.change)
    OBVIOUS
  <1>3. /\ c.tx = t /\ c.index = 0 /\ c.amount = t.amount
        /\ d.tx = t /\ d.index = 1 /\ d.amount = t.change
    BY <1>1, <1>2 DEF Coin
  <1>4. Outputs(t) = IF t.change > 0 THEN {c} \cup {d} ELSE {c}
    BY <1>1, <1>2 DEF Outputs
  <1>5. Coins({c}) /\ Coins({d}) /\ Sum({c}) = t.amount /\ Sum({d}) = t.change
    BY <1>3, CoinsOne, SumOne
  <1>6. Coins({c} \cup {d}) /\ Sum({c} \cup {d}) = t.amount + t.change
    <2>1. {c} \cap {d} = {}
      BY <1>3
    <2>2. PICK A : A = {c}
      OBVIOUS
    <2>3. PICK B : B = {d}
      OBVIOUS
    <2>4. Coins(A \cup B) /\ Sum(A \cup B) = Sum(A) + Sum(B)
      BY <1>5, <2>1, <2>2, <2>3, CoinsUnion, SumUnion
    <2> QED BY <1>5, <2>2, <2>3, <2>4
  <1>7. CASE t.change > 0
    <2>1. Outputs(t) = {c} \cup {d}
      BY <1>4, <1>7
    <2> QED BY <1>1, <1>3, <1>6, <2>1
  <1>8. CASE ~(t.change > 0)
    <2>1. Outputs(t) = {c} /\ t.change = 0
      BY <1>4, <1>8
    <2> QED BY <1>1, <1>3, <1>5, <2>1
  <1> QED BY <1>7, <1>8

\* The transfer that halves a coin.
LEMMA HalveOf ==
  ASSUME NEW c, c.amount \in Nat, NEW t, t = Halve(c)
  PROVE  /\ t.inputs = {c} /\ t.to = Funder /\ t.signed
         /\ t.amount = c.amount \div 2 /\ t.change = c.amount - (c.amount \div 2)
         /\ t.amount \in Nat /\ t.change \in Nat /\ t.amount + t.change = c.amount
         /\ \A x \in Outputs(t) : Owner(x) = Funder
  <1>1. Coins({c}) /\ Sum({c}) = c.amount
    BY CoinsOne, SumOne
  <1>2. PICK h : h = c.amount \div 2
    OBVIOUS
  <1>3. h \in Nat /\ h <= c.amount
    BY <1>2
  <1>4. t = BuildTransfer({c}, Funder, h)
    BY <1>2 DEF Halve
  <1>5. PICK S : S = {c}
    OBVIOUS
  <1>6. /\ t.inputs = S /\ t.to = Funder /\ t.amount = h /\ t.signed
        /\ t.change \in Nat /\ (Sum(S) >= h => t.amount + t.change = Sum(S))
    <2>1. PICK z : z = Funder
      OBVIOUS
    <2>2. Coins(S) /\ t = BuildTransfer(S, z, h)
      BY <1>1, <1>4, <1>5, <2>1
    <2>3. h \in Nat
      BY <1>3
    <2>4. /\ t.inputs = S /\ t.to = z /\ t.amount = h /\ t.signed
          /\ t.change \in Nat /\ t.amount + t.change >= Sum(S)
          /\ Sum(S) >= h => t.amount + t.change = Sum(S)
      BY <2>2, <2>3, TransferOf
    <2> QED BY <2>1, <2>4
  <1>7. t.change = c.amount - h
    BY <1>1, <1>3, <1>5, <1>6
  <1>8. \A x \in Outputs(t) : x.tx = t
    BY <1>3, <1>6, OutputsOf
  <1>9. \A x \in Outputs(t) : Owner(x) = Funder
    BY <1>6, <1>8 DEF Owner
  <1> QED BY <1>1, <1>2, <1>3, <1>5, <1>6, <1>7, <1>9

\* It is another one for every coin.
LEMMA HalveOnce ==
  ASSUME NEW c, NEW d, Halve(c) = Halve(d)
  PROVE  c = d
  <1>1. Halve(c).inputs = {c} /\ Halve(d).inputs = {d}
    BY DEF Halve, BuildTransfer
  <1> QED BY <1>1

\* The two outputs the client expects are those of the transfer.
LEMMA ExpectedOf ==
  ASSUME NEW c, c.amount \in Nat, c.amount >= 2, NEW t, t = Halve(c), NEW e, e = Expected(t)
  PROVE  Listed(e) /\ Len(e) = 2 /\ Apart(e) /\ Range(e) = Outputs(t)
  <1>1. /\ t.inputs = {c} /\ t.amount = c.amount \div 2 /\ t.change = c.amount - (c.amount \div 2)
    BY HalveOf
  <1>2. (CHOOSE x \in t.inputs : TRUE) = c
    BY <1>1
  <1>3. PICK a : a = Coin(t, 0, t.amount)
    OBVIOUS
  <1>4. PICK b : b = Coin(t, 1, t.change)
    OBVIOUS
  <1>5. e = <<a, b>>
    BY <1>1, <1>2, <1>3, <1>4 DEF Expected
  <1>6. a # b
    BY <1>3, <1>4 DEF Coin
  <1>7. c.amount - (c.amount \div 2) > 0
    OBVIOUS
  <1>8. Outputs(t) = {a, b}
    BY <1>1, <1>3, <1>4, <1>7 DEF Outputs
  <1>9. e \in Seq({a, b}) /\ Len(e) = 2 /\ e[1] = a /\ e[2] = b /\ DOMAIN e = {1, 2}
    BY <1>5
  <1>10. Range(e) = {a, b}
    BY <1>9 DEF Range
  <1>11. Apart(e)
    BY <1>6, <1>9 DEF Apart
  <1> QED BY <1>8, <1>9, <1>10, <1>11, SeqListed

\* Coins that are all cut in two are worth what they were.
LEMMA CutSum ==
  ASSUME NEW A, Coins(A), NEW N, N = UNION {Outputs(Halve(c)) : c \in A}
  PROVE  Coins(N) /\ Sum(N) = Sum(A)
  <1>1. ASSUME NEW c \in A
        PROVE  /\ Coins(Outputs(Halve(c))) /\ Sum(Outputs(Halve(c))) = c.amount
               /\ \A x \in Outputs(Halve(c)) : x.tx = Halve(c)
    <2>1. PICK t : t = Halve(c)
      OBVIOUS
    <2>2. c.amount \in Nat
      BY DEF Coins
    <2>3. t.amount \in Nat /\ t.change \in Nat /\ t.amount + t.change = c.amount
      BY <2>1, <2>2, HalveOf
    <2>4. Coins(Outputs(t)) /\ Sum(Outputs(t)) = t.amount + t.change /\ \A x \in Outputs(t) : x.tx = t
      BY <2>3, OutputsOf
    <2> QED BY <2>1, <2>3, <2>4
  <1> DEFINE Of(B) == UNION {Outputs(Halve(c)) : c \in B}
             g == [B \in SUBSET A |-> Sum(Of(B))]
             w == [c \in A |-> c.amount]
  <1>2. ASSUME NEW B \in SUBSET A PROVE Coins(Of(B))
    <2> DEFINE All == {Outputs(Halve(c)) : c \in B}
               f == [c \in B |-> Outputs(Halve(c))]
    <2>1. f \in Surjection(B, All)
      BY DEF Surjection
    <2>2. IsFiniteSet(B)
      BY FS_Subset DEF Coins
    <2>3. \A T \in All : IsFiniteSet(T)
      BY <1>1 DEF Coins
    <2>4. IsFiniteSet(UNION All)
      <3> HIDE DEF f, All
      <3>1. IsFiniteSet(All)
        BY <2>1, <2>2, FS_Surjection
      <3> QED BY <2>3, <3>1, FS_UNION
    <2>5. \A x \in UNION All : x.amount \in Nat
      BY <1>1 DEF Coins
    <2> QED BY <2>4, <2>5 DEF Coins
  <1>3. ASSUME NEW B \in SUBSET A, NEW c \in B PROVE Sum(Of(B)) = c.amount + Sum(Of(B \ {c}))
    <2>1. PICK S : S = Outputs(Halve(c))
      OBVIOUS
    <2>2. PICK T : T = Of(B \ {c})
      OBVIOUS
    <2>3. Coins(S) /\ Coins(T) /\ Sum(S) = c.amount
      BY <1>1, <1>2, <2>1, <2>2
    <2>4. S \cap T = {}
      <3>1. ASSUME NEW x, x \in S, x \in T PROVE FALSE
        <4>1. PICK d \in B \ {c} : x \in Outputs(Halve(d))
          BY <2>2, <3>1
        <4>2. x.tx = Halve(c) /\ x.tx = Halve(d)
          BY <1>1, <2>1, <3>1, <4>1
        <4>3. c = d
          BY <4>2, HalveOnce
        <4> QED BY <4>1, <4>3
      <3> QED BY <3>1
    <2>5. S \cup T = Of(B)
      BY <2>1, <2>2
    <2>6. Sum(S \cup T) = Sum(S) + Sum(T)
      BY <2>3, <2>4, SumUnion
    <2> QED BY <2>2, <2>3, <2>5, <2>6
  <1>4. Sum(Of({})) = 0
    <2>1. Of({}) = {}
      OBVIOUS
    <2> HIDE DEF Of
    <2> QED BY <2>1, SumEmpty
  <1>5. \A B \in SUBSET A : Sum(Of(B)) \in Nat
    <2> HIDE DEF Of
    <2> QED BY <1>2, SumType
  <1>6. Of(A) = N /\ Coins(N)
    <2>1. Of(A) = N
      OBVIOUS
    <2> HIDE DEF Of
    <2> QED BY <1>2, <2>1
  <1>7. Sums(g, A, w)
    <2> HIDE DEF Of
    <2>1. g \in [SUBSET A -> Nat] /\ g[{}] = 0
      BY <1>4, <1>5
    <2>2. ASSUME NEW B \in SUBSET A, NEW c \in B PROVE g[B] = w[c] + g[B \ {c}]
      BY <1>3
    <2> QED BY <2>1, <2>2 DEF Sums
  <1>8. g[A] = Sum(N)
    <2>1. Of(A) = N
      BY <1>6
    <2> HIDE DEF Of
    <2> QED BY <2>1
  <1> HIDE DEF g, Of
  <1>9. PICK h : Sums(h, A, w) /\ \A B \in SUBSET A : Sum(B) = h[B]
    BY SumParts
  <1> DEFINE id == [c \in A |-> c]
  <1>10. OneToOne(id, A, w, A, w) /\ Img(id, A) = A /\ IsFiniteSet(A)
    BY DEF OneToOne, Img, Coins
  <1> HIDE DEF w, id
  <1>11. \A B \in SUBSET A : g[B] = h[Img(id, B)]
    BY <1>7, <1>9, <1>10, SumsMatch
  <1>12. A \in SUBSET A
    OBVIOUS
  <1> QED BY <1>6, <1>8, <1>9, <1>10, <1>11, <1>12

-----------------------------------------------------------------------------
(* The nodes.                                                              *)

\* Nodes is a set of numbers with node 1 in it.
LEMMA NodeOne == NodeCount \in Nat /\ NodeCount >= 1 /\ 1 \in Nodes
  BY SplitAssumption DEF Nodes

\* What any node has applied has been sent.
LEMMA AppliedSent ==
  ASSUME NetTyped, NEW n \in Nodes
  PROVE  at[n] \in 1..Len(log) /\ Len(log) \in Nat /\ Applied(at[n]) \subseteq Sent
  <1>1. at[n] \in 1..Len(log) /\ Len(log) \in Nat
    BY ListOf DEF NetTyped
  <1>2. \A i \in 1..at[n] : i \in 1..Len(log)
    BY <1>1
  <1> QED BY <1>1, <1>2 DEF Applied, Sent

\* The coins a node has were made by what it has applied, which has not spent
\* them since.
LEMMA UnspentOf ==
  ASSUME NEW k, \A t \in Applied(k) : t.amount \in Nat /\ t.change \in Nat
  PROVE  \A c : c \in Unspent(k) <=> /\ c.tx \in Applied(k) /\ c \in Outputs(c.tx)
                                     /\ \A t \in Applied(k) : c \notin t.inputs
  <1>1. \A t \in Applied(k) : \A c \in Outputs(t) : c.tx = t
    BY OutputsOf
  <1>2. \A c : c \in Unspent(k) <=> /\ \E t \in Applied(k) : c \in Outputs(t)
                                    /\ \A t \in Applied(k) : c \notin t.inputs
    <2> DEFINE T == Applied(k)
    <2>1. Unspent(k) = (UNION {Outputs(t) : t \in T}) \ (UNION {t.inputs : t \in T})
      BY DEF Unspent, Applied
    <2> HIDE DEF T
    <2>2. \A c : c \in Unspent(k) <=> /\ \E t \in T : c \in Outputs(t)
                                      /\ \A t \in T : c \notin t.inputs
      <3> TAKE c
      <3>1. c \in UNION {Outputs(t) : t \in T} <=> \E t \in T : c \in Outputs(t)
        OBVIOUS
      <3>2. c \in UNION {t.inputs : t \in T} <=> \E t \in T : c \in t.inputs
        OBVIOUS
      <3> QED BY <2>1, <3>1, <3>2
    <2> QED BY <2>2 DEF T
  <1> QED BY <1>1, <1>2

\* They are finitely many and worth numbers.
LEMMA UnspentCoins ==
  ASSUME NEW k \in Nat, \A t \in Applied(k) : t.amount \in Nat /\ t.change \in Nat
  PROVE  Coins(Unspent(k))
  <1> DEFINE All == {Outputs(t) : t \in Applied(k)}
             f == [i \in 1..k |-> Outputs(log[i])]
  <1>1. f \in Surjection(1..k, All)
    BY DEF Surjection, Applied
  <1>2. IsFiniteSet(1..k)
    BY FS_Interval
  <1>3. \A T \in All : Coins(T)
    BY OutputsOf
  <1>4. IsFiniteSet(UNION All)
    <2> HIDE DEF f, All
    <2>1. PICK I : I = 1..k
      OBVIOUS
    <2>2. IsFiniteSet(All)
      BY <1>1, <1>2, <2>1, FS_Surjection
    <2> QED BY <1>3, <2>2, FS_UNION DEF Coins
  <1>5. Coins(UNION All)
    BY <1>3, <1>4 DEF Coins
  <1>6. Unspent(k) \in SUBSET (UNION All)
    BY DEF Unspent, Applied
  <1> HIDE DEF All
  <1> QED BY <1>5, <1>6, CoinsSubset

\* The chain only grows, and no node goes back.
Onward ==
    /\ Len(log') \in Nat /\ Len(log) <= Len(log') /\ \A i \in 1..Len(log) : log'[i] = log[i]
    /\ \A n \in Nodes : at[n] <= at'[n] /\ at'[n] \in Nat

\* Whether a request is answered changes nothing but whether the run goes on:
\* the steps and the state without it.
shown == <<args, locals, network, run, step, txs, answered, accepted, sums>>
Move  == (\E s \in Scripts : Start(s)) \/ ScriptStep \/ NetworkStep

\* Every step of the specification is one of those (Hang shows nothing).
LEMMA StepsShown == [Next]_vars => [Move]_shown
  BY DEF Next, RunStep, Hang, Move, vars, shown

\* Every step but those of the nodes leaves the chain alone.
LEMMA StepsOfChain ==
  ASSUME [Move]_shown
  PROVE  \/ UNCHANGED <<log, at>>
         \/ NetworkStep /\ \E tx \in pending : Include(tx)
         \/ NetworkStep /\ \E n \in Nodes : Apply(n)
  <1>1. CASE UNCHANGED shown
    BY <1>1 DEF shown, network
  <1>2. CASE \E s \in Scripts : Start(s)
    BY <1>2 DEF Start, network
  <1>3. CASE RequestFails \/ Snapshot \/ Fetch \/ AfterSplit
    BY <1>3 DEF RequestFails, Snapshot, Fetch, AfterSplit, network
  <1>4. CASE SplitStep
    BY <1>4 DEF SplitStep, Client, Finish, Build, Post, Collect, Poll, Timeout, network
  <1>5. CASE \E i \in DOMAIN txs : PostPayment(i)
    BY <1>5 DEF PostPayment
  <1>6. CASE AllPosted \/ WaitBlocks \/ Confirm \/ Expire \/ ReadFunder \/ ReadRecipients \/ Conserved
    BY <1>6 DEF AllPosted, WaitBlocks, Confirm, Expire, ReadFunder, ReadRecipients, Conserved, network
  <1>7. CASE NetworkStep
    BY <1>7 DEF NetworkStep, Network, Evict
  <1> QED BY <1>1, <1>2, <1>3, <1>4, <1>5, <1>6, <1>7 DEF Move, ScriptStep

\* The chain is well formed and only grows.
LEMMA ChainKept ==
  ASSUME NetTyped, [Move]_shown
  PROVE  NetTyped' /\ Onward
  <1>0. Len(log) \in Nat /\ at \in [Nodes -> 1..Len(log)] /\ Len(log) >= 1
    BY ListOf DEF NetTyped
  <1>1. CASE UNCHANGED <<log, at>>
    BY <1>0, <1>1 DEF NetTyped, Onward
  <1>2. CASE \E tx \in pending : Include(tx)
    <2>1. PICK tx : log' = Append(log, tx) /\ at' = at
      BY <1>2 DEF Include
    <2>2. PICK R : R = Range(log) \cup {tx}
      OBVIOUS
    <2>3. log \in Seq(R) /\ tx \in R
      <3>1. Range(log) \subseteq R
        BY <2>2
      <3> QED BY <2>2, <3>1, SeqMonotonic DEF NetTyped, Listed
    <2>4. PICK l : l = Append(log, tx)
      OBVIOUS
    <2>5. l \in Seq(R) /\ Len(l) = Len(log) + 1 /\ \A i \in 1..Len(log) : l[i] = log[i]
      BY <2>3, <2>4
    <2>6. Listed(l)
      BY <2>5, SeqListed
    <2>7. at \in [Nodes -> 1..Len(l)]
      BY <1>0, <2>5
    <2> QED BY <1>0, <2>1, <2>4, <2>5, <2>6, <2>7 DEF NetTyped, Onward, Listed, Range
  <1>3. CASE \E n \in Nodes : Apply(n)
    <2>1. PICK n \in Nodes : at[n] < Len(log) /\ at' = [at EXCEPT ![n] = @ + 1] /\ log' = log
      BY <1>3 DEF Apply
    <2>2. \A m \in Nodes : at'[m] = IF m = n THEN at[m] + 1 ELSE at[m]
      BY <1>0, <2>1
    <2>3. \A m \in Nodes : at'[m] \in 1..Len(log) /\ at[m] <= at'[m]
      BY <1>0, <2>1, <2>2
    <2>4. at' \in [Nodes -> 1..Len(log)]
      BY <1>0, <2>1, <2>3
    <2> QED BY <1>0, <2>1, <2>3, <2>4 DEF NetTyped, Onward
  <1> QED BY <1>1, <1>2, <1>3, StepsOfChain

\* What node 1 has applied stays applied.
LEMMA AppliedKept ==
  ASSUME NetTyped, Onward
  PROVE  Applied(at[1]) \subseteq Applied(at[1])'
  <1>1. /\ at[1] \in 1..Len(log) /\ Len(log) \in Nat
        /\ at[1] <= at'[1] /\ at'[1] \in Nat /\ \A i \in 1..Len(log) : log'[i] = log[i]
    BY NodeOne, AppliedSent DEF Onward
  <1>2. \A i \in 1..at[1] : i \in 1..at'[1] /\ log'[i] = log[i]
    BY <1>1
  <1> QED BY <1>2 DEF Applied

\* So a transfer well founded stays so.
LEMMA FoundedKept ==
  ASSUME NetTyped, Onward, NEW t, Founded(t)
  PROVE  Founded(t)'
  BY AppliedKept DEF Founded

-----------------------------------------------------------------------------
(* The scripts and what they build.                                        *)

\* What is the same of all scripts: they pay others than the funder, something,
\* and each once.
Payments(pays) ==
    /\ Listed(pays)
    /\ \A i \in DOMAIN pays : pays[i].amount \in Nat \ {0} /\ pays[i].to # Funder
    /\ \A i, j \in DOMAIN pays : pays[i].to = pays[j].to => i = j

Scripted(s) ==
    /\ Payments(s.pays)
    /\ s.split \in Nat \cup {NoSplit}
    /\ s.bad => ~s.waits /\ ~s.sums
    /\ s.sums => s = balance_conservation

\* A list of payments to two others.
LEMMA TwoPayments ==
  ASSUME NEW a \in Nat \ {0}, NEW b \in Nat \ {0}, a # b, NEW x \in Nat \ {0}, NEW y \in Nat \ {0},
         NEW pays
  PROVE  /\ pays = <<Pay(a, x), Pay(b, y)>> => Payments(pays)
         /\ pays = <<Pay(a, x)>> => Payments(pays)
         /\ pays = <<>> => Payments(pays)
  <1>1. PICK p : p = Pay(a, x)
    OBVIOUS
  <1>2. PICK q : q = Pay(b, y)
    OBVIOUS
  <1>3. p.to = a /\ p.amount = x /\ q.to = b /\ q.amount = y /\ a # Funder /\ b # Funder
    BY <1>1, <1>2 DEF Pay, Funder
  <1>4. CASE pays = <<p, q>>
    <2>1. pays \in Seq({p, q}) /\ DOMAIN pays = {1, 2} /\ pays[1] = p /\ pays[2] = q
      BY <1>4
    <2>2. Listed(pays)
      BY <2>1, SeqListed
    <2> QED BY <1>3, <2>1, <2>2 DEF Payments
  <1>5. CASE pays = <<p>>
    <2>1. pays \in Seq({p}) /\ DOMAIN pays = {1} /\ pays[1] = p
      BY <1>5
    <2>2. Listed(pays)
      BY <2>1, SeqListed
    <2> QED BY <1>3, <2>1, <2>2 DEF Payments
  <1>6. CASE pays = <<>>
    <2>1. pays \in Seq({}) /\ DOMAIN pays = {}
      BY <1>6
    <2>2. Listed(pays)
      BY <2>1, SeqListed
    <2> QED BY <2>1, <2>2 DEF Payments
  <1> QED BY <1>1, <1>2, <1>4, <1>5, <1>6

\* All scripts are of that form.
LEMMA ScriptsOf ==
  ASSUME NEW s \in Scripts \cup {Plain}
  PROVE  Scripted(s)
  <1>1. Payments(<<>>) /\ Payments(<<Pay(1, 3)>>) /\ Payments(<<Pay(2, 1), Pay(3, 2)>>)
    BY TwoPayments
  <1>2. Payments(<<Pay(4, 1)>>) /\ Payments(<<Pay(3, 1), Pay(5, 1)>>)
    BY TwoPayments
  <1>3. Payments(<<Pay(6, 1), Pay(7, 2)>>) /\ Payments(<<Pay(8, 4)>>)
    BY TwoPayments
  <1>4. CASE s = Plain
    BY <1>1, <1>4 DEF Scripted, Plain, NoSplit
  <1>5. CASE s = single_transfer
    BY <1>1, <1>5 DEF Scripted, single_transfer, Plain, NoSplit
  <1>6. CASE s = concurrent_sends
    BY <1>1, <1>6 DEF Scripted, concurrent_sends, Plain, NoSplit
  <1>7. CASE s = double_spend
    BY <1>2, <1>7 DEF Scripted, double_spend, Plain, NoSplit
  <1>8. CASE s = mempool_flood
    BY <1>2, <1>8 DEF Scripted, mempool_flood, Plain, NoSplit
  <1>9. CASE s = balance_conservation
    <2>1. /\ s.pays = <<Pay(6, 1), Pay(7, 2)>> /\ s.split = 2 /\ ~s.bad
      BY <1>9 DEF balance_conservation, Plain
    <2> QED BY <1>3, <1>9, <2>1 DEF Scripted
  <1>10. CASE s = invalid_tx_rejection
    BY <1>1, <1>10 DEF Scripted, invalid_tx_rejection, Plain, NoSplit
  <1>11. CASE s = cmd_send
    BY <1>3, <1>11 DEF Scripted, cmd_send, Plain, NoSplit
  <1>12. ASSUME NEW target \in Targets, s = SplitOnly(target) PROVE Scripted(s)
    <2>1. target \in Nat
      BY ScenarioAssumption
    <2> QED BY <1>1, <1>12, <2>1 DEF Scripted, SplitOnly, Plain, NoSplit
  <1> QED BY <1>4, <1>5, <1>6, <1>7, <1>8, <1>9, <1>10, <1>11, <1>12 DEF Scripts

\* The transfers of payments: those whose coins are found, and no others.
LEMMA TransfersOf ==
  ASSUME NEW pays, Payments(pays), NEW coins, NEW u, u = Transfers(pays, coins),
         \A i \in DOMAIN pays : Coins(coins[i])
  PROVE  /\ Listed(u)
         /\ \A t \in Range(u) : \E i \in DOMAIN pays :
               t = BuildTransfer(coins[i], pays[i].to, pays[i].amount) /\ coins[i] # {}
         /\ \A i \in DOMAIN pays : coins[i] # {} =>
               BuildTransfer(coins[i], pays[i].to, pays[i].amount) \in Range(u)
  <1> DEFINE Tr(i) == BuildTransfer(coins[i], pays[i].to, pays[i].amount)
  <1>1. PICK all : all = [i \in DOMAIN pays |-> Tr(i)]
    OBVIOUS
  <1>2. PICK n : n \in Nat /\ DOMAIN pays = 1..n
    BY ListOf DEF Payments
  <1>3. Listed(all) /\ Len(all) = n
    <2>1. all = [i \in 1..n |-> all[i]]
      BY <1>1, <1>2
    <2> HIDE DEF Tr
    <2> QED BY <1>2, <2>1, ListMade
  <1>4. PICK A : A = {t \in Range(all) : t.inputs # {}}
    OBVIOUS
  <1>5. u = Sift(all, A)
    BY <1>1, <1>4 DEF Transfers
  <1>6. Listed(u) /\ Range(u) = {t \in Range(all) : t \in A}
    BY <1>3, <1>5, SiftOf
  <1>7. \A i \in DOMAIN pays : Tr(i).inputs = coins[i]
    BY DEF BuildTransfer
  <1> HIDE DEF Tr
  <1>8. Range(all) = {Tr(i) : i \in DOMAIN pays}
    BY <1>1 DEF Range
  <1>9. Range(u) = {t \in Range(all) : t.inputs # {}}
    BY <1>4, <1>6
  <1>10. ASSUME NEW t \in Range(u) PROVE \E i \in DOMAIN pays : t = Tr(i) /\ coins[i] # {}
    BY <1>7, <1>8, <1>9
  <1>11. ASSUME NEW i \in DOMAIN pays, coins[i] # {} PROVE Tr(i) \in Range(u)
    BY <1>7, <1>8, <1>9, <1>11
  <1> QED BY <1>6, <1>10, <1>11 DEF Tr

\* A place of the copies is a place of the list.
LEMMA CopyPlace ==
  ASSUME NEW m \in Nat, NEW i \in 1..(NodeCount * m)
  PROVE  ((i - 1) \div NodeCount) + 1 \in 1..m
  <1>0. NodeCount \in Nat /\ NodeCount >= 1
    BY NodeOne
  <1>1. PICK q : q = (i - 1) \div NodeCount
    OBVIOUS
  <1>2. q \in Nat /\ NodeCount * q <= i - 1
    BY <1>0, <1>1
  <1>3. q < m
    <2> SUFFICES ASSUME q >= m PROVE FALSE
      BY <1>2
    <2>1. NodeCount * q >= NodeCount * m
      BY <1>0, <1>2
    <2> QED BY <1>0, <1>2, <2>1
  <1> QED BY <1>1, <1>2, <1>3

\* The copies for every node are those of the list.
LEMMA CopiesOf ==
  ASSUME NEW s, Listed(s), NEW u, u = Copies(s)
  PROVE  Listed(u) /\ Range(u) \subseteq Range(s)
  <1>1. Len(s) \in Nat /\ \A i \in 1..Len(s) : s[i] \in Range(s)
    BY ListOf
  <1>2. PICK n : n = NodeCount * Len(s)
    OBVIOUS
  <1>3. n \in Nat
    BY <1>1, <1>2, NodeOne
  <1>4. u = [i \in 1..n |-> s[((i - 1) \div NodeCount) + 1]]
    BY <1>2 DEF Copies
  <1>5. \A i \in 1..n : u[i] \in Range(s)
    <2> TAKE i \in 1..n
    <2>1. PICK m : m = Len(s)
      OBVIOUS
    <2>2. ((i - 1) \div NodeCount) + 1 \in 1..m
      BY <1>1, <1>2, <2>1, CopyPlace
    <2> QED BY <1>1, <1>4, <2>1, <2>2
  <1>6. u = [i \in 1..n |-> u[i]] /\ DOMAIN u = 1..n
    BY <1>4
  <1>7. Listed(u)
    BY <1>3, <1>6, ListMade
  <1> QED BY <1>5, <1>6, <1>7 DEF Range

-----------------------------------------------------------------------------
(* The split: a coin of the wallet, and the steps that leave it alone.      *)

\* The coins of what node 1 has applied have numbers for amounts.
LEMMA MineAmount ==
  ASSUME Grounded, NEW c, Mine(c)
  PROVE  c.amount \in Nat
  <1>1. Founded(c.tx)
    <2>1. c.tx \in Applied(at[1])
      BY DEF Mine
    <2>2. Applied(at[1]) \subseteq Sent
      BY NodeOne, AppliedSent DEF Grounded
    <2> QED BY <2>1, <2>2 DEF Grounded, Made
  <1>2. PICK t : t = c.tx
    OBVIOUS
  <1>3. t.amount \in Nat /\ t.change \in Nat /\ c \in Outputs(t)
    BY <1>1, <1>2 DEF Founded, Mine
  <1> QED BY <1>3, OutputsOf

\* A coin that node 1 shows is unspent there, so node 1 has not applied the
\* transfer that would halve it, and nobody spends from that one.
LEMMA WalletCoin ==
  ASSUME Grounded, NEW c \in Utxos(1, Funder)
  PROVE  Mine(c) /\ Unclaimed(c) /\ Halve(c) \notin Applied(at[1]) /\ c.amount \in Nat
  <1>1. Applied(at[1]) \subseteq Sent
    BY NodeOne, AppliedSent DEF Grounded
  <1>2. \A t \in Sent : Founded(t)
    BY DEF Grounded, Made
  <1>3. \A t \in Applied(at[1]) : t.amount \in Nat /\ t.change \in Nat
    BY <1>1, <1>2 DEF Founded
  <1>4. c \in Unspent(at[1]) /\ Owner(c) = Funder
    BY DEF Utxos
  <1>5. /\ c.tx \in Applied(at[1]) /\ c \in Outputs(c.tx)
        /\ \A t \in Applied(at[1]) : c \notin t.inputs
    <2>1. PICK k : k = at[1]
      OBVIOUS
    <2>2. \A t \in Applied(k) : t.amount \in Nat /\ t.change \in Nat
      BY <1>3, <2>1
    <2>3. \A d : d \in Unspent(k) <=> /\ d.tx \in Applied(k) /\ d \in Outputs(d.tx)
                                      /\ \A t \in Applied(k) : d \notin t.inputs
      BY <2>2, UnspentOf
    <2> QED BY <1>4, <2>1, <2>3
  <1>6. Mine(c)
    BY <1>4, <1>5 DEF Mine
  <1>7. Halve(c) \notin Applied(at[1])
    <2>1. c \in Halve(c).inputs
      BY DEF Halve, BuildTransfer
    <2> QED BY <1>5, <2>1
  <1>8. Unclaimed(c)
    BY <1>2, <1>7 DEF Unclaimed, Founded
  <1> QED BY <1>6, <1>7, <1>8, MineAmount

\* A call of split_utxo begins with one coin of the wallet.
LEMMA SplitCalled ==
  ASSUME Grounded, NEW c \in Utxos(1, Funder), NEW target \in Nat,
         Call(c, target), step' = "split", UNCHANGED network
  PROVE  SplitInv'
  <1>1. Mine(c) /\ Unclaimed(c) /\ Halve(c) \notin Applied(at[1]) /\ c.amount \in Nat
    BY WalletCoin
  <1>2. /\ input_utxo' = c /\ target_count' = target /\ current' = <<c>> /\ pc' = "round"
        /\ pending' = pending /\ log' = log /\ at' = at
    BY DEF Call, network
  <1>3. PICK s : s = <<c>>
    OBVIOUS
  <1>4. Range(s) = {c} /\ Apart(s) /\ Listed(s) /\ Len(s) = 1
    <2>1. s \in Seq({c}) /\ DOMAIN s = {1} /\ s[1] = c /\ Len(s) = 1
      BY <1>3
    <2> QED BY <2>1, SeqListed DEF Range, Apart
  <1>5. Mine(c)' /\ Unclaimed(c)'
    BY <1>1, <1>2 DEF Mine, Unclaimed, Sent, Applied
  <1>6. c.tx # Halve(c)
    BY <1>1 DEF Mine
  <1>7. Sum({c}) = c.amount
    BY <1>1, SumOne
  <1>8. CoinsHeld'
    <2>1. current' = s /\ Range(current)' = {c} /\ Len(current)' = 1 /\ input_utxo' = c
      BY <1>2, <1>3, <1>4
    <2>2. Listed(current)' /\ Apart(current)'
      BY <1>4, <2>1 DEF Listed, Apart
    <2> QED BY <1>2, <1>5, <1>6, <1>7, <2>1, <2>2 DEF CoinsHeld
  <1>9. InSplit'
    <2>1. Len(current)' = 1
      BY <1>2, <1>3, <1>4
    <2> QED BY <1>2, <1>8, <2>1 DEF InSplit
  <1> QED BY <1>2, <1>9 DEF SplitInv

\* Between two steps of a round others may come: at most a transfer of the round
\* is sent, nodes apply more, and the client's picture stays right.
LEMMA CoinsKept ==
  ASSUME Grounded, CoinsHeld, Onward, UNCHANGED <<current, input_utxo, built>>,
         pc' = pc \/ pc = "round", posted \subseteq posted' \/ pc = "round",
         \/ Sent' \subseteq Sent
         \/ pc' = "post" /\ \E i \in posted' : Sent' \subseteq Sent \cup {built[i]}
                              /\ \E d \in Range(current) : built[i] = Halve(d)
  PROVE  CoinsHeld'
  <1>0. current' = current /\ input_utxo' = input_utxo /\ built' = built
    OBVIOUS
  <1>1. ASSUME NEW c \in Range(current) PROVE Mine(c)'
    <2>1. Mine(c)
      BY DEF CoinsHeld
    <2>2. Applied(at[1]) \subseteq Applied(at[1])'
      BY AppliedKept DEF Grounded
    <2> QED BY <2>1, <2>2 DEF Mine
  <1>2. ASSUME NEW c \in Range(current) PROVE Unclaimed(c)'
    <2>1. Unclaimed(c) /\ \A d \in Range(current) : d.tx # Halve(c)
      BY DEF CoinsHeld
    <2>2. \A d \in Range(current) : Halve(d).inputs = {d}
      BY DEF Halve, BuildTransfer
    <2> QED BY <2>1, <2>2 DEF Unclaimed
  <1>3. ASSUME NEW c \in Range(current), Len(current) > 1 PROVE Free(c)'
    <2>1. Free(c)
      BY <1>3 DEF CoinsHeld
    <2> SUFFICES ASSUME NEW t \in Sent', c \in t.inputs
                 PROVE  pc' \in {"post", "wait"} /\ \E i \in posted' : t = built[i]
      BY <1>0 DEF Free
    <2>2. CASE t \in Sent
      <3>1. pc \in {"post", "wait"} /\ \E i \in posted : t = built[i]
        BY <2>1, <2>2 DEF Free
      <3> QED BY <3>1
    <2>3. CASE t \notin Sent
      BY <2>3
    <2> QED BY <2>2, <2>3
  <1>4. Listed(current)' /\ Apart(current)'
    BY <1>0 DEF CoinsHeld
  <1>5. Range(current)' = Range(current) /\ Len(current)' = Len(current)
    BY <1>0
  <1> QED BY <1>0, <1>1, <1>2, <1>3, <1>4, <1>5 DEF CoinsHeld

\* Steps that leave the client alone.
LEMMA SplitKept ==
  ASSUME Grounded, SplitInv, Onward, UNCHANGED <<args, locals, step>>, Sent' \subseteq Sent
  PROVE  SplitInv'
  <1>1. UNCHANGED <<input_utxo, target_count, current, next, built, posted, refused, pc, step>>
    BY DEF args, locals
  <1>2. CASE Splitting
    <2>1. InSplit /\ CoinsHeld
      BY <1>2 DEF SplitInv, InSplit
    <2>2. CoinsHeld'
      BY <1>1, <2>1, CoinsKept
    <2>3. InSplit'
      <3>1. PostBuilt' <=> PostBuilt
        BY <1>1 DEF PostBuilt, RoundBuilt, Kept, Cut
      <3>2. WaitBuilt' <=> WaitBuilt
        BY <1>1 DEF WaitBuilt, RoundBuilt, Kept, Cut, New
      <3>3. ToSplit' = ToSplit
        BY <1>1 DEF ToSplit
      <3> QED BY <1>1, <2>1, <2>2, <3>1, <3>2, <3>3 DEF InSplit
    <2> QED BY <1>1, <2>3 DEF SplitInv
  <1>3. CASE ~Splitting
    BY <1>1, <1>3 DEF SplitInv, Splitting
  <1> QED BY <1>2, <1>3

\* Answers to a transfer of the round.
LEMMA SplitPosted ==
  ASSUME Grounded, SplitInv, Onward, step = "split", step' = step, NEW i \in DOMAIN built, Post(i)
  PROVE  SplitInv'
  <1>1. /\ pc = "post" /\ posted' = posted \cup {i} /\ pc' = pc /\ log' = log /\ at' = at
        /\ UNCHANGED <<input_utxo, target_count, current, next, built>>
        /\ pending' = pending \cup {built[i]} \/ pending' = pending
    BY DEF Post, Submit, args
  <1>2. InSplit /\ CoinsHeld /\ PostBuilt /\ RoundBuilt
    BY <1>1 DEF SplitInv, InSplit, Splitting, PostBuilt
  <1>3. i \in posted' /\ Sent' \subseteq Sent \cup {built[i]}
    BY <1>1 DEF Sent, Applied
  <1>4. \E d \in Range(current) : built[i] = Halve(d)
    BY <1>2 DEF RoundBuilt
  <1>5. CoinsHeld'
    BY <1>1, <1>2, <1>3, <1>4, CoinsKept
  <1>6. PostBuilt'
    BY <1>1, <1>2 DEF PostBuilt, RoundBuilt, Kept, Cut
  <1>7. InSplit'
    BY <1>1, <1>2, <1>5, <1>6 DEF InSplit
  <1> QED BY <1>1, <1>7 DEF SplitInv

\* Enough coins.
LEMMA SplitFinished ==
  ASSUME Grounded, SplitInv, Onward, step = "split", step' = step, Finish
  PROVE  SplitInv'
  <1>1. /\ pc = "round" /\ Len(current) >= target_count /\ pc' = "done"
        /\ UNCHANGED <<input_utxo, target_count, current, next, built, posted, pending, log, at>>
    BY DEF Finish, args, network
  <1>2. InSplit /\ CoinsHeld
    BY <1>1 DEF SplitInv, InSplit, Splitting
  <1>3. Sent' \subseteq Sent
    BY <1>1 DEF Sent, Applied
  <1>4. CoinsHeld'
    BY <1>1, <1>2, <1>3, CoinsKept
  <1>5. Len(current) \in Nat
    BY <1>2, ListOf DEF CoinsHeld
  <1>6. InSplit'
    BY <1>1, <1>2, <1>4, <1>5 DEF InSplit
  <1> QED BY <1>1, <1>6 DEF SplitInv

\* The coins do not show in time.
LEMMA SplitTimedOut ==
  ASSUME SplitInv, step = "split", step' = step, Timeout
  PROVE  SplitInv'
  BY DEF Timeout, SplitInv, Splitting

\* A round halves the first coins, as many as are missing, and passes on those
\* too small and the others.
LEMMA SplitBuilds ==
  ASSUME Grounded, SplitInv, Onward, step = "split", step' = step, Build
  PROVE  SplitInv'
  <1>1. /\ pc = "round" /\ Len(current) < target_count /\ posted' = {}
        /\ UNCHANGED <<input_utxo, target_count, current, pending, log, at>>
    BY DEF Build, args, network
  <1>2. InSplit /\ CoinsHeld
    BY <1>1 DEF SplitInv, InSplit, Splitting
  <1>3. PICK k : k = ToSplit
    OBVIOUS
  <1>4. PICK n : n = Len(current)
    OBVIOUS
  <1>5. n \in Nat /\ n >= 1 /\ Listed(current) /\ Apart(current) /\ DOMAIN current = 1..n
    BY <1>2, <1>4, ListOf DEF CoinsHeld
  <1>6. k \in 1..n /\ n + k <= target_count /\ target_count \in Nat
    <2>1. target_count \in Nat /\ n < target_count
      BY <1>1, <1>2, <1>4 DEF InSplit
    <2>2. PICK a : a = target_count - n
      OBVIOUS
    <2>3. k = Min({a, n}) /\ a \in Int /\ n \in Int
      BY <1>3, <1>4, <1>5, <2>1, <2>2 DEF ToSplit
    <2>4. k = IF a <= n THEN a ELSE n
      BY <2>3, MinTwo
    <2> QED BY <1>5, <2>1, <2>2, <2>4
  <1>7. PICK sp : sp = SubSeq(current, 1, k)
    OBVIOUS
  <1>8. PICK kp : kp = SubSeq(current, k + 1, n)
    OBVIOUS
  <1>9. PICK dust : dust = {c \in Range(sp) : c.amount < 2}
    OBVIOUS
  <1>10. PICK large : large = Sift(sp, Range(sp) \ dust)
    OBVIOUS
  <1>11. PICK small : small = Sift(sp, dust)
    OBVIOUS
  <1>12. /\ built' = [i \in DOMAIN large |-> Halve(large[i])]
         /\ next' = kp \o small
         /\ pc' = IF built' = <<>> THEN "done" ELSE "post"
    BY <1>3, <1>4, <1>7, <1>8, <1>9, <1>10, <1>11 DEF Build
  <1>13. /\ Listed(sp) /\ Len(sp) = k /\ Apart(sp) /\ Range(sp) = {current[i] : i \in 1..k}
         /\ \A i \in 1..k : sp[i] = current[i]
    <2>1. 1 \in 1..(Len(current) + 1) /\ k \in 0..Len(current) /\ 1 <= k + 1
      BY <1>4, <1>5, <1>6
    <2>2. PICK one : one = 1
      OBVIOUS
    <2>3. /\ Listed(sp) /\ Len(sp) = k - one + 1
          /\ \A i \in 1..Len(sp) : sp[i] = current[one + i - 1]
          /\ \A x : x \in Range(sp) <=> \E i \in one..k : x = current[i]
          /\ Apart(current) => Apart(sp)
      <3>1. /\ Listed(current) /\ one \in Nat /\ k \in Nat /\ 1 <= one /\ one <= k + 1 /\ k <= Len(current)
            /\ sp = Stretch(current, one, k)
        BY <1>5, <1>7, <2>1, <2>2 DEF Stretch
      <3>2. Taken(sp, current, one, k)
        BY <3>1, ListPart
      <3> QED BY <3>2 DEF Taken
    <2> QED BY <1>5, <1>6, <2>2, <2>3
  <1>14. Listed(kp) /\ Len(kp) = n - k /\ Apart(kp) /\ Range(kp) = {current[i] : i \in (k + 1)..n}
    <2>1. PICK m : m = k + 1
      OBVIOUS
    <2>2. m \in 1..(Len(current) + 1) /\ n \in 0..Len(current) /\ m <= n + 1
      BY <1>4, <1>5, <1>6, <2>1
    <2>3. /\ Listed(kp) /\ Len(kp) = n - m + 1
          /\ \A i \in 1..Len(kp) : kp[i] = current[m + i - 1]
          /\ \A x : x \in Range(kp) <=> \E i \in m..n : x = current[i]
          /\ Apart(current) => Apart(kp)
      <3>1. /\ Listed(current) /\ m \in Nat /\ n \in Nat /\ 1 <= m /\ m <= n + 1 /\ n <= Len(current)
            /\ kp = Stretch(current, m, n)
        BY <1>5, <1>8, <2>1, <2>2 DEF Stretch
      <3>2. Taken(kp, current, m, n)
        BY <3>1, ListPart
      <3> QED BY <3>2 DEF Taken
    <2>4. Len(kp) = n - k
      BY <1>5, <1>6, <2>1, <2>3
    <2> QED BY <1>5, <2>1, <2>3, <2>4
  <1>15. Listed(large) /\ Apart(large) /\ Range(large) = Range(sp) \ dust
    <2>1. PICK A : A = Range(sp) \ dust
      OBVIOUS
    <2>2. Listed(large) /\ Range(large) = {x \in Range(sp) : x \in A} /\ (Apart(sp) => Apart(large))
      BY <1>10, <1>13, <2>1, SiftOf
    <2> QED BY <1>13, <2>1, <2>2
  <1>16. Listed(small) /\ Apart(small) /\ Range(small) = dust
    <2>1. Listed(small) /\ Range(small) = {x \in Range(sp) : x \in dust} /\ (Apart(sp) => Apart(small))
      BY <1>11, <1>13, SiftOf
    <2> QED BY <1>9, <1>13, <2>1
  <1>17. Range(sp) \cup Range(kp) = Range(current) /\ Range(sp) \cap Range(kp) = {}
    <2>1. ASSUME NEW x \in Range(sp), x \in Range(kp) PROVE FALSE
      <3>1. PICK i \in 1..k : x = current[i]
        BY <1>13
      <3>2. PICK j \in (k + 1)..n : x = current[j]
        BY <1>14, <2>1
      <3>3. i \in DOMAIN current /\ j \in DOMAIN current /\ i # j
        BY <1>5, <1>6
      <3> QED BY <1>5, <3>1, <3>2, <3>3 DEF Apart
    <2>2. \A i \in DOMAIN current : i \in 1..k \/ i \in (k + 1)..n
      BY <1>5, <1>6
    <2>3. \A i \in 1..k : i \in DOMAIN current
      BY <1>5, <1>6
    <2>4. \A i \in (k + 1)..n : i \in DOMAIN current
      BY <1>5, <1>6
    <2> QED BY <1>13, <1>14, <2>1, <2>2, <2>3, <2>4 DEF Range
  <1>18. \A c \in Range(current) : c.amount \in Nat
    BY <1>2, MineAmount DEF CoinsHeld
  <1>19. PICK m : m = Len(large) /\ m \in Nat /\ DOMAIN large = 1..m /\ \A i \in 1..m : large[i] \in Range(large)
    BY <1>15, ListOf
  <1>20. Len(next') = (n - k) + (k - m) /\ m <= k
    <2>1. Cardinality(Range(sp)) = k /\ IsFiniteSet(Range(sp))
      BY <1>13, ListSize
    <2>2. Cardinality(Range(sp) \ dust) = m
      BY <1>15, <1>19, ListSize
    <2>3. Cardinality(dust) = Len(small) /\ IsFiniteSet(dust)
      BY <1>16, ListSize
    <2>4. PICK D : D = Range(sp)
      OBVIOUS
    <2>5. D \cap dust = dust
      BY <1>9, <2>4
    <2>6. Cardinality(D \ dust) = Cardinality(D) - Cardinality(D \cap dust)
      BY <2>1, <2>4, FS_Difference
    <2>7. m = k - Len(small)
      BY <2>1, <2>2, <2>3, <2>4, <2>5, <2>6
    <2>8. Len(kp \o small) = Len(kp) + Len(small)
      BY <1>14, <1>16, ListConcat
    <2>9. Len(small) \in Nat
      BY <1>16, ListOf
    <2> QED BY <1>5, <1>6, <1>12, <1>14, <1>19, <2>7, <2>8, <2>9
  <1>21. CASE built' = <<>>
    <2>1. Range(sp) = dust
      <3>1. DOMAIN built' = {} /\ DOMAIN built' = DOMAIN large
        BY <1>12, <1>21
      <3>2. Range(large) = {}
        BY <3>1 DEF Range
      <3> QED BY <1>9, <1>15, <3>2
    <2>2. \A i \in 1..k : current[i].amount < 2
      <3> TAKE i \in 1..k
      <3>1. current[i] \in Range(sp)
        BY <1>13
      <3> QED BY <1>9, <2>1, <3>1
    <2>3. pc' = "done" /\ ToSplit' = k
      BY <1>1, <1>3, <1>12, <1>21 DEF ToSplit
    <2>4. CoinsHeld'
      <3>1. ASSUME NEW c \in Range(current) PROVE Mine(c)' /\ Unclaimed(c)'
        BY <1>1, <1>2 DEF CoinsHeld, Mine, Unclaimed, Sent, Applied
      <3>2. ASSUME NEW c \in Range(current), Len(current) > 1 PROVE Free(c)'
        BY <1>1, <1>2, <3>2 DEF CoinsHeld, Free, Sent, Applied
      <3> QED BY <1>1, <1>2, <3>1, <3>2 DEF CoinsHeld
    <2>5. InSplit'
      BY <1>1, <1>2, <2>2, <2>3, <2>4 DEF InSplit
    <2> QED BY <1>1, <2>3, <2>5 DEF SplitInv
  <1>22. CASE built' # <<>>
    <2>1. pc' = "post"
      BY <1>12, <1>22
    <2>2. CoinsHeld'
      <3>1. ASSUME NEW c \in Range(current) PROVE Mine(c)' /\ Unclaimed(c)'
        BY <1>1, <1>2 DEF CoinsHeld, Mine, Unclaimed, Sent, Applied
      <3>2. ASSUME NEW c \in Range(current), Len(current) > 1 PROVE Free(c)'
        BY <1>1, <1>2, <3>2 DEF CoinsHeld, Free, Sent, Applied
      <3> QED BY <1>1, <1>2, <3>1, <3>2 DEF CoinsHeld
    <2>3. PICK b : b = built'
      OBVIOUS
    <2>4. b = [i \in 1..m |-> Halve(large[i])]
      BY <1>12, <1>19, <2>3
    <2>5. Listed(b) /\ Len(b) = m /\ DOMAIN b = 1..m /\ \A i \in 1..m : b[i] = Halve(large[i])
      <3>1. b = [i \in 1..m |-> b[i]]
        BY <2>4
      <3>2. Listed(b) /\ Len(b) = m
        BY <1>19, <3>1, ListMade
      <3> QED BY <2>4, <3>2
    <2>6. m >= 1
      <3>1. m # 0
        <4> SUFFICES ASSUME m = 0 PROVE FALSE
          OBVIOUS
        <4>1. b \in Seq(Range(b)) /\ Len(b) = 0
          BY <2>5 DEF Listed
        <4>2. b = <<>>
          BY <4>1, EmptySeq
        <4> QED BY <1>22, <2>3, <4>2
      <3> QED BY <1>19, <3>1
    <2>7. Apart(b)
      <3> SUFFICES ASSUME NEW i \in 1..m, NEW j \in 1..m, b[i] = b[j] PROVE i = j
        BY <2>5 DEF Apart
      <3>1. PICK x : x = large[i]
        OBVIOUS
      <3>2. PICK y : y = large[j]
        OBVIOUS
      <3>3. x = y
        BY <2>5, <3>1, <3>2, HalveOnce
      <3> QED BY <1>15, <1>19, <3>1, <3>2, <3>3 DEF Apart
    <2>8. \A i \in 1..m : large[i] \in Range(current) /\ large[i].amount >= 2
      <3> TAKE i \in 1..m
      <3>1. large[i] \in Range(sp) /\ large[i] \notin dust
        BY <1>15, <1>19
      <3> QED BY <1>9, <1>17, <1>18, <3>1
    <2>9. Listed(next') /\ Apart(next') /\ Range(next') = Range(kp) \cup dust
      <3>1. Range(kp) \cap Range(small) = {}
        BY <1>9, <1>16, <1>17
      <3>2. /\ Listed(kp \o small) /\ Len(kp \o small) = Len(kp) + Len(small)
            /\ Range(kp \o small) = Range(kp) \cup Range(small)
            /\ Apart(kp) /\ Apart(small) /\ Range(kp) \cap Range(small) = {} => Apart(kp \o small)
        BY <1>14, <1>16, ListConcat
      <3> QED BY <1>12, <1>14, <1>16, <3>1, <3>2
    <2>10. \A c \in Range(current) : Halve(c) \in Range(b) <=> c \in Range(large)
      <3> TAKE c \in Range(current)
      <3>1. ASSUME Halve(c) \in Range(b) PROVE c \in Range(large)
        <4>1. PICK i \in 1..m : Halve(c) = Halve(large[i])
          BY <2>5, <3>1 DEF Range
        <4>2. PICK x : x = large[i]
          OBVIOUS
        <4>3. c = x
          BY <4>1, <4>2, HalveOnce
        <4> QED BY <1>19, <4>2, <4>3
      <3>2. ASSUME c \in Range(large) PROVE Halve(c) \in Range(b)
        <4>1. PICK i \in 1..m : c = large[i]
          BY <1>19, <3>2 DEF Range
        <4> QED BY <2>5, <4>1 DEF Range
      <3> QED BY <3>1, <3>2
    <2>11. Kept' = Range(kp) \cup dust
      <3>1. Kept' = {c \in Range(current) : Halve(c) \notin Range(b)}
        BY <1>1, <2>3 DEF Kept, Cut
      <3>2. Kept' = Range(current) \ Range(large)
        BY <2>10, <3>1
      <3> QED BY <1>9, <1>15, <1>17, <3>2
    <2>12. RoundBuilt'
      <3>1. Listed(built)' /\ Apart(built)' /\ Len(built)' >= 1 /\ (posted \subseteq DOMAIN built)'
        BY <1>1, <2>3, <2>5, <2>6, <2>7
      <3>2. \A i \in DOMAIN built' : \E c \in Range(current) : built'[i] = Halve(c) /\ c.amount >= 2
        BY <2>3, <2>5, <2>8
      <3>3. Listed(next)' /\ Apart(next)'
        BY <2>9
      <3> QED BY <1>1, <3>1, <3>2, <3>3 DEF RoundBuilt
    <2>13. PostBuilt'
      <3>1. Len(next') + 2 * Len(built') <= target_count
        BY <1>5, <1>6, <1>19, <1>20, <2>3, <2>5
      <3> QED BY <1>1, <2>9, <2>11, <2>12, <3>1 DEF PostBuilt
    <2>14. InSplit'
      BY <1>1, <1>2, <2>1, <2>2, <2>13 DEF InSplit
    <2> QED BY <1>1, <2>1, <2>14 DEF SplitInv
  <1> QED BY <1>21, <1>22

\* The transfers of a round and the coins they cut.
LEMMA RoundOf ==
  ASSUME Grounded, CoinsHeld, RoundBuilt
  PROVE  /\ Cut \subseteq Range(current) /\ Coins(Range(current)) /\ Coins(Cut)
         /\ \A c \in Range(current) : c.amount \in Nat
         /\ Range(built) = {Halve(c) : c \in Cut}
         /\ New = UNION {Outputs(Halve(c)) : c \in Cut}
         /\ Coins(New) /\ Sum(New) = Sum(Cut)
         /\ \A x \in New : \E c \in Cut : x.tx = Halve(c) /\ x \in Outputs(Halve(c)) /\ Owner(x) = Funder
         /\ New \cap Range(current) = {}
  <1>1. \A c \in Range(current) : c.amount \in Nat
    BY MineAmount DEF CoinsHeld
  <1>2. Cut \subseteq Range(current)
    BY DEF Cut
  <1>3. Coins(Range(current))
    BY <1>1, ListSize DEF CoinsHeld, Coins
  <1>4. Coins(Cut)
    BY <1>2, <1>3, CoinsSubset
  <1>5. Range(built) = {Halve(c) : c \in Cut}
    <2>1. ASSUME NEW i \in DOMAIN built PROVE \E c \in Cut : built[i] = Halve(c)
      <3>1. PICK c \in Range(current) : built[i] = Halve(c)
        BY DEF RoundBuilt
      <3>2. c \in Cut
        BY <3>1 DEF Cut, Range
      <3> QED BY <3>1, <3>2
    <2>2. \A c \in Cut : Halve(c) \in Range(built)
      BY DEF Cut
    <2> QED BY <2>1, <2>2 DEF Range
  <1>6. New = UNION {Outputs(Halve(c)) : c \in Cut}
    <2>1. New = UNION {Outputs(t) : t \in Range(built)}
      BY DEF New, Range
    <2> QED BY <1>5, <2>1
  <1>7. Coins(New) /\ Sum(New) = Sum(Cut)
    <2>1. PICK A : A = Cut
      OBVIOUS
    <2>2. PICK N : N = New
      OBVIOUS
    <2>3. Coins(A) /\ N = UNION {Outputs(Halve(c)) : c \in A}
      BY <1>4, <1>6, <2>1, <2>2
    <2>4. Coins(N) /\ Sum(N) = Sum(A)
      BY <2>3, CutSum
    <2> QED BY <2>1, <2>2, <2>4
  <1>8. ASSUME NEW x \in New
        PROVE  \E c \in Cut : x.tx = Halve(c) /\ x \in Outputs(Halve(c)) /\ Owner(x) = Funder
    <2>1. PICK c \in Cut : x \in Outputs(Halve(c))
      BY <1>6
    <2>2. PICK t : t = Halve(c)
      OBVIOUS
    <2>3. c.amount \in Nat
      BY <1>1, <1>2
    <2>4. t.amount \in Nat /\ t.change \in Nat /\ \A y \in Outputs(t) : Owner(y) = Funder
      BY <2>2, <2>3, HalveOf
    <2>5. x.tx = t
      BY <2>1, <2>2, <2>4, OutputsOf
    <2> QED BY <2>1, <2>2, <2>4, <2>5
  <1>9. New \cap Range(current) = {}
    <2>1. \A c, d \in Range(current) : c.tx # Halve(d)
      BY DEF CoinsHeld
    <2> QED BY <1>2, <1>8, <2>1
  <1> QED BY <1>1, <1>2, <1>3, <1>4, <1>5, <1>6, <1>7, <1>8, <1>9

\* All answers are in: the coins expected next are those kept and those of the
\* transfers, worth the same together.
LEMMA SplitCollected ==
  ASSUME Grounded, SplitInv, Onward, step = "split", step' = step, Collect
  PROVE  SplitInv'
  <1>1. /\ pc = "post" /\ pc' \in {"wait", "failed"}
        /\ next' = next \o FlattenSeq([i \in DOMAIN built |-> Expected(built[i])])
        /\ posted = DOMAIN built
        /\ UNCHANGED <<input_utxo, target_count, current, built, posted, pending, log, at>>
    BY DEF Collect, args, network
  <1>2. InSplit /\ CoinsHeld /\ PostBuilt /\ RoundBuilt
    BY <1>1 DEF SplitInv, InSplit, Splitting, PostBuilt
  <1>3. CASE pc' = "failed"
    BY <1>3 DEF SplitInv, Splitting
  <1>4. CASE pc' = "wait"
    <2>1. PICK m : m = Len(built)
      OBVIOUS
    <2>2. m \in Nat \ {0} /\ Listed(built) /\ DOMAIN built = 1..m /\ Apart(built)
      <3>1. Listed(built) /\ Len(built) >= 1 /\ Apart(built)
        BY <1>2 DEF RoundBuilt
      <3> QED BY <2>1, <3>1, ListOf
    <2>3. PICK ss : ss = [i \in 1..m |-> Expected(built[i])]
      OBVIOUS
    <2>4. \A i \in 1..m : ss[i] = Expected(built[i])
      BY <2>3
    <2>5. Listed(ss) /\ Len(ss) = m
      <3>1. ss = [i \in 1..m |-> ss[i]] /\ m \in Nat
        BY <2>2, <2>3
      <3> QED BY <3>1, ListMade
    <2>6. ASSUME NEW i \in 1..m
          PROVE  /\ Listed(ss[i]) /\ Len(ss[i]) = 2 /\ Apart(ss[i]) /\ Range(ss[i]) = Outputs(built[i])
                 /\ \A x \in Range(ss[i]) : x.tx = built[i]
      <3>1. PICK c \in Range(current) : built[i] = Halve(c) /\ c.amount >= 2
        BY <1>2, <2>2 DEF RoundBuilt
      <3>2. c.amount \in Nat
        BY <1>2, RoundOf
      <3>3. PICK t : t = Halve(c)
        OBVIOUS
      <3>4. PICK e : e = Expected(t)
        OBVIOUS
      <3>5. Listed(e) /\ Len(e) = 2 /\ Apart(e) /\ Range(e) = Outputs(t)
        BY <3>1, <3>2, <3>3, <3>4, ExpectedOf
      <3>6. t.amount \in Nat /\ t.change \in Nat
        BY <3>2, <3>3, HalveOf
      <3>7. \A x \in Outputs(t) : x.tx = t
        BY <3>6, OutputsOf
      <3> QED BY <2>4, <3>1, <3>3, <3>4, <3>5, <3>7
    <2>7. ASSUME NEW i \in 1..m, NEW j \in 1..m, i # j PROVE Range(ss[i]) \cap Range(ss[j]) = {}
      <3>1. built[i] # built[j]
        BY <2>2, <2>7 DEF Apart
      <3> QED BY <2>6, <3>1
    <2>8. PICK u : u = FlattenSeq(ss)
      OBVIOUS
    <2>9. /\ Listed(u) /\ Len(u) = 2 * m /\ Apart(u) /\ Range(u) = UNION {Range(ss[i]) : i \in 1..m}
      BY <2>2, <2>5, <2>6, <2>7, <2>8, FlatOf
    <2>10. Range(u) = New
      <3>1. New = UNION {Outputs(built[i]) : i \in 1..m}
        BY <2>2 DEF New
      <3> QED BY <2>6, <2>9, <3>1
    <2>11. Kept \subseteq Range(current) /\ Kept \cap New = {} /\ Range(next) = Kept
      <3>1. Kept \subseteq Range(current)
        BY DEF Kept
      <3>2. New \cap Range(current) = {}
        BY <1>2, RoundOf
      <3>3. Range(next) = Kept
        BY <1>2 DEF PostBuilt
      <3> QED BY <3>1, <3>2, <3>3
    <2>12. /\ Listed(next \o u) /\ Len(next \o u) = Len(next) + Len(u)
           /\ Range(next \o u) = Range(next) \cup Range(u)
           /\ Apart(next \o u)
      <3>1. Listed(next) /\ Apart(next) /\ Range(next) \cap Range(u) = {}
        BY <1>2, <2>10, <2>11 DEF RoundBuilt
      <3>2. /\ Listed(next \o u) /\ Len(next \o u) = Len(next) + Len(u)
            /\ Range(next \o u) = Range(next) \cup Range(u)
            /\ Apart(next) /\ Apart(u) /\ Range(next) \cap Range(u) = {} => Apart(next \o u)
        BY <2>9, <3>1, ListConcat
      <3> QED BY <2>9, <3>1, <3>2
    <2>13. next' = next \o u
      BY <1>1, <2>2, <2>3, <2>8
    <2>14. Sum(Range(next')) = input_utxo.amount
      <3>1. Coins(Range(current)) /\ Coins(New) /\ Sum(New) = Sum(Cut) /\ Cut \subseteq Range(current)
        BY <1>2, RoundOf
      <3>2. PICK K : K = Kept
        OBVIOUS
      <3>3. PICK A : A = Cut
        OBVIOUS
      <3>4. PICK S : S = Range(current)
        OBVIOUS
      <3>5. Coins(S) /\ A \in SUBSET S /\ K = S \ A
        BY <3>1, <3>2, <3>3, <3>4 DEF Kept
      <3>6. Coins(K)
        BY <3>5, CoinsSubset
      <3>7. Sum(S) = Sum(S \ A) + Sum(A)
        BY <3>5, SumMinus
      <3>8. PICK N : N = New
        OBVIOUS
      <3>9. Coins(N) /\ K \cap N = {}
        BY <2>11, <3>1, <3>2, <3>8
      <3>10. Sum(K \cup N) = Sum(K) + Sum(N)
        BY <3>6, <3>9, SumUnion
      <3>11. Range(next') = K \cup N
        BY <2>10, <2>11, <2>12, <2>13, <3>2, <3>8
      <3>12. Sum(S) = input_utxo.amount
        BY <1>2, <3>4 DEF CoinsHeld
      <3> QED BY <3>1, <3>3, <3>5, <3>7, <3>8, <3>10, <3>11, <3>12
    <2>15. CoinsHeld'
      <3>1. ASSUME NEW c \in Range(current) PROVE Mine(c)' /\ Unclaimed(c)'
        BY <1>1, <1>2 DEF CoinsHeld, Mine, Unclaimed, Sent, Applied
      <3>2. ASSUME NEW c \in Range(current), Len(current) > 1 PROVE Free(c)'
        <4>1. Free(c)
          BY <1>2, <3>2 DEF CoinsHeld
        <4> QED BY <1>1, <1>4, <4>1 DEF Free, Sent, Applied
      <3> QED BY <1>1, <1>2, <3>1, <3>2 DEF CoinsHeld
    <2>16. RoundBuilt'
      <3>1. Listed(next)' /\ Apart(next)'
        BY <2>12, <2>13
      <3> QED BY <1>1, <1>2, <3>1 DEF RoundBuilt
    <2>17. WaitBuilt'
      <3>1. (Kept \cup New)' = Kept \cup New
        BY <1>1 DEF Kept, Cut, New
      <3>2. Range(next)' = Kept \cup New
        BY <2>10, <2>11, <2>12, <2>13
      <3>3. Len(next)' = Len(next) + 2 * m /\ Len(next) + 2 * m <= target_count /\ Len(next) \in Nat
        BY <1>2, <2>1, <2>9, <2>12, <2>13, ListOf DEF PostBuilt, RoundBuilt
      <3>4. Len(next)' >= 2 /\ Len(next)' <= target_count
        BY <2>2, <3>3
      <3> QED BY <1>1, <2>14, <2>16, <3>1, <3>2, <3>4 DEF WaitBuilt
    <2>18. InSplit'
      BY <1>1, <1>2, <1>4, <2>15, <2>17 DEF InSplit
    <2> QED BY <1>4, <2>18 DEF SplitInv
  <1> QED BY <1>1, <1>3, <1>4

\* Node 1 shows an output of every transfer of the round, so it has applied
\* them.  Nobody spends from them: they halve coins of this round.
LEMMA SplitShown ==
  ASSUME Grounded, SplitInv, Onward, step = "split", step' = step, Poll
  PROVE  SplitInv'
  <1>1. /\ pc = "wait" /\ Visible /\ current' = next /\ pc' = "round"
        /\ UNCHANGED <<input_utxo, target_count, next, built, posted, pending, log, at>>
    BY DEF Poll, args, network
  <1>2. InSplit /\ CoinsHeld /\ WaitBuilt /\ RoundBuilt
    BY <1>1 DEF SplitInv, InSplit, Splitting, WaitBuilt
  <1>3. /\ Cut \subseteq Range(current) /\ Range(built) = {Halve(c) : c \in Cut}
        /\ \A x \in New : \E c \in Cut : x.tx = Halve(c) /\ x \in Outputs(Halve(c)) /\ Owner(x) = Funder
        /\ New \cap Range(current) = {}
    BY <1>2, RoundOf
  <1>4. Range(next) = Kept \cup New /\ Listed(next) /\ Apart(next)
    BY <1>2 DEF WaitBuilt, RoundBuilt
  <1>5. Applied(at[1]) \subseteq Sent /\ \A t \in Sent : Founded(t)
    BY NodeOne, AppliedSent DEF Grounded, Made
  <1>6. \A c \in Cut : Halve(c) \in Applied(at[1])
    <2> TAKE c \in Cut
    <2>1. PICK i \in DOMAIN built : Halve(c) = built[i]
      BY <1>3 DEF Range
    <2>2. PICK u \in Utxos(1, Funder) : u.tx = built[i]
      BY <1>1 DEF Visible
    <2>3. Mine(u)
      BY WalletCoin
    <2> QED BY <2>1, <2>2, <2>3 DEF Mine
  <1>7. \A c \in Range(current) : Mine(c) /\ Unclaimed(c)
    BY <1>2 DEF CoinsHeld
  <1>8. \A c, d \in Range(current) : c.tx # Halve(d)
    BY <1>2 DEF CoinsHeld
  <1>9. Kept \subseteq Range(current) /\ \A c \in Kept : c \notin Cut
    BY DEF Kept
  <1>10. \A x \in New : \A t \in Sent : x \notin t.inputs
    <2> TAKE x \in New
    <2>1. PICK c \in Cut : x.tx = Halve(c)
      BY <1>3
    <2>2. Unclaimed(c)
      BY <1>3, <1>7
    <2> QED BY <2>1, <2>2 DEF Unclaimed
  <1>11. \A x \in New : Halve(x) \notin Applied(at[1])
    <2> TAKE x \in New
    <2>1. x \in Halve(x).inputs
      BY DEF Halve, BuildTransfer
    <2> QED BY <1>5, <1>10, <2>1
  <1>12. ASSUME NEW x \in Range(next) PROVE Mine(x)
    <2>1. CASE x \in Kept
      BY <1>7, <1>9, <2>1
    <2>2. CASE x \in New
      <3>1. PICK c \in Cut : x.tx = Halve(c) /\ x \in Outputs(Halve(c)) /\ Owner(x) = Funder
        BY <1>3, <2>2
      <3> QED BY <1>6, <3>1 DEF Mine
    <2> QED BY <1>4, <2>1, <2>2
  <1>13. ASSUME NEW x \in Range(next) PROVE Unclaimed(x)
    <2>1. CASE x \in Kept
      BY <1>7, <1>9, <2>1
    <2>2. CASE x \in New
      BY <1>5, <1>11, <2>2 DEF Unclaimed, Founded
    <2> QED BY <1>4, <2>1, <2>2
  <1>14. ASSUME NEW x \in Range(next), NEW y \in Range(next), x.tx = Halve(y) PROVE FALSE
    <2>1. x.tx \in Applied(at[1])
      BY <1>12 DEF Mine
    <2>2. y \notin New
      BY <1>11, <1>14, <2>1
    <2>3. y \in Kept
      BY <1>4, <2>2
    <2>4. CASE x \in Kept
      BY <1>8, <1>9, <1>14, <2>3, <2>4
    <2>5. CASE x \in New
      <3>1. PICK c \in Cut : x.tx = Halve(c)
        BY <1>3, <2>5
      <3>2. c = y
        BY <1>14, <3>1, HalveOnce
      <3> QED BY <1>9, <2>3, <3>2
    <2> QED BY <1>4, <2>4, <2>5
  <1>15. ASSUME NEW x \in Range(next), NEW t \in Sent PROVE x \notin t.inputs
    <2>1. CASE x \in New
      BY <1>10, <2>1
    <2>2. CASE x \in Kept
      <3>1. Len(current) > 1
        <4>1. Len(current) \in Nat /\ Len(current) >= 1 /\ Listed(current) /\ DOMAIN current = 1..Len(current)
          BY <1>2, ListOf DEF CoinsHeld
        <4>2. CASE Len(current) = 1
          <5>1. \A a, b \in Range(current) : a = b
            <6>1. DOMAIN current = {1}
              BY <4>1, <4>2
            <6> QED BY <6>1 DEF Range
          <5>2. 1 \in DOMAIN built
            BY <1>2, ListOf DEF RoundBuilt
          <5>3. Cut # {}
            BY <1>3, <5>2 DEF Range
          <5> QED BY <1>3, <1>9, <2>2, <5>1, <5>3
        <4> QED BY <4>1, <4>2
      <3>2. Free(x)
        BY <1>2, <1>9, <2>2, <3>1 DEF CoinsHeld
      <3> SUFFICES ASSUME x \in t.inputs PROVE FALSE
        OBVIOUS
      <3>3. PICK i \in posted : t = built[i]
        BY <3>2 DEF Free
      <3>4. PICK c \in Cut : built[i] = Halve(c)
        BY <1>2, <1>3, <3>3 DEF RoundBuilt, Range
      <3>5. Halve(c).inputs = {c}
        BY DEF Halve, BuildTransfer
      <3> QED BY <1>9, <2>2, <3>3, <3>4, <3>5
    <2> QED BY <1>4, <2>1, <2>2
  <1>16. CoinsHeld'
    <2>1. Sent' = Sent /\ Applied(at[1])' = Applied(at[1])
      BY <1>1 DEF Sent, Applied
    <2>2. ASSUME NEW c \in Range(next) PROVE Mine(c)' /\ Unclaimed(c)' /\ Free(c)'
      BY <1>1, <1>12, <1>13, <1>15, <2>1 DEF Mine, Unclaimed, Free
    <2>3. /\ Range(current)' = Range(next) /\ Len(current)' = Len(next)
          /\ Listed(current)' /\ Apart(current)'
      BY <1>1, <1>4
    <2>4. Len(next) >= 2 /\ Len(next) \in Nat /\ Sum(Range(next)) = input_utxo.amount
      BY <1>2, <1>4, ListOf DEF WaitBuilt
    <2>5. Len(current)' >= 1 /\ ~(Len(current)' = 1)
      BY <2>3, <2>4
    <2> QED BY <1>1, <1>14, <2>2, <2>3, <2>4, <2>5 DEF CoinsHeld
  <1>17. InSplit'
    <2>1. Len(next) <= target_count /\ target_count \in Nat
      BY <1>2 DEF WaitBuilt, InSplit
    <2> QED BY <1>1, <1>16, <2>1 DEF InSplit
  <1> QED BY <1>1, <1>17 DEF SplitInv

-----------------------------------------------------------------------------
(* What a run builds.                                                      *)

\* Coins that node 1 has had, of the funder.
Spendable(S) == Coins(S) /\ \A c \in S : c.tx \in Applied(at[1]) /\ Owner(c) = Funder

\* A transfer of such coins.
LEMMA TransferFounded ==
  ASSUME NEW S, Spendable(S), NEW to, NEW a \in Nat, NEW t, t = BuildTransfer(S, to, a)
  PROVE  Founded(t) /\ t.inputs = S /\ t.to = to /\ t.amount = a
  <1>1. Coins(S)
    BY DEF Spendable
  <1>2. /\ t.inputs = S /\ t.to = to /\ t.amount = a /\ t.signed
        /\ t.change \in Nat /\ t.amount + t.change >= Sum(S)
        /\ Sum(S) >= a => t.amount + t.change = Sum(S)
    BY <1>1, TransferOf
  <1> QED BY <1>1, <1>2 DEF Founded, Spendable

\* The coins of the wallet, and of a split, are such coins.
LEMMA WalletSpendable ==
  ASSUME Grounded
  PROVE  \A S \in SUBSET Utxos(1, Funder) : Spendable(S)
  <1>1. Coins(Utxos(1, Funder))
    <2>1. PICK k : k = at[1]
      OBVIOUS
    <2>2. k \in Nat /\ \A t \in Applied(k) : t.amount \in Nat /\ t.change \in Nat
      BY <2>1, NodeOne, AppliedSent DEF Grounded, Made, Founded
    <2>3. Coins(Unspent(k))
      BY <2>2, UnspentCoins
    <2>4. PICK U : U = Unspent(k)
      OBVIOUS
    <2>5. PICK W : W = Utxos(1, Funder)
      OBVIOUS
    <2>6. Coins(U) /\ W \in SUBSET U
      BY <2>1, <2>3, <2>4, <2>5 DEF Utxos
    <2>7. Coins(W)
      BY <2>6, CoinsSubset
    <2> QED BY <2>5, <2>7
  <1>2. \A c \in Utxos(1, Funder) : c.tx \in Applied(at[1]) /\ Owner(c) = Funder
    BY WalletCoin DEF Mine
  <1> TAKE S \in SUBSET Utxos(1, Funder)
  <1>3. Coins(S)
    <2>1. PICK W : W = Utxos(1, Funder)
      OBVIOUS
    <2>2. Coins(W) /\ S \in SUBSET W
      BY <1>1, <2>1
    <2> QED BY <2>2, CoinsSubset
  <1> QED BY <1>2, <1>3 DEF Spendable

\* One coin that node 1 has had.
LEMMA MineSpendable ==
  ASSUME Grounded, NEW c, Mine(c)
  PROVE  Spendable({c})
  BY MineAmount, CoinsOne DEF Spendable, Mine

\* Transfers of the payments.
LEMMA TransfersReady ==
  ASSUME Payments(script.pays), NEW coins, \A i \in DOMAIN script.pays : Spendable(coins[i]),
         NEW u, u = Transfers(script.pays, coins)
  PROVE  Ready(u)
  <1>1. PICK pays : pays = script.pays
    OBVIOUS
  <1>2. Payments(pays) /\ u = Transfers(pays, coins) /\ \A i \in DOMAIN pays : Coins(coins[i])
    BY <1>1 DEF Spendable
  <1>3. /\ Listed(u)
        /\ \A t \in Range(u) : \E i \in DOMAIN pays :
              t = BuildTransfer(coins[i], pays[i].to, pays[i].amount) /\ coins[i] # {}
        /\ \A i \in DOMAIN pays : coins[i] # {} =>
              BuildTransfer(coins[i], pays[i].to, pays[i].amount) \in Range(u)
    BY <1>2, TransfersOf
  <1>4. ASSUME NEW i \in DOMAIN pays, NEW t, t = BuildTransfer(coins[i], pays[i].to, pays[i].amount)
        PROVE  Founded(t) /\ t.inputs = coins[i] /\ t.to = pays[i].to /\ t.amount = pays[i].amount
    <2>1. PICK S : S = coins[i]
      OBVIOUS
    <2>2. PICK to : to = pays[i].to
      OBVIOUS
    <2>3. PICK a : a = pays[i].amount
      OBVIOUS
    <2>4. a \in Nat /\ Spendable(S) /\ t = BuildTransfer(S, to, a)
      BY <1>1, <1>2, <1>4, <2>1, <2>2, <2>3 DEF Payments
    <2>5. Founded(t) /\ t.inputs = S /\ t.to = to /\ t.amount = a
      BY <2>4, TransferFounded
    <2> QED BY <2>1, <2>2, <2>3, <2>5
  <1>5. \A t \in Range(u) : Founded(t) /\ t.inputs # {}
    BY <1>3, <1>4
  <1>6. \A t \in Range(u) : \E i \in DOMAIN pays : t.to = pays[i].to /\ t.amount = pays[i].amount
    BY <1>3, <1>4
  <1>7. ASSUME NEW t \in Range(u), NEW r \in Range(u), t.to = r.to PROVE t = r
    <2>1. PICK i \in DOMAIN pays : t = BuildTransfer(coins[i], pays[i].to, pays[i].amount)
      BY <1>3
    <2>2. PICK j \in DOMAIN pays : r = BuildTransfer(coins[j], pays[j].to, pays[j].amount)
      BY <1>3
    <2>3. i = j
      <3>1. pays[i].to = pays[j].to
        BY <1>4, <1>7, <2>1, <2>2
      <3> QED BY <1>2, <3>1 DEF Payments
    <2> QED BY <2>1, <2>2, <2>3
  <1> QED BY <1>1, <1>3, <1>5, <1>6, <1>7 DEF Ready

\* Copies of them.
LEMMA SubmittingReady ==
  ASSUME NEW s, Ready(s)
  PROVE  Ready(Submitting(s))
  <1>1. CASE ~script.each
    BY <1>1 DEF Submitting
  <1>2. CASE script.each
    <2>1. PICK u : u = Copies(s)
      OBVIOUS
    <2>2. Listed(u) /\ Range(u) \subseteq Range(s)
      BY <2>1, CopiesOf DEF Ready
    <2>3. Ready(u)
      BY <2>2 DEF Ready
    <2> QED BY <1>2, <2>1, <2>3 DEF Submitting
  <1> QED BY <1>1, <1>2

\* The malformed transfers.
LEMMA MalformedReady ==
  ASSUME Grounded, ~script.waits, NEW c \in Utxos(1, Funder)
  PROVE  Ready(Malformed(c))
  <1>1. Spendable({c}) /\ c.amount \in Nat
    BY WalletCoin, MineSpendable
  <1>2. PICK S : S = {c}
    OBVIOUS
  <1>3. PICK h : h = c.amount \div 2
    OBVIOUS
  <1>4. PICK g : g = Coin(log[1], 2, 1)
    OBVIOUS
  <1>5. Spendable({g})
    <2>1. g.amount = 1 /\ g.index = 2 /\ g.tx = log[1]
      BY <1>4 DEF Coin
    <2>2. log[1] \in Applied(at[1])
      <3>1. at[1] \in Nat /\ at[1] >= 1
        BY NodeOne, AppliedSent DEF Grounded
      <3> QED BY <3>1 DEF Applied
    <2>3. Coins({g})
      BY <2>1, CoinsOne
    <2> QED BY <2>1, <2>2, <2>3 DEF Spendable, Owner
  <1>6. PICK T : T = {g}
    OBVIOUS
  <1>7. PICK x : x = BuildTransfer(S, 9, h)
    OBVIOUS
  <1>8. PICK a : a = [x EXCEPT !.signed = FALSE, !.change = 0]
    OBVIOUS
  <1>9. PICK b : b = BuildTransfer(S, 9, c.amount + 1)
    OBVIOUS
  <1>10. PICK d : d = BuildTransfer(T, 9, 1)
    OBVIOUS
  <1>11. Founded(b) /\ b.inputs = S
    <2>1. PICK m : m = c.amount + 1
      OBVIOUS
    <2>2. m \in Nat /\ Spendable(S) /\ b = BuildTransfer(S, 9, m)
      BY <1>1, <1>2, <1>9, <2>1
    <2> QED BY <2>2, TransferFounded
  <1>12. Founded(d) /\ d.inputs = T
    <2>1. 1 \in Nat /\ Spendable(T)
      BY <1>5, <1>6
    <2> QED BY <1>10, <2>1, TransferFounded
  <1>13. Founded(a) /\ a.inputs = S
    <2>1. h \in Nat /\ Spendable(S)
      BY <1>1, <1>2, <1>3
    <2>2. /\ a.amount = h /\ a.inputs = S /\ a.signed = FALSE /\ a.change = 0
      BY <1>7, <1>8 DEF BuildTransfer
    <2> QED BY <2>1, <2>2 DEF Founded, Spendable
  <1>14. PICK u : u = Malformed(c)
    OBVIOUS
  <1>15. u = <<a, b, d>>
    BY <1>2, <1>3, <1>4, <1>6, <1>7, <1>8, <1>9, <1>10, <1>14 DEF Malformed
  <1>16. Listed(u) /\ Range(u) \subseteq {a, b, d}
    <2>1. u \in Seq({a, b, d})
      BY <1>15
    <2> QED BY <2>1, SeqListed
  <1>17. S # {} /\ T # {}
    BY <1>2, <1>6
  <1> QED BY <1>11, <1>12, <1>13, <1>14, <1>16, <1>17 DEF Ready

-----------------------------------------------------------------------------
(* Every step.                                                             *)

\* Only the POST requests send anything.
LEMMA StepsOfSent ==
  ASSUME NetTyped, [Move]_shown
  PROVE  \/ Sent' \subseteq Sent
         \/ SplitStep /\ \E i \in DOMAIN built : Post(i)
         \/ \E i \in DOMAIN txs : PostPayment(i)
  <1>1. CASE UNCHANGED shown
    BY <1>1 DEF shown, network, Sent, Applied
  <1>2. CASE \E s \in Scripts : Start(s)
    BY <1>2 DEF Start, network, Sent, Applied
  <1>3. CASE RequestFails \/ Snapshot \/ Fetch \/ AfterSplit
    BY <1>3 DEF RequestFails, Snapshot, Fetch, AfterSplit, network, Sent, Applied
  <1>4. CASE SplitStep
    <2>1. CASE Finish \/ Build \/ Collect \/ Poll \/ Timeout
      BY <2>1 DEF Finish, Build, Collect, Poll, Timeout, network, Sent, Applied
    <2> QED BY <1>4, <2>1 DEF SplitStep, Client
  <1>5. CASE AllPosted \/ WaitBlocks \/ Confirm \/ Expire \/ ReadFunder \/ ReadRecipients \/ Conserved
    BY <1>5 DEF AllPosted, WaitBlocks, Confirm, Expire, ReadFunder, ReadRecipients, Conserved,
                network, Sent, Applied
  <1>6. CASE NetworkStep
    <2>1. CASE \E n \in Nodes : Apply(n)
      BY <2>1 DEF Apply, Sent, Applied
    <2>2. ASSUME NEW tx \in pending, Evict(tx) PROVE Sent' \subseteq Sent
      BY <2>2 DEF Evict, Sent, Applied
    <2>3. ASSUME NEW tx \in pending, Include(tx) PROVE Sent' \subseteq Sent
      <3>1. log' = Append(log, tx) /\ pending' = pending \ {tx}
        BY <2>3 DEF Include
      <3>2. PICK m : m = Len(log) /\ m \in Nat
        BY ListOf DEF NetTyped
      <3>3. PICK R : R = Range(log) \cup {tx}
        OBVIOUS
      <3>4. log \in Seq(R) /\ tx \in R
        <4>1. Range(log) \subseteq R
          BY <3>3
        <4> QED BY <3>3, <4>1, SeqMonotonic DEF NetTyped, Listed
      <3>5. Len(log') = m + 1 /\ log'[m + 1] = tx /\ \A i \in 1..m : log'[i] = log[i]
        BY <3>1, <3>2, <3>4
      <3>6. \A i \in 1..(m + 1) : i \in 1..m \/ i = m + 1
        BY <3>2
      <3>7. \A i \in 1..Len(log') : log'[i] \in Applied(Len(log)) \/ log'[i] = tx
        BY <3>2, <3>5, <3>6 DEF Applied
      <3> QED BY <3>1, <3>7 DEF Sent, Applied
    <2> QED BY <1>6, <2>1, <2>2, <2>3 DEF NetworkStep, Network
  <1> QED BY <1>1, <1>2, <1>3, <1>4, <1>5, <1>6 DEF Move, ScriptStep

\* What a run builds from the wallet.
LEMMA FetchBuilds ==
  ASSUME Grounded, RunInv, Fetch
  PROVE  \/ UNCHANGED <<args, locals>> /\ step' \in {"post", "fail"} /\ Ready(txs')
         \/ /\ \E c \in Utxos(1, Funder) : Call(c, script.split)
            /\ script.split \in Nat /\ step' = "split" /\ txs' = txs
  <1>1. Scripted(script)
    BY ScriptsOf DEF RunInv
  <1> DEFINE utxos == Utxos(1, Funder)
  <1>2. \/ /\ \E sel \in Selections(utxos, script.pays) :
                /\ txs' = Submitting(Transfers(script.pays, sel))
                /\ step' = IF script.skips \/ \A i \in DOMAIN sel : sel[i] # {} THEN "post" ELSE "fail"
           /\ UNCHANGED <<args, locals>>
        \/ /\ script.bad /\ \E coin \in utxos : txs' = Submitting(Malformed(coin))
           /\ step' = "post" /\ UNCHANGED <<args, locals>>
        \/ /\ script.split # NoSplit /\ \E coin \in utxos : Call(coin, script.split)
           /\ step' = "split" /\ txs' = txs
    BY DEF Fetch
  <1>3. ASSUME NEW sel \in Selections(utxos, script.pays), txs' = Submitting(Transfers(script.pays, sel))
        PROVE  Ready(txs')
    <2>1. sel \in [DOMAIN script.pays -> SUBSET utxos]
      BY DEF Selections
    <2>2. \A i \in DOMAIN script.pays : Spendable(sel[i])
      BY <2>1, WalletSpendable
    <2>3. PICK u : u = Transfers(script.pays, sel)
      OBVIOUS
    <2>4. Ready(u)
      BY <1>1, <2>2, <2>3, TransfersReady DEF Scripted
    <2> QED BY <1>3, <2>3, <2>4, SubmittingReady
  <1>4. ASSUME script.bad, NEW coin \in utxos, txs' = Submitting(Malformed(coin))
        PROVE  Ready(txs')
    <2>1. PICK u : u = Malformed(coin)
      OBVIOUS
    <2>2. Ready(u)
      BY <1>1, <1>4, <2>1, MalformedReady DEF Scripted
    <2> QED BY <1>4, <2>1, <2>2, SubmittingReady
  <1>5. script.split # NoSplit => script.split \in Nat
    BY <1>1 DEF Scripted
  <1> HIDE DEF utxos
  <1>6. CASE /\ \E sel \in Selections(utxos, script.pays) :
                  /\ txs' = Submitting(Transfers(script.pays, sel))
                  /\ step' = IF script.skips \/ \A i \in DOMAIN sel : sel[i] # {} THEN "post" ELSE "fail"
             /\ UNCHANGED <<args, locals>>
    <2>1. PICK sel \in Selections(utxos, script.pays) :
              /\ txs' = Submitting(Transfers(script.pays, sel))
              /\ step' = IF script.skips \/ \A i \in DOMAIN sel : sel[i] # {} THEN "post" ELSE "fail"
      BY <1>6
    <2>2. Ready(txs')
      BY <1>3, <2>1
    <2>3. step' \in {"post", "fail"}
      BY <2>1
    <2> QED BY <1>6, <2>2, <2>3
  <1>7. CASE /\ script.bad /\ \E coin \in utxos : txs' = Submitting(Malformed(coin))
             /\ step' = "post" /\ UNCHANGED <<args, locals>>
    BY <1>4, <1>7
  <1>8. CASE /\ script.split # NoSplit /\ \E coin \in utxos : Call(coin, script.split)
             /\ step' = "split" /\ txs' = txs
    BY <1>5, <1>8 DEF utxos
  <1> QED BY <1>2, <1>6, <1>7, <1>8

\* What a run builds from the coins of a split.
LEMMA AfterBuilds ==
  ASSUME Grounded, SplitInv, RunInv, AfterSplit
  PROVE  \/ step' = "fail" /\ txs' = txs
         \/ /\ step' = "post" /\ Ready(txs')
            /\ \A i \in DOMAIN script.pays : \E t \in Range(txs') : t.to = script.pays[i].to
  <1>1. \/ step' = "fail" /\ txs' = txs
        \/ /\ step = "split" /\ pc = "done" /\ Len(current) >= Len(script.pays) /\ step' = "post"
           /\ \E order \in Bijection(DOMAIN current, DOMAIN current) :
                 txs' = Transfers(script.pays, [i \in DOMAIN script.pays |-> {current[order[i]]}])
    BY DEF AfterSplit
  <1>2. ASSUME step = "split", pc = "done", Len(current) >= Len(script.pays),
               NEW order \in Bijection(DOMAIN current, DOMAIN current),
               txs' = Transfers(script.pays, [i \in DOMAIN script.pays |-> {current[order[i]]}])
        PROVE  /\ Ready(txs')
               /\ \A i \in DOMAIN script.pays : \E t \in Range(txs') : t.to = script.pays[i].to
    <2>1. PICK pays : pays = script.pays
      OBVIOUS
    <2>2. Payments(pays)
      BY <2>1, ScriptsOf DEF RunInv, Scripted
    <2>3. CoinsHeld
      BY <1>2 DEF SplitInv, InSplit, Splitting
    <2>4. Listed(current) /\ DOMAIN current = 1..Len(current) /\ Len(current) \in Nat
      BY <2>3, ListOf DEF CoinsHeld
    <2>5. DOMAIN pays = 1..Len(pays) /\ Len(pays) \in Nat
      BY <2>2, ListOf DEF Payments
    <2>6. \A i \in DOMAIN pays : i \in DOMAIN current
      BY <1>2, <2>1, <2>4, <2>5
    <2>7. order \in [DOMAIN current -> DOMAIN current]
      BY <1>2 DEF Bijection, Injection
    <2>8. PICK coins : coins = [i \in DOMAIN pays |-> {current[order[i]]}]
      OBVIOUS
    <2>9. ASSUME NEW i \in DOMAIN pays PROVE Spendable(coins[i]) /\ coins[i] # {}
      <3>1. PICK c : c = current[order[i]]
        OBVIOUS
      <3>2. c \in Range(current)
        BY <2>6, <2>7, <3>1 DEF Range
      <3>3. Mine(c) /\ coins[i] = {c}
        BY <2>3, <2>8, <3>1, <3>2 DEF CoinsHeld
      <3> QED BY <3>3, MineSpendable
    <2>10. PICK u : u = txs'
      OBVIOUS
    <2>11. u = Transfers(script.pays, coins) /\ u = Transfers(pays, coins)
      BY <1>2, <2>1, <2>8, <2>10
    <2>12. Ready(u)
      <3>1. \A i \in DOMAIN script.pays : Spendable(coins[i])
        BY <2>1, <2>9
      <3> QED BY <2>1, <2>2, <2>11, <3>1, TransfersReady
    <2>13. ASSUME NEW i \in DOMAIN pays PROVE \E t \in Range(u) : t.to = pays[i].to
      <3>1. \A j \in DOMAIN pays : Coins(coins[j])
        BY <2>9 DEF Spendable
      <3>2. /\ Listed(u)
            /\ \A t \in Range(u) : \E j \in DOMAIN pays :
                  t = BuildTransfer(coins[j], pays[j].to, pays[j].amount) /\ coins[j] # {}
            /\ \A j \in DOMAIN pays : coins[j] # {} =>
                  BuildTransfer(coins[j], pays[j].to, pays[j].amount) \in Range(u)
        BY <2>2, <2>11, <3>1, TransfersOf
      <3>3. BuildTransfer(coins[i], pays[i].to, pays[i].amount) \in Range(u)
        BY <2>9, <3>2
      <3>4. BuildTransfer(coins[i], pays[i].to, pays[i].amount).to = pays[i].to
        BY DEF BuildTransfer
      <3> QED BY <3>3, <3>4
    <2> QED BY <2>1, <2>10, <2>12, <2>13
  <1> QED BY <1>1, <1>2

\* The split, in every step.
LEMMA SplitNext ==
  ASSUME Grounded, SplitInv, RunInv, [Move]_shown
  PROVE  SplitInv'
  <1>0. Onward /\ NetTyped
    BY ChainKept DEF Grounded
  <1>1. CASE UNCHANGED shown
    <2>1. UNCHANGED <<args, locals, step>> /\ Sent' \subseteq Sent
      BY <1>1 DEF shown, network, Sent, Applied
    <2> QED BY <1>0, <2>1, SplitKept
  <1>2. CASE NetworkStep
    <2>1. UNCHANGED <<args, locals, step>>
      BY <1>2 DEF NetworkStep, Network, Include, Evict, Apply
    <2>2. Sent' \subseteq Sent
      <3>1. ~(SplitStep /\ \E i \in DOMAIN built : Post(i))
        BY <2>1 DEF Post, locals
      <3>2. ~(\E i \in DOMAIN txs : PostPayment(i))
        BY <1>2 DEF NetworkStep, PostPayment
      <3> QED BY <1>0, <3>1, <3>2, StepsOfSent
    <2> QED BY <1>0, <2>1, <2>2, SplitKept
  <1>3. CASE SplitStep
    <2>1. step = "split" /\ step' = step /\ Client
      BY <1>3 DEF SplitStep
    <2> QED BY <1>0, <2>1, SplitPosted, SplitFinished, SplitBuilds, SplitCollected, SplitShown, SplitTimedOut
            DEF Client
  <1>4. CASE Fetch
    <2>1. step = "fetch" /\ UNCHANGED network
      BY <1>4 DEF Fetch
    <2>2. CASE UNCHANGED <<args, locals>> /\ step' \in {"post", "fail"}
      BY <2>1, <2>2 DEF SplitInv, Splitting, locals
    <2>3. CASE (\E c \in Utxos(1, Funder) : Call(c, script.split)) /\ script.split \in Nat /\ step' = "split"
      BY <2>1, <2>3, SplitCalled
    <2> QED BY <1>4, <2>2, <2>3, FetchBuilds
  <1>5. CASE AfterSplit
    BY <1>5 DEF AfterSplit, Return, SplitInv, Splitting
  <1>6. CASE \E s \in Scripts : Start(s)
    BY <1>6 DEF Start, Ended, SplitInv, Splitting, locals
  <1>7. CASE RequestFails \/ Snapshot
    BY <1>7 DEF RequestFails, Snapshot, SplitInv, Splitting, locals
  <1>8. CASE \E i \in DOMAIN txs : PostPayment(i)
    BY <1>8 DEF PostPayment, SplitInv, Splitting, locals
  <1>9. CASE AllPosted \/ WaitBlocks \/ Confirm \/ Expire
    BY <1>9 DEF AllPosted, WaitBlocks, Confirm, Expire, SplitInv, Splitting, locals
  <1>10. CASE ReadFunder \/ ReadRecipients \/ Conserved
    BY <1>10 DEF ReadFunder, ReadRecipients, Conserved, SplitInv, Splitting, locals
  <1> QED BY <1>1, <1>2, <1>3, <1>4, <1>5, <1>6, <1>7, <1>8, <1>9, <1>10 DEF Move, ScriptStep

\* What steps do to the client's lists.
LEMMA StepsOfLists ==
  ASSUME [Move]_shown
  PROVE  /\ built' = built \/ built' = <<>> \/ (SplitStep /\ Build)
         /\ txs' = txs \/ txs' = <<>> \/ Fetch \/ AfterSplit
  <1>1. CASE UNCHANGED shown
    BY <1>1 DEF shown, locals
  <1>2. CASE NetworkStep
    BY <1>2 DEF NetworkStep, Network, Include, Evict, Apply, locals
  <1>3. CASE SplitStep
    BY <1>3 DEF SplitStep, Client, Finish, Post, Collect, Poll, Timeout
  <1>4. CASE Fetch \/ AfterSplit
    BY <1>4 DEF Fetch, Call, AfterSplit, Return, locals
  <1>5. CASE (\E s \in Scripts : Start(s)) \/ RequestFails \/ Snapshot
    BY <1>5 DEF Start, RequestFails, Snapshot, locals
  <1>6. CASE (\E i \in DOMAIN txs : PostPayment(i)) \/ AllPosted \/ WaitBlocks \/ Confirm \/ Expire
    BY <1>6 DEF PostPayment, AllPosted, WaitBlocks, Confirm, Expire, locals
  <1>7. CASE ReadFunder \/ ReadRecipients \/ Conserved
    BY <1>7 DEF ReadFunder, ReadRecipients, Conserved, locals
  <1> QED BY <1>1, <1>2, <1>3, <1>4, <1>5, <1>6, <1>7 DEF Move, ScriptStep

\* Transfers only spend what node 1 has applied, in every step.
LEMMA GroundedNext ==
  ASSUME Grounded, SplitInv, RunInv, [Move]_shown
  PROVE  Grounded'
  <1>0. NetTyped /\ NetTyped' /\ Onward
    BY ChainKept DEF Grounded
  <1>1. \A t : Founded(t) => Founded(t)'
    BY <1>0, FoundedKept
  <1>2. \A t \in Made : Founded(t)
    BY DEF Grounded
  <1>3. Sent' \subseteq Made
    <2>1. CASE Sent' \subseteq Sent
      BY <2>1 DEF Made
    <2>2. ASSUME NEW i \in DOMAIN built, Post(i) PROVE Sent' \subseteq Made
      <3>1. (pending' = pending \/ pending' = pending \cup {built[i]}) /\ log' = log
        BY <2>2 DEF Post, Submit
      <3> QED BY <3>1 DEF Made, Sent, Applied, Range
    <2>3. ASSUME NEW i \in DOMAIN txs, PostPayment(i) PROVE Sent' \subseteq Made
      <3>1. (pending' = pending \/ pending' = pending \cup {txs[i]}) /\ log' = log
        BY <2>3 DEF PostPayment, Submit
      <3> QED BY <3>1 DEF Made, Sent, Applied, Range
    <2> QED BY <1>0, <2>1, <2>2, <2>3, StepsOfSent
  <1>4. ASSUME NEW t \in Range(built') PROVE Founded(t)
    <2>1. CASE built' = built
      BY <1>2, <2>1 DEF Made
    <2>2. CASE built' = <<>>
      BY <2>2 DEF Range
    <2>3. CASE SplitStep /\ Build
      <3>2. CASE pc' = "post" /\ current' = current /\ step' = "split"
        <4>1. RoundBuilt'
          BY <3>2, SplitNext DEF SplitInv, Splitting, InSplit, PostBuilt
        <4>2. PICK c \in Range(current) : t = Halve(c)
          BY <3>2, <4>1 DEF RoundBuilt, Range
        <4>3. Mine(c)
          BY <2>3 DEF SplitStep, Build, SplitInv, Splitting, InSplit, CoinsHeld
        <4>4. PICK S : S = {c}
          OBVIOUS
        <4>5. PICK h : h = c.amount \div 2
          OBVIOUS
        <4>6. Spendable(S) /\ h \in Nat /\ t = BuildTransfer(S, Funder, h)
          BY <4>2, <4>3, <4>4, <4>5, MineSpendable, MineAmount DEF Halve
        <4> QED BY <4>6, TransferFounded
      <3>3. CASE built' = <<>>
        BY <3>3 DEF Range
      <3>4. step' = "split" /\ current' = current
        BY <2>3 DEF SplitStep, Build
      <3>5. pc' = "post" \/ built' = <<>>
        BY <2>3 DEF Build
      <3> QED BY <3>2, <3>3, <3>4, <3>5
    <2> QED BY <2>1, <2>2, <2>3, StepsOfLists
  <1>5. ASSUME NEW t \in Range(txs') PROVE Founded(t)
    <2>1. CASE txs' = txs
      BY <1>2, <2>1 DEF Made
    <2>2. CASE txs' = <<>>
      BY <2>2 DEF Range
    <2>3. CASE Fetch
      BY <2>1, <2>3, FetchBuilds DEF Ready
    <2>4. CASE AfterSplit
      BY <2>1, <2>4, AfterBuilds DEF Ready
    <2> QED BY <2>1, <2>2, <2>3, <2>4, StepsOfLists
  <1>6. \A t \in Made' : Founded(t)
    BY <1>2, <1>3, <1>4, <1>5 DEF Made
  <1> QED BY <1>0, <1>1, <1>6 DEF Grounded

\* A transfer that a node accepts pays out what it spends.
LEMMA ValidBalanced ==
  ASSUME NEW t, Founded(t), t.inputs # {}, NEW n, Valid(n, t)
  PROVE  Balanced(t)
  <1>1. Sum(t.inputs) \in Nat /\ t.amount \in Nat /\ t.change \in Nat
    <2>1. PICK S : S = t.inputs
      OBVIOUS
    <2>2. Coins(S)
      BY <2>1 DEF Founded
    <2> QED BY <2>1, <2>2, SumType DEF Founded
  <1>2. t.amount + t.change >= Sum(t.inputs) /\ Sum(t.inputs) >= t.amount + t.change
    BY DEF Founded, Valid
  <1> QED BY <1>1, <1>2 DEF Balanced

\* What the first transfers left does not change.
LEMMA UnspentKept ==
  ASSUME Onward, NEW k \in Int, k <= Len(log), Len(log) \in Nat
  PROVE  Unspent(k)' = Unspent(k)
  <1>1. \A i \in 1..k : log'[i] = log[i]
    BY DEF Onward
  <1> QED BY <1>1 DEF Unspent

\* What steps do to the pools.
LEMMA StepsOfPending ==
  ASSUME [Move]_shown
  PROVE  \/ pending' \subseteq pending
         \/ SplitStep /\ \E i \in DOMAIN built : Post(i)
         \/ \E i \in DOMAIN txs : PostPayment(i)
  <1>1. CASE UNCHANGED shown
    BY <1>1 DEF shown, network
  <1>2. CASE NetworkStep
    BY <1>2 DEF NetworkStep, Network, Include, Evict, Apply
  <1>3. CASE SplitStep
    BY <1>3 DEF SplitStep, Client, Finish, Build, Collect, Poll, Timeout, network
  <1>4. CASE (\E s \in Scripts : Start(s)) \/ RequestFails \/ Snapshot \/ Fetch \/ AfterSplit
    BY <1>4 DEF Start, RequestFails, Snapshot, Fetch, AfterSplit, network
  <1>5. CASE AllPosted \/ WaitBlocks \/ Confirm \/ Expire \/ ReadFunder \/ ReadRecipients \/ Conserved
    BY <1>5 DEF AllPosted, WaitBlocks, Confirm, Expire, ReadFunder, ReadRecipients, Conserved, network
  <1> QED BY <1>1, <1>2, <1>3, <1>4, <1>5 DEF Move, ScriptStep

\* Value is neither created nor spent twice, in every step.
LEMMA TransfersNext ==
  ASSUME TransfersInv, SplitInv, RunInv, [Move]_shown
  PROVE  TransfersInv'
  <1>0. Grounded /\ Grounded' /\ NetTyped /\ NetTyped' /\ Onward
    BY ChainKept, GroundedNext DEF TransfersInv, Grounded
  <1>1. ASSUME NEW tx \in pending' PROVE Balanced(tx)
    <2>1. CASE tx \in pending
      BY <2>1 DEF TransfersInv
    <2>2. CASE tx \notin pending
      <3>1. tx \in Sent'
        BY DEF Sent
      <3>2. ASSUME NEW i \in DOMAIN built, SplitStep, Post(i) PROVE Balanced(tx)
        <4>1. Valid(1, built[i]) /\ tx = built[i] /\ pc = "post" /\ step = "split"
          BY <2>2, <3>2 DEF Post, Submit, SplitStep
        <4>2. RoundBuilt
          BY <4>1 DEF SplitInv, Splitting, InSplit, PostBuilt
        <4>3. Founded(tx) /\ tx.inputs # {}
          <5>1. PICK c : built[i] = Halve(c)
            BY <4>2 DEF RoundBuilt
          <5>2. Halve(c).inputs = {c}
            BY DEF Halve, BuildTransfer
          <5>3. tx \in Made
            BY <4>1 DEF Made, Range
          <5> QED BY <1>0, <4>1, <5>1, <5>2, <5>3 DEF Grounded
        <4> QED BY <4>1, <4>3, ValidBalanced
      <3>3. ASSUME NEW i \in DOMAIN txs, PostPayment(i) PROVE Balanced(tx)
        <4>1. Valid(NodeOf(i), txs[i]) /\ tx = txs[i]
          BY <2>2, <3>3 DEF PostPayment, Submit
        <4>2. tx \in Range(txs)
          BY <4>1 DEF Range
        <4>3. Founded(tx) /\ tx.inputs # {}
          BY <4>2 DEF RunInv, Ready
        <4>4. PICK n : n = NodeOf(i)
          OBVIOUS
        <4>5. Valid(n, tx)
          BY <4>1, <4>4
        <4> QED BY <4>3, <4>5, ValidBalanced
      <3>4. CASE pending' \subseteq pending
        BY <2>2, <3>4
      <3> QED BY <3>2, <3>3, <3>4, StepsOfPending
    <2> QED BY <2>1, <2>2
  <1>2. Chained'
    <2>0. Chained /\ Len(log) \in Nat /\ Len(log) >= 1 /\ Listed(log)
      BY <1>0, ListOf DEF TransfersInv, NetTyped
    <2>1. CASE log' = log
      BY <2>0, <2>1 DEF Chained, Unspent, Balanced
    <2>2. ASSUME NEW tx \in pending, Include(tx) PROVE Chained'
      <3>1. log' = Append(log, tx) /\ tx.inputs \subseteq Unspent(Len(log)) /\ Balanced(tx)
        BY <2>2 DEF Include, TransfersInv
      <3>2. PICK m : m = Len(log)
        OBVIOUS
      <3>3. PICK R : R = Range(log) \cup {tx}
        OBVIOUS
      <3>4. log \in Seq(R) /\ tx \in R
        <4>1. Range(log) \subseteq R
          BY <3>3
        <4> QED BY <2>0, <3>3, <4>1, SeqMonotonic DEF Listed
      <3>5. Len(log') = m + 1 /\ log'[m + 1] = tx /\ \A i \in 1..m : log'[i] = log[i]
        BY <3>1, <3>2, <3>4
      <3>6. log'[1] = log[1]
        BY <2>0, <3>2, <3>5
      <3>7. ASSUME NEW i \in 2..(m + 1) PROVE Balanced(log'[i]) /\ log'[i].inputs \subseteq Unspent(i - 1)'
        <4>1. PICK k : k = i - 1
          OBVIOUS
        <4>2. k \in Int /\ k <= Len(log)
          BY <2>0, <3>2, <4>1
        <4>3. Unspent(k)' = Unspent(k)
          BY <1>0, <2>0, <4>2, UnspentKept
        <4>4. CASE i \in 2..m
          <5>1. log'[i] = log[i]
            BY <2>0, <3>2, <3>5, <4>4
          <5>2. Balanced(log[i]) /\ log[i].inputs \subseteq Unspent(i - 1)
            BY <2>0, <3>2, <4>4 DEF Chained
          <5> QED BY <4>1, <4>3, <5>1, <5>2
        <4>5. CASE i = m + 1
          <5>1. k = m
            BY <2>0, <3>2, <4>1, <4>5
          <5> QED BY <3>1, <3>2, <3>5, <4>1, <4>3, <4>5, <5>1
        <4> QED BY <2>0, <3>2, <4>4, <4>5
      <3>8. log'[1].inputs = {}
        BY <2>0, <3>6 DEF Chained
      <3> QED BY <3>5, <3>7, <3>8 DEF Chained, Balanced
    <2>3. ASSUME NEW n \in Nodes, Apply(n) PROVE Chained'
      <3>1. log' = log
        BY <2>3 DEF Apply
      <3> QED BY <2>1, <3>1
    <2> QED BY <2>1, <2>2, <2>3, StepsOfChain
  <1> QED BY <1>0, <1>1, <1>2 DEF TransfersInv, Balanced

-----------------------------------------------------------------------------
(* The runs.                                                               *)

\* A list that is ready stays so in its run.
LEMMA ReadyKept ==
  ASSUME NetTyped, Onward, script' = script, NEW u, Ready(u)
  PROVE  Ready(u)'
  <1>1. \A t \in Range(u) : Founded(t)'
    BY FoundedKept DEF Ready
  <1> QED BY <1>1 DEF Ready

\* The bookkeeping of a run.
RunTyped ==
    /\ script \in Scripts \cup {Plain} /\ step \in Steps
    /\ step \in {"snapshot", "conserve", "recipients", "alarm"} => script.sums
    /\ step \in {"snapshot", "fetch", "split"} => txs = <<>>
    /\ answered \subseteq DOMAIN txs /\ accepted \subseteq DOMAIN txs

\* It is kept in every step.
LEMMA RunTypedNext ==
  ASSUME Grounded, SplitInv, RunInv, [Move]_shown
  PROVE  RunTyped'
  <1>0. RunTyped
    BY DEF RunTyped, RunInv
  <1>1. CASE UNCHANGED shown
    BY <1>0, <1>1 DEF RunTyped, shown, run
  <1>2. CASE NetworkStep \/ SplitStep
    BY <1>0, <1>2 DEF RunTyped, NetworkStep, SplitStep, run
  <1>3. ASSUME NEW s \in Scripts, Start(s) PROVE RunTyped'
    <2>1. /\ script' = s /\ step' = IF s.sums THEN "snapshot" ELSE "fetch"
          /\ txs' = <<>> /\ answered' = {} /\ accepted' = {}
      BY <1>3 DEF Start
    <2> QED BY <2>1 DEF RunTyped, Steps
  <1>4. CASE RequestFails \/ Snapshot
    BY <1>0, <1>4 DEF RunTyped, RequestFails, Snapshot, run, Steps, Ended
  <1>5. CASE Fetch
    <2>1. /\ step = "fetch" /\ answered' = answered /\ accepted' = accepted /\ script' = script
      BY <1>5 DEF Fetch, run
    <2>2. answered = {} /\ accepted = {}
      BY <1>0, <2>1 DEF RunTyped
    <2>3. step' \in {"post", "fail"} \/ (step' = "split" /\ txs' = txs)
      BY <1>5, FetchBuilds
    <2> QED BY <1>0, <2>1, <2>2, <2>3 DEF RunTyped, Steps, Ended
  <1>6. CASE AfterSplit
    <2>1. /\ step = "split" /\ answered' = answered /\ accepted' = accepted /\ script' = script
      BY <1>6 DEF AfterSplit, run
    <2>2. answered = {} /\ accepted = {}
      BY <1>0, <2>1 DEF RunTyped
    <2>3. step' \in {"post", "fail"}
      BY <1>6, AfterBuilds
    <2> QED BY <1>0, <2>1, <2>2, <2>3 DEF RunTyped, Steps, Ended
  <1>7. ASSUME NEW i \in DOMAIN txs, PostPayment(i) PROVE RunTyped'
    <2>1. /\ step' \in {"post", "fail"} /\ answered' = answered \cup {i}
          /\ accepted' \subseteq accepted \cup {i} /\ script' = script /\ txs' = txs
      BY <1>7 DEF PostPayment, run
    <2> QED BY <1>0, <2>1 DEF RunTyped, Steps, Ended
  <1>8. CASE AllPosted \/ WaitBlocks \/ Confirm \/ Expire
    BY <1>0, <1>8 DEF RunTyped, AllPosted, WaitBlocks, Confirm, Expire, run, Steps, Ended
  <1>9. CASE ReadFunder \/ ReadRecipients \/ Conserved
    BY <1>0, <1>9 DEF RunTyped, ReadFunder, ReadRecipients, Conserved, run, Steps, Ended
  <1> QED BY <1>1, <1>2, <1>3, <1>4, <1>5, <1>6, <1>7, <1>8, <1>9 DEF Move, ScriptStep

\* Only a start changes what a run is.
LEMMA StepsOfRun ==
  ASSUME [Move]_shown
  PROVE  \/ UNCHANGED run
         \/ \E s \in Scripts : Start(s)
  <1>1. CASE UNCHANGED shown
    BY <1>1 DEF shown
  <1>2. CASE NetworkStep \/ SplitStep
    BY <1>2 DEF NetworkStep, SplitStep
  <1>3. CASE RequestFails \/ Snapshot \/ Fetch \/ AfterSplit
    BY <1>3 DEF RequestFails, Snapshot, Fetch, AfterSplit
  <1>4. CASE (\E i \in DOMAIN txs : PostPayment(i)) \/ AllPosted \/ WaitBlocks \/ Confirm \/ Expire
    BY <1>4 DEF PostPayment, AllPosted, WaitBlocks, Confirm, Expire
  <1>5. CASE ReadFunder \/ ReadRecipients \/ Conserved
    BY <1>5 DEF ReadFunder, ReadRecipients, Conserved
  <1> QED BY <1>1, <1>2, <1>3, <1>4, <1>5 DEF Move, ScriptStep

\* The list of a run is ready in every step.
LEMMA ReadyNext ==
  ASSUME Grounded, SplitInv, RunInv, [Move]_shown
  PROVE  Ready(txs)'
  <1>0. NetTyped /\ Onward
    BY ChainKept DEF Grounded
  <1>1. CASE txs' = <<>>
    <2>1. PICK u : u = <<>>
      OBVIOUS
    <2>2. Listed(u) /\ Range(u) = {}
      <3>1. u \in Seq({})
        BY <2>1
      <3> QED BY <3>1, SeqListed
    <2>3. Ready(u)'
      BY <2>2 DEF Ready
    <2> QED BY <1>1, <2>1, <2>3
  <1>2. ASSUME UNCHANGED run, Ready(txs') PROVE Ready(txs)'
    <2>1. PICK u : u = txs'
      OBVIOUS
    <2>2. Ready(u)'
      BY <1>0, <1>2, <2>1, ReadyKept DEF run
    <2> QED BY <2>1, <2>2
  <1>3. CASE UNCHANGED run
    <2>1. CASE txs' = txs
      <3>1. Ready(txs')
        BY <2>1 DEF RunInv
      <3> QED BY <1>2, <1>3, <3>1
    <2>2. CASE Fetch
      BY <1>2, <1>3, <2>1, <2>2, FetchBuilds
    <2>3. CASE AfterSplit
      BY <1>2, <1>3, <2>1, <2>3, AfterBuilds
    <2> QED BY <1>1, <2>1, <2>2, <2>3, StepsOfLists
  <1>4. CASE \E s \in Scripts : Start(s)
    <2>1. txs' = <<>>
      BY <1>4 DEF Start
    <2> QED BY <1>1, <2>1
  <1> QED BY <1>3, <1>4, StepsOfRun

\* A run whose recipients were not paid before is the only one to pay them.
LEMMA OwnNext ==
  ASSUME Grounded, SplitInv, RunInv, [Move]_shown
  PROVE  OwnRecipients'
  <1>0. NetTyped /\ Scripted(script)
    BY ScriptsOf DEF Grounded, RunInv
  <1>1. ASSUME NEW s \in Scripts, Start(s) PROVE OwnRecipients'
    <2>1. /\ script' = s /\ pending' = pending /\ log' = log
          /\ fresh' = \A i \in DOMAIN s.pays : \A tx \in pending \cup Range(log) : tx.to # s.pays[i].to
      BY <1>1 DEF Start, network
    <2>2. Sent' = pending \cup Range(log)
      BY <1>0, <2>1, ListOf DEF Sent, Applied, NetTyped, Range
    <2> QED BY <2>1, <2>2 DEF OwnRecipients
  <1>2. ASSUME UNCHANGED run, ~(\E s \in Scripts : Start(s)) PROVE OwnRecipients'
    <2>0. script' = script /\ fresh' = fresh
      BY <1>2 DEF run
    <2> SUFFICES ASSUME script.waits, fresh, NEW t \in Sent', NEW i \in DOMAIN script.pays,
                        t.to = script.pays[i].to
                 PROVE  t \in Range(txs')
      BY <2>0 DEF OwnRecipients
    <2>1. ASSUME NEW r \in Sent, r.to = script.pays[i].to PROVE r \in Range(txs)
      BY <2>1 DEF RunInv, OwnRecipients
    <2>2. ASSUME t \in Range(txs) PROVE t \in Range(txs')
      <3>1. Range(txs) # {}
        BY <2>2
      <3>2. txs # <<>>
        BY <3>1 DEF Range
      <3>3. ~Fetch /\ ~AfterSplit
        BY <3>2 DEF Fetch, AfterSplit, RunInv
      <3>4. CASE txs' = txs
        BY <2>2, <3>4
      <3>5. txs' = <<>> => txs' = txs
        <4>1. CASE SplitStep \/ NetworkStep \/ UNCHANGED shown
          BY <4>1 DEF SplitStep, NetworkStep, shown
        <4>2. CASE RequestFails \/ Snapshot
          BY <4>2 DEF RequestFails, Snapshot
        <4>3. CASE (\E j \in DOMAIN txs : PostPayment(j)) \/ AllPosted \/ WaitBlocks \/ Confirm \/ Expire
          BY <4>3 DEF PostPayment, AllPosted, WaitBlocks, Confirm, Expire
        <4>4. CASE ReadFunder \/ ReadRecipients \/ Conserved
          BY <4>4 DEF ReadFunder, ReadRecipients, Conserved
        <4> QED BY <1>2, <3>3, <4>1, <4>2, <4>3, <4>4 DEF Move, ScriptStep
      <3> QED BY <3>3, <3>4, <3>5, StepsOfLists
    <2>3. CASE t \in Sent
      BY <2>1, <2>2, <2>3
    <2>4. CASE t \notin Sent
      <3>1. ASSUME NEW j \in DOMAIN built, SplitStep, Post(j) PROVE FALSE
        <4>1. t = built[j] /\ pc = "post" /\ step = "split"
          BY <2>4, <3>1 DEF Post, Submit, SplitStep, Sent, Applied
        <4>2. PICK c \in Range(current) : built[j] = Halve(c)
          BY <4>1 DEF SplitInv, Splitting, InSplit, PostBuilt, RoundBuilt
        <4>3. Halve(c).to = Funder
          BY DEF Halve, BuildTransfer
        <4>4. script.pays[i].to # Funder
          BY <1>0 DEF Scripted, Payments
        <4> QED BY <4>1, <4>2, <4>3, <4>4
      <3>2. ASSUME NEW j \in DOMAIN txs, PostPayment(j) PROVE t \in Range(txs')
        BY <2>4, <3>2 DEF PostPayment, Submit, Sent, Applied, Range
      <3> QED BY <1>0, <2>4, <3>1, <3>2, StepsOfSent
    <2> QED BY <2>3, <2>4
  <1> QED BY <1>1, <1>2, StepsOfRun

\* A coin that others than the funder own is never spent.
LEMMA OthersKept ==
  ASSUME Grounded, Grounded', Onward, NEW n \in Nodes, NEW c \in Unspent(at[n]), Owner(c) # Funder
  PROVE  c \in Unspent(at[n])'
  <1>1. PICK T : T = Applied(at[n])
    OBVIOUS
  <1>2. PICK U : U = Applied(at[n])'
    OBVIOUS
  <1>3. T \subseteq U
    <2>1. at[n] \in 1..Len(log) /\ Len(log) \in Nat
      BY AppliedSent DEF Grounded
    <2>2. \A i \in 1..at[n] : i \in 1..at'[n] /\ log'[i] = log[i]
      BY <2>1 DEF Onward
    <2> QED BY <1>1, <1>2, <2>2 DEF Applied
  <1>4. \A t \in U : \A d \in t.inputs : Owner(d) = Funder
    <2>1. U \subseteq Sent'
      <3>1. at'[n] \in 1..Len(log') /\ Len(log') \in Nat
        BY DEF Grounded, NetTyped, Onward
      <3>2. \A i \in 1..at'[n] : i \in 1..Len(log')
        BY <3>1
      <3> QED BY <1>2, <3>2 DEF Applied, Sent
    <2> QED BY <2>1 DEF Grounded, Made, Founded
  <1>5. c \in UNION {Outputs(t) : t \in T}
    BY <1>1 DEF Unspent, Applied
  <1>6. c \in UNION {Outputs(t) : t \in U}
    BY <1>3, <1>5
  <1>7. c \notin UNION {t.inputs : t \in U}
    BY <1>4
  <1>8. Unspent(at[n])' = (UNION {Outputs(t) : t \in U}) \ (UNION {t.inputs : t \in U})
    BY <1>2 DEF Unspent, Applied
  <1> QED BY <1>6, <1>7, <1>8

\* A recipient of a run has at most the coin of its payment.
LEMMA PaidOnly ==
  ASSUME Grounded, RunInv, script.waits, fresh, NEW n \in Nodes, NEW t \in Range(txs),
         NEW c \in Unspent(at[n]), Owner(c) = t.to
  PROVE  c = Coin(t, 0, t.amount)
  <1>1. Applied(at[n]) \subseteq Sent /\ \A r \in Sent : Founded(r)
    BY AppliedSent DEF Grounded, Made
  <1>2. PICK k : k = at[n]
    OBVIOUS
  <1>3. \A r \in Applied(k) : r.amount \in Nat /\ r.change \in Nat
    BY <1>1, <1>2 DEF Founded
  <1>4. \A d : d \in Unspent(k) <=> /\ d.tx \in Applied(k) /\ d \in Outputs(d.tx)
                                    /\ \A r \in Applied(k) : d \notin r.inputs
    BY <1>3, UnspentOf
  <1>5. c.tx \in Applied(k) /\ c \in Outputs(c.tx)
    BY <1>2, <1>4
  <1>6. PICK i \in DOMAIN script.pays : t.to = script.pays[i].to
    BY DEF RunInv, Ready
  <1>7. t.to # Funder
    <2>1. Scripted(script)
      BY ScriptsOf DEF RunInv
    <2> QED BY <1>6, <2>1 DEF Scripted, Payments
  <1>8. c.index = 0 /\ c.tx.to = t.to
    BY <1>7 DEF Owner
  <1>9. c.tx \in Range(txs)
    BY <1>1, <1>2, <1>5, <1>6, <1>8 DEF RunInv, OwnRecipients
  <1>10. c.tx = t
    BY <1>8, <1>9 DEF RunInv, Ready
  <1>11. PICK r : r = c.tx
    OBVIOUS
  <1>12. r.amount \in Nat /\ r.change \in Nat /\ c \in Outputs(r)
    BY <1>3, <1>5, <1>11
  <1>13. c = Coin(r, 0, r.amount)
    BY <1>8, <1>12, OutputsOf
  <1> QED BY <1>10, <1>11, <1>13

\* A poll that shows the balances shows the transfers.
LEMMA ConfirmArrives ==
  ASSUME Grounded, RunInv, script.waits, fresh, Confirmed, NEW i \in Checked, NEW n \in Nodes
  PROVE  Coin(txs[i], 0, txs[i].amount) \in Unspent(at[n])
  <1>1. i \in DOMAIN txs
    BY DEF Checked, RunInv
  <1>2. PICK t : t = txs[i] /\ t \in Range(txs)
    BY <1>1 DEF Range
  <1>3. t.amount \in Nat \ {0}
    <2>1. Scripted(script)
      BY ScriptsOf DEF RunInv
    <2>2. PICK j \in DOMAIN script.pays : t.amount = script.pays[j].amount
      BY <1>2 DEF RunInv, Ready
    <2> QED BY <2>1, <2>2 DEF Scripted, Payments
  <1>4. Sum(Utxos(n, t.to)) = t.amount
    BY <1>2 DEF Confirmed, Balance
  <1>5. Utxos(n, t.to) # {}
    BY <1>3, <1>4, SumEmpty
  <1>6. PICK c \in Utxos(n, t.to) : TRUE
    BY <1>5
  <1>7. c \in Unspent(at[n]) /\ Owner(c) = t.to
    BY DEF Utxos
  <1>8. c = Coin(t, 0, t.amount)
    BY <1>2, <1>7, PaidOnly
  <1> QED BY <1>2, <1>7, <1>8

Late == {"conserve", "recipients", "pass", "alarm"}

\* A run that awaits its payments gets there by a poll alone.
LEMMA StepsOfLate ==
  ASSUME RunInv, [Move]_shown, step' \in Late, script'.waits
  PROVE  UNCHANGED run /\ UNCHANGED <<txs, accepted>> /\ (step \in Late \/ Confirm)
  <1>1. CASE UNCHANGED shown
    BY <1>1 DEF shown
  <1>2. CASE NetworkStep \/ SplitStep
    BY <1>2 DEF NetworkStep, SplitStep
  <1>3. CASE (\E s \in Scripts : Start(s)) \/ RequestFails \/ Snapshot
    BY <1>3 DEF Start, RequestFails, Snapshot, Late
  <1>4. CASE Fetch
    BY <1>4 DEF Fetch, Late
  <1>5. CASE AfterSplit
    BY <1>5 DEF AfterSplit, Late
  <1>6. CASE \E i \in DOMAIN txs : PostPayment(i)
    BY <1>6 DEF PostPayment, Late
  <1>7. CASE AllPosted \/ WaitBlocks \/ Confirm \/ Expire
    BY <1>7 DEF AllPosted, WaitBlocks, Confirm, Expire, Late, run
  <1>8. CASE ReadFunder \/ ReadRecipients \/ Conserved
    BY <1>8 DEF ReadFunder, ReadRecipients, Conserved, Late
  <1> QED BY <1>1, <1>2, <1>3, <1>4, <1>5, <1>6, <1>7, <1>8 DEF Move, ScriptStep

\* What has arrived stays.
LEMMA ArrivedNext ==
  ASSUME Grounded, Grounded', SplitInv, RunInv, [Move]_shown
  PROVE  Arrived'
  <1>0. Onward /\ Scripted(script)
    BY ChainKept, ScriptsOf DEF Grounded, RunInv
  <1> SUFFICES ASSUME step' \in Late, script'.waits, fresh', NEW i \in Checked', NEW n \in Nodes
               PROVE  (Coin(txs[i], 0, txs[i].amount) \in Unspent(at[n]))'
    BY DEF Arrived, Late
  <1>1. UNCHANGED run /\ UNCHANGED <<txs, accepted>> /\ (step \in Late \/ Confirm)
    BY StepsOfLate
  <1>2. script' = script /\ fresh' = fresh /\ txs' = txs /\ Checked' = Checked
    BY <1>1 DEF run, Checked
  <1>3. PICK c : c = Coin(txs[i], 0, txs[i].amount)
    OBVIOUS
  <1>4. c \in Unspent(at[n])
    <2>1. CASE Confirm
      <3>1. Confirmed
        BY <2>1 DEF Confirm
      <3> QED BY <1>2, <1>3, <3>1, ConfirmArrives
    <2>2. CASE step \in Late
      BY <1>2, <1>3, <2>2 DEF RunInv, Arrived, Late
    <2> QED BY <1>1, <2>1, <2>2
  <1>5. Owner(c) # Funder
    <2>1. i \in DOMAIN txs
      BY <1>2 DEF Checked, RunInv
    <2>2. PICK j \in DOMAIN script.pays : txs[i].to = script.pays[j].to
      BY <1>2, <2>1 DEF RunInv, Ready, Range
    <2>3. c.index = 0 /\ c.tx = txs[i]
      BY <1>3 DEF Coin
    <2> QED BY <1>0, <2>2, <2>3 DEF Owner, Scripted, Payments
  <1>6. c \in Unspent(at[n])'
    BY <1>0, <1>4, <1>5, OthersKept
  <1> QED BY <1>2, <1>3, <1>6

\* The runs, in every step.
LEMMA RunNext ==
  ASSUME Grounded, SplitInv, RunInv, [Move]_shown
  PROVE  RunInv'
  <1>1. RunTyped' /\ Ready(txs)' /\ OwnRecipients' /\ Arrived'
    BY RunTypedNext, ReadyNext, OwnNext, GroundedNext, ArrivedNext
  <1> QED BY <1>1 DEF RunInv, RunTyped

-----------------------------------------------------------------------------
(* The sums of balance_conservation.                                       *)

\* What the script of the sums is.
LEMMA SumsScript ==
  ASSUME RunInv, script.sums
  PROVE  /\ script.waits /\ ~script.lenient /\ ~script.blocks /\ ~script.bad
         /\ script.split = 2 /\ script.pays = <<Pay(6, 1), Pay(7, 2)>>
         /\ DOMAIN script.pays = {1, 2} /\ \A i \in DOMAIN script.pays : script.pays[i].to \in {6, 7}
         /\ script.pays[1].to = 6 /\ script.pays[1].amount = 1
         /\ script.pays[2].to = 7 /\ script.pays[2].amount = 2
  <1>1. script = balance_conservation
    <2>1. Scripted(script)
      BY ScriptsOf DEF RunInv
    <2> QED BY <2>1 DEF Scripted
  <1>2. /\ script.waits /\ ~script.lenient /\ ~script.blocks /\ ~script.bad
        /\ script.split = 2 /\ script.pays = <<Pay(6, 1), Pay(7, 2)>>
    BY <1>1 DEF balance_conservation, Plain
  <1>3. PICK p : p = Pay(6, 1)
    OBVIOUS
  <1>4. PICK q : q = Pay(7, 2)
    OBVIOUS
  <1>5. p.to = 6 /\ p.amount = 1 /\ q.to = 7 /\ q.amount = 2
    BY <1>3, <1>4 DEF Pay
  <1>6. PICK u : u = <<p, q>>
    OBVIOUS
  <1>7. script.pays = u
    BY <1>2, <1>3, <1>4, <1>6
  <1>8. DOMAIN u = {1, 2} /\ u[1] = p /\ u[2] = q
    BY <1>6
  <1>9. \A i \in DOMAIN u : u[i].to \in {6, 7}
    BY <1>5, <1>8
  <1> QED BY <1>2, <1>5, <1>7, <1>8, <1>9

\* Two balances of 1 and 2 add up to 3.
LEMMA TwoBalances ==
  ASSUME DOMAIN script.pays = {1, 2}, Balance(ni, script.pays[1].to) = 1, Balance(ni, script.pays[2].to) = 2
  PROVE  FoldSet(LAMBDA i, sum : sum + Balance(ni, script.pays[i].to), 0, DOMAIN script.pays) = 3
  <1> DEFINE S == DOMAIN script.pays
             w == [i \in S |-> Balance(ni, script.pays[i].to)]
             Def(g) == g = [s \in SUBSET S |-> IF s = {} THEN 0
                              ELSE g[s \ {CHOOSE x \in s : TRUE}]
                                     + Balance(ni, script.pays[CHOOSE x \in s : TRUE].to)]
             f == CHOOSE g : Def(g)
             h == [s \in SUBSET S |-> IF s = {} THEN 0 ELSE IF s = {1} THEN 1 ELSE IF s = {2} THEN 2 ELSE 3]
  <1>1. FoldSet(LAMBDA i, sum : sum + Balance(ni, script.pays[i].to), 0, DOMAIN script.pays) = f[S]
    BY DEF FoldSet, MapThenFoldSet
  <1>2. S = {1, 2} /\ w[1] = 1 /\ w[2] = 2
    OBVIOUS
  <1>3. \A s \in SUBSET S : s = {} \/ s = {1} \/ s = {2} \/ s = {1, 2}
    BY <1>2
  <1>4. \A s \in SUBSET S : s # {} => /\ (CHOOSE x \in s : TRUE) \in s
                                      /\ w[CHOOSE x \in s : TRUE] = Balance(ni, script.pays[CHOOSE x \in s : TRUE].to)
    BY <1>2
  <1> HIDE DEF w
  <1>5. ASSUME NEW s \in SUBSET S, s # {} PROVE h[s] = h[s \ {CHOOSE x \in s : TRUE}] + w[CHOOSE x \in s : TRUE]
    <2>1. PICK x \in s : x = CHOOSE y \in s : TRUE
      BY <1>5
    <2>2. s \ {x} \in SUBSET S
      OBVIOUS
    <2>3. CASE s = {1}
      <3>1. x = 1 /\ s \ {x} = {} /\ {1} # {}
        BY <2>3
      <3> QED BY <1>2, <2>1, <2>2, <2>3, <3>1
    <2>4. CASE s = {2}
      <3>1. x = 2 /\ s \ {x} = {} /\ {2} # {1} /\ {2} # {}
        BY <2>4
      <3> QED BY <1>2, <2>1, <2>2, <2>4, <3>1
    <2>5. CASE s = {1, 2}
      <3>0. {2} # {1} /\ {2} # {} /\ {1} # {} /\ {1, 2} # {} /\ {1, 2} # {1} /\ {1, 2} # {2}
        OBVIOUS
      <3>1. h[s] = 3
        BY <2>5, <3>0
      <3>2. CASE x = 1
        <4>1. s \ {x} = {2}
          BY <2>5, <3>2
        <4>2. h[s \ {x}] = 2
          BY <2>2, <3>0, <4>1
        <4> QED BY <1>2, <2>1, <3>1, <3>2, <4>2
      <3>3. CASE x = 2
        <4>1. s \ {x} = {1}
          BY <2>5, <3>3
        <4>2. h[s \ {x}] = 1
          BY <2>2, <3>0, <4>1
        <4> QED BY <1>2, <2>1, <3>1, <3>3, <4>2
      <3> QED BY <2>5, <3>2, <3>3
    <2> QED BY <1>3, <1>5, <2>3, <2>4, <2>5
  <1>6. h[{}] = 0
    OBVIOUS
  <1>7. h = [s \in SUBSET S |-> h[s]]
    OBVIOUS
  <1> HIDE DEF h
  <1>8. \A s \in SUBSET S : h[s] = IF s = {} THEN 0
                              ELSE h[s \ {CHOOSE x \in s : TRUE}]
                                     + Balance(ni, script.pays[CHOOSE x \in s : TRUE].to)
    <2> SUFFICES ASSUME NEW s \in SUBSET S
                 PROVE  h[s] = IF s = {} THEN 0
                              ELSE h[s \ {CHOOSE x \in s : TRUE}]
                                     + Balance(ni, script.pays[CHOOSE x \in s : TRUE].to)
      OBVIOUS
    <2>1. CASE s = {}
      BY <1>6, <2>1
    <2>2. CASE s # {}
      BY <1>4, <1>5, <2>2
    <2> QED BY <2>1, <2>2
  <1>9. Def(h)
    BY <1>7, <1>8
  <1> HIDE DEF Def
  <1>10. Def(f)
    BY <1>9
  <1> HIDE DEF f
  <1>11. ASSUME NEW s \in SUBSET S, s # {} PROVE f[s] = f[s \ {CHOOSE x \in s : TRUE}] + w[CHOOSE x \in s : TRUE]
    BY <1>4, <1>10, <1>11 DEF Def
  <1>12. f[{}] = 0
    BY <1>10 DEF Def
  <1>13. f[{1}] = 1 /\ f[{2}] = 2
    <2>1. {1} \in SUBSET S /\ {2} \in SUBSET S /\ {1} # {} /\ {2} # {}
      BY <1>2
    <2>2. (CHOOSE x \in {1} : TRUE) = 1 /\ (CHOOSE x \in {2} : TRUE) = 2
      OBVIOUS
    <2>3. {1} \ {1} = {} /\ {2} \ {2} = {}
      OBVIOUS
    <2> HIDE DEF S
    <2> QED BY <1>2, <1>11, <1>12, <2>1, <2>2, <2>3
  <1>14. f[{1, 2}] = 3
    <2>1. {1, 2} \in SUBSET S /\ {1, 2} # {}
      BY <1>2
    <2>2. PICK x \in {1, 2} : x = CHOOSE y \in {1, 2} : TRUE
      BY <2>1
    <2>3. f[{1, 2}] = f[{1, 2} \ {x}] + w[x]
      <3> HIDE DEF S
      <3> QED BY <1>11, <2>1, <2>2
    <2>4. {1, 2} \ {1} = {2} /\ {1, 2} \ {2} = {1}
      OBVIOUS
    <2> HIDE DEF S
    <2>5. CASE x = 1
      BY <1>2, <1>13, <2>3, <2>4, <2>5
    <2>6. CASE x = 2
      BY <1>2, <1>13, <2>3, <2>4, <2>6
    <2> QED BY <2>5, <2>6
  <1> QED BY <1>1, <1>2, <1>14

\* Every transfer of the chain spends from earlier ones.
LEMMA SpendsEarlier ==
  ASSUME TransfersInv, NEW t \in Applied(Len(log)), NEW d \in t.inputs
  PROVE  d.tx \in Applied(Len(log))
  <1>0. NetTyped /\ Chained /\ Len(log) \in Nat
    BY ListOf DEF TransfersInv, Grounded, NetTyped
  <1>1. PICK i \in 1..Len(log) : t = log[i]
    BY DEF Applied
  <1>2. i # 1
    BY <1>0, <1>1 DEF Chained
  <1>3. PICK k : k = i - 1
    OBVIOUS
  <1>4. i \in 2..Len(log) /\ k \in 1..Len(log) /\ \A j \in 1..k : j \in 1..Len(log)
    BY <1>0, <1>2, <1>3
  <1>5. d \in Unspent(k)
    BY <1>0, <1>1, <1>3, <1>4 DEF Chained
  <1>6. Applied(k) \subseteq Applied(Len(log))
    BY <1>4 DEF Applied
  <1>7. \A r \in Applied(k) : r.amount \in Nat /\ r.change \in Nat
    BY <1>6 DEF TransfersInv, Grounded, Made, Sent, Founded
  <1>8. \A c : c \in Unspent(k) <=> /\ c.tx \in Applied(k) /\ c \in Outputs(c.tx)
                                    /\ \A r \in Applied(k) : c \notin r.inputs
    BY <1>7, UnspentOf
  <1> QED BY <1>5, <1>6, <1>8

\* A transfer that is included replaces the coins it spends by those it makes.
LEMMA IncludeMoves ==
  ASSUME TransfersInv, NEW tx \in pending, Include(tx), NEW m, m = Len(log)
  PROVE  /\ Unspent(m + 1)' = (Unspent(m) \ tx.inputs) \cup Outputs(tx)
         /\ tx.inputs \subseteq Unspent(m) /\ Unspent(m) \cap Outputs(tx) = {}
  <1>0. NetTyped /\ Chained /\ Len(log) \in Nat /\ m \in Nat
    BY ListOf DEF TransfersInv, Grounded, NetTyped
  <1>1. log' = Append(log, tx) /\ tx.inputs \subseteq Unspent(m)
    BY DEF Include
  <1>2. Balanced(tx) /\ Founded(tx)
    BY DEF TransfersInv, Grounded, Made, Sent
  <1>3. PICK A : A = Applied(m)
    OBVIOUS
  <1>4. \A t \in A : t.amount \in Nat /\ t.change \in Nat
    BY <1>3 DEF TransfersInv, Grounded, Made, Sent, Founded
  <1>5. \A c : c \in Unspent(m) <=> /\ c.tx \in A /\ c \in Outputs(c.tx)
                                    /\ \A t \in A : c \notin t.inputs
    BY <1>3, <1>4, UnspentOf
  <1>6. tx \notin A
    <2>1. PICK d \in tx.inputs : TRUE
      BY <1>2 DEF Balanced
    <2> QED BY <1>1, <1>5, <2>1
  <1>7. \A t \in A \cup {tx} : \A d \in t.inputs : d.tx \in A
    BY <1>1, <1>3, <1>5, SpendsEarlier
  <1>8. \A c \in Outputs(tx) : c.tx = tx
    BY <1>2, OutputsOf DEF Founded
  <1>9. PICK B : B = Applied(m + 1)'
    OBVIOUS
  <1>10. B = A \cup {tx}
    <2>1. PICK R : R = Range(log) \cup {tx}
      OBVIOUS
    <2>2. log \in Seq(R) /\ tx \in R
      <3>1. Range(log) \subseteq R
        BY <2>1
      <3> QED BY <1>0, <2>1, <3>1, SeqMonotonic DEF NetTyped, Listed
    <2>3. log'[m + 1] = tx /\ \A i \in 1..m : log'[i] = log[i]
      BY <1>1, <2>2
    <2>4. \A i \in 1..(m + 1) : i = m + 1 \/ i \in 1..m
      BY <1>0
    <2>5. \A i \in 1..m : i \in 1..(m + 1)
      BY <1>0
    <2>6. m + 1 \in 1..(m + 1)
      BY <1>0
    <2> QED BY <1>3, <1>9, <2>3, <2>4, <2>5, <2>6 DEF Applied
  <1>11. PICK V : V = Unspent(m + 1)'
    OBVIOUS
  <1>12. V = (UNION {Outputs(t) : t \in B}) \ (UNION {t.inputs : t \in B})
    BY <1>9, <1>11 DEF Unspent, Applied
  <1>13. ASSUME NEW c PROVE c \in V <=> /\ \E t \in B : c \in Outputs(t)
                                        /\ \A t \in B : c \notin t.inputs
    <2>1. c \in UNION {Outputs(t) : t \in B} <=> \E t \in B : c \in Outputs(t)
      OBVIOUS
    <2>2. c \in UNION {t.inputs : t \in B} <=> \E t \in B : c \in t.inputs
      OBVIOUS
    <2> QED BY <1>12, <2>1, <2>2
  <1>14. \A t \in A : \A c \in Outputs(t) : c.tx = t
    BY <1>4, OutputsOf
  <1>15. \A c : c \in V <=> c \in (Unspent(m) \ tx.inputs) \cup Outputs(tx)
    <2> TAKE c
    <2>1. CASE c \in Outputs(tx)
      <3>1. \A t \in B : c \notin t.inputs
        BY <1>6, <1>7, <1>8, <1>10, <2>1
      <3> QED BY <1>10, <1>13, <2>1, <3>1
    <2>2. CASE c \notin Outputs(tx)
      BY <1>5, <1>10, <1>13, <1>14, <2>2
    <2> QED BY <2>1, <2>2
  <1>16. Unspent(m) \cap Outputs(tx) = {}
    BY <1>5, <1>6, <1>8
  <1> QED BY <1>1, <1>11, <1>15, <1>16

\* If it is between the funder and the recipients, they have as much as before.
LEMMA IncludeKeeps ==
  ASSUME TransfersInv, NEW tx \in pending, Include(tx), tx.to \in Ours, NEW m, m = Len(log)
  PROVE  (Sum(Held(m + 1)))' = Sum(Held(m))
  <1>1. PICK U : U = Unspent(m)
    OBVIOUS
  <1>2. PICK V : V = Unspent(m + 1)'
    OBVIOUS
  <1>3. PICK O : O = Outputs(tx)
    OBVIOUS
  <1>4. PICK I : I = tx.inputs
    OBVIOUS
  <1>5. V = (U \ I) \cup O /\ I \subseteq U /\ U \cap O = {}
    BY <1>1, <1>2, <1>3, <1>4, IncludeMoves
  <1>6. Balanced(tx) /\ Founded(tx)
    BY DEF TransfersInv, Grounded, Made, Sent
  <1>7. Coins(O) /\ Sum(O) = tx.amount + tx.change /\ \A c \in O : c.tx = tx
    BY <1>3, <1>6, OutputsOf DEF Founded
  <1>8. Sum(I) = Sum(O) /\ Coins(I)
    BY <1>4, <1>6, <1>7 DEF Balanced, Founded
  <1>9. \A c \in I : Owner(c) \in Ours
    BY <1>4, <1>6 DEF Founded, Ours
  <1>10. \A c \in O : Owner(c) \in Ours
    BY <1>7 DEF Owner, Ours
  <1>11. PICK H : H = Held(m)
    OBVIOUS
  <1>12. Coins(H) /\ I \in SUBSET H
    <2>1. m \in Nat /\ \A t \in Applied(m) : t.amount \in Nat /\ t.change \in Nat
      BY ListOf DEF TransfersInv, Grounded, NetTyped, Made, Sent, Founded
    <2>2. Coins(U) /\ H \in SUBSET U
      BY <1>1, <1>11, <2>1, UnspentCoins DEF Held
    <2> QED BY <1>1, <1>5, <1>9, <1>11, <2>2, CoinsSubset DEF Held
  <1>13. PICK L : L = H \ I
    OBVIOUS
  <1>14. Coins(L) /\ Sum(H) = Sum(L) + Sum(I)
    <2>1. L \in SUBSET H
      BY <1>13
    <2> QED BY <1>12, <1>13, <2>1, CoinsSubset, SumMinus
  <1>15. L \cap O = {}
    BY <1>1, <1>5, <1>11, <1>13 DEF Held
  <1>16. Sum(L \cup O) = Sum(L) + Sum(O)
    BY <1>7, <1>14, <1>15, SumUnion
  <1>17. Held(m + 1)' = {c \in V : Owner(c) \in Ours}
    BY <1>2 DEF Held
  <1>18. {c \in V : Owner(c) \in Ours} = L \cup O
    BY <1>1, <1>5, <1>10, <1>11, <1>13 DEF Held
  <1>19. (Sum(Held(m + 1)))' = Sum(L \cup O)
    BY <1>17, <1>18
  <1> QED BY <1>8, <1>11, <1>14, <1>16, <1>19

\* With nothing under way and the recipients unpaid, the funder has it all.
LEMMA SnapshotSteady ==
  ASSUME Grounded, RunInv, script.sums, fresh, Quiet, Snapshot
  PROVE  Steady'
  <1>1. /\ step = "snapshot" /\ initial_total' = Sum(Utxos(1, Funder))
        /\ log' = log /\ at' = at
    BY DEF Snapshot, Balance, network
  <1>2. txs = <<>> /\ script.waits /\ DOMAIN script.pays = {1, 2}
        /\ script.pays[1].to = 6 /\ script.pays[2].to = 7
    BY <1>1, SumsScript DEF RunInv
  <1>3. \A t \in Sent : t.to # 6 /\ t.to # 7
    <2>1. Range(txs) = {}
      BY <1>2 DEF Range
    <2> QED BY <1>2, <2>1 DEF RunInv, OwnRecipients
  <1>4. PICK k : k = Len(log)
    OBVIOUS
  <1>5. at[1] = k /\ k \in Nat /\ Applied(k) \subseteq Sent /\ \A t \in Sent : Founded(t)
    BY <1>4, NodeOne, AppliedSent DEF Grounded, Made, Quiet
  <1>6. \A t \in Applied(k) : t.amount \in Nat /\ t.change \in Nat
    BY <1>5 DEF Founded
  <1>7. \A c : c \in Unspent(k) <=> /\ c.tx \in Applied(k) /\ c \in Outputs(c.tx)
                                    /\ \A t \in Applied(k) : c \notin t.inputs
    BY <1>6, UnspentOf
  <1>8. \A c \in Unspent(k) : Owner(c) \in Ours <=> Owner(c) = Funder
    <2> SUFFICES ASSUME NEW c \in Unspent(k), Owner(c) \in Ours, Owner(c) # Funder PROVE FALSE
      BY DEF Ours
    <2>1. c.tx \in Sent
      BY <1>5, <1>7
    <2>2. Owner(c) = c.tx.to
      BY DEF Owner
    <2> QED BY <1>3, <2>1, <2>2 DEF Ours
  <1>9. Held(k) = Utxos(1, Funder)
    BY <1>5, <1>8 DEF Held, Utxos
  <1>10. \A n \in Nodes : \A j \in at'[n]..Len(log') : j = k
    BY <1>1, <1>4, <1>5 DEF Quiet
  <1>11. Held(k)' = Held(k)
    BY <1>1 DEF Held, Unspent
  <1> QED BY <1>1, <1>9, <1>10, <1>11 DEF Steady

\* A recipient of the payments that have arrived has its payment and no more.
LEMMA RecipientHas ==
  ASSUME Grounded, RunInv, script.sums, fresh, AllPaid, step \in {"conserve", "recipients"},
         NEW n \in Nodes, NEW i \in DOMAIN script.pays
  PROVE  \E c : /\ c.amount = script.pays[i].amount
                /\ Utxos(n, script.pays[i].to) = {c}
                /\ Balance(n, script.pays[i].to) = script.pays[i].amount
  <1>1. script.waits /\ ~script.lenient
    BY SumsScript
  <1>2. Payments(script.pays)
    BY ScriptsOf DEF RunInv, Scripted
  <1>3. PICK t \in Range(txs) : t.to = script.pays[i].to
    BY DEF AllPaid
  <1>4. t.amount = script.pays[i].amount
    <2>1. PICK j \in DOMAIN script.pays : t.to = script.pays[j].to /\ t.amount = script.pays[j].amount
      BY <1>1 DEF RunInv, Ready
    <2> QED BY <1>2, <1>3, <2>1 DEF Payments
  <1>5. PICK p \in DOMAIN txs : t = txs[p]
    BY DEF Range
  <1>6. PICK c : c = Coin(t, 0, t.amount)
    OBVIOUS
  <1>7. c \in Unspent(at[n])
    BY <1>1, <1>5, <1>6 DEF RunInv, Arrived, Checked
  <1>8. c.amount = t.amount /\ Owner(c) = t.to
    BY <1>6 DEF Coin, Owner
  <1>9. \A d \in Unspent(at[n]) : Owner(d) = t.to => d = c
    BY <1>1, <1>6, PaidOnly
  <1>10. Utxos(n, t.to) = {c}
    BY <1>7, <1>8, <1>9 DEF Utxos
  <1>11. t.amount \in Nat
    BY <1>2, <1>4 DEF Payments
  <1>12. Sum({c}) = t.amount
    BY <1>8, <1>11, SumOne
  <1> QED BY <1>3, <1>4, <1>8, <1>10, <1>12 DEF Balance

\* So the funder has all but 3 of what they have together.
LEMMA FunderHas ==
  ASSUME Grounded, RunInv, script.sums, fresh, AllPaid, step \in {"conserve", "recipients"},
         NEW n \in Nodes
  PROVE  /\ Sum(Held(at[n])) = Balance(n, Funder) + 3
         /\ Balance(n, Funder) \in Nat
         /\ Balance(n, script.pays[1].to) = 1 /\ Balance(n, script.pays[2].to) = 2
  <1>1. /\ DOMAIN script.pays = {1, 2} /\ script.pays[1].to = 6 /\ script.pays[1].amount = 1
        /\ script.pays[2].to = 7 /\ script.pays[2].amount = 2
    BY SumsScript
  <1>2. PICK b : b.amount = 1 /\ Utxos(n, 6) = {b} /\ Balance(n, script.pays[1].to) = 1
    <2>1. \E c : /\ c.amount = script.pays[1].amount
                 /\ Utxos(n, script.pays[1].to) = {c}
                 /\ Balance(n, script.pays[1].to) = script.pays[1].amount
      BY <1>1, RecipientHas
    <2> QED BY <1>1, <2>1
  <1>3. PICK c : c.amount = 2 /\ Utxos(n, 7) = {c} /\ Balance(n, script.pays[2].to) = 2
    <2>1. \E d : /\ d.amount = script.pays[2].amount
                 /\ Utxos(n, script.pays[2].to) = {d}
                 /\ Balance(n, script.pays[2].to) = script.pays[2].amount
      BY <1>1, RecipientHas
    <2> QED BY <1>1, <2>1
  <1>4. PICK k : k = at[n]
    OBVIOUS
  <1>5. PICK F : F = Utxos(n, Funder)
    OBVIOUS
  <1>6. Coins(F)
    <2>1. k \in Nat /\ Applied(k) \subseteq Sent /\ \A t \in Sent : Founded(t)
      BY <1>4, AppliedSent DEF Grounded, Made
    <2>2. \A t \in Applied(k) : t.amount \in Nat /\ t.change \in Nat
      BY <2>1 DEF Founded
    <2>3. Coins(Unspent(k))
      BY <2>1, <2>2, UnspentCoins
    <2>4. PICK U : U = Unspent(k)
      OBVIOUS
    <2>5. Coins(U) /\ F \in SUBSET U
      BY <1>4, <1>5, <2>3, <2>4 DEF Utxos
    <2> QED BY <2>5, CoinsSubset
  <1>7. Sum(F) \in Nat
    BY <1>6, SumType
  <1>8. b \in Unspent(k) /\ Owner(b) = 6 /\ c \in Unspent(k) /\ Owner(c) = 7
    BY <1>2, <1>3, <1>4 DEF Utxos
  <1>9. b # c /\ b \notin F /\ c \notin F
    BY <1>5, <1>8 DEF Utxos, Funder
  <1>10. PICK B : B = {b}
    OBVIOUS
  <1>11. PICK C : C = {c}
    OBVIOUS
  <1>12. Coins(B) /\ Coins(C) /\ Sum(B) = 1 /\ Sum(C) = 2
    <2>1. b.amount \in Nat /\ c.amount \in Nat
      BY <1>2, <1>3
    <2> QED BY <1>2, <1>3, <1>10, <1>11, <2>1, CoinsOne, SumOne
  <1>13. PICK G : G = F \cup B
    OBVIOUS
  <1>14. Coins(G) /\ Sum(G) = Sum(F) + 1
    <2>1. F \cap B = {}
      BY <1>9, <1>10
    <2> QED BY <1>6, <1>12, <1>13, <2>1, CoinsUnion, SumUnion
  <1>15. Sum(G \cup C) = Sum(G) + 2
    <2>1. G \cap C = {}
      BY <1>9, <1>10, <1>11, <1>13
    <2> QED BY <1>12, <1>14, <2>1, SumUnion
  <1>16. Held(k) = G \cup C
    <2>1. \A x \in Unspent(k) : Owner(x) \in Ours <=> x \in G \cup C
      <3> TAKE x \in Unspent(k)
      <3>1. Owner(x) = Funder <=> x \in F
        BY <1>4, <1>5 DEF Utxos
      <3>2. Owner(x) = 6 <=> x \in B
        BY <1>2, <1>4, <1>10 DEF Utxos
      <3>3. Owner(x) = 7 <=> x \in C
        BY <1>3, <1>4, <1>11 DEF Utxos
      <3> QED BY <1>13, <3>1, <3>2, <3>3 DEF Ours
    <2>2. F \subseteq Unspent(k) /\ B \subseteq Unspent(k) /\ C \subseteq Unspent(k)
      BY <1>4, <1>5, <1>8, <1>10, <1>11 DEF Utxos
    <2> QED BY <1>13, <2>1, <2>2 DEF Held
  <1>17. Sum(Held(k)) = Sum(F) + 3
    BY <1>7, <1>14, <1>15, <1>16
  <1> QED BY <1>2, <1>3, <1>4, <1>5, <1>7, <1>17 DEF Balance

\* A run of the script of the sums submits only transfers between these.
LEMMA OursNext ==
  ASSUME Grounded, SplitInv, RunInv, script.sums, \A t \in pending : t.to \in Ours, [Move]_shown
  PROVE  \A t \in pending' : t.to \in Ours
  <1> SUFFICES ASSUME NEW t \in pending', t \notin pending PROVE t.to \in Ours
    OBVIOUS
  <1>1. ASSUME NEW i \in DOMAIN built, SplitStep, Post(i) PROVE t.to \in Ours
    <2>1. t = built[i] /\ pc = "post" /\ step = "split"
      BY <1>1 DEF Post, Submit, SplitStep
    <2>2. PICK c : built[i] = Halve(c)
      BY <2>1 DEF SplitInv, Splitting, InSplit, PostBuilt, RoundBuilt
    <2>3. Halve(c).to = Funder
      BY DEF Halve, BuildTransfer
    <2> QED BY <2>1, <2>2, <2>3 DEF Ours
  <1>2. ASSUME NEW i \in DOMAIN txs, PostPayment(i) PROVE t.to \in Ours
    <2>1. t \in Range(txs)
      BY <1>2 DEF PostPayment, Submit, Range
    <2>2. script.waits /\ \A j \in DOMAIN script.pays : script.pays[j].to \in {6, 7}
      BY SumsScript
    <2>3. PICK j \in DOMAIN script.pays : t.to = script.pays[j].to
      BY <2>1, <2>2 DEF RunInv, Ready
    <2> QED BY <2>2, <2>3 DEF Ours
  <1> QED BY <1>1, <1>2, StepsOfPending

\* What they have together stays.
LEMMA SteadyKept ==
  ASSUME TransfersInv, Steady, \A t \in pending : t.to \in Ours, [Move]_shown,
         initial_total' = initial_total
  PROVE  Steady'
  <1>0. NetTyped /\ Onward /\ Len(log) \in Nat /\ \A n \in Nodes : at[n] \in 1..Len(log)
    BY ChainKept, AppliedSent DEF TransfersInv, Grounded
  <1>1. CASE UNCHANGED <<log, at>>
    <2>1. \A k : Held(k)' = Held(k)
      BY <1>1 DEF Held, Unspent
    <2> QED BY <1>1, <2>1 DEF Steady
  <1>2. ASSUME NEW tx \in pending, Include(tx) PROVE Steady'
    <2>1. PICK m : m = Len(log)
      OBVIOUS
    <2>2. at' = at /\ Len(log') = m + 1
      <3>1. log' = Append(log, tx) /\ at' = at
        BY <1>2 DEF Include
      <3>2. PICK R : R = Range(log) \cup {tx}
        OBVIOUS
      <3>3. log \in Seq(R) /\ tx \in R
        <4>1. Range(log) \subseteq R
          BY <3>2
        <4> QED BY <1>0, <3>2, <4>1, SeqMonotonic DEF NetTyped, Listed
      <3> QED BY <2>1, <3>1, <3>3
    <2>3. (Sum(Held(m + 1)))' = Sum(Held(m))
      BY <1>2, <2>1, IncludeKeeps
    <2> SUFFICES ASSUME NEW n \in Nodes, NEW k \in at[n]..(m + 1)
                 PROVE  (Sum(Held(k)))' = initial_total
      BY <2>2 DEF Steady
    <2>4. CASE k = m + 1
      <3>1. m \in at[n]..Len(log)
        BY <1>0, <2>1
      <3>2. Sum(Held(m)) = initial_total
        BY <3>1 DEF Steady
      <3> QED BY <2>3, <2>4, <3>2
    <2>5. CASE k # m + 1
      <3>1. k \in Int /\ k <= Len(log) /\ k \in at[n]..Len(log)
        BY <1>0, <2>1, <2>5
      <3>2. Unspent(k)' = Unspent(k)
        BY <1>0, <3>1, UnspentKept
      <3>3. Held(k)' = Held(k)
        BY <3>2 DEF Held
      <3>4. Sum(Held(k)) = initial_total
        BY <3>1 DEF Steady
      <3> QED BY <3>3, <3>4
    <2> QED BY <2>4, <2>5
  <1>3. ASSUME NEW n \in Nodes, Apply(n) PROVE Steady'
    <2>1. log' = log
      BY <1>3 DEF Apply
    <2>2. \A k : Held(k)' = Held(k)
      BY <2>1 DEF Held, Unspent
    <2>3. ASSUME NEW j \in Nodes, NEW k \in at'[j]..Len(log) PROVE k \in at[j]..Len(log)
      BY <1>0, <2>3 DEF Onward
    <2> QED BY <2>1, <2>2, <2>3 DEF Steady
  <1> QED BY <1>1, <1>2, <1>3, StepsOfChain

\* The steps of a run with sums that has begun.
LEMMA SumsFlow ==
  ASSUME RunInv, script.sums, [Move]_shown, ~(\E s \in Scripts : Start(s)), script' = script
  PROVE  /\ step' = "snapshot" => step = "snapshot" /\ (UNCHANGED shown \/ NetworkStep)
         /\ step' \notin {"snapshot", "fail"} =>
               Snapshot \/ (step \notin {"snapshot", "fail"} /\ initial_total' = initial_total)
         /\ step' \in Paying => AfterSplit \/ (step \in Paying /\ txs' = txs)
         /\ \/ ReadFunder \/ ReadRecipients \/ Conserved
            \/ /\ UNCHANGED <<funder_bal, ni, violations>>
               /\ step' = "alarm" => step = "alarm"
               /\ step' = "recipients" => step = "recipients" /\ initial_total' = initial_total
  <1>0. script.waits /\ ~script.blocks /\ ~script.bad /\ script.split = 2
    BY SumsScript
  <1>1. CASE UNCHANGED shown
    BY <1>1 DEF shown, sums, Paying
  <1>2. CASE NetworkStep
    BY <1>2 DEF NetworkStep, sums, Paying
  <1>3. CASE SplitStep
    BY <1>3 DEF SplitStep, sums, Paying
  <1>4. CASE RequestFails
    BY <1>4 DEF RequestFails, sums, Paying
  <1>5. CASE Snapshot
    BY <1>5 DEF Snapshot, Paying
  <1>6. CASE Fetch
    <2>1. step = "fetch" /\ UNCHANGED sums /\ step' = "split"
      BY <1>0, <1>6 DEF Fetch, NoSplit
    <2> QED BY <2>1 DEF sums, Paying
  <1>7. CASE AfterSplit
    BY <1>7 DEF AfterSplit, sums, Paying
  <1>8. CASE \E i \in DOMAIN txs : PostPayment(i)
    BY <1>8 DEF PostPayment, sums, Paying
  <1>9. CASE AllPosted
    BY <1>0, <1>9 DEF AllPosted, sums, Paying
  <1>10. CASE WaitBlocks \/ Confirm \/ Expire
    BY <1>10 DEF WaitBlocks, Confirm, Expire, sums, Paying
  <1>11. CASE ReadFunder \/ ReadRecipients \/ Conserved
    BY <1>11 DEF ReadFunder, ReadRecipients, Conserved, sums, Paying
  <1> QED BY <1>1, <1>2, <1>3, <1>4, <1>5, <1>6, <1>7, <1>8, <1>9, <1>10, <1>11 DEF Move, ScriptStep

\* With nothing under way the nodes do nothing.
LEMMA QuietKept ==
  ASSUME NetTyped, Quiet, UNCHANGED shown \/ NetworkStep
  PROVE  Quiet'
  <1>1. CASE UNCHANGED shown
    BY <1>1 DEF shown, network, Quiet
  <1>2. CASE NetworkStep
    <2>1. PICK n \in Nodes : at[n] < Len(log)
      BY <1>2 DEF NetworkStep, Network, Quiet, Apply
    <2>2. at[n] = Len(log) /\ Len(log) \in Nat
      BY ListOf DEF Quiet, NetTyped
    <2> QED BY <2>1, <2>2
  <1> QED BY <1>1, <1>2

\* The sums, in every step.
LEMMA SumsNext ==
  ASSUME TransfersInv, SplitInv, RunInv, SumsInv, [Move]_shown
  PROVE  SumsInv'
  <1>0. Grounded /\ NetTyped
    BY DEF TransfersInv, Grounded
  <1> SUFFICES ASSUME script'.sums, fresh', settled' PROVE SumsHold'
    BY DEF SumsInv
  <1>1. ASSUME NEW s \in Scripts, Start(s) PROVE SumsHold'
    <2>1. /\ s.sums /\ step' = "snapshot" /\ ni' = 1 /\ violations' = {}
          /\ pending = {} /\ \A n \in Nodes : at[n] = Len(log)
          /\ pending' = pending /\ at' = at /\ log' = log
      BY <1>1 DEF Start, network
    <2>2. 1 \in Nat \ {0}
      OBVIOUS
    <2> QED BY <2>1, <2>2 DEF SumsHold, Quiet, Paying
  <1>2. CASE ~(\E s \in Scripts : Start(s))
    <2>1. script' = script /\ fresh' = fresh /\ settled' = settled
      BY <1>2, StepsOfRun DEF run
    <2>2. script.sums /\ fresh /\ SumsHold
      BY <2>1 DEF SumsInv
    <2>3. step' = "snapshot" => Quiet'
      BY <1>0, <1>2, <2>1, <2>2, SumsFlow, QuietKept DEF SumsHold
    <2>4. \A t \in pending' : t.to \in Ours
      BY <1>0, <2>2, OursNext DEF SumsHold
    <2>5. ASSUME step' \notin {"snapshot", "fail"} PROVE Steady'
      <3>1. CASE Snapshot
        <4>1. Quiet
          BY <2>2, <3>1 DEF SumsHold, Snapshot
        <4> QED BY <1>0, <2>2, <3>1, <4>1, SnapshotSteady
      <3>2. CASE step \notin {"snapshot", "fail"} /\ initial_total' = initial_total
        <4>1. Steady /\ \A t \in pending : t.to \in Ours
          BY <2>2, <3>2 DEF SumsHold
        <4> QED BY <3>2, <4>1, SteadyKept
      <3> QED BY <1>2, <2>1, <2>2, <2>5, <3>1, <3>2, SumsFlow
    <2>6. ASSUME step' \in Paying PROVE AllPaid'
      <3>1. CASE AfterSplit
        <4>1. step' = "post"
          BY <2>6, <3>1 DEF AfterSplit, Paying
        <4>2. \A i \in DOMAIN script.pays : \E t \in Range(txs') : t.to = script.pays[i].to
          BY <1>0, <3>1, <4>1, AfterBuilds
        <4> QED BY <2>1, <4>2 DEF AllPaid
      <3>2. CASE step \in Paying /\ txs' = txs
        BY <2>1, <2>2, <3>2 DEF SumsHold, AllPaid
      <3> QED BY <1>2, <2>1, <2>2, <2>6, <3>1, <3>2, SumsFlow
    <2>7. /\ step' = "recipients" => funder_bal' + 3 = initial_total' /\ ni' \in Nodes
          /\ ni' \in Nat \ {0} /\ violations' = {} /\ step' # "alarm"
      <3>1. CASE ReadFunder
        <4>1. /\ step = "conserve" /\ ni <= NodeCount /\ funder_bal' = Balance(ni, Funder)
              /\ initial_total' = initial_total /\ ni' = ni /\ violations' = violations
              /\ step' = "recipients"
          BY <3>1 DEF ReadFunder
        <4>2. ni \in Nat \ {0} /\ violations = {} /\ AllPaid /\ Steady
          BY <2>2, <4>1 DEF SumsHold, Paying
        <4>3. ni \in Nodes
          BY <4>1, <4>2, NodeOne DEF Nodes
        <4>4. PICK n \in Nodes : n = ni
          BY <4>3
        <4>5. Sum(Held(at[n])) = Balance(n, Funder) + 3
          BY <1>0, <2>2, <4>1, <4>2, FunderHas
        <4>6. at[n] \in at[n]..Len(log)
          <5>1. at[n] \in 1..Len(log) /\ Len(log) \in Nat
            BY <1>0, AppliedSent
          <5> QED BY <5>1
        <4>7. Sum(Held(at[n])) = initial_total
          BY <4>2, <4>6 DEF Steady
        <4> QED BY <4>1, <4>2, <4>4, <4>5, <4>7
      <3>2. CASE ReadRecipients
        <4>1. step = "recipients" /\ ni' = ni + 1 /\ step' = "conserve"
          BY <3>2 DEF ReadRecipients
        <4>2. funder_bal + 3 = initial_total /\ ni \in Nodes /\ violations = {} /\ AllPaid /\ ni \in Nat \ {0}
          BY <2>2, <4>1 DEF SumsHold, Paying
        <4>3. PICK n \in Nodes : n = ni
          BY <4>2
        <4>4. Balance(n, script.pays[1].to) = 1 /\ Balance(n, script.pays[2].to) = 2
          BY <1>0, <2>2, <4>1, <4>2, FunderHas
        <4>5. DOMAIN script.pays = {1, 2}
          BY <2>2, SumsScript
        <4>6. FoldSet(LAMBDA i, sum : sum + Balance(ni, script.pays[i].to), 0, DOMAIN script.pays) = 3
          BY <4>3, <4>4, <4>5, TwoBalances
        <4>7. violations' = {}
          BY <3>2, <4>2, <4>6 DEF ReadRecipients
        <4>8. ni + 1 \in Nat \ {0}
          BY <4>2
        <4> QED BY <4>1, <4>7, <4>8
      <3>3. CASE Conserved
        <4>1. violations = {} /\ ni \in Nat \ {0}
          BY <2>2 DEF SumsHold
        <4>2. step' = "pass" /\ ni' = ni /\ violations' = violations
          BY <3>3, <4>1 DEF Conserved, sums
        <4> QED BY <4>1, <4>2
      <3>4. CASE /\ UNCHANGED <<funder_bal, ni, violations>>
                 /\ step' = "alarm" => step = "alarm"
                 /\ step' = "recipients" => step = "recipients" /\ initial_total' = initial_total
        BY <2>2, <3>4 DEF SumsHold
      <3> QED BY <1>2, <2>1, <2>2, <3>1, <3>2, <3>3, <3>4, SumsFlow
    <2> QED BY <2>3, <2>4, <2>5, <2>6, <2>7 DEF SumsHold
  <1> QED BY <1>1, <1>2

-----------------------------------------------------------------------------
(* The theorems.                                                           *)

\* Genesis is a transfer to the funder that spends nothing.
LEMMA ScenarioInit == Init => ScenarioInv
  <1> SUFFICES ASSUME Init PROVE ScenarioInv
    OBVIOUS
  <1>1. PICK a \in Amounts : log = <<BuildTransfer({}, Funder, a)>>
    BY DEF Init, NetworkInit
  <1>2. PICK g : g = BuildTransfer({}, Funder, a)
    OBVIOUS
  <1>3. log = <<g>> /\ Len(log) = 1 /\ log[1] = g /\ log \in Seq({g})
    BY <1>1, <1>2
  <1>4. at = [n \in Nodes |-> 1] /\ pending = {}
    BY DEF Init, NetworkInit
  <1>5. g.inputs = {} /\ g.amount \in Nat /\ g.change \in Nat
    <2>1. PICK S : S = {}
      OBVIOUS
    <2>2. Coins(S)
      BY <2>1, FS_EmptySet DEF Coins
    <2>3. PICK z : z = Funder
      OBVIOUS
    <2>4. a \in Nat
      BY SplitAssumption
    <2>5. g = BuildTransfer(S, z, a)
      BY <1>2, <2>1, <2>3
    <2>6. /\ g.inputs = S /\ g.to = z /\ g.amount = a /\ g.signed
          /\ g.change \in Nat /\ g.amount + g.change >= Sum(S)
          /\ Sum(S) >= a => g.amount + g.change = Sum(S)
      BY <2>2, <2>4, <2>5, TransferOf
    <2> QED BY <2>1, <2>4, <2>6
  <1>6. NetTyped
    <2>1. Listed(log)
      BY <1>3, SeqListed
    <2> QED BY <1>3, <1>4, <2>1 DEF NetTyped
  <1>7. built = <<>> /\ txs = <<>> /\ pc = "idle" /\ step = "pass" /\ script = Plain
    BY DEF Init, NoCall
  <1>8. Made = {g}
    <2>1. Applied(1) = {g}
      <3>1. \A i \in 1..1 : log[i] = g
        BY <1>3
      <3> QED BY <1>3, <3>1 DEF Applied
    <2>2. Range(built) = {} /\ Range(txs) = {}
      BY <1>7 DEF Range
    <2> QED BY <1>3, <1>4, <2>1, <2>2 DEF Made, Sent
  <1>9. Founded(g)
    <2>1. Coins(g.inputs)
      BY <1>5, FS_EmptySet DEF Coins
    <2>2. Sum(g.inputs) = 0
      BY <1>5, SumEmpty
    <2> QED BY <1>5, <2>1, <2>2 DEF Founded
  <1>10. TransfersInv
    BY <1>3, <1>4, <1>5, <1>6, <1>8, <1>9 DEF TransfersInv, Grounded, Chained
  <1>11. SplitInv
    BY <1>7 DEF SplitInv, Splitting
  <1>12. RunInv
    <2>1. PICK u : u = <<>>
      OBVIOUS
    <2>2. Listed(u) /\ Range(u) = {} /\ DOMAIN u = {}
      <3>1. u \in Seq({})
        BY <2>1
      <3>2. DOMAIN u = {}
        BY <2>1
      <3>3. Range(u) = {}
        BY <3>2 DEF Range
      <3> QED BY <3>1, <3>2, <3>3, SeqListed
    <2>3. Ready(txs)
      BY <1>7, <2>1, <2>2 DEF Ready
    <2>4. script.pays = <<>> /\ ~script.lenient
      BY <1>7 DEF Plain
    <2>5. OwnRecipients
      BY <2>4 DEF OwnRecipients
    <2>6. Arrived
      BY <1>7, <2>1, <2>2, <2>4 DEF Arrived, Checked
    <2>7. answered = {} /\ accepted = {}
      BY DEF Init
    <2> QED BY <1>7, <2>3, <2>5, <2>6, <2>7 DEF RunInv, Steps, Ended
  <1>13. SumsInv
    <2>1. ~script.sums
      BY <1>7 DEF Plain
    <2> QED BY <2>1 DEF SumsInv
  <1> QED BY <1>10, <1>11, <1>12, <1>13 DEF ScenarioInv

\* Every step keeps it.
LEMMA ScenarioNext == ScenarioInv /\ [Next]_vars => ScenarioInv'
  <1> SUFFICES ASSUME ScenarioInv, [Move]_shown PROVE ScenarioInv'
    BY StepsShown
  <1>1. TransfersInv /\ Grounded /\ SplitInv /\ RunInv /\ SumsInv
    BY DEF ScenarioInv, TransfersInv
  <1>2. TransfersInv' /\ SplitInv' /\ RunInv' /\ SumsInv'
    BY <1>1, TransfersNext, SplitNext, RunNext, SumsNext
  <1> QED BY <1>2 DEF ScenarioInv

\* The inductive invariant: transfers spend what node 1 has applied and the chain
\* neither creates value nor spends it twice, a split under way holds coins that
\* nobody else spends, a run that awaits payments is the only one to pay its
\* recipients, and the sums are steady (split_utxo, the scenarios, POST /tx).
THEOREM ScenarioSafety == Spec => []ScenarioInv
  BY ScenarioInit, ScenarioNext, PTL DEF Spec

\* The transfers a round has yet to submit are there to be made.
LEMMA BuiltHere == ScenarioInv => BuiltOnUnspent
  <1> SUFFICES ASSUME ScenarioInv, pc = "post", Len(current) > 1, NEW i \in DOMAIN built \ posted
               PROVE  Valid(1, built[i]) /\ \A tx \in pending : tx.inputs \cap built[i].inputs = {}
    BY DEF BuiltOnUnspent
  <1>1. Grounded /\ SplitInv
    BY DEF ScenarioInv, TransfersInv
  <1>2. CoinsHeld /\ RoundBuilt
    BY <1>1 DEF SplitInv, Splitting, InSplit, PostBuilt
  <1>3. PICK c \in Range(current) : built[i] = Halve(c)
    BY <1>2 DEF RoundBuilt
  <1>4. Mine(c) /\ Free(c) /\ c.amount \in Nat
    BY <1>1, <1>2, MineAmount DEF CoinsHeld
  <1>5. PICK t : t = Halve(c)
    OBVIOUS
  <1>6. t.inputs = {c} /\ t.signed /\ t.amount + t.change = c.amount /\ Sum({c}) = c.amount
    BY <1>4, <1>5, HalveOf, SumOne
  <1>7. \A r \in Sent : c \notin r.inputs
    <2> SUFFICES ASSUME NEW r \in Sent, c \in r.inputs PROVE FALSE
      OBVIOUS
    <2>1. PICK j \in posted : r = built[j]
      BY <1>4 DEF Free
    <2>2. j \in DOMAIN built /\ i \in DOMAIN built /\ i # j
      BY <1>2 DEF RoundBuilt
    <2>3. PICK d : built[j] = Halve(d)
      BY <1>2, <2>2 DEF RoundBuilt
    <2>4. c = d
      <3>1. Halve(d).inputs = {d}
        BY DEF Halve, BuildTransfer
      <3> QED BY <2>1, <2>3, <3>1
    <2> QED BY <1>2, <1>3, <2>2, <2>3, <2>4 DEF RoundBuilt, Apart
  <1>8. c \in Unspent(at[1])
    <2>1. PICK k : k = at[1]
      OBVIOUS
    <2>2. Applied(k) \subseteq Sent /\ \A r \in Sent : Founded(r)
      BY <1>1, <2>1, NodeOne, AppliedSent DEF Grounded, Made
    <2>3. \A r \in Applied(k) : r.amount \in Nat /\ r.change \in Nat
      BY <2>2 DEF Founded
    <2>4. \A d : d \in Unspent(k) <=> /\ d.tx \in Applied(k) /\ d \in Outputs(d.tx)
                                      /\ \A r \in Applied(k) : d \notin r.inputs
      BY <2>3, UnspentOf
    <2> QED BY <1>4, <1>7, <2>1, <2>2, <2>4 DEF Mine
  <1>9. Valid(1, t)
    <2>1. Sum(t.inputs) = t.amount + t.change /\ t.amount + t.change \in Nat
      BY <1>4, <1>6
    <2>2. Sum(t.inputs) >= t.amount + t.change
      BY <2>1
    <2> QED BY <1>6, <1>8, <2>2 DEF Valid
  <1> QED BY <1>3, <1>5, <1>6, <1>7, <1>9 DEF Sent

\* What a split returns is there.
LEMMA ReturnedHere == ScenarioInv => ReturnedIsWallet
  <1> SUFFICES ASSUME ScenarioInv, pc = "done", current # <<input_utxo>>
               PROVE  /\ Range(current) \subseteq Utxos(1, Funder)
                      /\ Len(current) = Cardinality(Range(current))
                      /\ Sum(Range(current)) = input_utxo.amount
    BY DEF ReturnedIsWallet
  <1>1. Grounded /\ SplitInv
    BY DEF ScenarioInv, TransfersInv
  <1>2. CoinsHeld
    BY <1>1 DEF SplitInv, Splitting, InSplit
  <1>3. Len(current) > 1
    <2>1. Len(current) \in Nat
      BY <1>2, ListOf DEF CoinsHeld
    <2>2. Len(current) >= 1 /\ Len(current) # 1
      BY <1>2 DEF CoinsHeld
    <2> QED BY <2>1, <2>2
  <1>4. ASSUME NEW c \in Range(current) PROVE c \in Utxos(1, Funder)
    <2>0. Mine(c) /\ \A r \in Sent : c \notin r.inputs
      BY <1>2, <1>3 DEF CoinsHeld, Free
    <2>1. PICK k : k = at[1]
      OBVIOUS
    <2>2. Applied(k) \subseteq Sent /\ \A r \in Sent : Founded(r)
      BY <1>1, <2>1, NodeOne, AppliedSent DEF Grounded, Made
    <2>3. \A r \in Applied(k) : r.amount \in Nat /\ r.change \in Nat
      BY <2>2 DEF Founded
    <2>4. \A d : d \in Unspent(k) <=> /\ d.tx \in Applied(k) /\ d \in Outputs(d.tx)
                                      /\ \A r \in Applied(k) : d \notin r.inputs
      BY <2>3, UnspentOf
    <2> QED BY <2>0, <2>1, <2>2, <2>4 DEF Mine, Utxos
  <1>5. Len(current) = Cardinality(Range(current))
    BY <1>2, ListSize DEF CoinsHeld
  <1> QED BY <1>2, <1>4, <1>5 DEF CoinsHeld

\* It is no more coins than asked for.
LEMMA NoMoreHere == ScenarioInv => NeverTooMany
  <1>1. ASSUME ScenarioInv, pc = "done" PROVE InSplit
    BY <1>1 DEF ScenarioInv, SplitInv, Splitting
  <1> QED BY <1>1 DEF NeverTooMany, InSplit

\* A pass is a payment that arrived.
LEMMA PassHere == ScenarioInv => PassMeansConfirmed
  BY DEF ScenarioInv, RunInv, Arrived, PassMeansConfirmed

\* An alarm would be one of the sums.
LEMMA AlarmHere == ScenarioInv => NoFalseAlarm
  BY DEF ScenarioInv, RunInv, SumsInv, SumsHold, NoFalseAlarm

\* From the second round on, split_utxo submits only transfers that node 1 would
\* accept, and nobody else spends their coins (split_utxo).
THEOREM SplitBuiltOnUnspent == Spec => []BuiltOnUnspent
  BY ScenarioSafety, BuiltHere, PTL

\* The coins split_utxo returns are in the wallet, each once, and worth what
\* went in (split_utxo).
THEOREM SplitReturnedIsWallet == Spec => []ReturnedIsWallet
  BY ScenarioSafety, ReturnedHere, PTL

\* split_utxo never returns more coins than asked for; the final take drops none
\* (split_utxo).
THEOREM SplitNeverTooMany == Spec => []NeverTooMany
  BY ScenarioSafety, NoMoreHere, PTL

\* A scenario that awaits its payments and passes, with recipients not paid
\* before, has its payments on every node (wait_until and its predicates).
THEOREM ScenarioPassMeansConfirmed == Spec => []PassMeansConfirmed
  BY ScenarioSafety, PassHere, PTL

\* balance_conservation, started with nothing under way and its recipients
\* unpaid, never reports a violation, however the nodes lag between its reads
\* (scenario_balance_conservation).
THEOREM ScenarioNoFalseAlarm == Spec => []NoFalseAlarm
  BY ScenarioSafety, AlarmHere, PTL
=============================================================================
