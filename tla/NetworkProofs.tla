---------------------------- MODULE NetworkProofs ---------------------------
(***************************************************************************)
(* Block gossip, for any number of nodes, any topology, any sizes of       *)
(* queues, channels and sockets, and any number of blocks and faults.      *)
(*                                                                         *)
(* Nodes prefer the higher block and, of two equally high ones, the one    *)
(* with the lower hash, and while it runs and no race befalls it, no step  *)
(* of a node takes it back in that order.  So such a node never sends what *)
(* is better than its own tip, and a connection that carries nothing has   *)
(* brought the far end at least as far as the near end, unless the near    *)
(* end's tip was lost on it or turned down.                                *)
(***************************************************************************)
EXTENDS Network, SumProofs

\* A block's place in the tree of blocks.
Grown(b) ==
    /\ minted[b].height \in Nat
    /\ b = Genesis => minted[b].height = 0
    /\ b # Genesis => /\ minted[b].prev \in DOMAIN minted
                      /\ minted[b].height = minted[minted[b].prev].height + 1

Messages == DOMAIN minted \cup {GetBlocks, Blocks}

BlocksTyped ==
    /\ Genesis \in DOMAIN minted /\ DOMAIN minted \subseteq Nat
    /\ \A b \in DOMAIN minted : Grown(b)
    /\ tip \in [Nodes -> DOMAIN minted]

LinksTyped ==
    /\ peers \in Topologies
    /\ end \in [Pairs -> {"off", "entered", "open"}]
    /\ fresh \in [Pairs -> Seq(DOMAIN minted)]
    /\ out \in [Pairs -> Seq(Messages)]
    /\ wire \in [Pairs -> Seq(Messages)]

\* Only running nodes have connections.
BothUp == \A l \in Pairs : end[l] # "off" => l[1] \in up /\ l[2] \in up

\* Every block has a path to genesis.
Paths(g) == g = [c \in DOMAIN minted |-> IF c = Genesis THEN <<c>> ELSE Append(g[Prev(c)], c)]

\* The fork choice: block b is at least as good as block c.
Beats(b, c) == Height(b) > Height(c) \/ (Height(b) = Height(c) /\ b <= c)

Queued(queue, b) == \E i \in 1..Len(queue) : queue[i] = b

\* What a connection still has to bring from l[1] to l[2].
Carries(l, b) == Queued(fresh[l], b) \/ Queued(out[l], b) \/ Queued(wire[l], b)

\* A node that no race has touched sends nothing better than its own tip.
Sent(l) == l[1] \notin raced => \A b \in DOMAIN minted : Carries(l, b) => Beats(tip[l[1]], b)

\* A connection between two nodes that no race has touched.
Live(l) == end[l] # "off" /\ l[1] \notin raced /\ l[2] \notin raced

\* Its far end hears of the near end's tip, or is as far, or has missed it.
Heard(l) ==
    Live(l) => \/ <<l, tip[l[1]]>> \in missed
               \/ Carries(l, tip[l[1]]) \/ Beats(tip[l[2]], tip[l[1]])

NetInv ==
    /\ BlocksTyped /\ LinksTyped /\ BothUp
    /\ \E g : Paths(g)
    /\ \A l \in Pairs : Sent(l) /\ Heard(l)

-----------------------------------------------------------------------------
(* Queues.                                                                 *)

\* What is in a queue after one more, and after one less.
LEMMA QueueAppend ==
  ASSUME NEW S, NEW q \in Seq(S), NEW x \in S, NEW b
  PROVE  Queued(Append(q, x), b) <=> Queued(q, b) \/ b = x
  <1>1. Len(Append(q, x)) = Len(q) + 1 /\ Len(q) \in Nat
    OBVIOUS
  <1>2. \A i \in 1..Len(q) : Append(q, x)[i] = q[i]
    OBVIOUS
  <1>3. Append(q, x)[Len(q) + 1] = x
    OBVIOUS
  <1>4. 1..(Len(q) + 1) = 1..Len(q) \cup {Len(q) + 1}
    BY <1>1
  <1>5. ASSUME Queued(Append(q, x), b) PROVE Queued(q, b) \/ b = x
    BY <1>1, <1>2, <1>3, <1>4, <1>5 DEF Queued
  <1>6. ASSUME Queued(q, b) \/ b = x PROVE Queued(Append(q, x), b)
    BY <1>1, <1>2, <1>3, <1>4, <1>6 DEF Queued
  <1> QED BY <1>5, <1>6

\* A block in a queue is at its head or further back.
LEMMA QueueTail ==
  ASSUME NEW S, NEW q \in Seq(S), q # <<>>, NEW b
  PROVE  /\ Queued(q, b) <=> b = Head(q) \/ Queued(Tail(q), b)
         /\ Tail(q) \in Seq(S) /\ Head(q) \in S
  <1>1. /\ Len(Tail(q)) = Len(q) - 1 /\ Len(q) \in Nat /\ Len(q) > 0 /\ Head(q) = q[1]
        /\ Tail(q) \in Seq(S) /\ Head(q) \in S
    OBVIOUS
  <1>2. \A i \in 1..(Len(q) - 1) : Tail(q)[i] = q[i + 1]
    OBVIOUS
  <1>3. ASSUME Queued(q, b), b # Head(q) PROVE Queued(Tail(q), b)
    <2>1. PICK i \in 1..Len(q) : q[i] = b
      BY <1>3 DEF Queued
    <2>2. i - 1 \in 1..(Len(q) - 1) /\ (i - 1) + 1 = i
      BY <1>1, <1>3, <2>1
    <2> QED BY <1>1, <1>2, <2>1, <2>2 DEF Queued
  <1>4. ASSUME Queued(Tail(q), b) PROVE Queued(q, b)
    <2>1. PICK i \in 1..(Len(q) - 1) : Tail(q)[i] = b
      BY <1>1, <1>4 DEF Queued
    <2>2. i + 1 \in 1..Len(q) /\ q[i + 1] = b
      BY <1>1, <1>2, <2>1
    <2> QED BY <2>2 DEF Queued
  <1>5. b = Head(q) => Queued(q, b)
    <2>1. 1 \in 1..Len(q)
      BY <1>1
    <2> QED BY <1>1, <2>1 DEF Queued
  <1> QED BY <1>1, <1>3, <1>4, <1>5

\* An empty queue holds nothing.
LEMMA QueueEmpty == ASSUME NEW b PROVE ~Queued(<<>>, b)
  BY DEF Queued

-----------------------------------------------------------------------------
(* Chains.                                                                 *)

\* ChainTo follows the blocks to genesis.
LEMMA ChainStep ==
  ASSUME Genesis \in DOMAIN minted, \E g : Paths(g)
  PROVE  /\ ChainTo(Genesis) = <<Genesis>>
         /\ \A b \in DOMAIN minted : b # Genesis => ChainTo(b) = Append(ChainTo(Prev(b)), b)
  <1> DEFINE f == CHOOSE g : Paths(g)
  <1>1. Paths(f)
    OBVIOUS
  <1>2. \A b : ChainTo(b) = f[b]
    BY DEF ChainTo, Paths
  <1> HIDE DEF f
  <1>3. \A b \in DOMAIN minted : f[b] = IF b = Genesis THEN <<b>> ELSE Append(f[Prev(b)], b)
    BY <1>1 DEF Paths
  <1> QED BY <1>2, <1>3

\* The chain of a block: one block of each height, the block itself at the end,
\* and the chains of its members are its prefixes.
ChainOf(b) ==
    /\ ChainTo(b) \in Seq(DOMAIN minted) /\ Len(ChainTo(b)) = Height(b) + 1
    /\ ChainTo(b)[Height(b) + 1] = b
    /\ \A i \in 1..(Height(b) + 1) :
          /\ Height(ChainTo(b)[i]) = i - 1
          /\ ChainTo(ChainTo(b)[i]) = SubSeq(ChainTo(b), 1, i)

\* A sequence with one more at its end: its length, members and prefixes.
LEMMA ChainAppend ==
  ASSUME NEW S, NEW s \in Seq(S), NEW x \in S
  PROVE  /\ Append(s, x) \in Seq(S) /\ Len(Append(s, x)) = Len(s) + 1 /\ Len(s) \in Nat
         /\ Append(s, x)[Len(s) + 1] = x
         /\ \A i \in 1..Len(s) : Append(s, x)[i] = s[i]
         /\ \A i \in 1..Len(s) : SubSeq(Append(s, x), 1, i) = SubSeq(s, 1, i)
         /\ SubSeq(Append(s, x), 1, Len(s) + 1) = Append(s, x)
         /\ Front(Append(s, x)) = s /\ Last(Append(s, x)) = x
  <1>1. /\ Append(s, x) \in Seq(S) /\ Len(Append(s, x)) = Len(s) + 1 /\ Len(s) \in Nat
        /\ Append(s, x)[Len(s) + 1] = x
        /\ \A i \in 1..Len(s) : Append(s, x)[i] = s[i]
    OBVIOUS
  <1>2. ASSUME NEW i \in 1..Len(s) PROVE SubSeq(Append(s, x), 1, i) = SubSeq(s, 1, i)
    OBVIOUS
  <1>3. SubSeq(Append(s, x), 1, Len(s) + 1) = Append(s, x)
    OBVIOUS
  <1>4. SubSeq(Append(s, x), 1, Len(s)) = s
    OBVIOUS
  <1>5. Front(Append(s, x)) = s
    <2>1. (Len(s) + 1) - 1 = Len(s)
      BY <1>1
    <2> QED BY <1>1, <1>4, <2>1 DEF Front
  <1>6. Last(Append(s, x)) = x
    BY <1>1 DEF Last
  <1> QED BY <1>1, <1>2, <1>3, <1>5, <1>6

\* Every block has its chain, by induction over heights.
LEMMA ChainFacts ==
  ASSUME BlocksTyped, \E g : Paths(g), NEW b \in DOMAIN minted
  PROVE  ChainOf(b)
  <1> DEFINE P == {k \in Nat : \A c \in DOMAIN minted : Height(c) = k => ChainOf(c)}
             n == Height(b)
  <1>1. n \in Nat
    BY DEF BlocksTyped, Grown, Height
  <1>2. 0 \in P
    <2> SUFFICES ASSUME NEW c \in DOMAIN minted, Height(c) = 0 PROVE ChainOf(c)
      OBVIOUS
    <2>1. c = Genesis
      BY DEF BlocksTyped, Grown, Height
    <2>2. ChainTo(c) = <<c>> /\ Genesis \in DOMAIN minted
      BY <2>1, ChainStep DEF BlocksTyped
    <2>3. \A i \in 1..(0 + 1) : i = 1
      OBVIOUS
    <2>4. <<c>>[1] = c /\ SubSeq(<<c>>, 1, 1) = <<c>> /\ Len(<<c>>) = 1 /\ <<c>> \in Seq(DOMAIN minted)
      <3>1. <<c>> = Append(<<>>, c) /\ <<>> \in Seq(DOMAIN minted) /\ Len(<<>>) + 1 = 1
        OBVIOUS
      <3>2. SubSeq(<<c>>, 1, 1) = <<c>>
        <4>1. SubSeq(Append(<<>>, c), 1, Len(<<>>) + 1) = Append(<<>>, c)
          BY <3>1, ChainAppend
        <4> QED BY <3>1, <4>1
      <3> QED BY <3>2
    <2> QED BY <2>2, <2>3, <2>4 DEF ChainOf
  <1>3. \A i \in 1..n : i - 1 \in P => i \in P
    <2> SUFFICES ASSUME NEW i \in 1..n, i - 1 \in P, NEW c \in DOMAIN minted, Height(c) = i
                 PROVE  ChainOf(c)
      BY <1>1
    <2>1. c # Genesis
      BY <1>1 DEF BlocksTyped, Grown, Height
    <2>2. Prev(c) \in DOMAIN minted /\ Height(c) = Height(Prev(c)) + 1 /\ Height(Prev(c)) \in Nat
      BY <2>1 DEF BlocksTyped, Grown, Height, Prev
    <2>3. ChainOf(Prev(c))
      <3>1. Height(Prev(c)) = i - 1
        BY <2>2
      <3> QED BY <2>2, <3>1
    <2>4. ChainTo(c) = Append(ChainTo(Prev(c)), c)
      BY <2>1, ChainStep DEF BlocksTyped
    <2> DEFINE s == ChainTo(Prev(c))
               h == Height(Prev(c))
    <2>5. /\ s \in Seq(DOMAIN minted) /\ Len(s) = h + 1
          /\ \A j \in 1..(h + 1) : Height(s[j]) = j - 1 /\ ChainTo(s[j]) = SubSeq(s, 1, j)
      BY <2>3 DEF ChainOf
    <2>6. /\ Append(s, c) \in Seq(DOMAIN minted) /\ Len(Append(s, c)) = Len(s) + 1
          /\ Append(s, c)[Len(s) + 1] = c
          /\ \A j \in 1..Len(s) : Append(s, c)[j] = s[j]
          /\ \A j \in 1..Len(s) : SubSeq(Append(s, c), 1, j) = SubSeq(s, 1, j)
          /\ SubSeq(Append(s, c), 1, Len(s) + 1) = Append(s, c)
      BY <2>5, ChainAppend
    <2>7. h \in Nat /\ Height(c) = h + 1 /\ ChainTo(c) = Append(s, c)
      BY <2>2, <2>4
    <2> HIDE DEF s, h
    <2>8. ASSUME NEW j \in 1..(Height(c) + 1)
          PROVE  Height(ChainTo(c)[j]) = j - 1 /\ ChainTo(ChainTo(c)[j]) = SubSeq(ChainTo(c), 1, j)
      <3>1. CASE j = h + 2
        <4>1. Append(s, c)[j] = c /\ SubSeq(Append(s, c), 1, j) = Append(s, c)
          <5>1. j = Len(s) + 1
            BY <2>5, <2>7, <3>1
          <5> QED BY <2>6, <5>1
        <4> QED BY <2>7, <3>1, <4>1
      <3>2. CASE j # h + 2
        <4>1. j \in 1..(h + 1) /\ j \in 1..Len(s)
          BY <2>5, <2>7, <3>2
        <4> QED BY <2>5, <2>6, <2>7, <4>1
      <3> QED BY <3>1, <3>2
    <2> QED BY <2>5, <2>6, <2>7, <2>8 DEF ChainOf
  <1>4. n \in P
    <2>1. n \in 0..n
      BY <1>1
    <2> HIDE DEF P, n
    <2>2. \A i \in 0..n : i \in P
      BY <1>1, <1>2, <1>3, Induction
    <2> QED BY <2>1, <2>2
  <1> QED BY <1>4

\* A known block is no better than the tip, and it is the tip or below it.
LEMMA KnownBelow ==
  ASSUME BlocksTyped, \E g : Paths(g), NEW c \in DOMAIN minted, NEW b \in ToSet(ChainTo(c))
  PROVE  /\ b \in DOMAIN minted /\ Height(b) <= Height(c)
         /\ Height(b) = Height(c) => b = c
         /\ ChainTo(b) = SubSeq(ChainTo(c), 1, Height(b) + 1)
  <1>1. /\ ChainTo(c) \in Seq(DOMAIN minted) /\ Len(ChainTo(c)) = Height(c) + 1
        /\ ChainTo(c)[Height(c) + 1] = c
        /\ \A i \in 1..(Height(c) + 1) :
              Height(ChainTo(c)[i]) = i - 1 /\ ChainTo(ChainTo(c)[i]) = SubSeq(ChainTo(c), 1, i)
    BY ChainFacts DEF ChainOf
  <1>2. Height(c) \in Nat
    BY DEF BlocksTyped, Grown, Height
  <1>3. PICK i \in 1..(Height(c) + 1) : b = ChainTo(c)[i]
    BY <1>1 DEF ToSet
  <1>4. b \in DOMAIN minted
    BY <1>1, <1>3
  <1>5. Height(b) = i - 1 /\ ChainTo(b) = SubSeq(ChainTo(c), 1, i)
    BY <1>1, <1>3
  <1>6. Height(b) + 1 = i
    BY <1>5
  <1> QED BY <1>1, <1>2, <1>3, <1>4, <1>5, <1>6

\* The fork choice is a total order.
LEMMA BeatsOrder ==
  ASSUME BlocksTyped
  PROVE  /\ \A a \in DOMAIN minted : Beats(a, a)
         /\ \A a, b, c \in DOMAIN minted : Beats(a, b) /\ Beats(b, c) => Beats(a, c)
         /\ \A a, b \in DOMAIN minted : Beats(a, b) /\ Beats(b, a) => a = b
  <1>1. \A a \in DOMAIN minted : a \in Nat /\ Height(a) \in Nat
    BY DEF BlocksTyped, Grown, Height
  <1>2. \A a \in DOMAIN minted : Beats(a, a)
    BY <1>1 DEF Beats
  <1>3. ASSUME NEW a \in DOMAIN minted, NEW b \in DOMAIN minted, NEW c \in DOMAIN minted,
               Beats(a, b), Beats(b, c)
        PROVE  Beats(a, c)
    <2>1. /\ a \in Nat /\ Height(a) \in Nat /\ b \in Nat /\ Height(b) \in Nat
          /\ c \in Nat /\ Height(c) \in Nat
      BY <1>1
    <2> QED BY <1>3, <2>1 DEF Beats
  <1>4. ASSUME NEW a \in DOMAIN minted, NEW b \in DOMAIN minted, Beats(a, b), Beats(b, a)
        PROVE  a = b
    <2>1. a \in Nat /\ Height(a) \in Nat /\ b \in Nat /\ Height(b) \in Nat
      BY <1>1
    <2> QED BY <1>4, <2>1 DEF Beats
  <1> QED BY <1>2, <1>3, <1>4

-----------------------------------------------------------------------------
(* The invariant.                                                          *)

\* A node that takes a better tip, or keeps its own, breaks no promise about
\* what it sends,
LEMMA SentStep ==
  ASSUME NetInv, minted' = minted, tip' \in [Nodes -> DOMAIN minted], raced \subseteq raced',
         NEW k \in Pairs,
         k[1] \notin raced' =>
             /\ Beats(tip'[k[1]], tip[k[1]])
             /\ \A b \in DOMAIN minted : Carries(k, b)' => Carries(k, b) \/ Beats(tip'[k[1]], b)
  PROVE  Sent(k)'
  <1> SUFFICES ASSUME k[1] \notin raced' PROVE Sent(k)'
    BY DEF Sent
  <1>1. /\ k[1] \in Nodes /\ tip[k[1]] \in DOMAIN minted /\ tip'[k[1]] \in DOMAIN minted
        /\ k[1] \notin raced
    BY DEF Pairs, NetInv, BlocksTyped
  <1>2. ASSUME NEW b \in DOMAIN minted, Carries(k, b)' PROVE Beats(tip'[k[1]], b)
    <2>1. CASE Carries(k, b)
      <3>1. Beats(tip[k[1]], b)
        BY <1>1, <2>1 DEF NetInv, Sent
      <3>2. Beats(tip'[k[1]], tip[k[1]])
        BY <1>1
      <3> QED BY <1>1, <3>1, <3>2, BeatsOrder DEF NetInv
    <2> QED BY <1>2, <2>1
  <1>3. \A b \in DOMAIN minted' : Beats(tip[k[1]], b)' <=> Beats(tip'[k[1]], b)
    BY DEF Beats, Height
  <1> QED BY <1>2, <1>3 DEF Sent

\* and about what it has yet to hear.
LEMMA HeardStep ==
  ASSUME NetInv, minted' = minted, tip' \in [Nodes -> DOMAIN minted], NEW k \in Pairs,
         Live(k)' => /\ Live(k) /\ tip'[k[1]] = tip[k[1]] /\ Beats(tip'[k[2]], tip[k[2]])
                     /\ \A b : <<k, b>> \in missed => <<k, b>> \in missed'
                     /\ \A b \in DOMAIN minted :
                           b = tip[k[1]] /\ Carries(k, b) =>
                               Carries(k, b)' \/ <<k, b>> \in missed' \/ Beats(tip'[k[2]], b)
  PROVE  Heard(k)'
  <1> SUFFICES ASSUME Live(k)' PROVE Heard(k)'
    BY DEF Heard
  <1>1. /\ k[1] \in Nodes /\ tip[k[1]] \in DOMAIN minted
        /\ k[2] \in Nodes /\ tip[k[2]] \in DOMAIN minted /\ tip'[k[2]] \in DOMAIN minted
    BY DEF Pairs, NetInv, BlocksTyped
  <1>2. PICK b \in DOMAIN minted : b = tip[k[1]]
    BY <1>1
  <1>3. Heard(k)' <=> <<k, b>> \in missed' \/ Carries(k, b)' \/ Beats(tip'[k[2]], b)
    BY <1>2 DEF Heard, Carries, Beats, Height
  <1>4. <<k, b>> \in missed \/ Carries(k, b) \/ Beats(tip[k[2]], b)
    BY <1>2 DEF NetInv, Heard
  <1>5. Beats(tip[k[2]], b) => Beats(tip'[k[2]], b)
    <2>1. Beats(tip'[k[2]], tip[k[2]])
      BY <1>1
    <2> QED BY <1>1, <2>1, BeatsOrder DEF NetInv
  <1> QED BY <1>2, <1>3, <1>4, <1>5

\* A connection has two different ends, and a counterpart the other way round.
LEMMA PairFacts ==
  ASSUME NEW l \in Pairs
  PROVE  /\ l = <<l[1], l[2]>> /\ l[1] \in Nodes /\ l[2] \in Nodes /\ l[1] # l[2]
         /\ <<l[2], l[1]>> \in Pairs
  BY DEF Pairs

\* The tree of blocks, where it does not grow.
LEMMA TreeKept ==
  ASSUME NetInv, minted' = minted, tip' \in [Nodes -> DOMAIN minted]
  PROVE  BlocksTyped' /\ (\E g : Paths(g))' /\ Messages' = Messages
  <1>1. PICK g : Paths(g)
    BY DEF NetInv
  <1>2. Paths(g)'
    BY <1>1 DEF Paths, Prev
  <1>3. BlocksTyped'
    BY DEF NetInv, BlocksTyped, Grown
  <1> QED BY <1>2, <1>3 DEF Messages

\* Tips that do not change are as good as they were.
LEMMA TipsKept ==
  ASSUME NetInv, tip' = tip
  PROVE  tip' \in [Nodes -> DOMAIN minted] /\ \A n \in Nodes : Beats(tip'[n], tip[n])
  BY BeatsOrder DEF NetInv, BlocksTyped

\* run_peer: the tip is pushed when the connection is entered.
LEMMA EnterInv ==
  ASSUME NetInv, NEW l \in Pairs, Enter(l[1], l[2])
  PROVE  NetInv'
  <1>1. /\ l = <<l[1], l[2]>> /\ l[1] \in Nodes /\ l[2] \in Nodes
    BY PairFacts
  <1>2. /\ end[l] = "off" /\ {l[1], l[2]} \subseteq up
        /\ end' = [end EXCEPT ![l] = "entered"]
        /\ wire' = [wire EXCEPT ![l] = Append(@, tip[l[1]])]
        /\ UNCHANGED <<peers, minted, tip, up, fresh, out, faults, raced, missed>>
    BY <1>1 DEF Enter
  <1>3. tip' \in [Nodes -> DOMAIN minted] /\ \A n \in Nodes : Beats(tip'[n], tip[n])
    BY <1>2, TipsKept
  <1>4. BlocksTyped' /\ (\E g : Paths(g))' /\ Messages' = Messages
    BY <1>2, <1>3, TreeKept
  <1>5. tip[l[1]] \in DOMAIN minted /\ tip[l[1]] \in Messages
    BY <1>1 DEF NetInv, BlocksTyped, Messages
  <1>6. wire[l] \in Seq(Messages)
    BY DEF NetInv, LinksTyped
  <1>7. LinksTyped'
    BY <1>2, <1>4, <1>5, <1>6 DEF NetInv, LinksTyped
  <1>8. BothUp'
    BY <1>2 DEF NetInv, BothUp, LinksTyped
  <1>9. ASSUME NEW k \in Pairs, NEW b
        PROVE  Carries(k, b)' <=> Carries(k, b) \/ (k = l /\ b = tip[l[1]])
    <2>1. CASE k = l
      <3>1. Queued(Append(wire[l], tip[l[1]]), b) <=> Queued(wire[l], b) \/ b = tip[l[1]]
        BY <1>5, <1>6, QueueAppend
      <3>2. wire'[l] = Append(wire[l], tip[l[1]])
        BY <1>2 DEF NetInv, LinksTyped
      <3> QED BY <1>2, <2>1, <3>1, <3>2 DEF Carries
    <2>2. CASE k # l
      BY <1>2, <2>2 DEF Carries, NetInv, LinksTyped
    <2> QED BY <2>1, <2>2
  <1>10. ASSUME NEW k \in Pairs PROVE Sent(k)'
    <2>1. \A b \in DOMAIN minted : Carries(k, b)' => Carries(k, b) \/ Beats(tip'[k[1]], b)
      <3>1. Beats(tip'[l[1]], tip[l[1]])
        BY <1>1, <1>3
      <3> QED BY <1>9, <3>1
    <2>2. k[1] \in Nodes /\ raced \subseteq raced'
      BY <1>2, PairFacts
    <2> QED BY <1>2, <1>3, <2>1, <2>2, SentStep
  <1>11. ASSUME NEW k \in Pairs PROVE Heard(k)'
    <2>1. CASE k = l
      <3>1. Carries(l, tip[l[1]])'
        <4>1. PICK b : b = tip[l[1]]
          OBVIOUS
        <4>2. Carries(l, b)'
          BY <1>9, <4>1
        <4> QED BY <1>2, <4>1, <4>2 DEF Carries
      <3> QED BY <2>1, <3>1 DEF Heard
    <2>2. CASE k # l
      <3>1. end'[k] = end[k]
        BY <1>2, <2>2 DEF NetInv, LinksTyped
      <3>2. \A b : Carries(k, b) => Carries(k, b)'
        BY <1>9
      <3>3. /\ k[2] \in Nodes /\ tip'[k[1]] = tip[k[1]] /\ Beats(tip'[k[2]], tip[k[2]])
            /\ missed' = missed /\ (Live(k)' => Live(k))
        BY <1>2, <1>3, <3>1, PairFacts DEF Live
      <3> QED BY <1>2, <1>3, <3>2, <3>3, HeardStep
    <2> QED BY <2>1, <2>2
  <1> QED BY <1>4, <1>7, <1>8, <1>10, <1>11 DEF NetInv

\* A step that changes nothing of the tips and of what is under way.
LEMMA SameLoad ==
  ASSUME NetInv, minted' = minted, tip' = tip, raced \subseteq raced', missed' = missed,
         \A k \in Pairs : end'[k] # "off" => end[k] # "off",
         \A k \in Pairs : \A b : Carries(k, b)' <=> Carries(k, b)
  PROVE  \A k \in Pairs : Sent(k)' /\ Heard(k)'
  <1> SUFFICES ASSUME NEW k \in Pairs PROVE Sent(k)' /\ Heard(k)'
    OBVIOUS
  <1>1. tip' \in [Nodes -> DOMAIN minted] /\ \A n \in Nodes : Beats(tip'[n], tip[n])
    BY TipsKept
  <1>2. k[1] \in Nodes /\ k[2] \in Nodes /\ tip'[k[1]] = tip[k[1]]
    BY PairFacts
  <1>3. \A b \in DOMAIN minted : Carries(k, b)' <=> Carries(k, b)
    OBVIOUS
  <1>4. Live(k)' => Live(k)
    BY DEF Live
  <1>5. Sent(k)'
    BY <1>1, <1>2, <1>3, SentStep
  <1>6. Heard(k)'
    BY <1>1, <1>2, <1>3, <1>4, HeardStep
  <1> QED BY <1>5, <1>6

\* run_peer: the subscription loses nothing that was on its way.
LEMMA SubscribeInv ==
  ASSUME NetInv, NEW l \in Pairs, Subscribe(l[1], l[2])
  PROVE  NetInv'
  <1>1. l = <<l[1], l[2]>>
    BY PairFacts
  <1>2. /\ end[l] = "entered" /\ end' = [end EXCEPT ![l] = "open"]
        /\ UNCHANGED <<peers, minted, tip, up, fresh, out, wire, faults, raced, missed>>
    BY <1>1 DEF Subscribe
  <1>3. BlocksTyped' /\ (\E g : Paths(g))' /\ Messages' = Messages
    BY <1>2, TipsKept, TreeKept
  <1>4. LinksTyped'
    BY <1>2, <1>3 DEF NetInv, LinksTyped
  <1>5. \A k \in Pairs : end'[k] # "off" => end[k] # "off"
    BY <1>2 DEF NetInv, LinksTyped
  <1>6. BothUp'
    BY <1>2, <1>5 DEF NetInv, BothUp
  <1>7. \A k \in Pairs : \A b : Carries(k, b)' <=> Carries(k, b)
    BY <1>2 DEF Carries
  <1>8. \A k \in Pairs : Sent(k)' /\ Heard(k)'
    BY <1>2, <1>5, <1>7, SameLoad
  <1> QED BY <1>3, <1>4, <1>6, <1>8 DEF NetInv

\* A frame that moves from a queue to the sockets.
LEMMA Moved ==
  ASSUME NEW S, NEW q \in Seq(S), q # <<>>, NEW w \in Seq(S), NEW b
  PROVE  /\ Queued(Tail(q), b) \/ Queued(Append(w, Head(q)), b) <=> Queued(q, b) \/ Queued(w, b)
         /\ Tail(q) \in Seq(S) /\ Append(w, Head(q)) \in Seq(S)
  <1>1. /\ Queued(q, b) <=> b = Head(q) \/ Queued(Tail(q), b)
        /\ Tail(q) \in Seq(S) /\ Head(q) \in S
    BY QueueTail
  <1>2. Queued(Append(w, Head(q)), b) <=> Queued(w, b) \/ b = Head(q)
    BY <1>1, QueueAppend
  <1> QED BY <1>1, <1>2

\* run_peer: what leaves a queue is in the socket.
LEMMA SendInv ==
  ASSUME NetInv, NEW l \in Pairs, Send(l[1], l[2])
  PROVE  NetInv'
  <1>1. l = <<l[1], l[2]>>
    BY PairFacts
  <1>2. /\ \/ /\ fresh[l] # <<>>
              /\ wire' = [wire EXCEPT ![l] = Append(@, Head(fresh[l]))]
              /\ fresh' = [fresh EXCEPT ![l] = Tail(@)]
              /\ UNCHANGED out
           \/ /\ out[l] # <<>>
              /\ wire' = [wire EXCEPT ![l] = Append(@, Head(out[l]))]
              /\ out' = [out EXCEPT ![l] = Tail(@)]
              /\ UNCHANGED fresh
        /\ UNCHANGED <<peers, minted, tip, up, end, faults, raced, missed>>
    BY <1>1 DEF Send
  <1>3. BlocksTyped' /\ (\E g : Paths(g))' /\ Messages' = Messages
    BY <1>2, TipsKept, TreeKept
  <1>4. /\ wire[l] \in Seq(Messages) /\ out[l] \in Seq(Messages)
        /\ fresh[l] \in Seq(DOMAIN minted) /\ fresh[l] \in Seq(Messages)
    <2>1. wire[l] \in Seq(Messages) /\ out[l] \in Seq(Messages) /\ fresh[l] \in Seq(DOMAIN minted)
      BY DEF NetInv, LinksTyped
    <2>2. fresh[l] \in Seq(Messages)
      BY <2>1 DEF Messages
    <2> QED BY <2>1, <2>2
  <1>5. LinksTyped' /\ \A k \in Pairs : \A b : Carries(k, b)' <=> Carries(k, b)
    <2>1. CASE /\ fresh[l] # <<>>
               /\ wire' = [wire EXCEPT ![l] = Append(@, Head(fresh[l]))]
               /\ fresh' = [fresh EXCEPT ![l] = Tail(@)]
               /\ UNCHANGED out
      <3>1. \A b : Queued(Tail(fresh[l]), b) \/ Queued(Append(wire[l], Head(fresh[l])), b)
                   <=> Queued(fresh[l], b) \/ Queued(wire[l], b)
        BY <1>4, <2>1, Moved
      <3>2. Tail(fresh[l]) \in Seq(DOMAIN minted)
        BY <1>4, <2>1, QueueTail
      <3>3. Append(wire[l], Head(fresh[l])) \in Seq(Messages)
        BY <1>4, <2>1, Moved
      <3>4. LinksTyped'
        BY <1>2, <1>3, <2>1, <3>2, <3>3 DEF NetInv, LinksTyped
      <3>5. fresh'[l] = Tail(fresh[l]) /\ wire'[l] = Append(wire[l], Head(fresh[l]))
        BY <2>1 DEF NetInv, LinksTyped
      <3>6. ASSUME NEW k \in Pairs, NEW b PROVE Carries(k, b)' <=> Carries(k, b)
        <4>1. CASE k = l
          <5>1. Carries(l, b)' <=> Queued(fresh'[l], b) \/ Queued(out'[l], b) \/ Queued(wire'[l], b)
            BY DEF Carries
          <5> QED BY <2>1, <3>1, <3>5, <4>1, <5>1 DEF Carries
        <4>2. CASE k # l
          BY <2>1, <4>2 DEF Carries, NetInv, LinksTyped
        <4> QED BY <4>1, <4>2
      <3> QED BY <3>4, <3>6
    <2>2. CASE /\ out[l] # <<>>
               /\ wire' = [wire EXCEPT ![l] = Append(@, Head(out[l]))]
               /\ out' = [out EXCEPT ![l] = Tail(@)]
               /\ UNCHANGED fresh
      <3>1. \A b : Queued(Tail(out[l]), b) \/ Queued(Append(wire[l], Head(out[l])), b)
                   <=> Queued(out[l], b) \/ Queued(wire[l], b)
        BY <1>4, <2>2, Moved
      <3>2. Tail(out[l]) \in Seq(Messages) /\ Append(wire[l], Head(out[l])) \in Seq(Messages)
        BY <1>4, <2>2, Moved
      <3>4. LinksTyped'
        BY <1>2, <1>3, <2>2, <3>2 DEF NetInv, LinksTyped
      <3>5. out'[l] = Tail(out[l]) /\ wire'[l] = Append(wire[l], Head(out[l]))
        BY <2>2 DEF NetInv, LinksTyped
      <3>6. ASSUME NEW k \in Pairs, NEW b PROVE Carries(k, b)' <=> Carries(k, b)
        <4>1. CASE k = l
          <5>1. Carries(l, b)' <=> Queued(fresh'[l], b) \/ Queued(out'[l], b) \/ Queued(wire'[l], b)
            BY DEF Carries
          <5> QED BY <2>2, <3>1, <3>5, <4>1, <5>1 DEF Carries
        <4>2. CASE k # l
          BY <2>2, <4>2 DEF Carries, NetInv, LinksTyped
        <4> QED BY <4>1, <4>2
      <3> QED BY <3>4, <3>6
    <2> QED BY <1>2, <2>1, <2>2
  <1>6. BothUp'
    BY <1>2 DEF NetInv, BothUp
  <1>7. \A k \in Pairs : end'[k] # "off" => end[k] # "off"
    BY <1>2
  <1>8. \A k \in Pairs : Sent(k)' /\ Heard(k)'
    BY <1>2, <1>5, <1>7, SameLoad
  <1> QED BY <1>3, <1>5, <1>6, <1>8 DEF NetInv

\* Outbound queues after try_send: a queue that is not full has the message.
LEMMA TrySendFacts ==
  ASSUME LinksTyped, NEW targets, NEW msg \in Messages, TrySend(targets, msg)
  PROVE  /\ out' \in [Pairs -> Seq(Messages)]
         /\ \A k \in Pairs : \A b :
               /\ Queued(out[k], b) => Queued(out'[k], b)
               /\ Queued(out'[k], b) => Queued(out[k], b) \/ (k \in targets /\ b = msg)
               /\ k \in targets /\ ~Full(k) => Queued(out'[k], msg)
  <1>1. out' = [k \in Pairs |-> IF k \in targets /\ ~Full(k) THEN Append(out[k], msg) ELSE out[k]]
    BY DEF TrySend
  <1>2. \A k \in Pairs : out[k] \in Seq(Messages) /\ Append(out[k], msg) \in Seq(Messages)
    BY DEF LinksTyped
  <1>3. out' \in [Pairs -> Seq(Messages)]
    BY <1>1, <1>2
  <1>4. ASSUME NEW k \in Pairs, NEW b
        PROVE  /\ Queued(out[k], b) => Queued(out'[k], b)
               /\ Queued(out'[k], b) => Queued(out[k], b) \/ (k \in targets /\ b = msg)
               /\ k \in targets /\ ~Full(k) => Queued(out'[k], msg)
    <2>1. CASE k \in targets /\ ~Full(k)
      <3>1. out'[k] = Append(out[k], msg)
        BY <1>1, <2>1
      <3>2. Queued(Append(out[k], msg), b) <=> Queued(out[k], b) \/ b = msg
        BY <1>2, QueueAppend
      <3>3. Queued(Append(out[k], msg), msg) <=> Queued(out[k], msg) \/ msg = msg
        BY <1>2, QueueAppend
      <3> QED BY <2>1, <3>1, <3>2, <3>3
    <2>2. CASE ~(k \in targets /\ ~Full(k))
      <3>1. out'[k] = out[k]
        BY <1>1, <2>2
      <3> QED BY <2>2, <3>1
    <2> QED BY <2>1, <2>2
  <1> QED BY <1>3, <1>4

\* The outcome of a block from n at node m, unless in a race.
Taken(m, n, b)  == Beats(b, tip[m]) /\ tip' = [tip EXCEPT ![m] = b] /\ Forward(m, n, b)
Passed(m, n, b) == /\ tip' = tip /\ missed \subseteq missed'
                   /\ <<<<n, m>>, b>> \in missed' \/ Beats(tip[m], b)

\* A stale block is no better than the tip.
LEMMA StaleIsWorse ==
  ASSUME NetInv, NEW m \in Nodes, NEW b \in DOMAIN minted, Stale(m, b)
  PROVE  Beats(tip[m], b)
  <1>1. /\ tip[m] \in DOMAIN minted /\ b \in Nat /\ tip[m] \in Nat
        /\ Height(b) \in Nat /\ Height(tip[m]) \in Nat
    BY DEF NetInv, BlocksTyped, Grown, Height
  <1>2. CASE b \in ToSet(ChainTo(tip[m]))
    <2>1. Height(b) <= Height(tip[m]) /\ (Height(b) = Height(tip[m]) => b = tip[m])
      BY <1>1, <1>2, KnownBelow DEF NetInv
    <2> QED BY <1>1, <2>1 DEF Beats
  <1>3. CASE b \notin ToSet(ChainTo(tip[m]))
    BY <1>1, <1>3 DEF Beats, Stale
  <1> QED BY <1>2, <1>3

\* dispatch takes a better block and forwards it, or passes it over because the
\* tip is as good or it is turned down, and then asks at most for blocks.
LEMMA HandleBlockOutcome ==
  ASSUME NetInv, NEW m \in Nodes, NEW n \in Nodes, NEW b \in DOMAIN minted,
         m \notin raced, HandleBlock(m, n, b)
  PROVE  \/ Taken(m, n, b)
         \/ Passed(m, n, b) /\ (out' = out \/ TrySend({<<m, n>>}, GetBlocks))
  <1>1. Take(m, n, b) \/ Decline(m, n, b) \/ Drop(m, b)
    BY DEF HandleBlock
  <1>2. CASE Take(m, n, b)
    <2>1. /\ tip[m] \in DOMAIN minted /\ b \in Nat /\ tip[m] \in Nat
          /\ Height(b) \in Nat /\ Height(tip[m]) \in Nat
      BY DEF NetInv, BlocksTyped, Grown, Height
    <2>2. Beats(b, tip[m])
      BY <1>2, <2>1 DEF Take, Accepts, Beats
    <2> QED BY <1>2, <2>2 DEF Take, Taken
  <1>3. CASE Decline(m, n, b)
    BY <1>3 DEF Decline, Passed
  <1>4. CASE Drop(m, b)
    BY <1>4, StaleIsWorse DEF Drop, Passed
  <1> QED BY <1>1, <1>2, <1>3, <1>4

\* A frame that is read is gone from the sockets, and only the queues of the
\* reader may have grown.
LEMMA ReadLoad ==
  ASSUME NetInv, NEW l \in Pairs, wire[l] # <<>>, wire' = [wire EXCEPT ![l] = Tail(@)],
         fresh' = fresh, \A k \in Pairs : \A b : Queued(out[k], b) => Queued(out'[k], b)
  PROVE  /\ wire' \in [Pairs -> Seq(Messages)] /\ Head(wire[l]) \in Messages
         /\ \A b : b = Head(wire[l]) => Carries(l, b)
         /\ \A k \in Pairs : \A b :
               /\ Carries(k, b) => Carries(k, b)' \/ (k = l /\ b = Head(wire[l]))
               /\ Carries(k, b)' => Carries(k, b) \/ Queued(out'[k], b)
  <1>1. wire \in [Pairs -> Seq(Messages)] /\ wire[l] \in Seq(Messages)
    BY DEF NetInv, LinksTyped
  <1>2. /\ Tail(wire[l]) \in Seq(Messages) /\ Head(wire[l]) \in Messages
        /\ \A b : Queued(wire[l], b) <=> b = Head(wire[l]) \/ Queued(Tail(wire[l]), b)
    BY <1>1, QueueTail
  <1>3. wire' \in [Pairs -> Seq(Messages)]
    BY <1>1, <1>2
  <1>4. \A b : b = Head(wire[l]) => Carries(l, b)
    BY <1>2 DEF Carries
  <1>5. ASSUME NEW k \in Pairs, NEW b
        PROVE  /\ Queued(wire[k], b) => Queued(wire'[k], b) \/ (k = l /\ b = Head(wire[l]))
               /\ Queued(wire'[k], b) => Queued(wire[k], b)
    <2>1. CASE k = l
      <3>1. wire'[k] = Tail(wire[l])
        BY <1>1, <2>1
      <3> QED BY <1>2, <2>1, <3>1
    <2>2. CASE k # l
      <3>1. wire'[k] = wire[k]
        BY <1>1, <2>2
      <3> QED BY <3>1
    <2> QED BY <2>1, <2>2
  <1>6. ASSUME NEW k \in Pairs, NEW b
        PROVE  /\ Carries(k, b) => Carries(k, b)' \/ (k = l /\ b = Head(wire[l]))
               /\ Carries(k, b)' => Carries(k, b) \/ Queued(out'[k], b)
    <2>1. Carries(k, b)' <=> Queued(fresh[k], b) \/ Queued(out'[k], b) \/ Queued(wire'[k], b)
      BY DEF Carries
    <2>2. Queued(out[k], b) => Queued(out'[k], b)
      OBVIOUS
    <2> QED BY <1>5, <2>1, <2>2 DEF Carries
  <1> QED BY <1>2, <1>3, <1>4, <1>6

\* A frame is read and the reader keeps its tip.
LEMMA PassedInv ==
  ASSUME NetInv, NEW l \in Pairs, wire[l] # <<>>, wire' = [wire EXCEPT ![l] = Tail(@)],
         UNCHANGED <<peers, minted, up, end, fresh, faults, raced>>,
         tip' = tip, missed \subseteq missed',
         Head(wire[l]) \in DOMAIN minted =>
             <<l, Head(wire[l])>> \in missed' \/ Beats(tip[l[2]], Head(wire[l])),
         NEW msg \in {GetBlocks, Blocks},
         out' = out \/ TrySend({<<l[2], l[1]>>}, msg)
  PROVE  NetInv'
  <1>1. tip' \in [Nodes -> DOMAIN minted] /\ \A n \in Nodes : Beats(tip'[n], tip[n])
    BY TipsKept
  <1>2. BlocksTyped' /\ (\E g : Paths(g))' /\ Messages' = Messages
    BY <1>1, TreeKept
  <1>3. msg \in Messages /\ msg \notin DOMAIN minted
    BY DEF Messages, GetBlocks, Blocks, NetInv, BlocksTyped
  <1>4. /\ out' \in [Pairs -> Seq(Messages)]
        /\ \A k \in Pairs : \A b :
              /\ Queued(out[k], b) => Queued(out'[k], b)
              /\ Queued(out'[k], b) => Queued(out[k], b) \/ b = msg
    <2>1. CASE out' = out
      BY <2>1 DEF NetInv, LinksTyped
    <2>2. CASE TrySend({<<l[2], l[1]>>}, msg)
      <3>1. PICK targets : TrySend(targets, msg)
        BY <2>2
      <3>2. LinksTyped
        BY DEF NetInv
      <3>3. msg \in Messages
        BY <1>3
      <3>4. /\ out' \in [Pairs -> Seq(Messages)]
            /\ \A k \in Pairs : \A b :
                  /\ Queued(out[k], b) => Queued(out'[k], b)
                  /\ Queued(out'[k], b) => Queued(out[k], b) \/ (k \in targets /\ b = msg)
                  /\ k \in targets /\ ~Full(k) => Queued(out'[k], msg)
        BY <3>1, <3>2, <3>3, TrySendFacts
      <3> QED BY <3>4
    <2> QED BY <2>1, <2>2
  <1>5. /\ wire' \in [Pairs -> Seq(Messages)]
        /\ \A k \in Pairs : \A b :
              /\ Carries(k, b) => Carries(k, b)' \/ (k = l /\ b = Head(wire[l]))
              /\ Carries(k, b)' => Carries(k, b) \/ Queued(out'[k], b)
    BY <1>4, ReadLoad
  <1>6. LinksTyped' /\ BothUp'
    BY <1>2, <1>4, <1>5 DEF NetInv, LinksTyped, BothUp
  <1>7. ASSUME NEW k \in Pairs PROVE Sent(k)'
    <2>1. \A b \in DOMAIN minted : Carries(k, b)' => Carries(k, b) \/ Beats(tip'[k[1]], b)
      BY <1>3, <1>4, <1>5 DEF Carries
    <2>2. k[1] \in Nodes /\ raced \subseteq raced'
      BY PairFacts
    <2> QED BY <1>1, <2>1, <2>2, SentStep
  <1>8. ASSUME NEW k \in Pairs PROVE Heard(k)'
    <2>1. \A b \in DOMAIN minted :
              b = tip[k[1]] /\ Carries(k, b) =>
                  Carries(k, b)' \/ <<k, b>> \in missed' \/ Beats(tip'[k[2]], b)
      BY <1>5
    <2>2. k[2] \in Nodes /\ tip'[k[1]] = tip[k[1]] /\ (Live(k)' => Live(k))
      BY PairFacts DEF Live
    <2> QED BY <1>1, <2>1, <2>2, HeardStep
  <1> QED BY <1>2, <1>6, <1>7, <1>8 DEF NetInv

\* The reader takes the block and forwards it to all but the one it is from,
\* whose tip is as good already.
LEMMA TakenInv ==
  ASSUME NetInv, NEW l \in Pairs, wire[l] # <<>>, wire' = [wire EXCEPT ![l] = Tail(@)],
         UNCHANGED <<peers, minted, up, end, fresh, faults, raced>>,
         NEW b \in DOMAIN minted, b = Head(wire[l]), Taken(l[2], l[1], b)
  PROVE  NetInv'
  <1> DEFINE n == l[1]
             m == l[2]
             others == Others(m, n)
  <1>1. n \in Nodes /\ m \in Nodes /\ n # m
    BY PairFacts
  <1>2. /\ Beats(b, tip[m]) /\ tip' = [tip EXCEPT ![m] = b] /\ TrySend(others, b)
        /\ missed' = missed \cup {<<k, b>> : k \in {j \in others : Full(j)}}
    BY DEF Taken, Forward
  <1>4. tip \in [Nodes -> DOMAIN minted]
    BY DEF NetInv, BlocksTyped
  <1>5. tip' \in [Nodes -> DOMAIN minted] /\ tip'[m] = b /\ \A x \in Nodes \ {m} : tip'[x] = tip[x]
    BY <1>1, <1>2, <1>4
  <1>6. \A x \in Nodes : Beats(tip'[x], tip[x])
    BY <1>2, <1>4, <1>5, BeatsOrder DEF NetInv
  <1>7. BlocksTyped' /\ (\E g : Paths(g))' /\ Messages' = Messages
    BY <1>5, TreeKept
  <1>8. b \in Messages
    BY DEF Messages
  <1>9. /\ out' \in [Pairs -> Seq(Messages)]
        /\ \A k \in Pairs : \A c :
              /\ Queued(out[k], c) => Queued(out'[k], c)
              /\ Queued(out'[k], c) => Queued(out[k], c) \/ (k \in others /\ c = b)
              /\ k \in others /\ ~Full(k) => Queued(out'[k], b)
    <2>1. LinksTyped /\ TrySend(others, b)
      BY <1>2 DEF NetInv
    <2> HIDE DEF others
    <2> QED BY <1>8, <2>1, TrySendFacts
  <1>10. /\ wire' \in [Pairs -> Seq(Messages)] /\ Carries(l, b)
         /\ \A k \in Pairs : \A c :
               /\ Carries(k, c) => Carries(k, c)' \/ (k = l /\ c = b)
               /\ Carries(k, c)' => Carries(k, c) \/ Queued(out'[k], c)
    BY <1>9, ReadLoad
  <1>11. LinksTyped' /\ BothUp'
    BY <1>7, <1>9, <1>10 DEF NetInv, LinksTyped, BothUp
  <1>12. \A k \in others : k[1] = m
    BY DEF Others
  <1>13. \A k \in Pairs : k[1] = m /\ k[2] # n /\ end[k] # "off" => k \in others
    BY DEF Others
  <1>14. Beats(b, b) /\ (n \notin raced => Beats(tip[n], b))
    BY <1>10, BeatsOrder DEF NetInv, Sent
  <1>17. missed \subseteq missed' /\ raced \subseteq raced'
    BY <1>2
  <1> HIDE DEF n, m, others
  <1>15. ASSUME NEW k \in Pairs PROVE Sent(k)'
    <2>1. \A c \in DOMAIN minted : Carries(k, c)' => Carries(k, c) \/ Beats(tip'[k[1]], c)
      BY <1>5, <1>9, <1>10, <1>12, <1>14 DEF Carries
    <2>2. k[1] \in Nodes
      BY PairFacts
    <2> QED BY <1>5, <1>6, <1>17, <2>1, <2>2, SentStep
  <1>16. ASSUME NEW k \in Pairs PROVE Heard(k)'
    <2>0. k[1] \in Nodes /\ k[2] \in Nodes /\ k[1] # k[2] /\ (Live(k)' => Live(k))
      BY PairFacts DEF Live
    <2>1. CASE k[1] # m
      <3>1. \A c \in DOMAIN minted :
                c = tip[k[1]] /\ Carries(k, c) =>
                    Carries(k, c)' \/ <<k, c>> \in missed' \/ Beats(tip'[k[2]], c)
        <4>1. k = l => Beats(tip'[k[2]], b)
          BY <1>5, <1>14 DEF m
        <4> QED BY <1>10, <4>1
      <3>2. /\ tip'[k[1]] = tip[k[1]] /\ Beats(tip'[k[2]], tip[k[2]])
            /\ \A c : <<k, c>> \in missed => <<k, c>> \in missed'
        BY <1>5, <1>6, <1>17, <2>0, <2>1
      <3> QED BY <1>5, <2>0, <3>1, <3>2, HeardStep
    <2>2. CASE k[1] = m /\ k[2] = n
      <3>1. tip'[k[2]] = tip[n] /\ tip'[k[1]] = b
        BY <1>1, <1>5, <2>2 DEF n, m
      <3>2. n \notin raced => Beats(tip[k[2]], tip[k[1]])'
        BY <1>14, <3>1 DEF Beats, Height
      <3>3. Live(k)' => n \notin raced
        BY <2>0, <2>2 DEF Live
      <3> QED BY <3>2, <3>3 DEF Heard
    <2>3. CASE k[1] = m /\ k[2] # n
      <3>1. end'[k] # "off" => k \in others
        BY <1>13, <2>3
      <3>2. k \in others => <<k, b>> \in missed' \/ Queued(out'[k], b)
        BY <1>2, <1>9
      <3>3. Queued(out'[k], b) => Carries(k, tip[k[1]])'
        BY <1>5, <2>3 DEF Carries
      <3>4. tip'[k[1]] = b
        BY <1>5, <2>3
      <3> QED BY <3>1, <3>2, <3>3, <3>4 DEF Heard, Live
    <2> QED BY <2>1, <2>2, <2>3
  <1> QED BY <1>7, <1>11, <1>15, <1>16 DEF NetInv

\* What a node does in a race touches none of the connections between others.
LEMMA MuddledInv ==
  ASSUME NetInv, NEW l \in Pairs, wire[l] # <<>>, wire' = [wire EXCEPT ![l] = Tail(@)],
         UNCHANGED <<peers, minted, up, end, fresh, faults, raced>>,
         NEW b \in DOMAIN minted, l[2] \in raced, Muddle(l[2], l[1], b)
  PROVE  NetInv'
  <1> DEFINE n == l[1]
             m == l[2]
  <1>1. n \in Nodes /\ m \in Nodes /\ n # m
    BY PairFacts
  <1>2. tip \in [Nodes -> DOMAIN minted] /\ LinksTyped
    BY DEF NetInv, BlocksTyped
  <1>3. tip' \in [Nodes -> DOMAIN minted] /\ \A x \in Nodes \ {m} : tip'[x] = tip[x]
    BY <1>1, <1>2 DEF Muddle
  <1>4. BlocksTyped' /\ (\E g : Paths(g))' /\ Messages' = Messages
    BY <1>3, TreeKept
  <1>5. PICK targets \in SUBSET Pairs, msg \in Messages :
            /\ missed \subseteq missed' /\ \A k \in targets : k[1] = m
            /\ out' = out \/ TrySend(targets, msg)
    <2>1. b \in Messages /\ GetBlocks \in Messages
      BY DEF Messages
    <2>2. CASE Forward(m, n, b)
      <3>1. TrySend(Others(m, n), b) /\ missed \subseteq missed'
        BY <2>2 DEF Forward
      <3>2. Others(m, n) \in SUBSET Pairs /\ \A k \in Others(m, n) : k[1] = m
        BY DEF Others
      <3> QED BY <2>1, <3>1, <3>2
    <2>3. CASE TrySend({<<m, n>>}, GetBlocks) /\ UNCHANGED missed
      <3>1. {<<m, n>>} \in SUBSET Pairs /\ \A k \in {<<m, n>>} : k[1] = m
        BY PairFacts
      <3> QED BY <2>1, <2>3, <3>1
    <2>4. CASE UNCHANGED <<out, missed>>
      <3>1. {} \in SUBSET Pairs /\ \A k \in {} : k[1] = m
        OBVIOUS
      <3> QED BY <2>1, <2>4, <3>1
    <2> QED BY <2>2, <2>3, <2>4 DEF Muddle
  <1> HIDE DEF m, n
  <1>6. /\ out' \in [Pairs -> Seq(Messages)]
        /\ \A k \in Pairs : \A c :
              /\ Queued(out[k], c) => Queued(out'[k], c)
              /\ Queued(out'[k], c) => Queued(out[k], c) \/ k[1] = m
    <2>1. CASE out' = out
      BY <1>2, <2>1 DEF LinksTyped
    <2>2. CASE TrySend(targets, msg)
      <3>1. /\ out' \in [Pairs -> Seq(Messages)]
            /\ \A k \in Pairs : \A c :
                  /\ Queued(out[k], c) => Queued(out'[k], c)
                  /\ Queued(out'[k], c) => Queued(out[k], c) \/ (k \in targets /\ c = msg)
                  /\ k \in targets /\ ~Full(k) => Queued(out'[k], msg)
        BY <1>2, <1>5, <2>2, TrySendFacts
      <3> QED BY <1>5, <3>1
    <2> QED BY <1>5, <2>1, <2>2
  <1>7. /\ wire' \in [Pairs -> Seq(Messages)]
        /\ \A k \in Pairs : \A c :
              /\ Carries(k, c) => Carries(k, c)' \/ (k = l /\ c = Head(wire[l]))
              /\ Carries(k, c)' => Carries(k, c) \/ Queued(out'[k], c)
    BY <1>6, ReadLoad
  <1>8. LinksTyped' /\ BothUp'
    BY <1>4, <1>6, <1>7 DEF NetInv, LinksTyped, BothUp
  <1>9. m \in raced' /\ raced' = raced
    BY DEF m
  <1>10. ASSUME NEW k \in Pairs PROVE Sent(k)' /\ Heard(k)'
    <2>1. k[1] \in Nodes /\ k[2] \in Nodes
      BY PairFacts
    <2>2. \A x \in Nodes : x # m => Beats(tip'[x], tip[x])
      BY <1>2, <1>3, BeatsOrder DEF NetInv
    <2>3. Sent(k)'
      <3>1. ASSUME k[1] \notin raced'
            PROVE  /\ Beats(tip'[k[1]], tip[k[1]])
                   /\ \A c \in DOMAIN minted :
                         Carries(k, c)' => Carries(k, c) \/ Beats(tip'[k[1]], c)
        <4>1. k[1] # m
          BY <1>9, <3>1
        <4> QED BY <1>6, <1>7, <2>1, <2>2, <4>1 DEF Carries
      <3> QED BY <1>3, <1>9, <3>1, SentStep
    <2>4. Heard(k)'
      <3>1. ASSUME Live(k)'
            PROVE  /\ Live(k) /\ tip'[k[1]] = tip[k[1]] /\ Beats(tip'[k[2]], tip[k[2]])
                   /\ \A c : <<k, c>> \in missed => <<k, c>> \in missed'
                   /\ \A c \in DOMAIN minted :
                         c = tip[k[1]] /\ Carries(k, c) =>
                             Carries(k, c)' \/ <<k, c>> \in missed' \/ Beats(tip'[k[2]], c)
        <4>1. k[1] # m /\ k[2] # m /\ k # l /\ Live(k)
          BY <1>9, <3>1 DEF Live, m
        <4> QED BY <1>3, <1>5, <1>7, <2>1, <2>2, <4>1
      <3> QED BY <1>3, <3>1, HeardStep
    <2> QED BY <2>3, <2>4
  <1> QED BY <1>4, <1>8, <1>10 DEF NetInv

\* dispatch: a frame that is read is taken, passed over for a better tip, or turned down.
LEMMA DeliverInv ==
  ASSUME NetInv, NEW l \in Pairs, Deliver(l[1], l[2])
  PROVE  NetInv'
  <1>1. l = <<l[1], l[2]>> /\ l[1] \in Nodes /\ l[2] \in Nodes
    BY PairFacts
  <1> DEFINE msg == Head(wire[l])
             r   == <<l[2], l[1]>>
  <1>2. /\ wire[l] # <<>> /\ wire' = [wire EXCEPT ![l] = Tail(@)]
        /\ CASE msg = GetBlocks -> TrySend({r}, Blocks) /\ UNCHANGED <<tip, missed>>
             [] msg = Blocks    -> UNCHANGED <<tip, out, missed>>
             [] OTHER           -> HandleBlock(l[2], l[1], msg)
        /\ UNCHANGED <<peers, minted, up, end, fresh, faults, raced>>
    BY <1>1 DEF Deliver
  <1>3. msg \in Messages
    BY <1>2, QueueTail DEF NetInv, LinksTyped
  <1>4. GetBlocks # Blocks /\ GetBlocks \notin DOMAIN minted /\ Blocks \notin DOMAIN minted
    BY DEF GetBlocks, Blocks, NetInv, BlocksTyped
  <1>5. CASE msg = GetBlocks
    <2>1. TrySend({r}, Blocks) /\ UNCHANGED <<tip, missed>>
      BY <1>2, <1>4, <1>5
    <2> QED BY <1>2, <1>4, <1>5, <2>1, PassedInv
  <1>6. CASE msg = Blocks
    <2>1. UNCHANGED <<tip, out, missed>>
      BY <1>2, <1>4, <1>6
    <2> QED BY <1>2, <1>4, <1>6, <2>1, PassedInv
  <1>7. CASE msg # GetBlocks /\ msg # Blocks
    <2>1. PICK b \in DOMAIN minted : b = msg
      BY <1>3, <1>7 DEF Messages
    <2>2. HandleBlock(l[2], l[1], b)
      BY <1>2, <1>7, <2>1
    <2>3. CASE Taken(l[2], l[1], b)
      BY <1>2, <2>1, <2>3, TakenInv
    <2>4. CASE Passed(l[2], l[1], b) /\ (out' = out \/ TrySend({r}, GetBlocks))
      <3>1. /\ tip' = tip /\ missed \subseteq missed'
            /\ msg \in DOMAIN minted => <<l, msg>> \in missed' \/ Beats(tip[l[2]], msg)
        BY <1>1, <2>1, <2>4 DEF Passed
      <3> QED BY <1>2, <2>4, <3>1, PassedInv
    <2>5. CASE l[2] \in raced
      <3>1. Muddle(l[2], l[1], b)
        BY <2>2, <2>5 DEF HandleBlock
      <3> QED BY <1>2, <2>5, <3>1, MuddledInv
    <2> QED BY <1>1, <2>2, <2>3, <2>4, <2>5, HandleBlockOutcome
  <1> QED BY <1>5, <1>6, <1>7

\* A node that begins to handle two blocks at once.
LEMMA RaceInv ==
  ASSUME NetInv, NEW m \in Nodes, Race(m)
  PROVE  NetInv'
  <1>1. /\ minted' = minted /\ tip' = tip /\ missed' = missed /\ peers' = peers /\ up' = up
        /\ end' = end /\ fresh' = fresh /\ out' = out /\ wire' = wire /\ raced \subseteq raced'
    BY DEF Race, connVars
  <1>2. BlocksTyped' /\ (\E g : Paths(g))' /\ Messages' = Messages
    BY <1>1, TipsKept, TreeKept
  <1>3. LinksTyped' /\ BothUp'
    BY <1>1, <1>2 DEF NetInv, LinksTyped, BothUp
  <1>4. \A k \in Pairs : \A b : Carries(k, b)' <=> Carries(k, b)
    BY <1>1 DEF Carries
  <1>5. \A k \in Pairs : Sent(k)' /\ Heard(k)'
    BY <1>1, <1>4, SameLoad
  <1> QED BY <1>2, <1>3, <1>5 DEF NetInv

\* Connections that end take with them what they carried; a node whose tip
\* changes meanwhile has none left.
LEMMA CloseInv ==
  ASSUME NetInv, NEW gone, Close(gone), UNCHANGED <<peers, minted, raced>>,
         tip' \in [Nodes -> DOMAIN minted],
         \A k \in Pairs : k \notin gone => tip'[k[1]] = tip[k[1]] /\ tip'[k[2]] = tip[k[2]],
         \A k \in Pairs : k \notin gone /\ end[k] # "off" => k[1] \in up' /\ k[2] \in up'
  PROVE  NetInv'
  <1>2. BlocksTyped' /\ (\E g : Paths(g))' /\ Messages' = Messages
    BY TreeKept
  <1>3. \A k \in Pairs : /\ k \in gone => /\ end'[k] = "off" /\ fresh'[k] = <<>>
                                          /\ out'[k] = <<>> /\ wire'[k] = <<>>
                         /\ k \notin gone => /\ end'[k] = end[k] /\ fresh'[k] = fresh[k]
                                             /\ out'[k] = out[k] /\ wire'[k] = wire[k]
    BY DEF Close
  <1>8. \A k \in Pairs : \A b : k \notin gone /\ <<k, b>> \in missed => <<k, b>> \in missed'
    BY DEF Close
  <1>4. LinksTyped'
    <2>1. <<>> \in Seq(Messages) /\ <<>> \in Seq(DOMAIN minted)
      OBVIOUS
    <2>2. end' \in [Pairs -> {"off", "entered", "open"}]
      BY DEF Close, NetInv, LinksTyped
    <2>3. fresh' \in [Pairs -> Seq(DOMAIN minted)]
      BY <2>1 DEF Close, NetInv, LinksTyped
    <2>4. out' \in [Pairs -> Seq(Messages)]
      BY <2>1 DEF Close, NetInv, LinksTyped
    <2>5. wire' \in [Pairs -> Seq(Messages)]
      BY <2>1 DEF Close, NetInv, LinksTyped
    <2> QED BY <1>2, <2>2, <2>3, <2>4, <2>5 DEF NetInv, LinksTyped
  <1>5. BothUp'
    BY <1>3 DEF BothUp
  <1>6. ASSUME NEW k \in Pairs, NEW b
        PROVE  /\ k \in gone => ~Carries(k, b)'
               /\ k \notin gone => (Carries(k, b) <=> Carries(k, b)')
    <2>1. Carries(k, b)' <=> Queued(fresh'[k], b) \/ Queued(out'[k], b) \/ Queued(wire'[k], b)
      BY DEF Carries
    <2>2. CASE k \in gone
      BY <1>3, <2>1, <2>2, QueueEmpty
    <2>3. CASE k \notin gone
      BY <1>3, <2>1, <2>3 DEF Carries
    <2> QED BY <2>2, <2>3
  <1>7. ASSUME NEW k \in Pairs PROVE Sent(k)' /\ Heard(k)'
    <2>1. CASE k \in gone
      <3>1. \A b \in DOMAIN minted' : ~Carries(k, b)'
        BY <1>6, <2>1
      <3>2. Sent(k)'
        BY <3>1 DEF Sent
      <3> QED BY <1>3, <2>1, <3>2 DEF Heard, Live
    <2>2. CASE k \notin gone
      <3>1. \A b \in DOMAIN minted : Carries(k, b)' <=> Carries(k, b)
        BY <1>6, <2>2
      <3>2. /\ tip'[k[1]] = tip[k[1]] /\ Beats(tip'[k[1]], tip[k[1]])
            /\ Beats(tip'[k[2]], tip[k[2]]) /\ raced \subseteq raced'
        BY <2>2, PairFacts, BeatsOrder DEF NetInv, BlocksTyped
      <3>3. (Live(k)' => Live(k)) /\ \A b : <<k, b>> \in missed => <<k, b>> \in missed'
        BY <1>3, <1>8, <2>2 DEF Live
      <3>4. Sent(k)'
        BY <3>1, <3>2, SentStep
      <3>5. Heard(k)'
        BY <3>1, <3>2, <3>3, HeardStep
      <3> QED BY <3>4, <3>5
    <2> QED BY <2>1, <2>2
  <1> QED BY <1>2, <1>4, <1>5, <1>7 DEF NetInv

\* A broken connection.
LEMMA BreakInv ==
  ASSUME NetInv, NEW l \in Pairs, Break(l[1], l[2])
  PROVE  NetInv'
  <1>1. PICK gone : Close(gone)
    BY DEF Break
  <1>2. UNCHANGED <<peers, minted, raced>> /\ tip' = tip /\ up' = up
    BY DEF Break
  <1>3. \A k \in Pairs : end[k] # "off" => k[1] \in up' /\ k[2] \in up'
    BY <1>2 DEF NetInv, BothUp
  <1>4. tip' \in [Nodes -> DOMAIN minted]
    BY <1>2, TipsKept
  <1> QED BY <1>1, <1>2, <1>3, <1>4, CloseInv

\* A crash closes all connections of the node, which may lose its tip.
LEMMA CrashInv ==
  ASSUME NetInv, NEW n \in Nodes, Crash(n)
  PROVE  NetInv'
  <1>1. PICK gone : gone = {l \in Pairs : n \in {l[1], l[2]}}
    OBVIOUS
  <1>2. /\ Close(gone) /\ UNCHANGED <<peers, minted, raced>> /\ up' = up \ {n}
        /\ tip' = tip \/ (tip[n] # Genesis /\ tip' = [tip EXCEPT ![n] = Prev(tip[n])])
    BY <1>1 DEF Crash
  <1>3. \A k \in Pairs : k \notin gone => k[1] # n /\ k[2] # n
    BY <1>1
  <1>4. \A k \in Pairs : k \notin gone /\ end[k] # "off" => k[1] \in up' /\ k[2] \in up'
    BY <1>2, <1>3 DEF NetInv, BothUp
  <1>5. tip \in [Nodes -> DOMAIN minted] /\ (tip[n] # Genesis => Prev(tip[n]) \in DOMAIN minted)
    BY DEF NetInv, BlocksTyped, Grown, Prev
  <1>6. tip' \in [Nodes -> DOMAIN minted]
    BY <1>2, <1>5
  <1>7. \A k \in Pairs : k \notin gone => tip'[k[1]] = tip[k[1]] /\ tip'[k[2]] = tip[k[2]]
    BY <1>2, <1>3, <1>5, PairFacts
  <1> QED BY <1>2, <1>4, <1>6, <1>7, CloseInv

\* A restart, with or without a download: the new tip is at least as good.
LEMMA StartInv ==
  ASSUME NetInv, NEW n \in Nodes, NEW b \in DOMAIN minted, Start(n, b)
  PROVE  NetInv'
  <1>1. /\ n \notin up /\ up' = up \cup {n} /\ tip[n] \in ToSet(ChainTo(b))
        /\ UNCHANGED <<peers, minted, connVars, faults, raced, missed>>
        /\ tip' = [tip EXCEPT ![n] = b]
    BY DEF Start
  <1>2. tip \in [Nodes -> DOMAIN minted]
    BY DEF NetInv, BlocksTyped
  <1>3. Beats(b, tip[n])
    <2>1. PICK c \in ToSet(ChainTo(b)) : c = tip[n]
      BY <1>1
    <2>2. Height(c) <= Height(b) /\ (Height(c) = Height(b) => c = b)
      BY KnownBelow DEF NetInv
    <2>3. Height(c) \in Nat /\ Height(b) \in Nat /\ c \in Nat /\ b \in Nat
      BY <1>2, <2>1 DEF NetInv, BlocksTyped, Grown, Height
    <2> QED BY <2>1, <2>2, <2>3 DEF Beats
  <1>4. /\ tip' \in [Nodes -> DOMAIN minted] /\ tip'[n] = b
        /\ \A x \in Nodes : x # n => tip'[x] = tip[x]
    BY <1>1, <1>2
  <1>5. \A x \in Nodes : Beats(tip'[x], tip[x])
    BY <1>2, <1>3, <1>4, BeatsOrder DEF NetInv
  <1>6. BlocksTyped' /\ (\E g : Paths(g))' /\ Messages' = Messages
    BY <1>1, <1>4, TreeKept
  <1>7. LinksTyped' /\ BothUp'
    BY <1>1, <1>6 DEF NetInv, LinksTyped, BothUp, connVars
  <1>8. \A k \in Pairs : \A c : Carries(k, c)' <=> Carries(k, c)
    BY <1>1 DEF Carries, connVars
  <1>9. ASSUME NEW k \in Pairs PROVE Sent(k)' /\ Heard(k)'
    <2>1. \A c \in DOMAIN minted : Carries(k, c)' <=> Carries(k, c)
      BY <1>8
    <2>2. k[1] \in Nodes /\ k[2] \in Nodes /\ end' = end /\ raced \subseteq raced'
      BY <1>1, PairFacts DEF connVars
    <2>3. Sent(k)'
      BY <1>1, <1>4, <1>5, <2>1, <2>2, SentStep
    <2>4. Live(k)' => Live(k) /\ k[1] # n
      BY <1>1, <2>2 DEF Live, NetInv, BothUp
    <2>5. k[1] # n => tip'[k[1]] = tip[k[1]]
      BY <1>4, <2>2
    <2>6. Heard(k)'
      BY <1>1, <1>4, <1>5, <2>1, <2>2, <2>4, <2>5, HeardStep
    <2> QED BY <2>3, <2>6
  <1> QED BY <1>6, <1>7, <1>9 DEF NetInv

\* What is queued is of the queue's kind.
LEMMA QueueTyped == ASSUME NEW S, NEW q \in Seq(S), NEW b, Queued(q, b) PROVE b \in S
  BY DEF Queued

\* The new block of a proposal, and what it leaves of the old ones.
Mints(b, parent) ==
    /\ b \in Nat /\ b # Genesis /\ b \notin DOMAIN minted
    /\ DOMAIN minted' = DOMAIN minted \cup {b}
    /\ minted'[b].height = Height(parent) + 1 /\ minted'[b].prev = parent
    /\ \A c \in DOMAIN minted : minted'[c] = minted[c]

\* A proposal adds a block on its parent and changes no other.
LEMMA ProposeMints ==
  ASSUME NetInv, NEW n \in Nodes, NEW b \in FreshHash, NEW parent \in DOMAIN minted,
         Propose(n, b, parent)
  PROVE  Mints(b, parent)
  <1>1. MaxHash[peers] \in Nat
    BY NetworkAssumption DEF NetInv, LinksTyped
  <1>2. minted' = [c \in DOMAIN minted \cup {b} |->
                      IF c = b THEN [height |-> Height(parent) + 1, prev |-> parent] ELSE minted[c]]
    BY DEF Propose, Built
  <1>3. b \in Nat /\ b # Genesis /\ b \notin DOMAIN minted
    BY <1>1 DEF Genesis, FreshHash
  <1>4. minted'[b] = [height |-> Height(parent) + 1, prev |-> parent]
    BY <1>2
  <1> QED BY <1>2, <1>3, <1>4 DEF Mints

\* The tree stays a tree, and no chain of an old block changes.
LEMMA TreeGrows ==
  ASSUME BlocksTyped, \E g : Paths(g), NEW parent \in DOMAIN minted, NEW b,
         Mints(b, parent), tip' \in [Nodes -> DOMAIN minted']
  PROVE  BlocksTyped' /\ (\E g : Paths(g))'
  <1>1. /\ Genesis \in DOMAIN minted
        /\ DOMAIN minted \subseteq Nat /\ \A c \in DOMAIN minted : Grown(c)
    BY DEF BlocksTyped
  <1>2. /\ b \in Nat /\ b # Genesis /\ b \notin DOMAIN minted
        /\ DOMAIN minted' = DOMAIN minted \cup {b}
        /\ minted'[b].height = minted[parent].height + 1 /\ minted'[b].prev = parent
        /\ \A c \in DOMAIN minted : minted'[c] = minted[c]
    BY DEF Mints, Height
  <1>3. parent \in DOMAIN minted /\ minted[parent].height \in Nat
    BY <1>1 DEF Grown
  <1>4. ASSUME NEW c \in DOMAIN minted PROVE Grown(c)'
    <2>1. Grown(c)
      BY <1>1
    <2> QED BY <1>2, <2>1 DEF Grown
  <1>5. Grown(b)'
    BY <1>2, <1>3 DEF Grown
  <1>7. BlocksTyped'
    <2>1. Genesis \in DOMAIN minted' /\ DOMAIN minted' \subseteq Nat
      BY <1>1, <1>2
    <2>2. (\A c \in DOMAIN minted : Grown(c))'
      BY <1>2, <1>4, <1>5
    <2> QED BY <2>1, <2>2 DEF BlocksTyped
  <1>8. PICK g : Paths(g)
    OBVIOUS
  <1> DEFINE h == [c \in DOMAIN minted \cup {b} |-> IF c = b THEN Append(g[parent], b) ELSE g[c]]
  <1>9. \A c \in DOMAIN minted : h[c] = g[c]
    BY <1>2
  <1>10. h[b] = Append(h[parent], b)
    <2>1. h[b] = Append(g[parent], b)
      OBVIOUS
    <2> QED BY <1>3, <1>9, <2>1
  <1>11. DOMAIN h = DOMAIN minted' /\ h = [c \in DOMAIN minted' |-> h[c]]
    BY <1>2
  <1> HIDE DEF h
  <1>12. ASSUME NEW c \in DOMAIN minted'
         PROVE  h[c] = IF c = Genesis THEN <<c>> ELSE Append(h[minted'[c].prev], c)
    <2>1. CASE c = b
      BY <1>2, <1>10, <2>1
    <2>2. CASE c # b
      <3>1. c \in DOMAIN minted /\ Grown(c) /\ minted'[c] = minted[c]
        BY <1>1, <1>2, <2>2
      <3>2. g[c] = IF c = Genesis THEN <<c>> ELSE Append(g[minted[c].prev], c)
        BY <1>8, <3>1 DEF Paths, Prev
      <3>3. CASE c = Genesis
        BY <1>9, <3>1, <3>2, <3>3
      <3>4. CASE c # Genesis
        <4>1. minted[c].prev \in DOMAIN minted
          BY <3>1, <3>4 DEF Grown
        <4> QED BY <1>9, <3>1, <3>2, <3>4, <4>1
      <3> QED BY <3>3, <3>4
    <2> QED BY <2>1, <2>2
  <1>13. (\E k : Paths(k))'
    <2>1. h = [c \in DOMAIN minted' |-> IF c = Genesis THEN <<c>> ELSE Append(h[minted'[c].prev], c)]
      BY <1>11, <1>12
    <2>2. PICK k : k = h
      OBVIOUS
    <2>3. Paths(k)'
      BY <2>1, <2>2 DEF Paths, Prev
    <2> QED BY <2>3
  <1> QED BY <1>7, <1>13

\* propose_block: the new block is announced to every subscriber, or lost to it.
LEMMA ProposeInv ==
  ASSUME NetInv, NEW n \in Nodes, NEW b \in FreshHash, NEW parent \in DOMAIN minted,
         Propose(n, b, parent)
  PROVE  NetInv'
  <1> DEFINE subs   == {l \in Pairs : l[1] = n /\ end[l] = "open"}
             lagged == {l \in subs : Len(fresh[l]) >= BlockChannel}
  <1>1. Mints(b, parent)
    BY ProposeMints
  <1>2. /\ tip' = [tip EXCEPT ![n] = b] \/ (n \in raced /\ tip' = tip)
        /\ parent = tip[n] \/ n \in raced
        /\ fresh' = [l \in Pairs |->
                        CASE l \in lagged        -> Append(Tail(fresh[l]), b)
                          [] l \in subs \ lagged -> Append(fresh[l], b)
                          [] OTHER               -> fresh[l]]
        /\ missed' = missed \cup {<<l, b>> : l \in {k \in Pairs : k[1] = n /\ end[k] = "entered"}}
        /\ UNCHANGED <<peers, up, end, out, wire, faults, raced>>
    BY DEF Propose, Built
  <1>3. BlocksTyped' /\ (\E g : Paths(g))'
    <2>1. tip \in [Nodes -> DOMAIN minted] /\ DOMAIN minted' = DOMAIN minted \cup {b}
      BY <1>1 DEF Mints, NetInv, BlocksTyped
    <2>2. tip' \in [Nodes -> DOMAIN minted']
      BY <1>2, <2>1
    <2> QED BY <1>1, <2>2, TreeGrows DEF NetInv
  <1>4. /\ b \in Nat /\ b \notin DOMAIN minted /\ DOMAIN minted' = DOMAIN minted \cup {b}
        /\ b \in DOMAIN minted' /\ DOMAIN minted \subseteq DOMAIN minted'
        /\ Height(b)' = Height(parent) + 1
        /\ \A c \in DOMAIN minted : Height(c)' = Height(c)
    BY <1>1 DEF Mints, Height
  <1>5. /\ tip \in [Nodes -> DOMAIN minted] /\ (n \notin raced => tip'[n] = b)
        /\ \A x \in Nodes : x # n => tip'[x] = tip[x]
    BY <1>2 DEF NetInv, BlocksTyped
  <1>6. \A c \in DOMAIN minted : c \in Nat /\ Height(c) \in Nat
    BY DEF NetInv, BlocksTyped, Grown, Height
  <1>7. \A c, d \in DOMAIN minted : Beats(c, d)' <=> Beats(c, d)
    BY <1>4 DEF Beats
  <1>8. n \notin raced => \A c \in DOMAIN minted : Beats(tip[n], c) => Beats(b, c)'
    <2> SUFFICES ASSUME n \notin raced, NEW c \in DOMAIN minted, Beats(tip[n], c) PROVE Beats(b, c)'
      OBVIOUS
    <2>1. tip[n] \in DOMAIN minted /\ Height(tip[n]) \in Nat /\ Height(c) \in Nat
      BY <1>5, <1>6
    <2>2. Height(c) <= Height(tip[n])
      BY <2>1 DEF Beats
    <2>3. Height(b)' > Height(c)'
      BY <1>2, <1>4, <2>1, <2>2
    <2> QED BY <2>3 DEF Beats
  <1>9. Beats(b, b)'
    BY <1>4 DEF Beats
  <1>10. ASSUME NEW k \in Pairs
         PROVE  /\ fresh'[k] \in Seq(DOMAIN minted')
                /\ k \notin subs => fresh'[k] = fresh[k]
                /\ k \in subs => Queued(fresh'[k], b)
                /\ \A c : Queued(fresh'[k], c) => Queued(fresh[k], c) \/ (k \in subs /\ c = b)
    <2>1. fresh[k] \in Seq(DOMAIN minted) /\ fresh[k] \in Seq(DOMAIN minted')
      <3>1. fresh[k] \in Seq(DOMAIN minted)
        BY DEF NetInv, LinksTyped
      <3> QED BY <1>4, <3>1
    <2>2. CASE k \in lagged
      <3>1. fresh[k] # <<>>
        BY <2>2, NetworkAssumption
      <3>2. fresh'[k] = Append(Tail(fresh[k]), b) /\ k \in subs
        BY <1>2, <2>2
      <3>3. /\ Tail(fresh[k]) \in Seq(DOMAIN minted')
            /\ \A c : Queued(Tail(fresh[k]), c) => Queued(fresh[k], c)
        BY <2>1, <3>1, QueueTail
      <3>4. \A c : Queued(Append(Tail(fresh[k]), b), c) <=> Queued(Tail(fresh[k]), c) \/ c = b
        <4>1. PICK q \in Seq(DOMAIN minted') : q = Tail(fresh[k])
          BY <3>3
        <4>2. \A c : Queued(Append(q, b), c) <=> Queued(q, c) \/ c = b
          BY <1>4, QueueAppend
        <4> QED BY <4>1, <4>2
      <3>5. Append(Tail(fresh[k]), b) \in Seq(DOMAIN minted')
        BY <1>4, <3>3
      <3> QED BY <3>2, <3>3, <3>4, <3>5
    <2>3. CASE k \in subs \ lagged
      <3>1. fresh'[k] = Append(fresh[k], b)
        BY <1>2, <2>3
      <3>2. \A c : Queued(Append(fresh[k], b), c) <=> Queued(fresh[k], c) \/ c = b
        BY <1>4, <2>1, QueueAppend
      <3>3. Append(fresh[k], b) \in Seq(DOMAIN minted')
        BY <1>4, <2>1
      <3> QED BY <2>3, <3>1, <3>2, <3>3
    <2>4. CASE k \notin subs
      <3>1. fresh'[k] = fresh[k]
        BY <1>2, <2>4
      <3> QED BY <2>1, <2>4, <3>1
    <2> QED BY <2>2, <2>3, <2>4
  <1>11. /\ \A k \in Pairs : k \in subs <=> k[1] = n /\ end[k] = "open"
         /\ missed \subseteq missed' /\ raced' = raced
         /\ \A k \in Pairs : k[1] = n /\ end[k] = "entered" => <<k, b>> \in missed'
    BY <1>2
  <1> HIDE DEF subs, lagged
  <1>12. LinksTyped'
    <2>1. DOMAIN fresh' = Pairs /\ fresh' = [k \in Pairs |-> fresh'[k]]
      BY <1>2
    <2>2. fresh' \in [Pairs -> Seq(DOMAIN minted')]
      BY <1>10, <2>1
    <2>3. Messages \subseteq Messages'
      BY <1>4 DEF Messages
    <2>4. ASSUME NEW q \in [Pairs -> Seq(Messages)] PROVE q \in [Pairs -> Seq(Messages')]
      BY <2>3
    <2> QED BY <1>2, <2>2, <2>4 DEF NetInv, LinksTyped
  <1>13. BothUp'
    BY <1>2 DEF NetInv, BothUp
  <1>14. ASSUME NEW k \in Pairs
         PROVE  \A c : /\ Carries(k, c)' => Carries(k, c) \/ (k[1] = n /\ c = b)
                       /\ k \notin subs => (Carries(k, c) => Carries(k, c)')
                       /\ Carries(k, c) => c # b
    <2> SUFFICES ASSUME NEW c
                 PROVE  /\ Carries(k, c)' => Carries(k, c) \/ (k[1] = n /\ c = b)
                        /\ k \notin subs => (Carries(k, c) => Carries(k, c)')
                        /\ Carries(k, c) => c # b
      OBVIOUS
    <2>1. Carries(k, c)' <=> Queued(fresh'[k], c) \/ Queued(out[k], c) \/ Queued(wire[k], c)
      BY <1>2 DEF Carries
    <2>2. fresh[k] \in Seq(DOMAIN minted) /\ out[k] \in Seq(Messages) /\ wire[k] \in Seq(Messages)
      BY DEF NetInv, LinksTyped
    <2>3. Carries(k, c) => c \in Messages
      <3>1. Queued(fresh[k], c) => c \in DOMAIN minted
        BY <2>2, QueueTyped
      <3>2. Queued(out[k], c) => c \in Messages
        BY <2>2, QueueTyped
      <3>3. Queued(wire[k], c) => c \in Messages
        BY <2>2, QueueTyped
      <3> QED BY <3>1, <3>2, <3>3 DEF Carries, Messages
    <2>4. b \notin Messages
      BY <1>4 DEF Messages, GetBlocks, Blocks
    <2>5. Queued(fresh'[k], c) => Queued(fresh[k], c) \/ (k \in subs /\ c = b)
      BY <1>10
    <2>6. k \notin subs => fresh'[k] = fresh[k]
      BY <1>10
    <2> QED BY <1>11, <2>1, <2>3, <2>4, <2>5, <2>6 DEF Carries
  <1>15. ASSUME NEW k \in Pairs PROVE Sent(k)'
    <2> SUFFICES ASSUME k[1] \notin raced PROVE Sent(k)'
      BY <1>11 DEF Sent
    <2>1. k[1] \in Nodes
      BY PairFacts
    <2>2. ASSUME NEW c \in DOMAIN minted', Carries(k, c)' PROVE Beats(tip[k[1]], c)'
      <3>1. CASE Carries(k, c)
        <4>1. c \in DOMAIN minted
          BY <1>4, <1>14, <3>1
        <4>2. Beats(tip[k[1]], c)
          BY <3>1, <4>1 DEF NetInv, Sent
        <4>3. CASE k[1] = n
          <5>1. Beats(b, c)' /\ tip'[k[1]] = b
            BY <1>5, <1>8, <4>1, <4>2, <4>3
          <5> QED BY <5>1 DEF Beats, Height
        <4>4. CASE k[1] # n
          <5>1. tip'[k[1]] = tip[k[1]]
            BY <1>5, <2>1, <4>4
          <5>2. PICK t \in DOMAIN minted : t = tip[k[1]]
            BY <1>5, <2>1
          <5>3. Beats(t, c)'
            BY <1>7, <4>1, <4>2, <5>2
          <5> QED BY <5>1, <5>2, <5>3 DEF Beats, Height
        <4> QED BY <4>3, <4>4
      <3>2. CASE k[1] = n /\ c = b
        BY <1>5, <1>9, <3>2 DEF Beats, Height
      <3> QED BY <1>14, <2>2, <3>1, <3>2
    <2> QED BY <2>2 DEF Sent
  <1>16. ASSUME NEW k \in Pairs PROVE Heard(k)'
    <2> SUFFICES ASSUME Live(k)' PROVE Heard(k)'
      BY DEF Heard
    <2>1. k[1] \in Nodes /\ k[2] \in Nodes /\ k[1] \notin raced /\ k[2] \notin raced /\ Live(k)
      BY <1>2, <1>11, PairFacts DEF Live
    <2>2. CASE k[1] = n
      <3>1. end[k] \in {"off", "entered", "open"}
        BY DEF NetInv, LinksTyped
      <3>2. CASE k \in subs
        <4>1. Queued(fresh'[k], tip'[k[1]])
          BY <1>5, <1>10, <2>1, <2>2, <3>2
        <4> QED BY <4>1 DEF Heard, Carries
      <3>3. CASE k \notin subs
        BY <1>5, <1>11, <2>1, <2>2, <3>1, <3>3 DEF Heard, Live
      <3> QED BY <3>2, <3>3
    <2>3. CASE k[1] # n
      <3>1. tip'[k[1]] = tip[k[1]] /\ k \notin subs
        BY <1>5, <1>11, <2>1, <2>3
      <3>2. PICK t \in DOMAIN minted : t = tip[k[1]]
        BY <1>5, <2>1
      <3>3. <<k, t>> \in missed \/ Carries(k, t) \/ Beats(tip[k[2]], t)
        BY <2>1, <3>2 DEF NetInv, Heard
      <3>4. Carries(k, t) => Carries(k, t)'
        BY <1>14, <3>1
      <3>5. Beats(tip[k[2]], t) => Beats(tip[k[2]], t)'
        <4>1. CASE k[2] = n
          BY <1>5, <1>8, <2>1, <4>1 DEF Beats, Height
        <4>2. CASE k[2] # n
          <5>1. PICK u \in DOMAIN minted : u = tip[k[2]]
            BY <1>5, <2>1
          <5>2. tip'[k[2]] = u
            BY <1>5, <2>1, <4>2, <5>1
          <5>3. Beats(u, t) => Beats(u, t)'
            BY <1>7
          <5> QED BY <5>1, <5>2, <5>3 DEF Beats, Height
        <4> QED BY <4>1, <4>2
      <3>6. Heard(k)' <=> <<k, t>> \in missed' \/ Carries(k, t)' \/ Beats(tip[k[2]], t)'
        BY <3>1, <3>2 DEF Heard, Carries, Beats, Height
      <3> QED BY <1>2, <1>11, <3>3, <3>4, <3>5, <3>6
    <2> QED BY <2>2, <2>3
  <1> QED BY <1>3, <1>12, <1>13, <1>15, <1>16 DEF NetInv

\* At first there is genesis and no connection.
LEMMA InitInv == Init => NetInv
  <1> SUFFICES ASSUME Init PROVE NetInv
    OBVIOUS
  <1>1. /\ DOMAIN minted = {Genesis} /\ minted[Genesis] = [height |-> 0, prev |-> -1]
        /\ tip = [n \in Nodes |-> Genesis] /\ up = Nodes
    BY DEF Init
  <1>2. BlocksTyped
    BY <1>1 DEF BlocksTyped, Grown, Genesis
  <1>3. LinksTyped
    <2>1. <<>> \in Seq(Messages) /\ <<>> \in Seq(DOMAIN minted)
      OBVIOUS
    <2> QED BY <2>1 DEF Init, LinksTyped
  <1>4. BothUp
    BY <1>1, PairFacts DEF BothUp
  <1>5. \E g : Paths(g)
    <2>1. PICK g : g = [c \in {Genesis} |-> <<c>>]
      OBVIOUS
    <2>2. Paths(g)
      BY <1>1, <2>1 DEF Paths
    <2> QED BY <2>2
  <1>6. ASSUME NEW l \in Pairs PROVE Sent(l) /\ Heard(l)
    <2>1. fresh[l] = <<>> /\ out[l] = <<>> /\ wire[l] = <<>>
      BY DEF Init
    <2>2. \A b : ~Carries(l, b)
      BY <2>1, QueueEmpty DEF Carries
    <2>3. tip[l[1]] = Genesis /\ tip[l[2]] = Genesis
      BY <1>1, PairFacts
    <2>4. Beats(Genesis, Genesis)
      BY <1>2, BeatsOrder DEF BlocksTyped
    <2> QED BY <2>2, <2>3, <2>4 DEF Sent, Heard
  <1> QED BY <1>2, <1>3, <1>4, <1>5, <1>6 DEF NetInv

\* Every step keeps the invariant.
LEMMA NextInv == NetInv /\ [Next]_vars => NetInv'
  <1> SUFFICES ASSUME NetInv, [Next]_vars PROVE NetInv'
    OBVIOUS
  <1>1. CASE \E l \in Pairs : \/ Enter(l[1], l[2]) \/ Subscribe(l[1], l[2]) \/ Send(l[1], l[2])
                              \/ Deliver(l[1], l[2]) \/ Break(l[1], l[2])
    BY <1>1, EnterInv, SubscribeInv, SendInv, DeliverInv, BreakInv
  <1>2. CASE \E n \in Nodes : Race(n) \/ Crash(n)
    BY <1>2, RaceInv, CrashInv
  <1>3. CASE \E n \in Nodes : \E b \in FreshHash, parent \in DOMAIN minted : Propose(n, b, parent)
    BY <1>3, ProposeInv
  <1>5. CASE \E n \in Nodes : \E b \in DOMAIN minted : Start(n, b)
    BY <1>5, StartInv
  <1>4. CASE UNCHANGED vars
    <2>1. /\ minted' = minted /\ tip' = tip /\ raced' = raced /\ missed' = missed /\ peers' = peers /\ up' = up
          /\ end' = end /\ fresh' = fresh /\ out' = out /\ wire' = wire
      BY <1>4 DEF vars, connVars
    <2>2. BlocksTyped' /\ (\E g : Paths(g))' /\ Messages' = Messages
      BY <2>1, TipsKept, TreeKept
    <2>3. LinksTyped' /\ BothUp'
      BY <2>1, <2>2 DEF NetInv, LinksTyped, BothUp
    <2>4. \A k \in Pairs : \A b : Carries(k, b)' <=> Carries(k, b)
      BY <2>1 DEF Carries
    <2>5. \A k \in Pairs : Sent(k)' /\ Heard(k)'
      BY <2>1, <2>4, SameLoad
    <2> QED BY <2>2, <2>3, <2>5 DEF NetInv
  <1> QED BY <1>1, <1>2, <1>3, <1>4, <1>5 DEF Next

\* The blocks form one tree below genesis, a node that no race has touched sends
\* nothing better than its tip, and what it has not brought to such a peer over
\* their connection is under way, was lost there or was turned down, be it by
\* validation or as out of reach (run_peer, dispatch, broadcast_except,
\* propose_block).
THEOREM NetworkSafety == Spec => []NetInv
  <1>1. Init => NetInv
    BY InitInv
  <1>2. NetInv /\ [Next]_vars => NetInv'
    BY NextInv
  <1> QED BY <1>1, <1>2, PTL DEF Spec

-----------------------------------------------------------------------------
(* Agreement at rest.                                                      *)

\* Two peers that no race has touched and between which nothing is under way have
\* the same tip, unless on this connection the tip of one was lost or turned down,
\* for any number of nodes, blocks, broken connections and crashes: the tip pushed
\* on connect makes up for what was announced before, and the lower hash settles
\* siblings (run_peer, dispatch, broadcast_except, propose_block).
THEOREM NetworkConverged == Spec => []Converged
  <1>1. ASSUME NetInv PROVE Converged
    <2> SUFFICES ASSUME NEW l \in Pairs, NEW r, r = <<l[2], l[1]>>, AtRest(l), AtRest(r),
                        l[1] \notin raced, l[2] \notin raced,
                        <<l, tip[l[1]]>> \notin missed, <<r, tip[l[2]]>> \notin missed
                 PROVE  tip[l[1]] = tip[l[2]]
      BY DEF Converged
    <2>1. tip \in [Nodes -> DOMAIN minted] /\ l[1] \in Nodes /\ l[2] \in Nodes
      BY <1>1, PairFacts DEF NetInv, BlocksTyped
    <2>2. r \in Pairs /\ r[1] = l[2] /\ r[2] = l[1]
      BY PairFacts
    <2>3. ASSUME NEW k \in Pairs, AtRest(k), k[1] \notin raced, k[2] \notin raced,
                 <<k, tip[k[1]]>> \notin missed
          PROVE  Beats(tip[k[2]], tip[k[1]])
      <3>1. end[k] = "open" /\ fresh[k] = <<>> /\ out[k] = <<>> /\ wire[k] = <<>>
        BY <2>3 DEF AtRest
      <3>2. ~Carries(k, tip[k[1]])
        BY <3>1, QueueEmpty DEF Carries
      <3>3. Heard(k) /\ Live(k)
        BY <1>1, <2>3, <3>1 DEF NetInv, Live
      <3> QED BY <2>3, <3>2, <3>3 DEF Heard
    <2>4. Beats(tip[l[2]], tip[l[1]])
      BY <2>3
    <2>5. Beats(tip[l[1]], tip[l[2]])
      BY <2>2, <2>3
    <2> QED BY <1>1, <2>1, <2>4, <2>5, BeatsOrder DEF NetInv
  <1> QED BY <1>1, NetworkSafety, PTL
=============================================================================
