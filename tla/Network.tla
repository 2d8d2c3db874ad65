------------------------------- MODULE Network ------------------------------
(***************************************************************************)
(* Block gossip between several nodes: what run_peer and dispatch          *)
(* (p2p/handler.rs) send over the connections, PeerSet's broadcasts        *)
(* (state.rs), the ticker's announcement of an own block and the           *)
(* catch-up of a restarted node.  How connections come about is Links'.    *)
(*                                                                         *)
(* A block is named by its hash, a number.  Its transactions are left out, *)
(* so validation may refuse it on the right parent, too: for a transaction *)
(* it shares with the tip it challenges, or an input its proposer did not  *)
(* look up (module Node).  Whoever proposes is elected: every proposal has *)
(* a slot of its own, in the order of the proposals.                       *)
(*                                                                         *)
(* No lock spans a handler, so two tasks of a node may be at work at once. *)
(* Module Node shows what becomes of its store then; here such a node is   *)
(* marked (raced), and from there on it may keep, drop and forward what it *)
(* receives in any way.  The handlers of the others do not overlap.        *)
(***************************************************************************)
EXTENDS Integers, Sequences, SequencesExt, FiniteSets

CONSTANTS
    Nodes,
    Topologies,       \* sets of links {n, m}: which nodes are each other's peers
    OUTBOUND_QUEUE,   \* depth of a connection's outbound queue
    BlockChannel,     \* capacity of the new_block broadcast channel (64)
    WireSize,         \* frames the sockets of a connection buffer, each way
    MaxHash,          \* bound, for each topology: hashes are 1..MaxHash, 0 is genesis
    MaxHeight,        \* bound on block heights
    MaxFaults,        \* bound on broken connections and crashes, for each topology
    MaxRaces          \* bound on the nodes in a race, for each topology

ASSUME NetworkAssumption ==
    /\ \A links \in Topologies : \A l \in links : l \subseteq Nodes /\ Cardinality(l) = 2
    /\ OUTBOUND_QUEUE \in Nat \ {0} /\ BlockChannel \in Nat \ {0} /\ WireSize \in Nat \ {0}
    /\ MaxHash \in [Topologies -> Nat] /\ MaxHeight \in Nat
    /\ MaxFaults \in [Topologies -> Nat] /\ MaxRaces \in [Topologies -> Nat]

VARIABLES
    peers,     \* the links the nodes are configured with
    minted,    \* every block: hash -> [height, prev]
    tip,       \* the tip of every node
    up,        \* the running nodes
    end,       \* <<n, m>>: n's task for its connection to m
    fresh,     \* <<n, m>>: that task's subscription to new_block
    out,       \* <<n, m>>: its outbound queue
    wire,      \* <<n, m>>: the frames on the way from n to m, the one m handles first
    faults,
    raced,     \* the nodes that handled two blocks at once
    missed     \* <<<<n, m>>, b>>: over its connection to m, n's block b was lost or turned down

connVars == <<end, fresh, out, wire>>
vars == <<peers, minted, tip, up, connVars, faults, raced, missed>>

Genesis == 0
Pairs   == {l \in Nodes \X Nodes : l[1] # l[2]}

\* Messages: NewBlock is the block's hash.
GetBlocks == -1
Blocks    == -2

Height(b) == minted[b].height
Prev(b)   == minted[b].prev

\* A block and its ancestors, genesis first.
ChainTo(b) ==
    LET path[c \in DOMAIN minted] == IF c = Genesis THEN <<c>> ELSE Append(path[Prev(c)], c)
    IN  path[b]

\* The nodes have started from genesis and their connections are up.
Init ==
    /\ peers \in Topologies
    /\ minted = [b \in {Genesis} |-> [height |-> 0, prev |-> -1]]
    /\ tip = [n \in Nodes |-> Genesis]
    /\ up = Nodes
    /\ end = [l \in Pairs |-> IF {l[1], l[2]} \in peers THEN "open" ELSE "off"]
    /\ fresh = [l \in Pairs |-> <<>>]
    /\ out = [l \in Pairs |-> <<>>]
    /\ wire = [l \in Pairs |-> <<>>]
    /\ faults = 0
    /\ raced = {} /\ missed = {}

-----------------------------------------------------------------------------
(* The task of a connection: run_peer.                                     *)

\* Mutant: the tip is not pushed.
EnterSilently(n, m) ==
    /\ end[<<n, m>>] = "off" /\ {n, m} \subseteq up /\ {n, m} \in peers
    /\ end' = [end EXCEPT ![<<n, m>>] = "entered"]
    /\ UNCHANGED <<peers, minted, tip, up, fresh, out, wire, faults, raced, missed>>

\* Register the peer and push the tip.
Enter(n, m) ==
    /\ end[<<n, m>>] = "off" /\ {n, m} \subseteq up /\ {n, m} \in peers
    /\ end' = [end EXCEPT ![<<n, m>>] = "entered"]
    /\ wire' = [wire EXCEPT ![<<n, m>>] = Append(@, tip[n])]
    /\ UNCHANGED <<peers, minted, tip, up, fresh, out, faults, raced, missed>>

\* Only then subscribe to the node's own blocks.
Subscribe(n, m) ==
    /\ end[<<n, m>>] = "entered"
    /\ end' = [end EXCEPT ![<<n, m>>] = "open"]
    /\ UNCHANGED <<peers, minted, tip, up, fresh, out, wire, faults, raced, missed>>

\* The loop writes a frame: own blocks before the outbound queue.  It does not
\* read while it waits for room in the sockets.
Send(n, m) ==
    /\ end[<<n, m>>] = "open" /\ Len(wire[<<n, m>>]) < WireSize
    /\ \/ /\ fresh[<<n, m>>] # <<>>
          /\ wire' = [wire EXCEPT ![<<n, m>>] = Append(@, Head(fresh[<<n, m>>]))]
          /\ fresh' = [fresh EXCEPT ![<<n, m>>] = Tail(@)]
          /\ UNCHANGED out
       \/ /\ fresh[<<n, m>>] = <<>> /\ out[<<n, m>>] # <<>>
          /\ wire' = [wire EXCEPT ![<<n, m>>] = Append(@, Head(out[<<n, m>>]))]
          /\ out' = [out EXCEPT ![<<n, m>>] = Tail(@)]
          /\ UNCHANGED fresh
    /\ UNCHANGED <<peers, minted, tip, up, end, faults, raced, missed>>

-----------------------------------------------------------------------------
(* Broadcasts.                                                             *)

\* try_send to the outbound queues of the given connections.
Full(l) == Len(out[l]) >= OUTBOUND_QUEUE
TrySend(targets, msg) ==
    out' = [l \in Pairs |-> IF l \in targets /\ ~Full(l) THEN Append(out[l], msg) ELSE out[l]]

\* The registered peers of a node but one, and the outcome of
\* broadcast_except.
Others(n, source) == {l \in Pairs : l[1] = n /\ l[2] # source /\ end[l] # "off"}

Forward(n, source, b) ==
    /\ TrySend(Others(n, source), b)
    /\ missed' = missed \cup {<<l, b>> : l \in {k \in Others(n, source) : Full(k)}}

\* The block that n proposes is built on its tip; in a race, on one it has read
\* before, and it need not stay the tip.
Built(n, b, parent) ==
    /\ n \in up /\ Height(parent) < MaxHeight
    /\ parent = tip[n] \/ n \in raced
    /\ minted' = [c \in DOMAIN minted \cup {b} |->
                     IF c = b THEN [height |-> Height(parent) + 1, prev |-> parent] ELSE minted[c]]
    /\ \/ tip' = [tip EXCEPT ![n] = b]
       \/ n \in raced /\ UNCHANGED tip

\* propose_block: the block goes to the subscribed tasks; the oldest unsent one
\* is skipped when the channel is full, and a task that has pushed the old tip
\* and not subscribed yet misses it.
Propose(n, b, parent) ==
    LET subs   == {l \in Pairs : l[1] = n /\ end[l] = "open"}
        lagged == {l \in subs : Len(fresh[l]) >= BlockChannel}
    IN  /\ Built(n, b, parent)
        /\ fresh' = [l \in Pairs |->
                        CASE l \in lagged        -> Append(Tail(fresh[l]), b)
                          [] l \in subs \ lagged -> Append(fresh[l], b)
                          [] OTHER               -> fresh[l]]
        /\ missed' = missed \cup {<<l, b>> : l \in {k \in Pairs : k[1] = n /\ end[k] = "entered"}}
        /\ UNCHANGED <<peers, up, end, out, wire, faults, raced>>

-----------------------------------------------------------------------------
(* dispatch(NewBlock) at node m, for a block from n.                       *)

\* The block extends the tip, or challenges it with a lower hash.
Accepts(m, b) ==
    \/ Height(b) = Height(tip[m]) + 1 /\ Prev(b) = tip[m]
    \/ Height(b) = Height(tip[m]) /\ b < tip[m] /\ Prev(b) = Prev(tip[m])

\* It is stored already, it is below the tip, or it loses the tie.
Stale(m, b) ==
    \/ b \in ToSet(ChainTo(tip[m]))
    \/ Height(b) < Height(tip[m])
    \/ Height(b) = Height(tip[m]) /\ b >= tip[m]

\* Mutant: a block that is the tip already is not dropped but forwarded, to all.
TakeEcho(m, n, b) ==
    /\ (~Stale(m, b) /\ Accepts(m, b)) \/ b = tip[m]
    /\ tip' = [tip EXCEPT ![m] = b]
    /\ Forward(m, m, b)

\* Store the block and pass it on.
Take(m, n, b) ==
    /\ ~Stale(m, b) /\ Accepts(m, b)
    /\ tip' = [tip EXCEPT ![m] = b]
    /\ Forward(m, n, b)

\* Turn the block down: validation refuses it, it is on another parent, or it is
\* too far ahead; then the node asks for the blocks between.
Decline(m, n, b) ==
    /\ ~Stale(m, b)
    /\ IF Height(b) > Height(tip[m]) + 1 THEN TrySend({<<m, n>>}, GetBlocks) ELSE UNCHANGED out
    /\ missed' = missed \cup {<<<<n, m>>, b>>}
    /\ UNCHANGED tip

Drop(m, b) == Stale(m, b) /\ UNCHANGED <<tip, out, missed>>

\* What a node may do with a block in a race.
Muddle(m, n, b) ==
    /\ tip' = [tip EXCEPT ![m] = b] \/ UNCHANGED tip
    /\ Forward(m, n, b) \/ (TrySend({<<m, n>>}, GetBlocks) /\ UNCHANGED missed) \/ UNCHANGED <<out, missed>>

HandleBlock(m, n, b) ==
    \/ m \notin raced /\ (Take(m, n, b) \/ Decline(m, n, b) \/ Drop(m, b))
    \/ m \in raced /\ Muddle(m, n, b)

\* The loop of m's task handles a frame, having had nothing to write when it read
\* it.  The answer to GetBlocks is a message dispatch has no case for.
Deliver(n, m) ==
    /\ end[<<m, n>>] = "open" /\ wire[<<n, m>>] # <<>>
    /\ m \in raced \/ (fresh[<<m, n>>] = <<>> /\ out[<<m, n>>] = <<>>)
    /\ wire' = [wire EXCEPT ![<<n, m>>] = Tail(@)]
    /\ LET msg == Head(wire[<<n, m>>])
       IN  CASE msg = GetBlocks -> TrySend({<<m, n>>}, Blocks) /\ UNCHANGED <<tip, missed>>
             [] msg = Blocks    -> UNCHANGED <<tip, out, missed>>
             [] OTHER           -> HandleBlock(m, n, msg)
    /\ UNCHANGED <<peers, minted, up, end, fresh, faults, raced>>

\* m's task for n has a block to handle.
Handles(m, n) ==
    end[<<m, n>>] = "open" /\ wire[<<n, m>>] # <<>> /\ Head(wire[<<n, m>>]) \in DOMAIN minted

FreshHash == (1..MaxHash[peers]) \ DOMAIN minted

\* Two tasks of a node are at work at once: those of two connections, or one of
\* them and the ticker.
Race(m) ==
    /\ m \notin raced /\ Cardinality(raced) < MaxRaces[peers]
    /\ \E n \in Nodes \ {m} : Handles(m, n) /\
          (FreshHash # {} \/ \E k \in Nodes \ {m, n} : Handles(m, k))
    /\ raced' = raced \cup {m}
    /\ UNCHANGED <<peers, minted, tip, up, connVars, faults, missed>>

-----------------------------------------------------------------------------
(* Faults.                                                                 *)

\* Connections end, with all that was queued or under way.
Close(gone) ==
    /\ end'   = [l \in Pairs |-> IF l \in gone THEN "off" ELSE end[l]]
    /\ fresh' = [l \in Pairs |-> IF l \in gone THEN <<>> ELSE fresh[l]]
    /\ out'   = [l \in Pairs |-> IF l \in gone THEN <<>> ELSE out[l]]
    /\ wire'  = [l \in Pairs |-> IF l \in gone THEN <<>> ELSE wire[l]]
    /\ missed' = {e \in missed : e[1] \notin gone}
    /\ faults < MaxFaults[peers] /\ faults' = faults + 1

Break(n, m) ==
    /\ end[<<n, m>>] # "off"
    /\ Close({<<n, m>>, <<m, n>>})
    /\ UNCHANGED <<peers, minted, tip, up, raced>>

\* A crash within a reorg costs the tip.
Crash(n) ==
    /\ n \in up
    /\ Close({l \in Pairs : n \in {l[1], l[2]}})
    /\ up' = up \ {n}
    /\ \/ UNCHANGED tip
       \/ /\ \E m \in Nodes \ {n} : Handles(n, m) /\ Height(Head(wire[<<m, n>>])) = Height(tip[n])
          /\ tip[n] # Genesis
          /\ tip' = [tip EXCEPT ![n] = Prev(tip[n])]
    /\ UNCHANGED <<peers, minted, raced>>

\* Start again, having downloaded what peers had to offer on top of the own tip:
\* nothing, if none could be reached, or the blocks up to one of theirs.
Start(n, b) ==
    /\ n \notin up
    /\ tip[n] \in ToSet(ChainTo(b))
    /\ tip' = [tip EXCEPT ![n] = b]
    /\ up' = up \cup {n}
    /\ UNCHANGED <<peers, minted, connVars, faults, raced, missed>>

Next ==
    \/ \E l \in Pairs : \/ Enter(l[1], l[2]) \/ Subscribe(l[1], l[2]) \/ Send(l[1], l[2])
                        \/ Deliver(l[1], l[2]) \/ Break(l[1], l[2])
    \/ \E n \in Nodes : \/ Race(n) \/ Crash(n)
                        \/ \E b \in FreshHash, parent \in DOMAIN minted : Propose(n, b, parent)
                        \/ \E b \in DOMAIN minted : Start(n, b)

Spec == Init /\ [][Next]_vars

-----------------------------------------------------------------------------
\* The connection is up and nothing is queued or under way.
AtRest(l) == end[l] = "open" /\ fresh[l] = <<>> /\ out[l] = <<>> /\ wire[l] = <<>>

\* The comments of run_peer and of the fork choice: the tip pushed on connect
\* makes up for what was announced before, and siblings are settled without
\* coordination.  So two peers that no race has touched agree when nothing is
\* under way between them, however often their connection was broken and made
\* again and whichever of them crashed, unless on this very connection the tip of
\* one was lost in a full queue or before the subscription, or was turned down by
\* the other.  Nothing else keeps peers apart (run_peer, dispatch,
\* broadcast_except, propose_block).
Converged ==
    \A l \in Pairs :
        LET back == <<l[2], l[1]>>
        IN  AtRest(l) /\ AtRest(back) /\ {l[1], l[2]} \cap raced = {}
            => \/ tip[l[1]] = tip[l[2]]
               \/ <<l, tip[l[1]]>> \in missed \/ <<back, tip[l[2]]>> \in missed

\* A task puts a block into an outbound queue.
Forwards == \E l \in Pairs : Len(out'[l]) > Len(out[l]) /\ Last(out'[l]) \in DOMAIN minted

\* No block goes round for ever, in whatever cycle the nodes are connected: as
\* long as no node is in a race, forwarding ends with the proposals and the
\* faults (dispatch, broadcast_except).
ForwardingEnds == [](raced = {}) => <>[][~Forwards]_vars
=============================================================================
