--------------------------------- MODULE Ibd --------------------------------
(***************************************************************************)
(* Initial block download (bcc-node/src/ibd.rs): before a node spawns its   *)
(* tasks it fetches the chain from its bootstrap peers, in order, over one  *)
(* connection at a time.                                                    *)
(*                                                                         *)
(* The peers are honest and agree on one chain, so a block is named by its  *)
(* height; they may be slow, refuse or drop the connection, and their chain *)
(* grows meanwhile.  The far end of a connection is the peer's run_peer: it *)
(* pushes its tip as a NewBlock frame first, answers GetBlocks in the order *)
(* of arrival, and pushes further gossip whenever it has some.              *)
(***************************************************************************)
EXTENDS Integers, Sequences, FiniteSets

CONSTANTS
    NumPeers,        \* bootstrap peers, numbered 1..NumPeers
    StartHeight,     \* height of the network's chain when the node starts
    MaxHeight,       \* bound on that chain's height
    WithTx,          \* the heights whose blocks spend outputs
    BatchSize,       \* BLOCKS_PER_REQUEST
    MaxTimeouts,     \* MAX_CONSECUTIVE_TIMEOUTS
    MaxRetries,      \* MAX_IBD_RETRIES
    MaxGossip        \* bound on gossip frames besides the tip push

ASSUME IbdAssumption ==
    /\ NumPeers \in Nat \ {0} /\ BatchSize \in Nat \ {0}
    /\ StartHeight \in Nat /\ MaxHeight \in Nat /\ StartHeight <= MaxHeight
    /\ WithTx \subseteq 1..MaxHeight
    /\ MaxTimeouts \in Nat \ {0} /\ MaxRetries \in Nat /\ MaxGossip \in Nat

VARIABLES
    network,      \* height of the chain the peers serve
    gossip,       \* gossip frames pushed so far
    stored,       \* local blocks_h: the heights it holds
    tip,          \* local meta["tip"]
    applied,      \* WithTx -> number of times the block was applied to utxo
    from_height, peer_idx, timeouts, retries,   \* locals of run_ibd
    initial,      \* initial_from_height
    pc,
    requests,     \* GetBlocks on the way to the peer
    inbox         \* frames on the way back

storeVars == <<stored, tip, applied>>
loopVars  == <<from_height, peer_idx, timeouts, retries, initial>>
connVars  == <<requests, inbox>>
vars == <<network, gossip, storeVars, loopVars, pc, connVars>>

Push         == [kind |-> "push"]
Blocks(f, t) == [kind |-> "blocks", from |-> f, to |-> t]   \* empty if t < f

Init ==
    /\ network = StartHeight /\ gossip = 0
    /\ stored = {0} /\ tip = 0
    /\ applied = [h \in WithTx |-> 0]
    /\ from_height = tip + 1 /\ initial = tip + 1
    /\ peer_idx = 1 /\ timeouts = 0 /\ retries = 0
    /\ pc = "connect"
    /\ requests = <<>> /\ inbox = <<>>

-----------------------------------------------------------------------------
\* The outer loop, with a peer left to try: connect, or go on to the next.
Connect ==
    /\ pc = "connect" /\ peer_idx <= NumPeers
    /\ \/ /\ pc' = "request"
          /\ requests' = <<>> /\ inbox' = <<Push>>
          /\ UNCHANGED loopVars
       \/ /\ peer_idx' = peer_idx + 1
          /\ UNCHANGED <<from_height, timeouts, retries, initial, pc, connVars>>
    /\ UNCHANGED <<network, gossip, storeVars>>

\* Mutant: off by one, one retry too many.
OutOfPeersOneMore ==
    /\ pc = "connect" /\ peer_idx > NumPeers
    /\ IF from_height = initial /\ retries <= MaxRetries
       THEN /\ retries' = retries + 1 /\ peer_idx' = 1 /\ timeouts' = 0
            /\ UNCHANGED pc
       ELSE /\ pc' = "done"
            /\ UNCHANGED <<retries, peer_idx, timeouts>>
    /\ UNCHANGED <<network, gossip, storeVars, from_height, initial, connVars>>

\* The outer loop, out of peers: start over if nothing came in yet, up to
\* MaxRetries times, else finish.
OutOfPeers ==
    /\ pc = "connect" /\ peer_idx > NumPeers
    /\ IF from_height = initial /\ retries < MaxRetries
       THEN /\ retries' = retries + 1 /\ peer_idx' = 1 /\ timeouts' = 0
            /\ UNCHANGED pc
       ELSE /\ pc' = "done"
            /\ UNCHANGED <<retries, peer_idx, timeouts>>
    /\ UNCHANGED <<network, gossip, storeVars, from_height, initial, connVars>>

\* Every turn of the inner loop begins with a request.
Request ==
    /\ pc = "request"
    /\ requests' = Append(requests, from_height)
    /\ pc' = "await"
    /\ UNCHANGED <<network, gossip, storeVars, loopVars, inbox>>

\* Leave the connection, and the frames still on it, for the next peer.
NextPeer ==
    /\ peer_idx' = peer_idx + 1
    /\ pc' = "connect"
    /\ requests' = <<>> /\ inbox' = <<>>

\* Mutant: a peer that times out for good is asked again.
TimeoutStays ==
    /\ pc = "await" /\ inbox = <<>>
    /\ timeouts' = IF timeouts + 1 >= MaxTimeouts THEN 0 ELSE timeouts + 1
    /\ pc' = "request"
    /\ requests' = <<>>
    /\ UNCHANGED <<network, gossip, storeVars, from_height, peer_idx, retries, initial, inbox>>

\* No frame for BATCH_TIMEOUT_SECS: ask again, or give the peer up.
Timeout ==
    /\ pc = "await" /\ inbox = <<>>
    /\ IF timeouts + 1 >= MaxTimeouts
       THEN timeouts' = 0 /\ NextPeer
       ELSE /\ timeouts' = timeouts + 1
            /\ pc' = "request"
            /\ UNCHANGED <<peer_idx, connVars>>
    /\ UNCHANGED <<network, gossip, storeVars, from_height, retries, initial>>

\* The connection breaks: the send fails, or the stream ends.
Disconnect ==
    /\ pc \in {"request", "await"}
    /\ NextPeer
    /\ UNCHANGED <<network, gossip, storeVars, from_height, timeouts, retries, initial>>

\* A frame that is not a Blocks message is skipped; the loop then asks again.
SkipFrame ==
    /\ pc = "await" /\ inbox # <<>> /\ Head(inbox).kind = "push"
    /\ inbox' = Tail(inbox)
    /\ timeouts' = 0
    /\ pc' = "request"
    /\ UNCHANGED <<network, gossip, storeVars, from_height, peer_idx, retries, initial, requests>>

\* Mutant: the blocks of a batch are not validated.
AcceptedUnchecked(f, t) == f..t

\* The blocks of a batch that get in: none without the parent of the first,
\* else those before the first that validate_block refuses.  On the one chain
\* the peers serve, a block is refused exactly when the outputs it spends are
\* spent already, that is, when it has been applied before.
Accepted(f, t) ==
    IF f - 1 \notin stored THEN {}
    ELSE {h \in f..t : \A k \in f..h : k \in WithTx => applied[k] = 0}

\* Mutant: the next request starts one block too far.
AfterBatchSkips(t) == t + 2

\* Where the next request starts after a batch that ends at t.
AfterBatch(t) == t + 1

\* A Blocks frame: insert and apply block by block, fail on the first block
\* refused, finish on a batch that is not full.
ReceiveBlocks ==
    LET f  == Head(inbox).from
        t  == Head(inbox).to
        ok == Accepted(f, t)
    IN  /\ pc = "await" /\ inbox # <<>> /\ Head(inbox).kind = "blocks"
        /\ inbox' = Tail(inbox)
        /\ timeouts' = 0
        /\ stored' = stored \cup ok
        /\ applied' = [h \in WithTx |-> IF h \in ok THEN applied[h] + 1 ELSE applied[h]]
        /\ tip' = IF ok = {} THEN tip ELSE f + Cardinality(ok) - 1
        /\ IF ok = f..t
           THEN /\ from_height' = IF t < f THEN from_height ELSE AfterBatch(t)
                /\ pc' = IF t - f + 1 < BatchSize THEN "done" ELSE "request"
           ELSE /\ pc' = "aborted"
                /\ UNCHANGED from_height
        /\ UNCHANGED <<network, gossip, peer_idx, retries, initial, requests>>

-----------------------------------------------------------------------------
(* The far end.                                                            *)

\* dispatch(GetBlocks): the peer's blocks from that height, one batch at most;
\* the reply is lost when the connection's queue is full (try_send).
Reply ==
    /\ requests # <<>>
    /\ LET f == Head(requests)
           t == IF network < f + BatchSize - 1 THEN network ELSE f + BatchSize - 1
       IN  inbox' \in {Append(inbox, Blocks(f, t)), inbox}
    /\ requests' = Tail(requests)
    /\ UNCHANGED <<network, gossip, storeVars, loopVars, pc>>

\* run_peer forwards a block or a transaction.
PushGossip ==
    /\ pc \in {"request", "await"} /\ gossip < MaxGossip
    /\ gossip' = gossip + 1
    /\ inbox' = Append(inbox, Push)
    /\ UNCHANGED <<network, storeVars, loopVars, pc, requests>>

\* The network produces a block.
Grow ==
    /\ network < MaxHeight
    /\ network' = network + 1
    /\ UNCHANGED <<gossip, storeVars, loopVars, pc, connVars>>

Local == Connect \/ OutOfPeers \/ Request \/ Timeout \/ SkipFrame \/ ReceiveBlocks
Next  == Local \/ Disconnect \/ Reply \/ PushGossip \/ Grow

\* The node's own steps are fair: the loop runs and the timer fires.  Nothing
\* is assumed of the peers.
Spec == Init /\ [][Next]_vars /\ WF_vars(Local)

-----------------------------------------------------------------------------
TypeOK ==
    /\ network \in StartHeight..MaxHeight /\ gossip \in 0..MaxGossip
    /\ stored \subseteq 0..MaxHeight /\ tip \in stored
    /\ applied \in [WithTx -> Nat]
    /\ from_height \in 1..MaxHeight + 1 /\ initial = 1
    /\ peer_idx \in 1..NumPeers + 1
    /\ timeouts \in 0..MaxTimeouts - 1 /\ retries \in 0..MaxRetries
    /\ pc \in {"connect", "request", "await", "done", "aborted"}

\* No block is applied to the UTXO set twice, although a request repeated after
\* a gossip frame or a timeout is answered twice (run_ibd).
AppliedOnce == \A h \in WithTx : applied[h] <= 1

\* While the download runs, the store holds the chain up to the tip without a
\* gap and the next request continues it, whichever peer served which part and
\* however stale the answer (run_ibd).
ContinuesTip == pc # "aborted" => stored = 0..tip /\ from_height = tip + 1

\* A download that ends because a peer had no more to send has the chain as it
\* stood when the node started: an answer to an older request never passes for
\* the last one (run_ibd).
SyncedWhenDone == pc = "done" /\ peer_idx <= NumPeers => tip >= StartHeight

\* The node gets past the download, or gives up with an error, even if every
\* peer stays silent or the replies are lost (run_ibd).
Terminates == <>(pc \in {"done", "aborted"})

\* docs/bcc-node.md: an invalid block from a malicious peer aborts the
\* download.  So honest peers never do (run_ibd).
HonestNoAbort == pc # "aborted"
=============================================================================
