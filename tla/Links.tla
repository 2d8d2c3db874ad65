-------------------------------- MODULE Links -------------------------------
(***************************************************************************)
(* The TCP connections between nodes: the accept loop (p2p/server.rs), the *)
(* connector that dials the bootstrap peers (p2p/connector.rs), the entry  *)
(* and exit of run_peer (p2p/handler.rs) and the registry they share,      *)
(* PeerSet (state.rs).                                                     *)
(*                                                                         *)
(* Each end of a connection lives in a task of its node and learns of a    *)
(* close at the other end only later.                                      *)
(* The registry is keyed by the address the far end is seen under: its     *)
(* listening address for the dialer, an ephemeral port for the target.     *)
(***************************************************************************)
EXTENDS Integers, FiniteSets

CONSTANTS
    Nodes,              \* one IP address each
    Conn,               \* the connections: <<dialer, bootstrap peer, k>>, where k
                        \* bounds the dials of one pair that overlap
    MAX_INBOUND_PEERS,
    MaxFaults           \* bound on crashes and broken connections

ASSUME LinksAssumption ==
    /\ Conn \subseteq Nodes \X Nodes \X (Nat \ {0})
    /\ \A c \in Conn : c[1] # c[2] /\ \A k \in 1..c[3] : <<c[1], c[2], k>> \in Conn
    /\ MAX_INBOUND_PEERS \in Nat \ {0} /\ MaxFaults \in Nat

VARIABLES
    up,       \* the running nodes
    end,      \* the state of both ends of every connection
    peers,    \* PeerSet of every node: addresses of registered peers
    backoff,  \* <<n, m>>: n may not dial m yet
    faults

vars == <<up, end, peers, backoff, faults>>

Ends == {"dialer", "target"}

\* dialing: TcpStream::connect is under way; backlog: connected, not accepted
\* yet; task: run_peer is about to register; open: registered.
EndState == {"closed", "dialing", "backlog", "task", "open"}

Owner(c, e)  == IF e = "dialer" THEN c[1] ELSE c[2]
Other(e)     == IF e = "dialer" THEN "target" ELSE "dialer"
Free(c)      == \A e \in Ends : end[c][e] = "closed"
Listen       == 0

\* The address the owner of an end knows the connection by.
Addr(c, e) == IF e = "dialer" THEN [ip |-> c[2], port |-> Listen]
              ELSE [ip |-> c[1], port |-> c[3]]
Address == {Addr(c, e) : c \in Conn, e \in Ends}

Init ==
    /\ up = Nodes
    /\ end = [c \in Conn |-> [e \in Ends |-> "closed"]]
    /\ peers = [n \in Nodes |-> {}]
    /\ backoff = {}
    /\ faults = 0

-----------------------------------------------------------------------------
(* run_connector.                                                          *)

\* A tick finds a bootstrap peer that is not registered under its listening
\* address and not backing off, and spawns a dial.
Dial(c) ==
    LET n == c[1]
        m == c[2]
    IN  /\ n \in up
        /\ [ip |-> m, port |-> Listen] \notin peers[n]
        /\ <<n, m>> \notin backoff
        /\ Free(c) /\ \A k \in 1..c[3] - 1 : ~Free(<<n, m, k>>)
        /\ end' = [end EXCEPT ![c]["dialer"] = "dialing"]
        /\ UNCHANGED <<up, peers, backoff, faults>>

\* The connection is up: forget the backoff and enter run_peer.
Connected(c) ==
    /\ end[c]["dialer"] = "dialing" /\ c[2] \in up
    /\ end' = [end EXCEPT ![c] = [dialer |-> "task", target |-> "backlog"]]
    /\ backoff' = backoff \ {<<c[1], c[2]>>}
    /\ UNCHANGED <<up, peers, faults>>

\* The dial fails: the peer is not dialled again for a while.
DialFails(c) ==
    /\ end[c]["dialer"] = "dialing" /\ c[2] \notin up
    /\ end' = [end EXCEPT ![c]["dialer"] = "closed"]
    /\ backoff' = backoff \cup {<<c[1], c[2]>>}
    /\ UNCHANGED <<up, peers, faults>>

BackoffEnds(n, m) ==
    /\ <<n, m>> \in backoff
    /\ backoff' = backoff \ {<<n, m>>}
    /\ UNCHANGED <<up, end, peers, faults>>

-----------------------------------------------------------------------------
\* run_server: take the next connection, drop it if enough peers are
\* registered already, whoever dialled them.
Accept(c) ==
    /\ end[c]["target"] = "backlog"
    /\ end' = [end EXCEPT ![c]["target"] =
                  IF Cardinality(peers[c[2]]) >= MAX_INBOUND_PEERS THEN "closed" ELSE "task"]
    /\ UNCHANGED <<up, peers, backoff, faults>>

-----------------------------------------------------------------------------
(* run_peer.                                                               *)

HasIp(n, ip) == \E a \in peers[n] : a.ip = ip

\* Mutant: the check and the registration are not under one lock, so the
\* registry checked is not the one written.
RegisterUnchecked(c, e) ==
    LET n == Owner(c, e)
    IN  /\ end[c][e] = "task"
        /\ peers' = [peers EXCEPT ![n] = @ \cup {Addr(c, e)}]
        /\ end' = [end EXCEPT ![c][e] = "open"]
        /\ UNCHANGED <<up, backoff, faults>>

\* Mutant: a duplicate leaves through the clean-up at the end of run_peer.
RegisterCleansUp(c, e) ==
    LET n == Owner(c, e)
    IN  /\ end[c][e] = "task"
        /\ IF HasIp(n, Addr(c, e).ip)
           THEN /\ end' = [end EXCEPT ![c][e] = "closed"]
                /\ peers' = [peers EXCEPT ![n] = @ \ {Addr(c, e)}]
           ELSE /\ peers' = [peers EXCEPT ![n] = @ \cup {Addr(c, e)}]
                /\ end' = [end EXCEPT ![c][e] = "open"]
        /\ UNCHANGED <<up, backoff, faults>>

\* Under the write lock: close a second connection with the same IP, register
\* the first.
Register(c, e) ==
    LET n == Owner(c, e)
    IN  /\ end[c][e] = "task"
        /\ IF HasIp(n, Addr(c, e).ip)
           THEN end' = [end EXCEPT ![c][e] = "closed"] /\ UNCHANGED peers
           ELSE /\ peers' = [peers EXCEPT ![n] = @ \cup {Addr(c, e)}]
                /\ end' = [end EXCEPT ![c][e] = "open"]
        /\ UNCHANGED <<up, backoff, faults>>

\* Mutant: the exit of run_peer does not deregister.
LeaveRegistered(c, e) ==
    /\ end[c][e] = "open"
    /\ end' = [end EXCEPT ![c][e] = "closed"]
    /\ UNCHANGED <<up, peers, backoff>>

\* The loop ends and the peer is deregistered.
Leave(c, e) ==
    /\ end[c][e] = "open"
    /\ end' = [end EXCEPT ![c][e] = "closed"]
    /\ peers' = [peers EXCEPT ![Owner(c, e)] = @ \ {Addr(c, e)}]
    /\ UNCHANGED <<up, backoff>>

\* The far end has closed: the next read or write fails.
SeesClose(c, e) == end[c][Other(e)] = "closed" /\ Leave(c, e) /\ UNCHANGED faults

\* The connection breaks, or a frame cannot be decoded.
Breaks(c, e) == faults < MaxFaults /\ Leave(c, e) /\ faults' = faults + 1

-----------------------------------------------------------------------------
\* A node stops: its ends close, and its registry and backoffs are gone.
Stop(n) ==
    /\ n \in up /\ faults < MaxFaults
    /\ faults' = faults + 1
    /\ up' = up \ {n}
    /\ end' = [c \in Conn |-> [e \in Ends |-> IF Owner(c, e) = n THEN "closed" ELSE end[c][e]]]
    /\ peers' = [peers EXCEPT ![n] = {}]
    /\ backoff' = {b \in backoff : b[1] # n}

Start(n) ==
    /\ n \notin up
    /\ up' = up \cup {n}
    /\ UNCHANGED <<end, peers, backoff, faults>>

\* What the tasks do by themselves, connection by connection.
Step(c) ==
    \/ Connected(c) \/ DialFails(c) \/ Accept(c)
    \/ \E e \in Ends : Register(c, e) \/ SeesClose(c, e)

Next ==
    \/ \E c \in Conn : Dial(c) \/ Step(c) \/ \E e \in Ends : Breaks(c, e)
    \/ \E n, m \in Nodes : BackoffEnds(n, m)
    \/ \E n \in Nodes : Stop(n) \/ Start(n)

\* Every task runs, timers fire and stopped nodes are started again.
Fairness ==
    /\ \A c \in Conn : WF_vars(Dial(c)) /\ WF_vars(Step(c))
    /\ \A n, m \in Nodes : WF_vars(BackoffEnds(n, m))
    /\ \A n \in Nodes : WF_vars(Start(n))

Spec == Init /\ [][Next]_vars /\ Fairness

-----------------------------------------------------------------------------
TypeOK ==
    /\ up \subseteq Nodes
    /\ end \in [Conn -> [Ends -> EndState]]
    /\ peers \in [Nodes -> SUBSET Address]
    /\ backoff \subseteq Nodes \X Nodes
    /\ faults \in 0..MaxFaults

\* The ends of a node that are past their registration.
Open(n) == {x \in Conn \X Ends : Owner(x[1], x[2]) = n /\ end[x[1]][x[2]] = "open"}

\* The comment of run_peer: the registry reflects the live connections.  An
\* address is registered exactly while a run_peer with that address is past
\* its registration, and no two such tasks share an address, so that the exit
\* of one never deregisters another (run_peer, PeerSet).
RegistryIsLive ==
    \A n \in Nodes :
        /\ peers[n] = {Addr(x[1], x[2]) : x \in Open(n)}
        /\ \A x, y \in Open(n) : Addr(x[1], x[2]) = Addr(y[1], y[2]) => x = y

\* A node never registers two connections to the same IP, however many dials
\* overlap and whoever dials whom (run_peer, PeerSet::has_ip).
OneLinkPerIp == \A n \in Nodes : \A a, b \in peers[n] : a.ip = b.ip => a = b

\* Both ends of some connection between two nodes are registered.
Linked(n, m) == \E c \in Conn : {c[1], c[2]} = {n, m} /\ \A e \in Ends : end[c][e] = "open"

\* Two connections of a pair are coming up at once and neither is established.
Collision(n, m) ==
    /\ ~Linked(n, m)
    /\ \E c, d \in Conn : c # d /\ {c[1], c[2]} = {n, m} /\ {d[1], d[2]} = {n, m}
                          /\ ~Free(c) /\ ~Free(d)

\* "Maintains persistent outbound connections to all bootstrap peers": once the
\* dials of a pair stop colliding, it gets linked and stays linked, after any
\* faults, unless the others alone fill the target again and again
\* (run_connector, run_server, run_peer).
StaysLinked ==
    \A c \in Conn :
        LET n == c[1]
            m == c[2]
        IN  <>[]~Collision(n, m) =>
                \/ <>[]Linked(n, m)
                \/ []<>(Cardinality({p \in peers[m] : p.ip # n}) >= MAX_INBOUND_PEERS)
=============================================================================
