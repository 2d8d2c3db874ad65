----------------------------- MODULE LinksProofs ----------------------------
(***************************************************************************)
(* The peer registry, for any number of nodes, connections and faults.     *)
(* That a registered address belongs to one task only rests on the check   *)
(* by IP: two dials of one peer have the same address.  That the check by  *)
(* IP is enough rests on the registry being exact.  LinksInv carries both. *)
(***************************************************************************)
EXTENDS Links, TLAPS

\* A dial that is under way has no far end yet.
DialsAlone == \A c \in Conn : end[c]["dialer"] = "dialing" => end[c]["target"] = "closed"

\* The inductive invariant.
LinksInv == TypeOK /\ RegistryIsLive /\ OneLinkPerIp /\ DialsAlone

\* An end of a connection has an owner among the nodes and an address.
LEMMA EndTyped ==
  ASSUME NEW c \in Conn, NEW e \in Ends
  PROVE  Owner(c, e) \in Nodes /\ Addr(c, e) \in Address
  BY LinksAssumption DEF Owner, Address

\* A step that opens and closes no end and leaves the registries alone keeps
\* the invariant.
LEMMA OpenKept ==
  ASSUME LinksInv, TypeOK', DialsAlone', peers' = peers,
         \A c \in Conn : \A e \in Ends : end'[c][e] = "open" <=> end[c][e] = "open"
  PROVE  LinksInv'
  <1>1. \A n : Open(n)' = Open(n)
    BY DEF Open
  <1>2. RegistryIsLive'
    BY <1>1 DEF LinksInv, RegistryIsLive
  <1>3. OneLinkPerIp'
    BY DEF LinksInv, OneLinkPerIp
  <1> QED BY <1>2, <1>3 DEF LinksInv

\* run_peer's registration: either the IP is known and the end is closed, or
\* the address is new to the registry.
LEMMA RegisterKeeps ==
  ASSUME LinksInv, NEW c \in Conn, NEW e \in Ends, Register(c, e)
  PROVE  LinksInv'
  <1> DEFINE n == Owner(c, e)
             a == Addr(c, e)
  <1>0. n \in Nodes /\ a \in Address
    BY EndTyped
  <1>1. CASE HasIp(n, a.ip)
    <2>1. peers' = peers /\ end' = [end EXCEPT ![c][e] = "closed"] /\ end[c][e] = "task"
      BY <1>1 DEF Register
    <2>2. TypeOK'
      BY <2>1 DEF Register, LinksInv, TypeOK, EndState
    <2>3. /\ \A d \in Conn : \A f \in Ends : end'[d][f] = "open" <=> end[d][f] = "open"
          /\ DialsAlone'
      BY <2>1 DEF LinksInv, TypeOK, DialsAlone, Ends
    <2> QED BY <2>1, <2>2, <2>3, OpenKept
  <1>2. CASE ~HasIp(n, a.ip)
    <2>1. /\ peers' = [peers EXCEPT ![n] = @ \cup {a}]
          /\ end' = [end EXCEPT ![c][e] = "open"] /\ end[c][e] = "task"
      BY <1>2 DEF Register
    <2>2. TypeOK'
      BY <2>1, <1>0 DEF Register, LinksInv, TypeOK, EndState
    <2>3. Open(n)' = Open(n) \cup {<<c, e>>}
      BY <2>1 DEF Open, LinksInv, TypeOK
    <2>4. \A m \in Nodes \ {n} : Open(m)' = Open(m)
      BY <2>1 DEF Open, LinksInv, TypeOK
    <2>5. peers'[n] = peers[n] \cup {a} /\ \A m \in Nodes \ {n} : peers'[m] = peers[m]
      BY <2>1, <1>0 DEF LinksInv, TypeOK
    <2>6. \A p \in peers[n] : p.ip # a.ip
      BY <1>2 DEF HasIp
    <2>7. OneLinkPerIp'
      BY <2>5, <2>6 DEF OneLinkPerIp, LinksInv
    <2>8. \A x \in Open(n) : Addr(x[1], x[2]) # a
      BY <2>6, <1>0 DEF LinksInv, RegistryIsLive
    <2>9. RegistryIsLive'
      <3>1. ASSUME NEW m \in Nodes, m # n
            PROVE  /\ peers'[m] = {Addr(x[1], x[2]) : x \in Open(m)'}
                   /\ \A x, y \in Open(m)' : Addr(x[1], x[2]) = Addr(y[1], y[2]) => x = y
        BY <3>1, <2>4, <2>5 DEF LinksInv, RegistryIsLive
      <3>2. peers'[n] = {Addr(x[1], x[2]) : x \in Open(n)'}
        <4>1. peers[n] = {Addr(x[1], x[2]) : x \in Open(n)}
          BY <1>0 DEF LinksInv, RegistryIsLive
        <4>2. {Addr(x[1], x[2]) : x \in Open(n) \cup {<<c, e>>}}
                = {Addr(x[1], x[2]) : x \in Open(n)} \cup {a}
          <5> DEFINE y == <<c, e>>
          <5>1. Addr(y[1], y[2]) = a
            OBVIOUS
          <5> HIDE DEF y, a, n
          <5>2. {Addr(x[1], x[2]) : x \in Open(n) \cup {y}}
                  = {Addr(x[1], x[2]) : x \in Open(n)} \cup {Addr(y[1], y[2])}
            BY Zenon
          <5> QED BY <5>1, <5>2 DEF y
        <4> QED BY <4>1, <4>2, <2>3, <2>5
      <3>3. \A x, y \in Open(n)' : Addr(x[1], x[2]) = Addr(y[1], y[2]) => x = y
        BY <2>3, <2>8, <1>0 DEF LinksInv, RegistryIsLive
      <3> QED BY <3>1, <3>2, <3>3 DEF RegistryIsLive
    <2>10. DialsAlone'
      BY <2>1 DEF DialsAlone, LinksInv, TypeOK, Ends
    <2> QED BY <2>2, <2>7, <2>9, <2>10 DEF LinksInv
  <1> QED BY <1>1, <1>2

\* run_peer's exit: the address removed is this task's and no other's.
LEMMA LeaveKeeps ==
  ASSUME LinksInv, NEW c \in Conn, NEW e \in Ends, Leave(c, e), faults' \in 0..MaxFaults
  PROVE  LinksInv'
  <1> DEFINE n == Owner(c, e)
             a == Addr(c, e)
  <1>0. n \in Nodes /\ a \in Address
    BY EndTyped
  <1>1. /\ peers' = [peers EXCEPT ![n] = @ \ {a}]
        /\ end' = [end EXCEPT ![c][e] = "closed"] /\ end[c][e] = "open"
    BY DEF Leave
  <1>2. TypeOK'
    BY <1>1, <1>0 DEF Leave, LinksInv, TypeOK, EndState
  <1>3. <<c, e>> \in Open(n) /\ Open(n)' = Open(n) \ {<<c, e>>}
    BY <1>1 DEF Open, LinksInv, TypeOK
  <1>4. \A m \in Nodes \ {n} : Open(m)' = Open(m)
    BY <1>1 DEF Open, LinksInv, TypeOK
  <1>5. peers'[n] = peers[n] \ {a} /\ \A m \in Nodes \ {n} : peers'[m] = peers[m]
    BY <1>1, <1>0 DEF LinksInv, TypeOK
  <1>6. OneLinkPerIp'
    BY <1>5 DEF OneLinkPerIp, LinksInv
  <1>7. \A x \in Open(n) \ {<<c, e>>} : Addr(x[1], x[2]) # a
    BY <1>3, <1>0 DEF LinksInv, RegistryIsLive
  <1>8. RegistryIsLive'
    <2>1. ASSUME NEW m \in Nodes, m # n
          PROVE  /\ peers'[m] = {Addr(x[1], x[2]) : x \in Open(m)'}
                 /\ \A x, y \in Open(m)' : Addr(x[1], x[2]) = Addr(y[1], y[2]) => x = y
      BY <2>1, <1>4, <1>5 DEF LinksInv, RegistryIsLive
    <2>2. peers'[n] = {Addr(x[1], x[2]) : x \in Open(n)'}
      BY <1>3, <1>5, <1>7, <1>0 DEF LinksInv, RegistryIsLive
    <2>3. \A x, y \in Open(n)' : Addr(x[1], x[2]) = Addr(y[1], y[2]) => x = y
      BY <1>3, <1>0 DEF LinksInv, RegistryIsLive
    <2> QED BY <2>1, <2>2, <2>3 DEF RegistryIsLive
  <1>9. DialsAlone'
    BY <1>1 DEF DialsAlone, LinksInv, TypeOK, Ends
  <1> QED BY <1>2, <1>6, <1>8, <1>9 DEF LinksInv

\* A node that stops loses its open ends and its registry together.
LEMMA StopKeeps ==
  ASSUME LinksInv, NEW n \in Nodes, Stop(n)
  PROVE  LinksInv'
  <1>1. TypeOK'
    BY LinksAssumption DEF Stop, LinksInv, TypeOK, EndState
  <1>2. peers'[n] = {} /\ \A m \in Nodes \ {n} : peers'[m] = peers[m]
    BY DEF Stop, LinksInv, TypeOK
  <1>3. \A c \in Conn : \A e \in Ends :
           end'[c][e] = IF Owner(c, e) = n THEN "closed" ELSE end[c][e]
    BY DEF Stop
  <1>4. Open(n)' = {} /\ \A m \in Nodes \ {n} : Open(m)' = Open(m)
    BY <1>3 DEF Open
  <1>5. RegistryIsLive'
    BY <1>2, <1>4 DEF LinksInv, RegistryIsLive
  <1>6. OneLinkPerIp'
    BY <1>2 DEF LinksInv, OneLinkPerIp
  <1>7. DialsAlone'
    BY <1>3 DEF DialsAlone, LinksInv, TypeOK, Ends, Owner
  <1> QED BY <1>1, <1>5, <1>6, <1>7 DEF LinksInv

\* A dial, its outcome and an accept open no end.
LEMMA DialKeeps ==
  ASSUME LinksInv, NEW c \in Conn, Dial(c) \/ Connected(c) \/ DialFails(c) \/ Accept(c)
  PROVE  LinksInv'
  <1> DEFINE SameOpen == \A d \in Conn : \A f \in Ends : end'[d][f] = "open" <=> end[d][f] = "open"
  <1>0. c[1] \in Nodes /\ c[2] \in Nodes
    BY LinksAssumption
  <1>1. CASE Dial(c)
    <2>1. TypeOK' /\ DialsAlone' /\ SameOpen
      BY <1>1 DEF Dial, Free, LinksInv, TypeOK, DialsAlone, EndState, Ends
    <2> QED BY <1>1, <2>1, OpenKept DEF Dial
  <1>2. CASE Connected(c)
    <2>1. TypeOK' /\ DialsAlone' /\ SameOpen
      BY <1>2 DEF Connected, LinksInv, TypeOK, DialsAlone, EndState, Ends
    <2> QED BY <1>2, <2>1, OpenKept DEF Connected
  <1>3. CASE DialFails(c)
    <2>1. TypeOK' /\ DialsAlone' /\ SameOpen
      BY <1>0, <1>3 DEF DialFails, LinksInv, TypeOK, DialsAlone, EndState, Ends
    <2> QED BY <1>3, <2>1, OpenKept DEF DialFails
  <1>4. CASE Accept(c)
    <2>1. PICK s \in {"closed", "task"} : end' = [end EXCEPT ![c]["target"] = s]
      BY <1>4 DEF Accept
    <2>2. TypeOK' /\ DialsAlone' /\ SameOpen
      BY <1>4, <2>1 DEF Accept, LinksInv, TypeOK, DialsAlone, EndState, Ends
    <2> QED BY <1>4, <2>2, OpenKept DEF Accept
  <1> QED BY <1>1, <1>2, <1>3, <1>4

\* Every step keeps the invariant.
LEMMA LinksStep ==
  ASSUME LinksInv, [Next]_vars
  PROVE  LinksInv'
  <1>1. ASSUME NEW c \in Conn, Dial(c) \/ Step(c) \/ \E e \in Ends : Breaks(c, e)
        PROVE  LinksInv'
    <2>1. CASE Dial(c) \/ Connected(c) \/ DialFails(c) \/ Accept(c)
      BY <2>1, DialKeeps
    <2>2. ASSUME NEW e \in Ends, Register(c, e) PROVE LinksInv'
      BY <2>2, RegisterKeeps
    <2>3. ASSUME NEW e \in Ends, SeesClose(c, e) \/ Breaks(c, e) PROVE LinksInv'
      <3>1. Leave(c, e) /\ faults' \in 0..MaxFaults
        BY <2>3, LinksAssumption DEF SeesClose, Breaks, LinksInv, TypeOK
      <3> QED BY <3>1, LeaveKeeps
    <2> QED BY <1>1, <2>1, <2>2, <2>3 DEF Step
  <1>2. ASSUME NEW n \in Nodes, Stop(n) PROVE LinksInv'
    BY <1>2, StopKeeps
  <1>3. ASSUME NEW n \in Nodes, NEW m \in Nodes, BackoffEnds(n, m) \/ Start(n)
        PROVE  LinksInv'
    <2>1. TypeOK' /\ DialsAlone'
      BY <1>3 DEF BackoffEnds, Start, LinksInv, TypeOK, DialsAlone
    <2> QED BY <1>3, <2>1, OpenKept DEF BackoffEnds, Start
  <1>4. CASE UNCHANGED vars
    <2>1. TypeOK' /\ DialsAlone'
      BY <1>4 DEF vars, LinksInv, TypeOK, DialsAlone
    <2> QED BY <1>4, <2>1, OpenKept DEF vars
  <1> QED BY <1>1, <1>2, <1>3, <1>4 DEF Next

\* No node has a peer at first.
LEMMA LinksStart == ASSUME Init PROVE LinksInv
  <1>1. TypeOK /\ DialsAlone
    BY LinksAssumption DEF Init, TypeOK, DialsAlone, EndState, Ends
  <1>2. \A n : Open(n) = {}
    BY DEF Init, Open
  <1>3. RegistryIsLive /\ OneLinkPerIp
    BY <1>2 DEF Init, RegistryIsLive, OneLinkPerIp
  <1> QED BY <1>1, <1>3 DEF LinksInv

\* The registry invariant holds throughout, for any number of nodes,
\* overlapping dials and faults (run_peer, run_connector, run_server).
THEOREM LinksSafety == Spec => []LinksInv
  <1>1. Init => LinksInv
    BY LinksStart
  <1>2. LinksInv /\ [Next]_vars => LinksInv'
    BY LinksStep
  <1> QED BY <1>1, <1>2, PTL DEF Spec

\* The registry is always exactly the live connections (run_peer, PeerSet).
THEOREM LinksRegistryIsLive == Spec => []RegistryIsLive
  <1>1. LinksInv => RegistryIsLive
    BY DEF LinksInv
  <1> QED BY <1>1, LinksSafety, PTL

\* A node never registers two connections to one IP (run_peer, has_ip).
THEOREM LinksOnePerIp == Spec => []OneLinkPerIp
  <1>1. LinksInv => OneLinkPerIp
    BY DEF LinksInv
  <1> QED BY <1>1, LinksSafety, PTL
=============================================================================
