SPECIFICATION Spec
CONSTANTS
    a = a
    b = b
    c = c
    Nodes = {a, b, c}
    Conn <- MCConn
    MAX_INBOUND_PEERS = 2
    MaxFaults = 2
INVARIANTS
    RegistryIsLive
    OneLinkPerIp
PROPERTY
    StaysLinked
