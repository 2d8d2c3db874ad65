SPECIFICATION Spec
CONSTANTS
    a = a
    b = b
    c = c
    Nodes = {a, b, c}
    Topologies <- MCTopologies
    OUTBOUND_QUEUE = 1
    BlockChannel = 1
    WireSize = 1
    MaxHash <- MCMaxHash
    MaxHeight = 3
    MaxFaults <- MCMaxFaults
    MaxRaces <- MCMaxRaces
INVARIANT
    Converged
PROPERTY
    ForwardingEnds
CHECK_DEADLOCK FALSE
