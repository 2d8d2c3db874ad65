------------------------------ MODULE MCNetwork -----------------------------
EXTENDS Network

CONSTANTS a, b, c

\* The same line three times: with a fault, with a node in a race, and with one
\* block more; and a cycle with a node in a race.
Faulty   == {{a, b}, {b, c}}
Racing   == {{a, c}, {c, b}}
Longer   == {{b, a}, {a, c}}
Triangle == {{a, b}, {b, c}, {a, c}}
MCTopologies == {Faulty, Racing, Longer, Triangle}
MCMaxHash    == [t \in MCTopologies |-> IF t = Longer THEN 3 ELSE 2]
MCMaxFaults  == [t \in MCTopologies |-> IF t = Faulty THEN 1 ELSE 0]
MCMaxRaces   == [t \in MCTopologies |-> IF t \in {Racing, Triangle} THEN 1 ELSE 0]
=============================================================================
