------------------------------- MODULE MCSplit ------------------------------
EXTENDS Scenario

\* A coin too small for most scripts, one that is enough for two runs, and one
\* that takes three rounds to split.
MCAmounts == {2, 4, 8}
MCMaxRuns == [a \in MCAmounts |-> IF a = 4 THEN 2 ELSE 1]
=============================================================================
