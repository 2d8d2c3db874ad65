-------------------------------- MODULE Chain -------------------------------
(***************************************************************************)
(* What a node promises about its chain, whatever the steps it takes: the  *)
(* chain grows at its end, its last block may be exchanged for a sibling   *)
(* with a lower hash, and nothing below the last block ever changes.  Only *)
(* a crash may cost it the last block, when it strikes inside a reorg.     *)
(* Module Node implements this one.                                        *)
(***************************************************************************)
EXTENDS Integers, Sequences, SequencesExt

VARIABLES
    chain,   \* the block hashes, genesis first
    losses   \* crashes so far

\* An empty store, or one with the genesis block, whose hash is 0 here.
Init == chain \in {<<>>, <<0>>} /\ losses = 0

\* One block from gossip, or the blocks of a download.
Grows(old, new) == IsStrictPrefix(old, new)

\* The fork choice.  Genesis has no sibling.
GivesWay(old, new) ==
    /\ Len(old) > 1 /\ Len(new) = Len(old)
    /\ Front(new) = Front(old)
    /\ Last(new) < Last(old)

Extend == Grows(chain, chain') /\ UNCHANGED losses

Swap == GivesWay(chain, chain') /\ UNCHANGED losses

Crash ==
    /\ losses' = losses + 1
    /\ chain' = chain \/ (Len(chain) > 1 /\ chain' = Front(chain))

Next == Extend \/ Swap \/ Crash

Spec == Init /\ [][Next]_<<chain, losses>>
=============================================================================
