-------------------------------- MODULE Header ------------------------------
(***************************************************************************)
(* The two pure computations behind a block header: which validator may    *)
(* propose (consensus/pos.rs) and the Merkle root of the transactions      *)
(* (types/block.rs).  sha256d is a free constructor: equal hashes come     *)
(* from equal arguments.                                                   *)
(***************************************************************************)
EXTENDS Ledger

-----------------------------------------------------------------------------
(* The election.  The seed stands for the first 8 bytes of the hash of the *)
(* parent and the slot.  Stakes are summed with wrap-around, as in a       *)
(* release build.                                                          *)

NoProposer == "none"

\* all_active: the validators that may propose in a slot.  The registered ones
\* come in the order of their addresses, on every node.
AllActive(registered, slot_number) ==
    LET Active(v) == v.active_since <= slot_number /\ v.stake > 0
    IN  SelectSeq(registered, Active)

\* acc after the first i validators.
Acc(validators, i) == MapThenSumSet(LAMBDA j : validators[j].stake, 1..i) % U64

\* Mutant: the scan stops one point late.
ElectProposerLate(seed, validators) ==
    LET total_stake == Acc(validators, Len(validators))
        pick == seed % total_stake
    IN  IF total_stake = 0 THEN NoProposer
        ELSE validators[Min({i \in DOMAIN validators : pick <= Acc(validators, i)})].address

\* The first validator whose segment ends beyond the point picked.
ElectProposer(seed, validators) ==
    LET total_stake == Acc(validators, Len(validators))
        pick == seed % total_stake
    IN  IF total_stake = 0 THEN NoProposer
        ELSE validators[Min({i \in DOMAIN validators : pick < Acc(validators, i)})].address

\* Some active validator is elected for every seed, unless the stakes add up to
\* nothing, by overflow; and if they do not overflow, each registered validator
\* has as many of the points as it has stake, those not active yet have none.
Fair(registered, slot_number) ==
    LET active == AllActive(registered, slot_number)
        stakes == MapThenSumSet(LAMBDA j : active[j].stake, DOMAIN active)
        Points(v) == {p \in 0..(stakes - 1) : ElectProposer(p, active) = v.address}
        Share(v)  == IF v.active_since <= slot_number THEN v.stake ELSE 0
    IN  /\ stakes % U64 # 0 =>
              \A seed \in 0..(U64 - 1) : ElectProposer(seed, active) # NoProposer
        /\ stakes < U64 =>
              \A i \in DOMAIN registered :
                  Cardinality(Points(registered[i])) = Share(registered[i])

-----------------------------------------------------------------------------
(* The Merkle root.                                                        *)

Leaf(tx)    == [tx |-> tx]
Pair(a, b)  == [left |-> a, right |-> b]
ZeroHash    == [tx |-> "zero"]

\* Mutant: the odd one out is left out.
ParentsDropLast(layer) ==
    [i \in 1..(Len(layer) \div 2) |-> Pair(layer[2 * i - 1], layer[2 * i])]

\* A layer's parents: an odd layer repeats its last hash.
Parents(layer) ==
    LET even == IF Len(layer) % 2 = 0 THEN layer ELSE Append(layer, layer[Len(layer)])
    IN  [i \in 1..(Len(even) \div 2) |-> Pair(even[2 * i - 1], even[2 * i])]

ComputeMerkleRoot(body) ==
    LET layers[k \in 0..Len(body)] ==
            IF k = 0 THEN [i \in DOMAIN body |-> Leaf(body[i])]
            ELSE IF Len(layers[k - 1]) > 1 THEN Parents(layers[k - 1]) ELSE layers[k - 1]
    IN  IF body = <<>> THEN ZeroHash ELSE layers[Len(body)][1]
=============================================================================
