------------------------------- MODULE MCNode -------------------------------
EXTENDS Node, Header, MCLedgerData

CONSTANTS p1, p2
PeerSymmetry == Permutations({p1, p2})

\* The validators of a run: this node without stake, or with half of it.
Registered(mine) ==
    <<[address |-> Me, stake |-> mine, active_since |-> 0],
      [address |-> "other", stake |-> 1, active_since |-> 0]>>

\* A hash of the slot and the parent.
Seed(s, parent) == s + parent

ElectOthers(s, parent) == ElectProposer(Seed(s, parent), AllActive(Registered(0), s))
ElectEven(s, parent)   == ElectProposer(Seed(s, parent), AllActive(Registered(1), s))

MCGenesisFew == <<"g1">>

\* Small block bodies.
BodiesEmptyPay == {<<>>, <<"pay">>}
BodiesPayOnward == {<<>>, <<"pay">>, <<"onward">>}
BodiesPayTwice  == {<<>>, <<"pay">>, <<"onward">>, <<"twice">>}
BodiesConflict  == {<<>>, <<"pay">>, <<"resend">>}

-----------------------------------------------------------------------------
(* Header's operators against their contracts, for bounded inputs.  The    *)
(* inputs do not depend on the node, so they are tried before it starts.   *)

Untouched == At("main", "boot") /\ tip = NoTip /\ DOMAIN minted = {Genesis}

\* Up to three validators, active by now or not, with stakes whose sum may
\* overflow.
SmallValidatorSets ==
    LET Seat == {0, 1, 3, U64 \div 2} \X {0, 1, 2}
        Named(seats) == [i \in DOMAIN seats |->
                            [address |-> <<"v1", "v2", "v3">>[i],
                             stake |-> seats[i][1], active_since |-> seats[i][2]]]
    IN  {Named(seats) : seats \in UNION {[1..n -> Seat] : n \in 0..3}}

\* The election takes every validator set with stake to one of its members, and
\* gives each as many points as it has stake (all_active, elect_proposer).
FairElection == Untouched => \A vs \in SmallValidatorSets : Fair(vs, slot)

\* Up to five transactions, none of which is repeated.
DistinctBodies ==
    UNION {{body \in [1..n -> {"t1", "t2", "t3", "t4", "t5"}] : IsInjective(body)} : n \in 0..5}

\* The Merkle root in a header names the transactions and their order, so that
\* a block's hash does: there are as many roots as bodies without a repeated
\* transaction, although odd layers repeat a hash (compute_merkle_root).
RootNamesBody ==
    Untouched => Cardinality({ComputeMerkleRoot(body) : body \in DistinctBodies})
                   = Cardinality(DistinctBodies)
=============================================================================
