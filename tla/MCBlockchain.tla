---------------------------- MODULE MCBlockchain ----------------------------
(***************************************************************************)
(* Instances of Blockchain: small universes of blocks.  An ordinary block  *)
(* follows its parent with difficulty 0; a fork block, which a sequencer   *)
(* builds to begin a dispute, takes its producer's head number plus one    *)
(* and a difficulty above its producer's total difficulty.                 *)
(***************************************************************************)
EXTENDS Blockchain

GenesisBlock ==
    [parent |-> Nil, number |-> 0, difficulty |-> 0, body |-> "good"]

Plain(p, body) ==
    [parent |-> p, number |-> p.number + 1, difficulty |-> 0, body |-> body]

Dispute(p, n, d) ==
    [parent |-> p, number |-> n, difficulty |-> d, body |-> "good"]

\* An honest block, a malicious one on it, two competing forks from before
\* the malicious block, their successors, and a heavier fork that replaces a block after f5.
a1 == Plain(GenesisBlock, "good")
x2 == Plain(a1, "badroot")
x3 == Plain(x2, "good")
d3 == Dispute(a1, 3, 1)
d4 == Dispute(a1, 4, 1)
e4 == Plain(d3, "fails")
e5 == Plain(e4, "good")
f5 == Plain(d4, "good")
g7 == Dispute(f5, 7, 2)

Blocks == {GenesisBlock, a1, x2, x3, d3, d4, e4, f5, g7}

\* The two forks, and the heavier one after both have grown.
ForkBlocks == {GenesisBlock, a1, d3, d4, e4, e5, f5, g7}
=============================================================================
