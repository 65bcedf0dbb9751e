------------------------------ MODULE GasLimit ------------------------------
(***************************************************************************)
(* The gas limit from block to block: what the two kinds of producers give *)
(* a block and what validators ask of it.                                  *)
(*                                                                         *)
(* A sequencer takes the limit from that of the parent.  The block builder *)
(* (staking, dispute and slash blocks) hands CalculateGasLimit the number  *)
(* of the parent and so takes it from that of the grandparent.  Limits are *)
(* below 2^63, where uint64 and int64 agree.                               *)
(***************************************************************************)
EXTENDS Integers

CONSTANTS
    Divisor,         \* blockGasTargetDivisor: 1024
    BlockGasTarget,  \* of the chain's parameters, 0 when not set
    GenesisLimits    \* gas limits that a genesis may have

ASSUME GasAssumption ==
    Divisor \in Nat \ {0} /\ BlockGasTarget \in Nat /\ GenesisLimits \subseteq Nat

VARIABLES
    grand,    \* gas limit of the parent of the head
    parent,   \* gas limit of the head
    used,     \* gas used in the head
    genesis   \* the head is the genesis block

vars == <<grand, parent, used, genesis>>

Smaller(a, b) == IF a < b THEN a ELSE b
Larger(a, b) == IF a > b THEN a ELSE b

\* Mutant: the limit moves by a little more.
calculateGasLimitMore(limit) ==
    LET delta == (limit \div Divisor) + 1
    IN IF BlockGasTarget = 0 \/ limit = BlockGasTarget THEN limit
       ELSE IF limit < BlockGasTarget THEN Smaller(BlockGasTarget, limit + delta)
       ELSE Larger(BlockGasTarget, limit - delta)

\* Mutant: the limit only rises.
calculateGasLimitUp(limit) ==
    IF BlockGasTarget = 0 \/ limit >= BlockGasTarget THEN limit
    ELSE Smaller(BlockGasTarget, limit + (limit \div Divisor))

calculateGasLimit(limit) ==
    LET delta == limit \div Divisor
    IN IF BlockGasTarget = 0 \/ limit = BlockGasTarget THEN limit
       ELSE IF limit < BlockGasTarget THEN Smaller(BlockGasTarget, limit + delta)
       ELSE Larger(BlockGasTarget, limit - delta)

Init ==
    /\ parent \in GenesisLimits
    /\ grand = parent
    /\ used = 0
    /\ genesis = TRUE

\* A block of the given limit, filled to some extent, becomes the head.
NewHead(limit) ==
    /\ grand' = parent
    /\ parent' = limit
    /\ used' \in {0, limit}
    /\ genesis' = FALSE

\* A sequencer's writeBlock.
WriteBlock == NewHead(calculateGasLimit(parent))

\* Build: the first block after genesis copies the limit, later ones take theirs
\* from the block before the parent.
Build == NewHead(IF genesis THEN parent ELSE calculateGasLimit(grand))

Next == WriteBlock \/ Build

Spec == Init /\ [][Next]_vars

\* Sequencers go on producing.
FairSpec == Spec /\ WF_vars(WriteBlock)

-----------------------------------------------------------------------------
\* verifyGasLimit, of the validator and of the blockchain.
verifyGasLimit(gasUsed, limit, parentLimit) ==
    /\ gasUsed <= limit
    /\ (IF parentLimit > limit THEN parentLimit - limit ELSE limit - parentLimit)
        <= parentLimit \div Divisor

\* Limits are natural numbers and no gas is used beyond them.
TypeOK == grand \in Nat /\ parent \in Nat /\ used \in 0..parent /\ genesis \in BOOLEAN

\* Whichever of the two producers made the head and the blocks before it, its gas
\* limit passes verifyGasLimit: that the builder looks one block too far back does
\* no harm.
Accepted == genesis \/ verifyGasLimit(used, parent, grand)

\* A block's limit is between its parent's and the target.
TowardsTarget ==
    [][BlockGasTarget # 0 =>
        parent' \in Smaller(parent, BlockGasTarget)..Larger(parent, BlockGasTarget)]_vars

\* Limits that a step can move reach the target and stay there.
ReachesTarget == parent >= Divisor /\ BlockGasTarget >= Divisor ~> [](parent = BlockGasTarget)
=============================================================================
