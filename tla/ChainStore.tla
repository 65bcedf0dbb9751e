----------------------------- MODULE ChainStore -----------------------------
(***************************************************************************)
(* What the block store promises to those who use it: each block handed to *)
(* it takes effect at once, as Insert says, or not at all.                 *)
(***************************************************************************)
EXTENDS ChainOps

CONSTANTS Block, Genesis

VARIABLE chain

Init == chain = NewStore(Genesis)

WriteBlock(b) == chain' = Insert(chain, b)

Next == \E b \in Block : WriteBlock(b)

Spec == Init /\ [][Next]_chain
=============================================================================
