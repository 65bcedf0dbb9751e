----------------------------- MODULE MCGasLimit -----------------------------
(***************************************************************************)
(* Small limits around a small target, with a divisor of 4.                *)
(***************************************************************************)
EXTENDS GasLimit

MCGenesisLimits == 0..60
=============================================================================
