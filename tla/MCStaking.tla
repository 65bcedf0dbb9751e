----------------------------- MODULE MCStaking ------------------------------
(***************************************************************************)
(* Small instances of the staking calls and queries: two sequencers and a  *)
(* watchtower.                                                             *)
(***************************************************************************)
EXTENDS Staking

CONSTANTS a, b, wt

MCNodeType == [n \in {a, b, wt} |-> IF n = wt THEN "watchtower" ELSE "sequencer"]
MCTwoNodeType == [n \in {a, wt} |-> MCNodeType[n]]
=============================================================================
