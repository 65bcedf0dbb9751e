---------------------------- MODULE MCSequencing ----------------------------
(* Sequencing for TLC: a bootstrap sequencer and one that joins.           *)
EXTENDS Sequencing

CONSTANTS boot, seq

\* A shuffle that hands windows to both nodes.
MCLeader(w, S) == IF seq \in S /\ (boot \notin S \/ w % 3 # 0) THEN seq ELSE
                  CHOOSE n \in S : n # seq
=============================================================================
