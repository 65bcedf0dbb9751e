----------------------------- MODULE MCDispute ------------------------------
(* Dispute for TLC: one or two honest sequencers, one whose fraud server   *)
(* can be primed, and a watchtower.                                        *)
EXTENDS Dispute

CONSTANTS evil, honest, other, wt

\* A shuffle that gives the first window to the primable sequencer and takes
\* turns after it.
MCLeader(w, S) == IF evil \in S /\ (w % 2 = 1 \/ S = {evil}) THEN evil
                  ELSE CHOOSE n \in S : n # evil
=============================================================================
