------------------------------- MODULE MCSync -------------------------------
(* Sync for TLC: both calls in one process, or each in its own.            *)
EXTENDS Sync

CONSTANTS s1, s2, p1, p2

MCRun == {s1, s2}

MCHomes == {[r \in MCRun |-> p1], [r \in MCRun |-> IF r = s1 THEN p1 ELSE p2]}

=============================================================================
