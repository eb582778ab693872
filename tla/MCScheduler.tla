----------------------------- MODULE MCScheduler -----------------------------
(* Small instances of Scheduler for TLC.                                    *)
EXTENDS Scheduler

\* Two units on the first host, the rest on the second.
MCUnitHost == [u \in 1..NumUnits |-> IF u <= 2 \/ NumHosts = 1 THEN 1 ELSE 2]
MCAllHosts == {Hosts}
MCNarrowed == {Hosts, {1}}
=============================================================================
