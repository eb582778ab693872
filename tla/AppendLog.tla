------------------------------ MODULE AppendLog ------------------------------
(***************************************************************************)
(* What the rest of bathy relies on from an event log, and all of it: a    *)
(* sequence that grows one record at a time, of which some prefix is safe  *)
(* from any crash.  A record, once written, is never changed or reordered; *)
(* a crash may take a suffix, never anything from the safe prefix.         *)
(* EventLog and the log inside Scheduler are both shown to implement it.   *)
(***************************************************************************)
EXTENDS Integers, Sequences

CONSTANT Record   \* what a line of the log may hold

VARIABLES
    recs,         \* the records, in file order
    stable        \* how many of them no crash can take

Init == recs = <<>> /\ stable = 0

\* One record is added at the end; nothing before it changes.
Grow ==
    /\ Len(recs') = Len(recs) + 1
    /\ recs'[Len(recs')] \in Record
    /\ recs' = Append(recs, recs'[Len(recs')])

Extend == Grow /\ UNCHANGED stable

Harden == stable' = Len(recs) /\ UNCHANGED recs

Lose == \E k \in stable..Len(recs) : recs' = SubSeq(recs, 1, k) /\ UNCHANGED stable

Next == Extend \/ Harden \/ Lose

Spec == Init /\ [][Next]_<<recs, stable>>
=============================================================================
