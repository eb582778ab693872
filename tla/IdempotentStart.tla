--------------------------- MODULE IdempotentStart ---------------------------
(***************************************************************************)
(* What an idempotency key promises a caller of scan.start: the first use  *)
(* of a key begins one scan, atomically and for good; every other use with *)
(* the same plan is answered with that scan and begins nothing; a use with *)
(* another plan is refused.                                                *)
(***************************************************************************)
CONSTANTS Keys, Plans, ScanIds, NoScan

VARIABLES
    scanOf,    \* the scan a key began, and the plan it began with
    answers    \* the answers given: key, plan, verdict, scan

Nothing == [scan |-> NoScan, plan |-> NoScan]

Init ==
    /\ scanOf = [k \in Keys |-> Nothing]
    /\ answers = {}

Answer(k, plan, verdict, scan) ==
    answers' = answers \cup {[key |-> k, plan |-> plan, verdict |-> verdict, scan |-> scan]}

\* The row of a new scan appears; its caller may die before it is answered.
Claim(k, plan, scan) ==
    /\ scanOf[k] = Nothing
    /\ \A j \in Keys : scanOf[j].scan # scan
    /\ scanOf' = [scanOf EXCEPT ![k] = [scan |-> scan, plan |-> plan]]
    /\ \/ UNCHANGED answers
       \/ Answer(k, plan, "started", scan)

Reuse(k, plan) ==
    /\ scanOf[k] # Nothing
    /\ scanOf[k].plan = plan
    /\ Answer(k, plan, "reused", scanOf[k].scan)
    /\ UNCHANGED scanOf

Refuse(k, plan) ==
    /\ scanOf[k] # Nothing
    /\ scanOf[k].plan # plan
    /\ Answer(k, plan, "conflict", NoScan)
    /\ UNCHANGED scanOf

Next ==
    \E k \in Keys, plan \in Plans :
        \/ \E scan \in ScanIds : Claim(k, plan, scan)
        \/ Reuse(k, plan)
        \/ Refuse(k, plan)

Spec == Init /\ [][Next]_<<scanOf, answers>>
=============================================================================
