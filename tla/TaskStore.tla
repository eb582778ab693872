------------------------------ MODULE TaskStore ------------------------------
(***************************************************************************)
(* bathy-store's TaskStore::start_or_reuse, called by any number of        *)
(* processes over their own connections to one state.sqlite.  Inside a     *)
(* process the connection's mutex makes a call atomic; between processes   *)
(* only the database orders the lookup of one and the insert of another,   *)
(* and the UNIQUE index on idempotency_key decides who is first.           *)
(*                                                                         *)
(* The other operations of the store are single statements over one scan   *)
(* and are part of Scheduler and ScanLifecycle.                            *)
(***************************************************************************)
CONSTANTS
    Procs,      \* processes, each with its own connection
    Keys,       \* idempotency keys
    Plans,      \* plan hashes
    ScanIds,    \* identifiers new_scan_id may draw, each at most once
    NoScan

ASSUME TaskStoreAssumption == NoScan \notin Plans /\ NoScan \notin ScanIds

VARIABLES
    scans,      \* the scans table: for each key its row, or NoRow
    call,       \* each process's call: where it stands, and its request
    drawn,      \* scan identifiers already drawn
    answers     \* what callers were told

vars == <<scans, call, drawn, answers>>

NoRow  == [scan |-> NoScan, plan |-> NoScan]
NoCall == [at |-> "idle", key |-> NoScan, plan |-> NoScan, scan |-> NoScan]

\* Callers learn the scan only through the answer.
answer(c, verdict, scan) ==
    answers' = answers \cup
        {[key |-> c.key, plan |-> c.plan, verdict |-> verdict, scan |-> scan]}

\* Mutant of lookup: a key that was seen is reused, whatever it is used for.
LookupByKey(key, incoming) ==
    IF scans[key] = NoRow THEN "none" ELSE "reused"

\* TaskStore::lookup: no row, the same plan, or another plan.
lookup(key, incoming) ==
    IF scans[key] = NoRow THEN "none"
    ELSE IF scans[key].plan = incoming THEN "reused" ELSE "conflict"

Answered(c) ==
    LET verdict == lookup(c.key, c.plan)
    IN  answer(c, verdict, IF verdict = "reused" THEN scans[c.key].scan ELSE NoScan)

-----------------------------------------------------------------------------

Call(p, key, incoming) ==
    /\ call[p].at = "idle"
    /\ call' = [call EXCEPT ![p] =
                  [at |-> "lookup", key |-> key, plan |-> incoming, scan |-> NoScan]]
    /\ UNCHANGED <<scans, drawn, answers>>

\* The key was seen: answered without a write.
LookupFinds(p) ==
    /\ call[p].at \in {"lookup", "relookup"}
    /\ scans[call[p].key] # NoRow
    /\ Answered(call[p])
    /\ call' = [call EXCEPT ![p] = NoCall]
    /\ UNCHANGED <<scans, drawn>>

\* Mutant of LookupMisses: the identifier is not recorded as used.
LookupMissesUndrawn(p) ==
    /\ call[p].at = "lookup"
    /\ scans[call[p].key] = NoRow
    /\ call' = [call EXCEPT ![p].at = "insert", ![p].scan = NoScan]
    /\ UNCHANGED <<scans, drawn, answers>>

\* The key is new, as far as this connection can see: an id is drawn.
LookupMisses(p) ==
    /\ call[p].at = "lookup"
    /\ scans[call[p].key] = NoRow
    /\ \E scan \in ScanIds \ drawn :
         /\ drawn' = drawn \cup {scan}
         /\ call' = [call EXCEPT ![p].at = "insert", ![p].scan = scan]
    /\ UNCHANGED <<scans, answers>>

\* Mutant of Insert: INSERT OR REPLACE.
InsertOrReplace(p) ==
    /\ call[p].at = "insert"
    /\ scans' = [scans EXCEPT ![call[p].key] =
                   [scan |-> call[p].scan, plan |-> call[p].plan]]
    /\ answer(call[p], "started", call[p].scan)
    /\ call' = [call EXCEPT ![p] = NoCall]
    /\ UNCHANGED drawn

\* The insert commits, unless another connection's did first: then the UNIQUE
\* index rejects it and the key is looked up again.
Insert(p) ==
    /\ call[p].at = "insert"
    /\ IF scans[call[p].key] = NoRow
       THEN /\ scans' = [scans EXCEPT ![call[p].key] =
                           [scan |-> call[p].scan, plan |-> call[p].plan]]
            /\ answer(call[p], "started", call[p].scan)
            /\ call' = [call EXCEPT ![p] = NoCall]
       ELSE /\ call' = [call EXCEPT ![p].at = "relookup"]
            /\ UNCHANGED <<scans, answers>>
    /\ UNCHANGED drawn

\* The process dies; its transaction rolls back, or had just committed
\* unanswered.
Die(p) ==
    /\ call[p].at # "idle"
    /\ \/ UNCHANGED scans
       \/ /\ call[p].at = "insert"
          /\ scans[call[p].key] = NoRow
          /\ scans' = [scans EXCEPT ![call[p].key] =
                         [scan |-> call[p].scan, plan |-> call[p].plan]]
    /\ call' = [call EXCEPT ![p] = NoCall]
    /\ UNCHANGED <<drawn, answers>>

Init ==
    /\ scans = [k \in Keys |-> NoRow]
    /\ call = [p \in Procs |-> NoCall]
    /\ drawn = {}
    /\ answers = {}

Step(p) == LookupFinds(p) \/ LookupMisses(p) \/ Insert(p)

Next ==
    \E p \in Procs :
        \/ \E key \in Keys, plan \in Plans : Call(p, key, plan)
        \/ Step(p)
        \/ Die(p)

Spec == Init /\ [][Next]_vars

-----------------------------------------------------------------------------
(* Properties.                                                              *)

\* Every variable holds a value of the kind the code's types allow.
TypeOK ==
    /\ scans \in [Keys -> [scan : ScanIds, plan : Plans] \cup {NoRow}]
    /\ call \in [Procs -> [at : {"lookup", "insert", "relookup"}, key : Keys,
                           plan : Plans, scan : ScanIds \cup {NoScan}] \cup {NoCall}]
    /\ drawn \subseteq ScanIds
    /\ answers \subseteq [key : Keys, plan : Plans, scan : ScanIds \cup {NoScan},
                          verdict : {"started", "reused", "conflict"}]

\* However many processes start with one key at once, one scan comes of it:
\* no two callers are told of different scans, and no scan serves two keys or
\* two plans.
OneScanPerKey ==
    \A a, b \in answers :
        a.verdict # "conflict" /\ b.verdict # "conflict" =>
            /\ a.key = b.key <=> a.scan = b.scan
            /\ a.scan = b.scan => a.plan = b.plan

\* The store implements the abstract promise of an idempotency key.
Promise == INSTANCE IdempotentStart WITH scanOf <- scans
ImplementsPromise == Promise!Spec
=============================================================================
