--------------------------- MODULE TaskStoreProofs ---------------------------
(***************************************************************************)
(* What is proved of TaskStore for any number of processes, keys, plans    *)
(* and identifiers: one scan comes of a key, and the lookups and inserts   *)
(* of many connections implement the one atomic step the tools rely on.    *)
(***************************************************************************)
EXTENDS TaskStore, TLAPS

Row == [scan : ScanIds, plan : Plans]

\* An identifier is drawn by one call, and is in the table or about to be.
Drawn ==
    /\ \A k \in Keys : scans[k] # NoRow => scans[k].scan \in drawn
    /\ \A p \in Procs : call[p].at = "insert" =>
         /\ call[p].scan \in drawn
         /\ \A k \in Keys : scans[k] # NoRow => scans[k].scan # call[p].scan
         /\ \A q \in Procs : call[q].at = "insert" /\ call[q].scan = call[p].scan => q = p

RowsDiffer ==
    \A j, k \in Keys : scans[j] # NoRow /\ scans[k] # NoRow /\ scans[j].scan = scans[k].scan
                         => j = k

\* What a caller was told of a scan is in the table, and stays there.
Backed ==
    \A a \in answers : a.verdict # "conflict" =>
        a.scan \in ScanIds /\ scans[a.key] = [scan |-> a.scan, plan |-> a.plan]

IInv == TypeOK /\ Drawn /\ RowsDiffer /\ Backed

USE TaskStoreAssumption DEF TaskStoreAssumption

-----------------------------------------------------------------------------
LEMMA RowKinds ==
    ASSUME NEW row \in Row
    PROVE  row # NoRow /\ row.scan \in ScanIds /\ row.plan \in Plans
BY DEF Row, NoRow

LEMMA TableRow ==
    ASSUME TypeOK, NEW k \in Keys, scans[k] # NoRow
    PROVE  scans[k] \in Row
BY DEF TypeOK, Row

\* A call that is under way has a key and a plan, and one about to insert an
\* identifier.
LEMMA Busy ==
    ASSUME IInv, NEW p \in Procs, call[p].at # "idle"
    PROVE  /\ call[p].key \in Keys /\ call[p].plan \in Plans
           /\ call[p].scan \in ScanIds \cup {NoScan}
           /\ call[p].at = "insert" => call[p].scan \in ScanIds
           /\ call[p] \in [at : {"lookup", "insert", "relookup"}, key : Keys,
                           plan : Plans, scan : ScanIds \cup {NoScan}]
BY DEF IInv, TypeOK, Drawn, NoCall

\* A call that neither inserts nor draws leaves the table as it is.
LEMMA MoveKeeps ==
    ASSUME IInv, NEW p \in Procs, UNCHANGED <<scans, drawn>>,
           call' \in [Procs -> [at : {"lookup", "insert", "relookup"}, key : Keys,
                           plan : Plans, scan : ScanIds \cup {NoScan}] \cup {NoCall}],
           \A q \in Procs : call'[q] = call[q] \/ call'[q].at # "insert"
    PROVE  Drawn' /\ RowsDiffer'
BY DEF IInv, Drawn, RowsDiffer

LEMMA CallKeeps ==
    ASSUME IInv, NEW p \in Procs, NEW key \in Keys, NEW plan \in Plans, Call(p, key, plan)
    PROVE  IInv'
<1> USE DEF IInv
<1> DEFINE new == [at |-> "lookup", key |-> key, plan |-> plan, scan |-> NoScan]
<1>1. call' = [call EXCEPT ![p] = new] /\ UNCHANGED <<scans, drawn, answers>>
  BY DEF Call
<1>2. TypeOK'
  BY <1>1 DEF TypeOK
<1>3. \A q \in Procs : call'[q] = call[q] \/ call'[q].at # "insert"
  BY <1>1 DEF TypeOK
<1>4. Drawn' /\ RowsDiffer'
  BY <1>1, <1>2, <1>3, MoveKeeps DEF TypeOK
<1>5. Backed'
  BY <1>1 DEF Backed
<1> QED BY <1>2, <1>4, <1>5

LEMMA FindsKeeps == ASSUME IInv, NEW p \in Procs, LookupFinds(p) PROVE IInv'
<1> USE DEF IInv
<1> DEFINE c == call[p]
           told == [key |-> c.key, plan |-> c.plan, verdict |-> lookup(c.key, c.plan),
                    scan |-> IF lookup(c.key, c.plan) = "reused"
                             THEN scans[c.key].scan ELSE NoScan]
<1>1. /\ call' = [call EXCEPT ![p] = NoCall] /\ UNCHANGED <<scans, drawn>>
      /\ answers' = answers \cup {told} /\ scans[c.key] # NoRow
  BY DEF LookupFinds, Answered, answer
<1>2. c.key \in Keys /\ c.plan \in Plans
  BY Busy DEF LookupFinds
<1>3. scans[c.key] \in Row
  BY <1>1, <1>2, TableRow
<1>4. told.verdict \in {"reused", "conflict"}
  BY <1>1 DEF lookup
<1>5. told \in [key : Keys, plan : Plans, scan : ScanIds \cup {NoScan},
                verdict : {"started", "reused", "conflict"}]
  BY <1>2, <1>3, <1>4 DEF Row
<1>6. TypeOK'
  BY <1>1, <1>5 DEF TypeOK
<1>7. Drawn' /\ RowsDiffer'
  <2>1. \A q \in Procs : call'[q] = call[q] \/ call'[q].at # "insert"
    BY <1>1 DEF TypeOK, NoCall
  <2> QED BY <1>1, <1>6, <2>1, MoveKeeps DEF TypeOK
<1>8. told.verdict # "conflict" =>
        told.scan \in ScanIds /\ scans[told.key] = [scan |-> told.scan, plan |-> told.plan]
  <2> SUFFICES ASSUME told.verdict # "conflict"
               PROVE told.scan \in ScanIds
                     /\ scans[told.key] = [scan |-> told.scan, plan |-> told.plan]
    OBVIOUS
  <2>1. lookup(c.key, c.plan) = "reused" /\ scans[c.key].plan = c.plan
    BY <1>1, <1>4 DEF lookup
  <2> QED BY <1>3, <2>1 DEF Row
<1>9. Backed'
  <2> HIDE DEF told
  <2> QED BY <1>1, <1>8 DEF Backed
<1> QED BY <1>6, <1>7, <1>9

LEMMA MissesKeeps == ASSUME IInv, NEW p \in Procs, LookupMisses(p) PROVE IInv'
<1> USE DEF IInv
<1>1. PICK scan \in ScanIds \ drawn :
        /\ drawn' = drawn \cup {scan}
        /\ call' = [call EXCEPT ![p].at = "insert", ![p].scan = scan]
        /\ UNCHANGED <<scans, answers>>
  BY DEF LookupMisses
<1>2. call[p] \in [at : {"lookup", "insert", "relookup"}, key : Keys,
                   plan : Plans, scan : ScanIds \cup {NoScan}]
  BY Busy DEF LookupMisses
<1>3. /\ call'[p].at = "insert" /\ call'[p].scan = scan
      /\ call'[p] \in [at : {"lookup", "insert", "relookup"}, key : Keys,
                       plan : Plans, scan : ScanIds \cup {NoScan}]
      /\ \A q \in Procs : q # p => call'[q] = call[q]
  BY <1>1, <1>2 DEF TypeOK
<1>4. TypeOK'
  BY <1>1, <1>3 DEF TypeOK
<1>5. drawn' = drawn \cup {scan} /\ UNCHANGED scans
  BY <1>1
<1>6. Drawn'
  <2>1. \A k \in Keys : scans[k] # NoRow => scans[k].scan \in drawn /\ scans[k].scan # scan
    BY DEF Drawn
  <2>2. ASSUME NEW q \in Procs, q # p, call'[q].at = "insert"
        PROVE  /\ call[q].at = "insert" /\ call'[q] = call[q]
               /\ call[q].scan \in drawn /\ call[q].scan # scan
    <3>1. call'[q] = call[q]
      BY <1>3, <2>2
    <3>2. call[q].scan \in drawn
      BY <2>2, <3>1 DEF Drawn
    <3> QED BY <2>2, <3>1, <3>2
  <2>3. ASSUME NEW q \in Procs, call'[q].at = "insert" PROVE call'[q].scan \in drawn'
    <3>1. CASE q = p
      BY <1>5, <1>3, <3>1
    <3>2. CASE q # p
      BY <1>5, <2>2, <2>3, <3>2
    <3> QED BY <3>1, <3>2
  <2>4. \A q \in Procs : call'[q].at = "insert" =>
          \A k \in Keys : scans[k] # NoRow => scans[k].scan # call'[q].scan
    BY <1>3, <2>1, <2>2 DEF Drawn
  <2>5. \A q, r \in Procs : call'[q].at = "insert" /\ call'[r].at = "insert"
                           /\ call'[q].scan = call'[r].scan => q = r
    BY <1>3, <2>2 DEF Drawn
  <2> QED BY <1>5, <2>1, <2>3, <2>4, <2>5 DEF Drawn
<1>7. RowsDiffer' /\ Backed'
  BY <1>1 DEF RowsDiffer, Backed
<1> QED BY <1>4, <1>6, <1>7

\* The row of a call about to insert, if its key is free, joins the others.
LEMMA RowAdded ==
    ASSUME IInv, NEW p \in Procs, call[p].at = "insert", scans[call[p].key] = NoRow,
           scans' = [scans EXCEPT ![call[p].key] =
                       [scan |-> call[p].scan, plan |-> call[p].plan]],
           call' = [call EXCEPT ![p] = NoCall],
           UNCHANGED drawn,
           \/ UNCHANGED answers
           \/ answer(call[p], "started", call[p].scan)
    PROVE  IInv'
<1> USE DEF IInv
<1> DEFINE c == call[p]
           new == [scan |-> c.scan, plan |-> c.plan]
           told == [key |-> c.key, plan |-> c.plan, verdict |-> "started", scan |-> c.scan]
<1>1. c.key \in Keys /\ c.plan \in Plans /\ c.scan \in ScanIds
  BY Busy
<1>2. /\ scans'[c.key] = new
      /\ \A k \in Keys : k # c.key => scans'[k] = scans[k]
  BY <1>1 DEF TypeOK
<1>3. new \in Row /\ new # NoRow
  BY <1>1 DEF Row, NoRow
<1>4. TypeOK'
  BY <1>1, <1>3 DEF TypeOK, Row, answer
<1>5. RowsDiffer'
  <2>1. \A k \in Keys : scans[k] # NoRow => scans[k].scan # c.scan
    BY DEF Drawn
  <2> QED BY <1>2, <2>1 DEF RowsDiffer
<1>6. Drawn'
  <2>1. \A q \in Procs : call'[q].at = "insert" => q # p /\ call'[q] = call[q]
    BY DEF TypeOK, NoCall
  <2>2. \A q \in Procs : call'[q].at = "insert" => call[q].scan # c.scan
    BY <2>1 DEF Drawn
  <2> QED BY <1>2, <2>1, <2>2 DEF Drawn
<1>7. Backed'
  <2>1. \A a \in answers : a.verdict # "conflict" => a.key # c.key
    <3>1. \A a \in answers : a.verdict # "conflict" => scans[a.key] \in Row
      <4>1. \A a \in answers : a.plan \in Plans
        BY DEF TypeOK
      <4>2. ASSUME NEW a \in answers, a.verdict # "conflict" PROVE scans[a.key] \in Row
        <5>1. a.scan \in ScanIds /\ scans[a.key] = [scan |-> a.scan, plan |-> a.plan]
          BY <4>2 DEF Backed
        <5> QED BY <4>1, <5>1 DEF Row
      <4> QED BY <4>2
    <3> QED BY <3>1, RowKinds
  <2>2. \A a \in answers : a.key \in Keys
    BY DEF TypeOK
  <2> QED BY <1>1, <1>2, <2>1, <2>2 DEF Backed, answer
<1> QED BY <1>4, <1>5, <1>6, <1>7

LEMMA InsertKeeps == ASSUME IInv, NEW p \in Procs, Insert(p) PROVE IInv'
<1>1. CASE scans[call[p].key] = NoRow
  BY <1>1, RowAdded DEF Insert
<1>2. CASE scans[call[p].key] # NoRow
  <2> USE DEF IInv
  <2>1. /\ call' = [call EXCEPT ![p].at = "relookup"]
        /\ UNCHANGED <<scans, drawn, answers>>
    BY <1>2 DEF Insert
  <2>2. call[p] \in [at : {"lookup", "insert", "relookup"}, key : Keys,
                     plan : Plans, scan : ScanIds \cup {NoScan}]
    BY Busy DEF Insert
  <2>3. TypeOK' /\ \A q \in Procs : call'[q] = call[q] \/ call'[q].at # "insert"
    BY <2>1, <2>2 DEF TypeOK
  <2>4. Drawn' /\ RowsDiffer'
    BY <2>1, <2>3, MoveKeeps DEF TypeOK
  <2> QED BY <2>1, <2>3, <2>4 DEF Backed
<1> QED BY <1>1, <1>2

LEMMA DieKeeps == ASSUME IInv, NEW p \in Procs, Die(p) PROVE IInv'
<1>1. CASE UNCHANGED scans
  <2> USE DEF IInv
  <2>1. call' = [call EXCEPT ![p] = NoCall] /\ UNCHANGED <<scans, drawn, answers>>
    BY <1>1 DEF Die
  <2>2. TypeOK' /\ \A q \in Procs : call'[q] = call[q] \/ call'[q].at # "insert"
    BY <2>1 DEF TypeOK, NoCall
  <2>3. Drawn' /\ RowsDiffer'
    BY <2>1, <2>2, MoveKeeps DEF TypeOK
  <2> QED BY <2>1, <2>2, <2>3 DEF Backed
<1>2. CASE ~UNCHANGED scans
  BY <1>2, RowAdded DEF Die
<1> QED BY <1>1, <1>2

LEMMA Kept == IInv /\ [Next]_vars => IInv'
<1> SUFFICES ASSUME IInv, [Next]_vars PROVE IInv'
  OBVIOUS
<1>1. CASE UNCHANGED vars
  BY <1>1 DEF vars, IInv, TypeOK, Drawn, RowsDiffer, Backed
<1> QED BY <1>1, CallKeeps, FindsKeeps, MissesKeeps, InsertKeeps, DieKeeps DEF Next, Step

LEMMA Started == Init => IInv
BY DEF Init, IInv, TypeOK, Drawn, RowsDiffer, Backed, NoCall

-----------------------------------------------------------------------------
\* Every variable of the store has its type.
THEOREM Typed == Spec => []TypeOK
<1>1. IInv => TypeOK
  BY DEF IInv
<1> QED BY <1>1, Started, Kept, PTL DEF Spec

\* However many processes call start_or_reuse with however many keys, no two
\* callers of a key are told of different scans, no scan serves two keys.
THEOREM OneScan == Spec => []OneScanPerKey
<1>1. IInv => OneScanPerKey
  <2> SUFFICES ASSUME IInv, NEW a \in answers, NEW b \in answers,
                      a.verdict # "conflict", b.verdict # "conflict"
               PROVE  /\ a.key = b.key <=> a.scan = b.scan
                      /\ a.scan = b.scan => a.plan = b.plan
    BY DEF OneScanPerKey
  <2>1. /\ a.key \in Keys /\ scans[a.key] = [scan |-> a.scan, plan |-> a.plan]
        /\ b.key \in Keys /\ scans[b.key] = [scan |-> b.scan, plan |-> b.plan]
        /\ a.scan \in ScanIds /\ b.scan \in ScanIds
        /\ a.plan \in Plans /\ b.plan \in Plans
    BY DEF IInv, Backed, TypeOK
  <2>2. scans[a.key] # NoRow /\ scans[b.key] # NoRow
    BY <2>1 DEF NoRow
  <2>3. scans[a.key].scan = a.scan /\ scans[b.key].scan = b.scan
        /\ scans[a.key].plan = a.plan /\ scans[b.key].plan = b.plan
    BY <2>1
  <2> QED BY <2>1, <2>2, <2>3 DEF IInv, RowsDiffer
<1> QED BY <1>1, Started, Kept, PTL DEF Spec

-----------------------------------------------------------------------------
\* The steps of many connections, seen through the table and the answers, are
\* the atomic claim, reuse and refusal of IdempotentStart, or nothing at all.
THEOREM StoreImplementsPromise == Spec => ImplementsPromise
<1> DEFINE Abstract == [Promise!Next]_<<scans, answers>>
<1>1. Init => Promise!Init
  BY DEF Init, Promise!Init, Promise!Nothing, NoRow
<1>2. ASSUME IInv, NEW p \in Procs, LookupFinds(p) PROVE Abstract
  <2>1. /\ call[p].key \in Keys /\ call[p].plan \in Plans
        /\ scans[call[p].key] # NoRow /\ UNCHANGED scans
        /\ Answered(call[p])
    BY <1>2, Busy DEF LookupFinds
  <2>2. CASE scans[call[p].key].plan = call[p].plan
    <3>1. Promise!Reuse(call[p].key, call[p].plan)
      BY <2>1, <2>2 DEF Promise!Reuse, Promise!Nothing, Promise!Answer,
                        Answered, answer, lookup, NoRow
    <3> QED BY <2>1, <3>1 DEF Promise!Next
  <2>3. CASE scans[call[p].key].plan # call[p].plan
    <3>1. Promise!Refuse(call[p].key, call[p].plan)
      BY <2>1, <2>3 DEF Promise!Refuse, Promise!Nothing, Promise!Answer,
                        Answered, answer, lookup, NoRow
    <3> QED BY <2>1, <3>1 DEF Promise!Next
  <2> QED BY <2>2, <2>3
<1>3. ASSUME IInv, NEW p \in Procs, call[p].at = "insert", scans[call[p].key] = NoRow,
             scans' = [scans EXCEPT ![call[p].key] =
                         [scan |-> call[p].scan, plan |-> call[p].plan]],
             \/ UNCHANGED answers
             \/ answer(call[p], "started", call[p].scan)
      PROVE  Abstract
  <2>1. /\ call[p].key \in Keys /\ call[p].plan \in Plans /\ call[p].scan \in ScanIds
    BY <1>3, Busy
  <2>2. \A j \in Keys : scans[j].scan # call[p].scan
    <3>1. \A j \in Keys : scans[j] # NoRow => scans[j].scan # call[p].scan
      BY <1>3 DEF IInv, Drawn
    <3> QED BY <2>1, <3>1 DEF NoRow
  <2>3. Promise!Claim(call[p].key, call[p].plan, call[p].scan)
    BY <1>3, <2>1, <2>2 DEF Promise!Claim, Promise!Nothing, Promise!Answer, answer, NoRow
  <2> QED BY <2>1, <2>3 DEF Promise!Next
<1>4. ASSUME IInv, NEW p \in Procs, Insert(p) \/ Die(p) PROVE Abstract
  BY <1>3, <1>4 DEF Insert, Die
<1>5. IInv /\ [Next]_vars => Abstract
  BY <1>2, <1>4 DEF Next, Step, Call, LookupMisses, vars
<1> QED BY <1>1, <1>5, Started, Kept, PTL DEF Spec, ImplementsPromise, Promise!Spec
=============================================================================
