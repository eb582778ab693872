--------------------------- MODULE SchedulerProofs ---------------------------
(***************************************************************************)
(* What is proved of Scheduler for every plan, budget, concurrency, batch  *)
(* size and number of crashes.                                             *)
(***************************************************************************)
EXTENDS Scheduler, TLAPS, SequenceTheorems

(* Where control stands, by what the run holds there.                      *)

HoldsUnit == {"syn", "observe", "detect", "detectspend", "put", "cite"}
Ending    == {"terminal", "finalsync", "finalcursor", "publish"}

\* Control flow facts the types rest on: a unit or host is in hand where one
\* is used, a run that is ending has a reason, the ledger never falls behind
\* the store, and a task is of a unit already taken from the plan.
Control ==
    /\ pc \in HoldsUnit => cur \in Units
    /\ pc = "detectspend" => tries > 0
    /\ pc \in {"acquire", "spend"} => cursor \in Units
    /\ pc \in {"discovering", "hostput", "hostlog"} => host \in Hosts
    /\ pc \in Ending => stop # "none"
    /\ drained => stop # "none"
    /\ pc = "drain" => drained
    /\ pc # "idle" => row.packets <= spent
    /\ pc = "idle" => inFlight = {}
    /\ \A u \in inFlight : u < cursor

TypeInv == TypeOK /\ Control

USE SchedulerAssumption DEF SchedulerAssumption
USE DEF vars, disk, ledger, plan, tasks, record, flushed, history

LEMMA TypeInit == Init => TypeInv
<1> SUFFICES ASSUME Init PROVE TypeInv
  OBVIOUS
<1> USE DEF Init
<1>1. DiskTypes
  BY DEF DiskTypes, Statuses
<1>2. ControlTypes
  BY DEF ControlTypes, NoRun, Locations, Reasons, Verdicts
<1>3. RunTypes
  BY DEF RunTypes
<1>4. HistoryTypes
  BY DEF HistoryTypes
<1>5. Control
  BY DEF Control, HoldsUnit, Ending
<1> QED BY <1>1, <1>2, <1>3, <1>4, <1>5 DEF TypeInv, TypeOK

\* What an append leaves behind, beside the disk's other contents.
LEMMA AppendTypes ==
    ASSUME TypeOK, NEW kind \in EventKinds, NEW of \in Nat,
           append(Event(kind, of)), UNCHANGED <<synced, blobs, done, row>>
    PROVE  DiskTypes' /\ pending' \in Nat /\ syncDue' \in BOOLEAN
<1>1. /\ log \in Seq([kind : EventKinds, of : Nat])
      /\ Event(kind, of) \in [kind : EventKinds, of : Nat]
      /\ log' = Append(log, Event(kind, of))
  BY DEF append, TypeOK, DiskTypes, Event
<1>2. log' \in Seq([kind : EventKinds, of : Nat]) /\ Len(log') = Len(log) + 1
  BY <1>1
<1>3. pending' \in Nat /\ syncDue' \in BOOLEAN
  BY DEF append, TypeOK, RunTypes
<1> QED BY <1>2, <1>3 DEF TypeOK, DiskTypes

\* A run that ends has a proper terminal kind and status.
LEMMA EndingTypes ==
    ASSUME TypeInv, pc \in Ending
    PROVE  /\ TerminalStatus(stop) \in Statuses
           /\ stop # "cancelled" => TerminalKind(stop) \in EventKinds
BY DEF TypeInv, TypeOK, ControlTypes, Control, Reasons, TerminalStatus,
       TerminalKind, TerminalKinds, Statuses, EventKinds

\* The six actions that write an event.
LEMMA EmitTypes ==
    ASSUME TypeInv,
           \/ EmitStarted \/ EmitHost \/ ObservePort \/ CiteEvidence
           \/ EmitProgress \/ EmitTerminal
    PROVE  DiskTypes' /\ pending' \in Nat /\ syncDue' \in BOOLEAN
<1> USE DEF TypeInv
<1>1. CASE UNCHANGED <<disk, ledger>>
  BY <1>1 DEF TypeOK, DiskTypes, ControlTypes, RunTypes
<1>2. ASSUME NEW kind \in EventKinds, NEW of \in Nat,
             append(Event(kind, of)), UNCHANGED <<synced, blobs, done, row>>
      PROVE  DiskTypes' /\ pending' \in Nat /\ syncDue' \in BOOLEAN
  BY <1>2, AppendTypes
<1>3. cur \in Nat /\ host \in Nat
  BY DEF TypeOK, RunTypes, Units
<1>4. {"started", "host", "port", "service", "progress"} \subseteq EventKinds
  BY DEF EventKinds
<1>5. CASE EmitStarted
  BY <1>1, <1>2, <1>4, <1>5 DEF EmitStarted
<1>6. CASE EmitHost
  BY <1>2, <1>3, <1>4, <1>6 DEF EmitHost
<1>7. CASE ObservePort
  BY <1>2, <1>3, <1>4, <1>7 DEF ObservePort
<1>8. CASE CiteEvidence
  BY <1>2, <1>3, <1>4, <1>8 DEF CiteEvidence
<1>9. CASE EmitProgress
  BY <1>1, <1>2, <1>4, <1>9 DEF EmitProgress
<1>10. CASE EmitTerminal
  BY <1>1, <1>2, <1>10, EndingTypes DEF EmitTerminal, At, Ending
<1> QED BY <1>5, <1>6, <1>7, <1>8, <1>9, <1>10

LEMMA SyncTypes ==
    ASSUME TypeInv, sync_now, UNCHANGED <<log, blobs, done, row>>
    PROVE  DiskTypes' /\ pending' \in Nat
BY DEF TypeInv, TypeOK, DiskTypes, sync_now

\* The two updates of the scan's row.
LEMMA StatusTypes ==
    ASSUME NEW S, NEW P, NEW r \in [status : S, seq : Nat, packets : P], NEW s \in S
    PROVE  /\ [r EXCEPT !.status = s] \in [status : S, seq : Nat, packets : P]
           /\ [r EXCEPT !.status = s].packets = r.packets
OBVIOUS

LEMMA RowTypes ==
    ASSUME NEW S, NEW P, NEW r \in [status : S, seq : Nat, packets : P],
           NEW n \in Nat, NEW p \in P
    PROVE  /\ [r EXCEPT !.seq = n, !.packets = p] \in [status : S, seq : Nat, packets : P]
           /\ [r EXCEPT !.seq = n, !.packets = p].packets = p
OBVIOUS

LEMMA CursorTypes ==
    ASSUME TypeInv, record_progress, UNCHANGED <<log, synced, blobs, done>>
    PROVE  DiskTypes' /\ row'.packets = spent
<1>1. /\ row' \in [status : Statuses, seq : Nat, packets : 0..MaxPackets]
      /\ row'.packets = spent
  <2>1. Len(log) \in Nat /\ spent \in 0..MaxPackets
    BY DEF TypeInv, TypeOK, DiskTypes, RunTypes
  <2>2. row \in [status : Statuses, seq : Nat, packets : 0..MaxPackets]
    BY DEF TypeInv, TypeOK, DiskTypes
  <2> QED BY <2>1, <2>2, RowTypes DEF record_progress
<1> QED BY <1>1 DEF TypeInv, TypeOK, DiskTypes

LEMMA BeginTypes ==
    ASSUME TypeInv, NEW s \in Scopes, NEW a \in AllowSets, NEW m \in Modes,
           Begin(s, a, m)
    PROVE  TypeInv'
<1> USE DEF Begin, TypeInv, TypeOK
<1>1. /\ row' \in [status : Statuses, seq : Nat, packets : 0..MaxPackets]
      /\ row'.packets = row.packets
      /\ spent' = row.packets
  <2>1. row \in [status : Statuses, seq : Nat, packets : 0..MaxPackets]
    BY DEF DiskTypes
  <2>2. "running" \in Statuses
    BY DEF Statuses
  <2>3. row.packets \in 0..MaxPackets
    BY <2>1
  <2>4. /\ row' = [row EXCEPT !.status = "running"]
        /\ spent' = resumed(row.packets)
    OBVIOUS
  <2> HIDE DEF Begin, TypeInv
  <2> QED BY <2>1, <2>2, <2>3, <2>4, StatusTypes DEF resumed
<1>2. ControlTypes'
  BY DEF ControlTypes, Locations, Verdicts
<1>3. DiskTypes'
  BY <1>1 DEF DiskTypes
<1>4. RunTypes'
  <2>1. cursor' \in Nat \ {0} /\ host' \in Nat \ {0}
    BY DEF Units
  <2>2. spent' \in 0..MaxPackets
    BY <1>1 DEF DiskTypes
  <2> QED BY <2>1, <2>2 DEF RunTypes
<1>5. HistoryTypes'
  BY DEF HistoryTypes
<1>6. Control'
  <2>1. /\ pc' = "entry" /\ stop' = stop /\ drained' = drained
        /\ row'.packets <= spent'
    BY <1>1 DEF DiskTypes, ledger
  <2>2. (drained => stop # "none") /\ inFlight' = {}
    BY DEF Control
  <2> HIDE DEF Begin, TypeInv, TypeOK
  <2> QED BY <2>1, <2>2 DEF Control, HoldsUnit, Ending
<1> QED BY <1>2, <1>3, <1>4, <1>5, <1>6

\* Nothing is left in memory of a run that is gone.
LEMMA ForgottenTypes == ForgetRun => ControlTypes' /\ RunTypes' /\ Control'
<1>1. ForgetRun => ControlTypes'
  <2>1. NoRun \in [scope : Verdicts, allows : SUBSET Hosts, mode : {"connect", "syn"}]
    BY DEF NoRun, Verdicts
  <2> QED BY <2>1 DEF ForgetRun, ControlTypes, Locations, Reasons
<1>2. ForgetRun => RunTypes'
  BY DEF ForgetRun, RunTypes
<1>3. ForgetRun => Control'
  BY DEF ForgetRun, Control, HoldsUnit, Ending
<1> QED BY <1>1, <1>2, <1>3

LEMMA PublishTypes == TypeInv /\ Publish => DiskTypes' /\ HistoryTypes'
<1> SUFFICES ASSUME TypeInv, Publish PROVE DiskTypes' /\ HistoryTypes'
  OBVIOUS
<1>1. TerminalStatus(stop) \in Statuses
  BY EndingTypes DEF Publish, At, Ending
<1>2. DiskTypes'
  BY <1>1 DEF Publish, TypeInv, TypeOK, DiskTypes
<1>3. HistoryTypes'
  BY DEF Publish, ForgetRun, TypeInv, TypeOK, HistoryTypes
<1> QED BY <1>2, <1>3

\* A prefix of the log.
LEMMA SubSeqFacts ==
    ASSUME TypeOK, NEW k \in synced..Len(log)
    PROVE  /\ k \in 0..Len(log)
           /\ SubSeq(log, 1, k) \in Seq([kind : EventKinds, of : Nat])
           /\ Len(SubSeq(log, 1, k)) = k
           /\ \A i \in 1..k : SubSeq(log, 1, k)[i] = log[i]
<1>1. k \in 0..Len(log) /\ log \in Seq([kind : EventKinds, of : Nat])
  BY DEF TypeOK, DiskTypes
<1>2. \A i \in 1..k : log[i] \in [kind : EventKinds, of : Nat]
  <2> TAKE i \in 1..k
  <2>1. i \in 1..Len(log)
    BY <1>1
  <2> QED BY <1>1, <2>1, ElementOfSeq
<1> QED BY <1>1, <1>2, SubSeqProperties

LEMMA CrashTypes == TypeInv /\ Crash => DiskTypes' /\ HistoryTypes'
<1> SUFFICES ASSUME TypeInv, Crash PROVE DiskTypes' /\ HistoryTypes'
  OBVIOUS
<1> USE DEF TypeInv, TypeOK
<1>1. PICK k \in synced..Len(log) : log' = SubSeq(log, 1, k)
  BY DEF Crash
<1>2. log' \in Seq([kind : EventKinds, of : Nat]) /\ Len(log') = k
  BY <1>1, SubSeqFacts
<1>3. DiskTypes'
  BY <1>1, <1>2 DEF Crash, DiskTypes
<1>4. HistoryTypes'
  BY DEF Crash, ForgetRun, HistoryTypes, Control, DiskTypes, RunTypes
<1> QED BY <1>3, <1>4

LEMMA SyncAppendTypes == TypeInv /\ SyncAppend => TypeInv'
<1> SUFFICES ASSUME TypeInv, SyncAppend PROVE TypeInv'
  OBVIOUS
<1> USE DEF SyncAppend
<1>1. DiskTypes' /\ pending' \in Nat
  BY SyncTypes
<1>2. ControlTypes' /\ HistoryTypes'
  BY DEF TypeInv, TypeOK, ControlTypes, HistoryTypes
<1>3. RunTypes'
  BY <1>1 DEF TypeInv, TypeOK, RunTypes
<1>4. Control'
  BY DEF TypeInv, Control
<1> QED BY <1>1, <1>2, <1>3, <1>4 DEF TypeInv, TypeOK

LEMMA ObserveTypes == TypeInv /\ ObservePort => TypeInv'
<1> SUFFICES ASSUME TypeInv, ObservePort PROVE TypeInv'
  OBVIOUS
<1> USE DEF ObservePort, Completed, At
<1>1. DiskTypes' /\ pending' \in Nat /\ syncDue' \in BOOLEAN
  BY EmitTypes
<1>2. ControlTypes' /\ HistoryTypes'
  BY <1>1 DEF TypeInv, TypeOK, ControlTypes, HistoryTypes, Locations
<1>3. RunTypes'
  BY <1>1 DEF TypeInv, TypeOK, RunTypes, Control, HoldsUnit
<1>4. Control'
  BY DEF TypeInv, Control, HoldsUnit, Ending
<1> QED BY <1>1, <1>2, <1>3, <1>4 DEF TypeInv, TypeOK

LEMMA TypeStep == TypeInv /\ [Next]_vars => TypeInv'
<1> SUFFICES ASSUME TypeInv, [Next]_vars PROVE TypeInv'
  OBVIOUS
<1>a. /\ UNCHANGED disk => DiskTypes'
      /\ row.packets \in Nat /\ done \subseteq Units
  BY DEF TypeInv, TypeOK, DiskTypes
<1> USE <1>a DEF TypeInv, TypeOK, ControlTypes, RunTypes, HistoryTypes,
            Control, At, Locations, HoldsUnit, Ending, Reasons
<1>1. ASSUME NEW s \in Scopes, NEW a \in AllowSets, NEW m \in Modes, Begin(s, a, m)
      PROVE  TypeInv'
  BY <1>1, BeginTypes
<1>2. CASE RefuseScope
  BY <1>2 DEF RefuseScope
<1>3. CASE DiscoverStop
  BY <1>3 DEF DiscoverStop, StopDiscovery
<1>4. CASE DiscoverAnswer
  BY <1>4 DEF DiscoverAnswer, Hosts
<1>5. CASE PutHost
  <2>1. DiskTypes'
    BY <1>5 DEF DiskTypes, PutHost
  <2> QED BY <1>5, <2>1 DEF PutHost
<1>6. CASE DiscoveryDone
  BY <1>6 DEF DiscoveryDone
<1>7. CASE LoadDone
  BY <1>7 DEF LoadDone
<1>8. CASE DriveStop
  <2>1. PICK reason \in Reasons \ {"none"} : BreakDrive(reason) /\ pc = "drive"
    BY <1>8 DEF DriveStop
  <2> QED BY <2>1 DEF BreakDrive
<1>9. CASE DriveSkip
  BY <1>9 DEF DriveSkip, Units
<1>10. CASE DriveUnit
  BY <1>10 DEF DriveUnit
<1>11. CASE AcquireCancelled
  BY <1>11 DEF AcquireCancelled, BreakDrive
<1>12. CASE Acquire
  BY <1>12 DEF Acquire
<1>13. CASE BudgetExhausted
  BY <1>13 DEF BudgetExhausted, BreakDrive
<1>14. CASE Dispatch
  <2>1. \A u \in inFlight : u \in Nat /\ u # cursor /\ u < cursor + 1
    BY DEF Units
  <2>2. CASE run.mode = "syn"
    BY <1>14, <2>1, <2>2 DEF Dispatch, CanSpend, Probe
  <2>3. CASE run.mode # "syn"
    <3>1. /\ inFlight' \subseteq Units
          /\ unpolled' \subseteq inFlight' /\ released' \subseteq inFlight' \ unpolled'
          /\ \A u \in inFlight' : u < cursor'
      BY <1>14, <2>1, <2>3 DEF Dispatch
    <3> QED BY <1>14, <2>3, <3>1 DEF Dispatch, CanSpend
  <2> QED BY <2>2, <2>3
<1>15. CASE SynAnswer
  BY <1>15 DEF SynAnswer
<1>16. CASE SynFails
  BY <1>16 DEF SynFails
<1>17. CASE Joined
  BY <1>17 DEF Joined
<1>18. CASE Drained
  BY <1>18 DEF Drained
<1>19. CASE DetectNothing
  BY <1>19 DEF DetectNothing, Completed
<1>20. CASE DetectAcquire
  BY <1>20 DEF DetectAcquire
<1>21. CASE DetectBudget
  BY <1>21 DEF DetectBudget, Completed
<1>22. CASE DetectProbe
  BY <1>22 DEF DetectProbe, CanSpend, Completed
<1>23. CASE PutEvidence
  <2>1. DiskTypes'
    BY <1>23 DEF DiskTypes, PutEvidence
  <2> QED BY <1>23, <2>1 DEF PutEvidence
<1>24. CASE MarkUnitsDone
  <2>1. DiskTypes'
    BY <1>24 DEF DiskTypes, MarkUnitsDone
  <2> QED BY <1>24, <2>1 DEF MarkUnitsDone
<1>25. CASE Cancel
  BY <1>25 DEF Cancel
<1>26. ASSUME NEW u \in Units, ConnectTask(u)
      PROVE  TypeInv'
  <2>1. CASE Connects(u)
    BY <2>1 DEF Connects, Probe, Units
  <2>2. CASE ConnectFinishes(u)
    BY <2>2 DEF ConnectFinishes, Units
  <2>3. CASE TaskEnds(u)
    <3>1. /\ inFlight' \subseteq Units /\ finished' \subseteq Units
          /\ unpolled' \subseteq inFlight'
          /\ released' \subseteq inFlight' \ unpolled'
      BY <2>3 DEF TaskEnds
    <3>2. \A v \in inFlight' : v < cursor'
      BY <2>3 DEF TaskEnds
    <3> QED BY <2>3, <3>1, <3>2 DEF TaskEnds
  <2> QED BY <1>26, <2>1, <2>2, <2>3 DEF ConnectTask
<1>27. ASSUME NEW u \in Units, Join(u)
      PROVE  TypeInv'
  BY <1>27 DEF Join, Units
<1>28. CASE DiscoverReserve
  <2>1. spent' \in 0..MaxPackets /\ row.packets <= spent'
    BY <1>28 DEF DiscoverReserve
  <2> QED BY <1>28, <2>1 DEF DiscoverReserve
<1>29. CASE SyncAppend
  BY <1>29, SyncAppendTypes
<1>30. CASE FlushSync
  <2>1. DiskTypes' /\ pending' \in Nat
    BY <1>30, SyncTypes DEF FlushSync
  <2> QED BY <1>30, <2>1 DEF FlushSync
<1>31. CASE FinalSync
  <2>1. DiskTypes' /\ pending' \in Nat
    BY <1>31, SyncTypes DEF FinalSync
  <2> QED BY <1>31, <2>1 DEF FinalSync
<1>32. CASE FlushCursor
  <2>1. DiskTypes' /\ row'.packets = spent
    BY <1>32, CursorTypes DEF FlushCursor
  <2> QED BY <1>32, <2>1 DEF FlushCursor
<1>33. CASE FinalCursor
  <2>1. DiskTypes' /\ row'.packets = spent
    BY <1>33, CursorTypes DEF FinalCursor
  <2> QED BY <1>33, <2>1 DEF FinalCursor
<1>34. CASE EmitStarted
  <2>1. DiskTypes' /\ pending' \in Nat /\ syncDue' \in BOOLEAN
    BY <1>34, EmitTypes
  <2> QED BY <1>34, <2>1 DEF EmitStarted
<1>35. CASE EmitHost
  <2>1. DiskTypes' /\ pending' \in Nat /\ syncDue' \in BOOLEAN
    BY <1>35, EmitTypes
  <2> QED BY <1>35, <2>1 DEF EmitHost
<1>36. CASE ObservePort
  BY <1>36, ObserveTypes
<1>37. CASE CiteEvidence
  <2>1. DiskTypes' /\ pending' \in Nat /\ syncDue' \in BOOLEAN
    BY <1>37, EmitTypes
  <2> QED BY <1>37, <2>1 DEF CiteEvidence, Completed
<1>38. CASE EmitProgress
  <2>1. DiskTypes' /\ pending' \in Nat /\ syncDue' \in BOOLEAN
    BY <1>38, EmitTypes
  <2> QED BY <1>38, <2>1 DEF EmitProgress
<1>39. CASE EmitTerminal
  <2>1. DiskTypes' /\ pending' \in Nat /\ syncDue' \in BOOLEAN
    BY <1>39, EmitTypes
  <2> QED BY <1>39, <2>1 DEF EmitTerminal
<1>40. CASE ReturnTerminated
  <2>1. DiskTypes' /\ HistoryTypes'
    BY <1>40 DEF ReturnTerminated, ForgetRun
  <2> QED BY <1>40, <2>1, ForgottenTypes DEF ReturnTerminated
<1>41. CASE Publish
  BY <1>41, PublishTypes, ForgottenTypes DEF Publish
<1>42. CASE Crash
  BY <1>42, CrashTypes, ForgottenTypes DEF Crash
<1>43. CASE UNCHANGED vars
  BY <1>43
<1> QED
  BY <1>1, <1>2, <1>3, <1>4, <1>5, <1>6, <1>7, <1>8, <1>9, <1>10, <1>11,
     <1>12, <1>13, <1>14, <1>15, <1>16, <1>17, <1>18, <1>19, <1>20, <1>21,
     <1>22, <1>23, <1>24, <1>25, <1>26, <1>27, <1>28, <1>29, <1>30, <1>31,
     <1>32, <1>33, <1>34, <1>35, <1>36, <1>37, <1>38, <1>39, <1>40, <1>41,
     <1>42, <1>43
     DEF Next, RunStep, Opening, Discovery, Driving, Recording, Flushing, Closing

\* Type correctness: in every reachable state each variable holds a value of
\* the kind Scheduler::run and the store's types allow, and control stands only
\* where the run has in hand what that place needs.
LEMMA TypeInvariant == Spec => []TypeInv
<1>1. Init => TypeInv
  BY TypeInit
<1>2. TypeInv /\ [Next]_vars => TypeInv'
  BY TypeStep
<1> QED BY <1>1, <1>2, PTL DEF Spec

THEOREM TypeCorrect == Spec => []TypeOK
<1>1. TypeInv => TypeOK
  BY DEF TypeInv
<1> QED BY <1>1, TypeInvariant, PTL

------------------------------------------------------------------------------
(* Never skips.                                                             *)

Logged(u, n) == \E i \in 1..n : log[i] = Event("port", u)

\* Why a completed unit's observation is durable: a unit enters the batch only
\* after its event was appended, and the batch is marked only while nothing of
\* the log is unsynced.
Durable ==
    /\ \A u \in done : Logged(u, synced)
    /\ \A u \in batch : Logged(u, Len(log))
    /\ pc \in {"detect", "detectspend", "put", "cite"} => Logged(cur, Len(log))
    /\ pc = "mark" => synced = Len(log)

LEMMA AppendLogged ==
    ASSUME TypeOK, NEW e, append(e)
    PROVE  /\ \A n \in 0..Len(log), u \in Units : Logged(u, n) => Logged(u, n)'
           /\ \A u \in Units : Logged(u, Len(log)) => Logged(u, Len(log))'
           /\ \A u \in Units : e = Event("port", u) => Logged(u, Len(log))'
<1>1. /\ log \in Seq([kind : EventKinds, of : Nat])
      /\ log' = Append(log, e)
  BY DEF append, TypeOK, DiskTypes
<1>2. /\ Len(log') = Len(log) + 1
      /\ \A i \in 1..Len(log) : log'[i] = log[i]
      /\ log'[Len(log) + 1] = e
  BY <1>1
<1>3. Len(log) \in Nat
  BY <1>1
<1> QED BY <1>2, <1>3 DEF Logged

\* What an append or a truncation to a durable prefix does to Durable.
LEMMA DurableAppend ==
    ASSUME TypeInv, Durable, NEW e, append(e), UNCHANGED <<synced, done>>,
           batch' \subseteq batch,
           pc' \notin {"detect", "detectspend", "put", "cite", "mark"}
    PROVE  Durable'
<1>1. synced \in 0..Len(log) /\ done \subseteq Units /\ batch \subseteq Units
  BY DEF TypeInv, TypeOK, DiskTypes, RunTypes
<1> QED BY <1>1, AppendLogged DEF TypeInv, Durable

LEMMA DurableStep == TypeInv /\ Durable /\ [Next]_vars => Durable'
<1> SUFFICES ASSUME TypeInv, Durable, [Next]_vars PROVE Durable'
  OBVIOUS
<1>a. synced \in 0..Len(log) /\ Len(log) \in Nat /\ done \subseteq Units
      /\ batch \subseteq Units
  BY DEF TypeInv, TypeOK, DiskTypes, RunTypes
<1>1. ASSUME NEW s \in Scopes, NEW a \in AllowSets, NEW m \in Modes, Begin(s, a, m)
      PROVE  Durable'
  BY <1>1 DEF Begin, Durable, Logged
<1>2. CASE Opening
  <2>1. CASE EmitStarted
    BY <1>a, <2>1, DurableAppend DEF EmitStarted, Durable, Logged
  <2>2. CASE ReturnTerminated
    BY <2>2 DEF ReturnTerminated, ForgetRun, Durable, Logged
  <2>3. CASE RefuseScope
    BY <2>3 DEF RefuseScope, Durable, Logged
  <2> QED BY <1>2, <2>1, <2>2, <2>3 DEF Opening
<1>3. CASE SyncAppend
  BY <1>a, <1>3 DEF SyncAppend, sync_now, Durable, Logged
<1>4. CASE Discovery
  <2>1. CASE EmitHost
    BY <2>1, DurableAppend DEF EmitHost
  <2>2. CASE ~EmitHost
    BY <1>4, <2>2 DEF Discovery, DiscoverStop, StopDiscovery, DiscoverReserve,
       DiscoverAnswer, PutHost, DiscoveryDone, Durable, Logged
  <2> QED BY <2>1, <2>2
<1>5. CASE Driving
  BY <1>5 DEF Driving, LoadDone, DriveStop, BreakDrive, DriveSkip, DriveUnit,
     AcquireCancelled, Acquire, BudgetExhausted, Dispatch, SynAnswer, SynFails,
     Join, Joined, Drained, Durable, Logged
<1>6. CASE Recording
  <2>1. CASE ObservePort
    <3>1. \A u \in Units : Logged(u, Len(log)) => Logged(u, Len(log))'
      BY <2>1, AppendLogged DEF ObservePort, TypeInv
    <3>2. cur \in Units
      BY <2>1 DEF ObservePort, At, TypeInv, Control, HoldsUnit
    <3>3. \A u \in Units : u = cur => Logged(u, Len(log))'
      BY <2>1, <3>2, AppendLogged DEF ObservePort, TypeInv
    <3>4. \A u \in done : Logged(u, synced)'
      BY <1>a, <2>1, AppendLogged DEF ObservePort, TypeInv, Durable
    <3> QED BY <1>a, <2>1, <3>1, <3>2, <3>3, <3>4
            DEF ObservePort, Completed, Durable
  <2>2. CASE CiteEvidence
    <3>1. \A u \in Units : Logged(u, Len(log)) => Logged(u, Len(log))'
      BY <2>2, AppendLogged DEF CiteEvidence, TypeInv
    <3>2. cur \in Units /\ Logged(cur, Len(log))
      BY <2>2 DEF CiteEvidence, At, TypeInv, Control, HoldsUnit, Durable
    <3>3. \A u \in done : Logged(u, synced)'
      BY <1>a, <2>2, AppendLogged DEF CiteEvidence, TypeInv, Durable
    <3> QED BY <1>a, <2>2, <3>1, <3>2, <3>3 DEF CiteEvidence, Completed, Durable
  <2>3. CASE DetectNothing \/ DetectBudget
    BY <2>3 DEF DetectNothing, DetectBudget, Completed, At, Durable, Logged
  <2>4. CASE DetectAcquire \/ PutEvidence
    BY <2>4 DEF DetectAcquire, PutEvidence, At, Durable, Logged
  <2>5. CASE DetectProbe
    BY <2>5 DEF DetectProbe, Completed, At, Durable, Logged
  <2> QED BY <1>6, <2>1, <2>2, <2>3, <2>4, <2>5 DEF Recording
<1>7. CASE Flushing
  <2>1. CASE FlushSync
    BY <1>a, <2>1 DEF FlushSync, sync_now, Durable, Logged
  <2>2. CASE MarkUnitsDone
    BY <2>2 DEF MarkUnitsDone, At, Durable, Logged
  <2>3. CASE EmitProgress
    BY <2>3, DurableAppend DEF EmitProgress, Durable, Logged
  <2>4. CASE FlushCursor
    BY <2>4 DEF FlushCursor, Durable, Logged
  <2> QED BY <1>7, <2>1, <2>2, <2>3, <2>4 DEF Flushing
<1>8. CASE Closing
  <2>1. CASE EmitTerminal
    BY <2>1, DurableAppend DEF EmitTerminal, Durable, Logged
  <2>2. CASE FinalSync
    BY <1>a, <2>2 DEF FinalSync, sync_now, Durable, Logged
  <2>3. CASE FinalCursor
    BY <2>3 DEF FinalCursor, Durable, Logged
  <2>4. CASE Publish
    BY <2>4 DEF Publish, ForgetRun, Durable, Logged
  <2> QED BY <1>8, <2>1, <2>2, <2>3, <2>4 DEF Closing
<1>9. ASSUME NEW u \in Units, ConnectTask(u)
      PROVE  Durable'
  BY <1>9 DEF ConnectTask, Connects, ConnectFinishes, TaskEnds, Durable, Logged
<1>10. CASE Cancel
  BY <1>10 DEF Cancel, Durable, Logged
<1>11. CASE Crash
  <2>1. PICK k \in synced..Len(log) : log' = SubSeq(log, 1, k)
    BY <1>11 DEF Crash
  <2>2. \A i \in 1..synced : log'[i] = log[i]
    BY <1>a, <2>1, SubSeqFacts DEF TypeInv
  <2> QED BY <1>11, <2>2 DEF Crash, ForgetRun, Durable, Logged
<1>12. CASE UNCHANGED vars
  BY <1>12 DEF Durable, Logged
<1> QED
  BY <1>1, <1>2, <1>3, <1>4, <1>5, <1>6, <1>7, <1>8, <1>9, <1>10, <1>11, <1>12
     DEF Next, RunStep

\* No unit the store calls completed is ever without its durable port.state
\* event: flush_progress syncs the log before it marks, and neither a crash nor
\* a later run takes a durable event away.
THEOREM NeverSkips == Spec => []DoneIsDurable
<1>1. Init => Durable
  BY DEF Init, Durable, Logged
<1>2. TypeInv /\ Durable /\ [Next]_vars => Durable'
  BY DurableStep
<1>3. Durable => DoneIsDurable
  BY DEF Durable, DoneIsDurable, Logged
<1> QED BY <1>1, <1>2, <1>3, TypeInvariant, PTL DEF Spec
------------------------------------------------------------------------------
(* The shape of the log.                                                    *)

NoTerminal == \A i \in 1..Len(log) : ~is_terminal(log[i])

\* A run past its entry has found the log open, and keeps it so until it ends;
\* it has a log that was started, unless it is about to refuse the scan.
WellFormed ==
    /\ TerminalIsLast
    /\ StartedOnceAndFirst
    /\ pc \notin {"idle", "entry", "finalsync", "finalcursor", "publish"} => NoTerminal
    /\ pc \notin {"idle", "entry"} \cup Ending => log # <<>>
    /\ pc = "terminal" /\ stop # "denied" => log # <<>>

\* An append to an open log adds its event at the end.
LEMMA ShapeAppend ==
    ASSUME TypeInv, WellFormed, NEW kind \in EventKinds, NEW of \in Nat,
           append(Event(kind, of)), NoTerminal,
           IF log = <<>> THEN kind \in {"started", "denied"} ELSE kind # "started"
    PROVE  /\ TerminalIsLast' /\ StartedOnceAndFirst'
           /\ (log # <<>>)'
           /\ kind \notin TerminalKinds => NoTerminal'
<1>1. /\ log \in Seq([kind : EventKinds, of : Nat])
      /\ log' = Append(log, Event(kind, of))
  BY DEF append, TypeInv, TypeOK, DiskTypes
<1>2. /\ Len(log) \in Nat /\ Len(log') = Len(log) + 1
      /\ \A i \in 1..Len(log) : log'[i] = log[i]
      /\ log'[Len(log) + 1].kind = kind
      /\ log' # <<>>
  BY <1>1 DEF Event
<1>3. log = <<>> <=> Len(log) = 0
  BY <1>1
<1>4. TerminalIsLast'
  BY <1>2 DEF TerminalIsLast, NoTerminal
<1>5. StartedOnceAndFirst'
  BY <1>2, <1>3 DEF StartedOnceAndFirst, WellFormed
<1>6. kind \notin TerminalKinds => NoTerminal'
  BY <1>2 DEF NoTerminal, is_terminal
<1> QED BY <1>2, <1>4, <1>5, <1>6

LEMMA WellFormedStep == TypeInv /\ WellFormed /\ [Next]_vars => WellFormed'
<1> SUFFICES ASSUME TypeInv, WellFormed, [Next]_vars PROVE WellFormed'
  OBVIOUS
<1>a. ASSUME UNCHANGED log
      PROVE  /\ TerminalIsLast' /\ StartedOnceAndFirst'
             /\ NoTerminal' <=> NoTerminal
  BY <1>a DEF WellFormed, TerminalIsLast, StartedOnceAndFirst, NoTerminal
<1>b. {"started", "host", "port", "service", "progress"} \subseteq EventKinds \ TerminalKinds
  BY DEF EventKinds, TerminalKinds
<1>c. cur \in Nat /\ host \in Nat /\ pc \in Locations
  BY DEF TypeInv, TypeOK, RunTypes, ControlTypes, Units
<1>1. ASSUME NEW s \in Scopes, NEW a \in AllowSets, NEW m \in Modes, Begin(s, a, m)
      PROVE  WellFormed'
  BY <1>1, <1>a DEF Begin, WellFormed, Ending
<1>2. CASE Opening
  <2>1. ~already_terminated => NoTerminal
    BY DEF already_terminated, WellFormed, TerminalIsLast, NoTerminal
  <2>2. CASE EmitStarted /\ log = <<>>
    <3>1. TerminalIsLast' /\ StartedOnceAndFirst' /\ (log # <<>>)' /\ NoTerminal'
      BY <1>b, <2>1, <2>2, ShapeAppend DEF EmitStarted
    <3> QED BY <2>2, <3>1 DEF EmitStarted, WellFormed, Ending
  <2>3. CASE EmitStarted /\ log # <<>>
    BY <1>a, <2>1, <2>3 DEF EmitStarted, WellFormed, Ending
  <2>4. CASE ReturnTerminated
    BY <1>a, <2>4 DEF ReturnTerminated, ForgetRun, WellFormed, Ending
  <2>5. CASE RefuseScope
    BY <1>a, <2>1, <2>5 DEF RefuseScope, WellFormed, Ending
  <2> QED BY <1>2, <2>2, <2>3, <2>4, <2>5 DEF Opening
<1>3. CASE SyncAppend
  BY <1>3, <1>a DEF SyncAppend, WellFormed
<1>4. CASE Discovery
  <2>1. CASE EmitHost
    <3>1. log # <<>> /\ NoTerminal
      BY <2>1 DEF EmitHost, At, WellFormed, Ending
    <3>2. TerminalIsLast' /\ StartedOnceAndFirst' /\ (log # <<>>)' /\ NoTerminal'
      BY <1>b, <1>c, <2>1, <3>1, ShapeAppend DEF EmitHost
    <3> QED BY <2>1, <3>2 DEF EmitHost, WellFormed, Ending
  <2>2. CASE ~EmitHost
    BY <1>a, <1>4, <2>2 DEF Discovery, DiscoverStop, StopDiscovery,
       DiscoverReserve, DiscoverAnswer, PutHost, DiscoveryDone, At, WellFormed,
       Ending
  <2> QED BY <2>1, <2>2
<1>5. CASE Driving
  BY <1>a, <1>5 DEF Driving, LoadDone, DriveStop, BreakDrive, DriveSkip,
     DriveUnit, AcquireCancelled, Acquire, BudgetExhausted, Dispatch, SynAnswer,
     SynFails, Join, Joined, Drained, At, WellFormed, Ending
<1>6. CASE Recording
  <2>1. CASE ObservePort \/ CiteEvidence
    <3>1. log # <<>> /\ NoTerminal
      BY <2>1 DEF ObservePort, CiteEvidence, At, WellFormed, Ending
    <3>2. TerminalIsLast' /\ StartedOnceAndFirst' /\ (log # <<>>)' /\ NoTerminal'
      BY <1>b, <1>c, <2>1, <3>1, ShapeAppend DEF ObservePort, CiteEvidence
    <3> QED BY <2>1, <3>2 DEF ObservePort, CiteEvidence, Completed, WellFormed,
            Ending
  <2>2. CASE ~(ObservePort \/ CiteEvidence)
    BY <1>a, <1>6, <2>2 DEF Recording, DetectNothing, DetectAcquire,
       DetectBudget, DetectProbe, PutEvidence, Completed, At, WellFormed, Ending
  <2> QED BY <2>1, <2>2
<1>7. CASE Flushing
  <2>1. CASE EmitProgress
    <3>1. log # <<>> /\ NoTerminal
      BY <2>1 DEF EmitProgress, At, WellFormed, Ending
    <3>2. TerminalIsLast' /\ StartedOnceAndFirst' /\ (log # <<>>)' /\ NoTerminal'
      BY <1>a, <1>b, <2>1, <3>1, ShapeAppend DEF EmitProgress
    <3> QED BY <2>1, <3>2 DEF EmitProgress, WellFormed, Ending
  <2>2. CASE ~EmitProgress
    BY <1>a, <1>7, <2>2 DEF Flushing, FlushSync, MarkUnitsDone, FlushCursor,
       At, WellFormed, Ending
  <2> QED BY <2>1, <2>2
<1>8. CASE Closing
  <2>1. CASE EmitTerminal
    <3>1. CASE stop = "cancelled"
      BY <1>a, <2>1, <3>1 DEF EmitTerminal, WellFormed, Ending
    <3>2. CASE stop # "cancelled"
      <4>1. /\ TerminalKind(stop) \in EventKinds
            /\ TerminalKind(stop) # "started"
            /\ stop = "denied" => TerminalKind(stop) = "denied"
        BY <2>1, <3>2 DEF EmitTerminal, At, TypeInv, TypeOK, Control, Ending,
           ControlTypes, Reasons, TerminalKind, EventKinds, TerminalKinds
      <4>2. NoTerminal /\ (log = <<>> => stop = "denied")
        BY <2>1 DEF EmitTerminal, At, WellFormed
      <4>3. TerminalIsLast' /\ StartedOnceAndFirst'
        BY <2>1, <3>2, <4>1, <4>2, ShapeAppend DEF EmitTerminal
      <4> QED BY <2>1, <4>3 DEF EmitTerminal, WellFormed, Ending
    <3> QED BY <3>1, <3>2
  <2>2. CASE FinalSync \/ FinalCursor
    BY <1>a, <2>2 DEF FinalSync, FinalCursor, WellFormed, Ending
  <2>3. CASE Publish
    BY <1>a, <2>3 DEF Publish, ForgetRun, WellFormed, Ending
  <2> QED BY <1>8, <2>1, <2>2, <2>3 DEF Closing
<1>9. ASSUME NEW u \in Units, ConnectTask(u)
      PROVE  WellFormed'
  BY <1>9, <1>a DEF ConnectTask, Connects, ConnectFinishes, TaskEnds, WellFormed
<1>10. CASE Cancel
  BY <1>10, <1>a DEF Cancel, WellFormed
<1>11. CASE Crash
  <2>1. PICK k \in synced..Len(log) : log' = SubSeq(log, 1, k)
    BY <1>11 DEF Crash
  <2>2. k \in 0..Len(log) /\ Len(log') = k /\ \A i \in 1..k : log'[i] = log[i]
    BY <2>1, SubSeqFacts DEF TypeInv
  <2>3. Len(log) \in Nat
    BY DEF TypeInv, TypeOK, DiskTypes
  <2>4. TerminalIsLast'
    BY <2>2, <2>3 DEF WellFormed, TerminalIsLast
  <2>5. StartedOnceAndFirst'
    BY <2>2, <2>3 DEF WellFormed, StartedOnceAndFirst
  <2> QED BY <1>11, <2>4, <2>5 DEF Crash, ForgetRun, WellFormed, Ending
<1>12. CASE UNCHANGED vars
  BY <1>12, <1>a DEF WellFormed
<1> QED
  BY <1>1, <1>2, <1>3, <1>4, <1>5, <1>6, <1>7, <1>8, <1>9, <1>10, <1>11, <1>12
     DEF Next, RunStep

LEMMA WellFormedInvariant == Spec => []WellFormed
<1>1. Init => WellFormed
  BY DEF Init, WellFormed, TerminalIsLast, StartedOnceAndFirst, Ending
<1>2. TypeInv /\ WellFormed /\ [Next]_vars => WellFormed'
  BY WellFormedStep
<1> QED BY <1>1, <1>2, TypeInvariant, PTL DEF Spec

\* Over all the runs of a scan nothing is ever written after a terminal event:
\* already_terminated finds it first, however the run before came to its end.
THEOREM TerminalEndsLog == Spec => []TerminalIsLast
<1>1. WellFormed => TerminalIsLast
  BY DEF WellFormed
<1> QED BY <1>1, WellFormedInvariant, PTL

\* However often a scan is resumed its log has one scan.started, at the front.
THEOREM StartedOnce == Spec => []StartedOnceAndFirst
<1>1. WellFormed => StartedOnceAndFirst
  BY DEF WellFormed
<1> QED BY <1>1, WellFormedInvariant, PTL
------------------------------------------------------------------------------
(* The log as its readers see it.                                           *)

\* Every step of a scan is, on its log, one append, one sync, the loss of an
\* unsynced suffix, or nothing.
LEMMA LogStep ==
    TypeInv /\ [Next]_vars => [AbstractLog!Next]_<<log, synced>>
<1> SUFFICES ASSUME TypeInv, [Next]_vars
             PROVE  [AbstractLog!Next]_<<log, synced>>
  OBVIOUS
<1> USE DEF AbstractLog!Next
<1>a. ASSUME NEW kind \in EventKinds, NEW of \in Nat,
             append(Event(kind, of)), UNCHANGED synced
      PROVE  AbstractLog!Next
  <2>1. /\ log \in Seq([kind : EventKinds, of : Nat])
        /\ Event(kind, of) \in [kind : EventKinds, of : Nat]
        /\ log' = Append(log, Event(kind, of))
    BY <1>a DEF append, Event, TypeInv, TypeOK, DiskTypes
  <2>2. /\ Len(log') = Len(log) + 1
        /\ log'[Len(log')] = Event(kind, of)
    BY <2>1
  <2> QED BY <1>a, <2>1, <2>2 DEF AbstractLog!Extend, AbstractLog!Grow
<1>b. ASSUME sync_now, UNCHANGED log PROVE AbstractLog!Next
  BY <1>b DEF sync_now, AbstractLog!Harden
<1>c. {"started", "host", "port", "service", "progress"} \subseteq EventKinds
  BY DEF EventKinds
<1>d. cur \in Nat /\ host \in Nat
  BY DEF TypeInv, TypeOK, RunTypes, Units
<1>1. ASSUME NEW s \in Scopes, NEW a \in AllowSets, NEW m \in Modes, Begin(s, a, m)
      PROVE  UNCHANGED <<log, synced>>
  BY <1>1 DEF Begin
<1>2. CASE Opening
  <2>1. EmitStarted /\ log = <<>> => AbstractLog!Next
    BY <1>a, <1>c DEF EmitStarted
  <2>2. ~(EmitStarted /\ log = <<>>) => UNCHANGED <<log, synced>>
    BY <1>2 DEF Opening, EmitStarted, ReturnTerminated, RefuseScope
  <2> QED BY <2>1, <2>2
<1>3. CASE SyncAppend
  BY <1>3, <1>b DEF SyncAppend
<1>4. CASE Discovery
  BY <1>4, <1>a, <1>c, <1>d DEF Discovery, DiscoverStop, StopDiscovery,
     DiscoverReserve, DiscoverAnswer, PutHost, EmitHost, DiscoveryDone
<1>5. CASE Driving
  BY <1>5 DEF Driving, LoadDone, DriveStop, BreakDrive, DriveSkip, DriveUnit,
     AcquireCancelled, Acquire, BudgetExhausted, Dispatch, SynAnswer, SynFails,
     Join, Joined, Drained
<1>6. CASE Recording
  BY <1>6, <1>a, <1>c, <1>d DEF Recording, ObservePort, DetectNothing,
     DetectAcquire, DetectBudget, DetectProbe, PutEvidence, CiteEvidence
<1>7. CASE Flushing
  BY <1>7, <1>a, <1>b, <1>c DEF Flushing, FlushSync, MarkUnitsDone, EmitProgress,
     FlushCursor
<1>8. CASE Closing
  <2>1. CASE EmitTerminal
    <3>1. stop # "cancelled" => TerminalKind(stop) \in EventKinds
      BY <2>1, EndingTypes DEF EmitTerminal, At, Ending
    <3> QED BY <2>1, <3>1, <1>a DEF EmitTerminal
  <2>2. CASE FinalSync
    BY <2>2, <1>b DEF FinalSync
  <2>3. CASE FinalCursor \/ Publish
    BY <2>3 DEF FinalCursor, Publish
  <2> QED BY <1>8, <2>1, <2>2, <2>3 DEF Closing
<1>9. ASSUME NEW u \in Units, ConnectTask(u)
      PROVE  UNCHANGED <<log, synced>>
  BY <1>9 DEF ConnectTask, Connects, ConnectFinishes, TaskEnds
<1>10. CASE Cancel
  BY <1>10 DEF Cancel
<1>11. CASE Crash
  BY <1>11 DEF Crash, AbstractLog!Lose
<1>12. CASE UNCHANGED vars
  BY <1>12
<1> QED
  BY <1>1, <1>2, <1>3, <1>4, <1>5, <1>6, <1>7, <1>8, <1>9, <1>10, <1>11, <1>12
     DEF Next, RunStep

\* One scan's log, over all its runs and crashes, implements the abstract
\* append-only log that followers of scan.events rely on.
THEOREM LogImplementsAppendLog == Spec => LogAppendOnly
<1>1. Init => AbstractLog!Init
  BY DEF Init, AbstractLog!Init
<1>2. TypeInv /\ [Next]_vars => [AbstractLog!Next]_<<log, synced>>
  BY LogStep
<1> QED BY <1>1, <1>2, TypeInvariant, PTL DEF Spec, LogAppendOnly, AbstractLog!Spec

------------------------------------------------------------------------------
(* No dangling evidence.                                                    *)

\* Evidence is put before it is cited, and stays.
Backed ==
    /\ CitedEvidenceStored
    /\ pc = "hostlog" => <<"host", host>> \in blobs
    /\ pc = "cite" => <<"unit", cur>> \in blobs

LEMMA BackedAppend ==
    ASSUME TypeOK, Backed, NEW kind, NEW of, append(Event(kind, of)),
           blobs \subseteq blobs',
           kind = "host" => <<"host", of>> \in blobs,
           kind = "service" => <<"unit", of>> \in blobs
    PROVE  CitedEvidenceStored'
<1>1. /\ log \in Seq([kind : EventKinds, of : Nat])
      /\ log' = Append(log, Event(kind, of))
  BY DEF append, TypeOK, DiskTypes
<1>2. /\ Len(log) \in Nat /\ Len(log') = Len(log) + 1
      /\ \A i \in 1..Len(log) : log'[i] = log[i]
      /\ log'[Len(log) + 1].kind = kind /\ log'[Len(log) + 1].of = of
  BY <1>1 DEF Event
<1> QED BY <1>2 DEF CitedEvidenceStored, Backed

LEMMA BackedStep == TypeInv /\ Backed /\ [Next]_vars => Backed'
<1> SUFFICES ASSUME TypeInv, Backed, [Next]_vars PROVE Backed'
  OBVIOUS
<1>a. ASSUME UNCHANGED log, blobs \subseteq blobs' PROVE CitedEvidenceStored'
  BY <1>a DEF Backed, CitedEvidenceStored
<1>b. ASSUME NEW kind \in EventKinds, NEW of, append(Event(kind, of)),
             UNCHANGED blobs, kind \notin {"host", "service"}
      PROVE  CitedEvidenceStored'
  BY <1>b, BackedAppend DEF TypeInv
<1>c. {"started", "port", "progress"} \subseteq EventKinds
  BY DEF EventKinds
<1>1. ASSUME NEW s \in Scopes, NEW a \in AllowSets, NEW m \in Modes, Begin(s, a, m)
      PROVE  Backed'
  BY <1>1, <1>a DEF Begin, Backed
<1>2. CASE Opening
  BY <1>2, <1>a, <1>b, <1>c DEF Opening, EmitStarted, ReturnTerminated, ForgetRun,
     RefuseScope, Backed
<1>3. CASE SyncAppend
  BY <1>3, <1>a DEF SyncAppend, Backed
<1>4. CASE Discovery
  <2>1. CASE EmitHost
    <3>1. CitedEvidenceStored'
      BY <2>1, BackedAppend DEF EmitHost, At, Backed, TypeInv
    <3> QED BY <2>1, <3>1 DEF EmitHost, Backed
  <2>2. CASE ~EmitHost
    BY <1>a, <1>4, <2>2 DEF Discovery, DiscoverStop, StopDiscovery,
       DiscoverReserve, DiscoverAnswer, PutHost, DiscoveryDone, Backed
  <2> QED BY <2>1, <2>2
<1>5. CASE Driving
  BY <1>5, <1>a DEF Driving, LoadDone, DriveStop, BreakDrive, DriveSkip, DriveUnit,
     AcquireCancelled, Acquire, BudgetExhausted, Dispatch, SynAnswer, SynFails,
     Join, Joined, Drained, Backed
<1>6. CASE Recording
  <2>1. CASE CiteEvidence
    <3>1. CitedEvidenceStored'
      BY <2>1, BackedAppend DEF CiteEvidence, At, Backed, TypeInv
    <3> QED BY <2>1, <3>1 DEF CiteEvidence, Completed, Backed
  <2>2. CASE ~CiteEvidence
    BY <1>a, <1>b, <1>c, <1>6, <2>2 DEF Recording, ObservePort, DetectNothing,
       DetectAcquire, DetectBudget, DetectProbe, PutEvidence, Completed, Backed
  <2> QED BY <2>1, <2>2
<1>7. CASE Flushing
  BY <1>7, <1>a, <1>b, <1>c DEF Flushing, FlushSync, MarkUnitsDone, EmitProgress,
     FlushCursor, Backed
<1>8. CASE Closing
  <2>1. CASE EmitTerminal
    <3>1. stop # "cancelled" => TerminalKind(stop) \in EventKinds \ {"host", "service"}
      BY <2>1 DEF EmitTerminal, At, TypeInv, TypeOK, ControlTypes, Control, Ending,
         Reasons, TerminalKind, EventKinds, TerminalKinds
    <3> QED BY <2>1, <3>1, <1>a, <1>b DEF EmitTerminal, Backed
  <2>2. CASE FinalSync \/ FinalCursor
    BY <2>2, <1>a DEF FinalSync, FinalCursor, Backed
  <2>3. CASE Publish
    BY <2>3, <1>a DEF Publish, ForgetRun, Backed
  <2> QED BY <1>8, <2>1, <2>2, <2>3 DEF Closing
<1>9. ASSUME NEW u \in Units, ConnectTask(u)
      PROVE  Backed'
  BY <1>9, <1>a DEF ConnectTask, Connects, ConnectFinishes, TaskEnds, Backed
<1>10. CASE Cancel
  BY <1>10, <1>a DEF Cancel, Backed
<1>11. CASE Crash
  <2>1. PICK k \in synced..Len(log) : log' = SubSeq(log, 1, k)
    BY <1>11 DEF Crash
  <2>2. k \in 0..Len(log) /\ Len(log') = k /\ \A i \in 1..k : log'[i] = log[i]
    BY <2>1, SubSeqFacts DEF TypeInv
  <2>3. Len(log) \in Nat
    BY DEF TypeInv, TypeOK, DiskTypes
  <2>4. CitedEvidenceStored'
    BY <1>11, <2>2, <2>3 DEF Crash, Backed, CitedEvidenceStored
  <2> QED BY <1>11, <2>4 DEF Crash, ForgetRun, Backed
<1>12. CASE UNCHANGED vars
  BY <1>12, <1>a DEF Backed
<1> QED
  BY <1>1, <1>2, <1>3, <1>4, <1>5, <1>6, <1>7, <1>8, <1>9, <1>10, <1>11, <1>12
     DEF Next, RunStep

\* No event in any scan's log cites evidence the store does not hold, whatever
\* crash cut the log short and whichever run wrote it.
THEOREM NoDanglingEvidence == Spec => []CitedEvidenceStored
<1>1. Init => Backed
  BY DEF Init, Backed, CitedEvidenceStored
<1>2. TypeInv /\ Backed /\ [Next]_vars => Backed'
  BY BackedStep
<1>3. Backed => CitedEvidenceStored
  BY DEF Backed
<1> QED BY <1>1, <1>2, <1>3, TypeInvariant, PTL DEF Spec
------------------------------------------------------------------------------
(* Completed means complete.                                                *)

\* Where a run stands before it has decided to stop.
BeforeStop == {"idle", "entry", "discover", "discovering", "hostput", "hostlog",
               "load", "drive", "acquire", "spend", "syn", "join"}

\* The flush in progress, if one is.
InFlush == {"flush", "mark", "progress", "cursor"}

\* What is left in memory at each stage of a run.
Tidy ==
    /\ already \subseteq done
    /\ pc \notin HoldsUnit => cur = 0
    /\ drained => pc \notin BeforeStop
    /\ stop # "none" => drained \/ pc \in Ending
    /\ stop = "exhausted" => cursor \notin Units /\ drained
    /\ drained /\ pc \in InFlush \cup Ending => inFlight = {} /\ finished = {}
    /\ pc \in {"progress", "cursor"} => batch \subseteq done
    /\ drained /\ pc \in Ending => batch = {}

\* Where a unit already taken from the plan may be.
Taken == done \cup batch \cup inFlight \cup finished \cup {cur}

\* No unit below the cursor is forgotten, unless packetd failed under it.
Placed ==
    pc # "idle" /\ stop # "packetd" => \A u \in Units : u < cursor => u \in Taken

LEMMA TidyStep == TypeInv /\ Tidy /\ [Next]_vars => Tidy'
<1> SUFFICES ASSUME TypeInv, Tidy, [Next]_vars PROVE Tidy'
  OBVIOUS
<1> USE DEF Tidy, InFlush, BeforeStop, HoldsUnit, Ending, At
<1>1. ASSUME NEW s \in Scopes, NEW a \in AllowSets, NEW m \in Modes, Begin(s, a, m)
      PROVE  Tidy'
  BY <1>1 DEF Begin
<1>2. CASE Opening
  BY <1>2 DEF Opening, EmitStarted, ReturnTerminated, ForgetRun, RefuseScope
<1>3. CASE SyncAppend
  BY <1>3 DEF SyncAppend
<1>4. CASE Discovery
  BY <1>4 DEF Discovery, DiscoverStop, StopDiscovery, DiscoverReserve,
     DiscoverAnswer, PutHost, EmitHost, DiscoveryDone
<1>5. CASE Driving
  <2>1. CASE LoadDone \/ DriveSkip \/ DriveUnit \/ Acquire \/ SynAnswer
    BY <2>1 DEF LoadDone, DriveSkip, DriveUnit, Acquire, SynAnswer
  <2>2. CASE DriveStop \/ AcquireCancelled \/ BudgetExhausted \/ SynFails
    BY <2>2 DEF DriveStop, AcquireCancelled, BudgetExhausted, BreakDrive, SynFails
  <2>3. CASE Dispatch
    BY <2>3 DEF Dispatch
  <2>4. CASE (\E u \in Units : Join(u)) \/ Joined \/ Drained
    BY <2>4 DEF Join, Joined, Drained
  <2> QED BY <1>5, <2>1, <2>2, <2>3, <2>4 DEF Driving
<1>6. CASE Recording
  BY <1>6 DEF Recording, ObservePort, DetectNothing, DetectAcquire, DetectBudget,
     DetectProbe, PutEvidence, CiteEvidence, Completed
<1>7. CASE Flushing
  BY <1>7 DEF Flushing, FlushSync, MarkUnitsDone, EmitProgress, FlushCursor
<1>8. CASE Closing
  BY <1>8 DEF Closing, EmitTerminal, FinalSync, FinalCursor, Publish, ForgetRun
<1>9. ASSUME NEW u \in Units, ConnectTask(u)
      PROVE  Tidy'
  <2>1. released \subseteq inFlight
    BY DEF TypeInv, TypeOK, RunTypes
  <2> QED BY <1>9, <2>1 DEF ConnectTask, Connects, ConnectFinishes, TaskEnds
<1>10. CASE Cancel
  BY <1>10 DEF Cancel
<1>11. CASE Crash
  BY <1>11 DEF Crash, ForgetRun
<1>12. CASE UNCHANGED vars
  BY <1>12
<1> QED
  BY <1>1, <1>2, <1>3, <1>4, <1>5, <1>6, <1>7, <1>8, <1>9, <1>10, <1>11, <1>12
     DEF Next, RunStep

LEMMA PlacedStep == TypeInv /\ Tidy /\ Placed /\ [Next]_vars => Placed'
<1> SUFFICES ASSUME TypeInv, Tidy, Placed, [Next]_vars PROVE Placed'
  OBVIOUS
<1>a. cursor \in Nat \ {0} /\ NumUnits \in Nat
  BY DEF TypeInv, TypeOK, RunTypes
<1>b. ASSUME Taken \subseteq Taken', cursor' = cursor, pc # "idle",
             stop' # "packetd" => stop # "packetd"
      PROVE  Placed'
  BY <1>b DEF Placed
<1>1. ASSUME NEW s \in Scopes, NEW a \in AllowSets, NEW m \in Modes, Begin(s, a, m)
      PROVE  Placed'
  BY <1>1, <1>a DEF Begin, next_pending_unit, Placed, Taken, Units
<1>2. CASE Opening
  <2>1. CASE ReturnTerminated
    BY <2>1 DEF ReturnTerminated, ForgetRun, Placed
  <2>2. CASE EmitStarted \/ RefuseScope
    <3>1. stop = "none" /\ pc # "idle"
      BY <2>2 DEF EmitStarted, RefuseScope, At, Tidy, BeforeStop, Ending
    <3>2. Taken' = Taken /\ cursor' = cursor
      BY <2>2 DEF EmitStarted, RefuseScope, Taken
    <3> QED BY <1>b, <3>1, <3>2
  <2> QED BY <1>2, <2>1, <2>2 DEF Opening
<1>3. CASE SyncAppend
  BY <1>3 DEF SyncAppend, Placed, Taken
<1>4. CASE Discovery
  <2>1. stop = "none" /\ pc # "idle"
    BY <1>4 DEF Discovery, DiscoverStop, DiscoverReserve, DiscoverAnswer, PutHost,
       EmitHost, DiscoveryDone, At, Tidy, BeforeStop, Ending
  <2>2. Taken' = Taken /\ cursor' = cursor
    BY <1>4 DEF Discovery, DiscoverStop, StopDiscovery, DiscoverReserve,
       DiscoverAnswer, PutHost, EmitHost, DiscoveryDone, Taken
  <2> QED BY <1>b, <2>1, <2>2
<1>5. CASE Driving
  <2>1. CASE LoadDone \/ DriveUnit \/ Acquire \/ SynAnswer \/ Joined \/ Drained
    BY <1>b, <2>1 DEF LoadDone, DriveUnit, Acquire, SynAnswer, Joined, Drained, At, Taken
  <2>2. CASE DriveSkip
    BY <1>a, <2>2 DEF DriveSkip, At, Placed, Taken, Tidy, Units
  <2>3. CASE DriveStop \/ AcquireCancelled \/ BudgetExhausted
    <3>1. stop = "none" /\ pc # "idle"
      BY <2>3 DEF DriveStop, AcquireCancelled, BudgetExhausted, At, Tidy, BeforeStop, Ending
    <3>2. Taken' = Taken /\ cursor' = cursor
      BY <2>3 DEF DriveStop, AcquireCancelled, BudgetExhausted, BreakDrive, Taken
    <3> QED BY <1>b, <3>1, <3>2
  <2>4. CASE SynFails
    BY <2>4 DEF SynFails, Placed
  <2>5. CASE Dispatch
    <3>1. /\ pc # "idle" /\ stop' = stop /\ cursor' = cursor + 1 /\ cur = 0
      BY <2>5 DEF Dispatch, At, Tidy, HoldsUnit
    <3>2. cursor \in Taken' /\ Taken \ {0} \subseteq Taken'
      BY <2>5, <3>1 DEF Dispatch, Taken
    <3> QED BY <1>a, <3>1, <3>2 DEF Placed, Units
  <2>6. ASSUME NEW u \in Units, Join(u) PROVE Placed'
    <3>1. pc # "idle" /\ stop' = stop /\ cursor' = cursor /\ cur = 0
      BY <2>6 DEF Join, At, Tidy, HoldsUnit
    <3>2. Taken \ {0} \subseteq Taken'
      BY <2>6, <3>1 DEF Join, Taken
    <3> QED BY <1>a, <3>1, <3>2 DEF Placed, Units
  <2> QED BY <1>5, <2>1, <2>2, <2>3, <2>4, <2>5, <2>6 DEF Driving
<1>6. CASE Recording
  <2>1. pc # "idle" /\ stop' = stop /\ cursor' = cursor
    BY <1>6 DEF Recording, ObservePort, DetectNothing, DetectAcquire, DetectBudget,
       DetectProbe, PutEvidence, CiteEvidence, Completed, At
  <2>2. Taken \ {0} \subseteq Taken'
    BY <1>6 DEF Recording, ObservePort, DetectNothing, DetectAcquire, DetectBudget,
       DetectProbe, PutEvidence, CiteEvidence, Completed, Taken
  <2> QED BY <1>a, <2>1, <2>2 DEF Placed, Units
<1>7. CASE Flushing
  <2>1. pc # "idle" /\ stop' = stop /\ cursor' = cursor
    BY <1>7 DEF Flushing, FlushSync, MarkUnitsDone, EmitProgress, FlushCursor, At
  <2>2. Taken \subseteq Taken'
    BY <1>7 DEF Flushing, FlushSync, MarkUnitsDone, EmitProgress, FlushCursor, At,
       Taken, Tidy
  <2> QED BY <1>b, <2>1, <2>2
<1>8. CASE Closing
  BY <1>8 DEF Closing, EmitTerminal, FinalSync, FinalCursor, Publish, ForgetRun,
     At, Placed, Taken
<1>9. ASSUME NEW u \in Units, ConnectTask(u)
      PROVE  Placed'
  BY <1>9 DEF ConnectTask, Connects, ConnectFinishes, TaskEnds, Placed, Taken
<1>10. CASE Cancel
  BY <1>10 DEF Cancel, Placed, Taken
<1>11. CASE Crash
  BY <1>11 DEF Crash, ForgetRun, Placed
<1>12. CASE UNCHANGED vars
  BY <1>12 DEF Placed, Taken
<1> QED
  BY <1>1, <1>2, <1>3, <1>4, <1>5, <1>6, <1>7, <1>8, <1>9, <1>10, <1>11, <1>12
     DEF Next, RunStep

\* A log that grows by anything but scan.completed keeps its promise, and so
\* does a log that loses its end; units are never taken back from the store.
LEMMA CoversKept ==
    ASSUME TypeOK, CompletedCoversPlan, done \subseteq done',
           \/ log' = log
           \/ \E e : log' = Append(log, e) /\ e.kind # "completed"
           \/ \E k \in 0..Len(log) : log' = SubSeq(log, 1, k)
    PROVE  CompletedCoversPlan'
<1>1. log \in Seq([kind : EventKinds, of : Nat]) /\ Len(log) \in Nat
  BY DEF TypeOK, DiskTypes
<1>2. CASE log' = log
  BY <1>2 DEF CompletedCoversPlan
<1>3. ASSUME NEW e, log' = Append(log, e), e.kind # "completed"
      PROVE  CompletedCoversPlan'
  <2>1. /\ Len(log') = Len(log) + 1
        /\ \A i \in 1..Len(log) : log'[i] = log[i]
        /\ log'[Len(log) + 1] = e
    BY <1>1, <1>3
  <2> SUFFICES ASSUME NEW i \in 1..Len(log'), log'[i].kind = "completed", NEW u \in Units
               PROVE  u \in done' /\ \E j \in 1..i : log'[j] = Event("port", u)
    BY DEF CompletedCoversPlan, Event
  <2>2. i \in 1..Len(log) /\ log[i].kind = "completed"
    BY <1>1, <1>3, <2>1
  <2>3. u \in done /\ \E j \in 1..i : log[j] = Event("port", u)
    BY <2>2 DEF CompletedCoversPlan
  <2>4. \A j \in 1..i : log'[j] = log[j]
    BY <1>1, <2>1, <2>2
  <2> QED BY <2>3, <2>4
<1>4. ASSUME NEW k \in 0..Len(log), log' = SubSeq(log, 1, k)
      PROVE  CompletedCoversPlan'
  <2>1. Len(log') = k /\ \A i \in 1..k : log'[i] = log[i]
    BY <1>4, SubSeqFacts
  <2> SUFFICES ASSUME NEW i \in 1..k, log'[i].kind = "completed", NEW u \in Units
               PROVE  u \in done' /\ \E j \in 1..i : log'[j] = Event("port", u)
    BY <2>1 DEF CompletedCoversPlan, Event
  <2>2. i \in 1..Len(log) /\ log[i].kind = "completed"
    BY <1>1, <2>1
  <2>3. u \in done /\ \E j \in 1..i : log[j] = Event("port", u)
    BY <2>2 DEF CompletedCoversPlan
  <2>4. \A j \in 1..i : log'[j] = log[j]
    BY <2>1
  <2> QED BY <2>3, <2>4
<1> QED BY <1>2, <1>3, <1>4

\* A run that stops because the plan is exhausted has flushed all of it.
LEMMA ExhaustedIsDone ==
    ASSUME TypeInv, Tidy, Placed, pc \in Ending, stop = "exhausted"
    PROVE  Units \subseteq done
<1>1. drained /\ batch = {} /\ inFlight = {} /\ finished = {} /\ cur = 0
  BY DEF Tidy, Ending, HoldsUnit
<1>2. \A u \in Units : u < cursor
  BY DEF Tidy, TypeInv, TypeOK, RunTypes, Units
<1>3. \A u \in Units : u \in Taken
  BY <1>2 DEF Placed, Ending
<1> QED BY <1>1, <1>3 DEF Taken, Units

LEMMA CoversStep ==
    ASSUME TypeInv, Durable, Tidy, Placed, CompletedCoversPlan, [Next]_vars
    PROVE  CompletedCoversPlan'
<1>a. TypeOK /\ synced \in 0..Len(log) /\ Len(log) \in Nat
  BY DEF TypeInv, TypeOK, DiskTypes
<1>b. ASSUME done \subseteq done',
             log' = log \/ (\E kind, of : append(Event(kind, of)) /\ kind # "completed")
      PROVE  CompletedCoversPlan'
  <2>1. ASSUME NEW kind, NEW of, append(Event(kind, of)), kind # "completed"
        PROVE  \E e : log' = Append(log, e) /\ e.kind # "completed"
    <3>1. log' = Append(log, Event(kind, of)) /\ Event(kind, of).kind = kind
      BY <2>1 DEF append, Event
    <3> QED BY <2>1, <3>1
  <2> QED BY <1>a, <1>b, <2>1, CoversKept
<1>1. ASSUME NEW s \in Scopes, NEW a \in AllowSets, NEW m \in Modes, Begin(s, a, m)
      PROVE  CompletedCoversPlan'
  BY <1>1, <1>b DEF Begin
<1>2. CASE Opening \/ SyncAppend \/ Discovery
  BY <1>2, <1>b DEF Opening, ReturnTerminated, RefuseScope, EmitStarted, SyncAppend,
     Discovery, DiscoverStop, StopDiscovery, DiscoverReserve, DiscoverAnswer,
     PutHost, EmitHost, DiscoveryDone
<1>3. CASE Driving
  BY <1>3, <1>b DEF Driving, LoadDone, DriveStop, BreakDrive, DriveSkip, DriveUnit,
     AcquireCancelled, Acquire, BudgetExhausted, Dispatch, SynAnswer, SynFails,
     Join, Joined, Drained
<1>4. CASE Recording \/ Flushing
  BY <1>4, <1>b DEF Recording, ObservePort, DetectNothing, DetectAcquire,
     DetectBudget, DetectProbe, PutEvidence, CiteEvidence, Flushing, FlushSync,
     MarkUnitsDone, EmitProgress, FlushCursor
<1>5. CASE EmitTerminal
  <2>1. CASE stop # "exhausted"
    <3>1. stop # "cancelled" => TerminalKind(stop) # "completed"
      BY <2>1, <1>5 DEF EmitTerminal, At, TypeInv, TypeOK, ControlTypes, Control,
         Reasons, Ending, TerminalKind
    <3> QED BY <1>5, <1>b, <3>1 DEF EmitTerminal
  <2>2. CASE stop = "exhausted"
    <3>1. Units \subseteq done
      BY <1>5, <2>2, ExhaustedIsDone DEF EmitTerminal, At, Ending
    <3>2. \A u \in Units : \E i \in 1..synced : log[i] = Event("port", u)
      BY <3>1 DEF Durable, Logged
    <3>3. PICK e : log' = Append(log, e)
      BY <1>5, <2>2 DEF EmitTerminal, append
    <3>4. log \in Seq([kind : EventKinds, of : Nat])
      BY <1>a DEF TypeOK, DiskTypes
    <3>5. /\ Len(log') = Len(log) + 1
          /\ \A i \in 1..Len(log) : log'[i] = log[i]
      BY <3>3, <3>4
    <3>6. \A u \in Units : \E j \in 1..(Len(log) + 1) : log'[j] = Event("port", u)
                                                    /\ j <= Len(log)
      BY <1>a, <3>2, <3>5
    <3>7. done' = done
      BY <1>5 DEF EmitTerminal
    <3> SUFFICES ASSUME NEW i \in 1..(Len(log) + 1), log'[i].kind = "completed",
                        NEW u \in Units
                 PROVE  u \in done' /\ \E j \in 1..i : log'[j] = Event("port", u)
      BY <3>5 DEF CompletedCoversPlan, Event
    <3>8. CASE i = Len(log) + 1
      BY <1>a, <3>1, <3>6, <3>7, <3>8
    <3>9. CASE i \in 1..Len(log)
      <4>1. log[i].kind = "completed"
        BY <3>5, <3>9
      <4>2. PICK j \in 1..i : log[j] = Event("port", u)
        BY <3>9, <4>1 DEF CompletedCoversPlan
      <4>3. log'[j] = log[j]
        BY <1>a, <3>5, <3>9
      <4> QED BY <3>1, <3>7, <4>2, <4>3
    <3> QED BY <1>a, <3>8, <3>9
  <2> QED BY <2>1, <2>2
<1>6. CASE FinalSync \/ FinalCursor \/ Publish
  BY <1>6, <1>b DEF FinalSync, FinalCursor, Publish
<1>7. ASSUME NEW u \in Units, ConnectTask(u)
      PROVE  CompletedCoversPlan'
  BY <1>7, <1>b DEF ConnectTask, Connects, ConnectFinishes, TaskEnds
<1>8. CASE Cancel
  BY <1>8, <1>b DEF Cancel
<1>9. CASE Crash
  BY <1>9, <1>a, CoversKept DEF Crash
<1>10. CASE UNCHANGED vars
  BY <1>10, <1>b
<1> QED
  BY <1>1, <1>2, <1>3, <1>4, <1>5, <1>6, <1>7, <1>8, <1>9, <1>10
     DEF Next, RunStep, Closing

\* A scan whose log says completed probed, logged and stored every unit of its
\* plan, however many runs and crashes it took and in whatever order the
\* answers came (the drain and the flush before scan.completed).
THEOREM CompletedMeansComplete == Spec => []CompletedCoversPlan
<1>1. Init => Durable /\ Tidy /\ Placed /\ CompletedCoversPlan
  BY DEF Init, Durable, Logged, Tidy, Placed, CompletedCoversPlan, Ending, HoldsUnit,
         BeforeStop, InFlush
<1>2. TypeInv /\ Durable /\ Tidy /\ Placed /\ CompletedCoversPlan /\ [Next]_vars
        => Durable' /\ Tidy' /\ Placed' /\ CompletedCoversPlan'
  BY DurableStep, TidyStep, PlacedStep, CoversStep
<1> QED BY <1>1, <1>2, TypeInvariant, PTL DEF Spec
------------------------------------------------------------------------------
(* Each unit in one place.                                                   *)

\* Units in hand come from below the cursor, completed ones from below it or
\* from what the run loaded; a run that is not dispatching has none in hand.
Behind ==
    /\ \A u \in batch \cup inFlight \cup finished : u < cursor
    /\ cur = 0 \/ cur < cursor
    /\ pc \in {"drive", "acquire", "spend", "syn", "join", "drain", "observe", "detect",
              "detectspend", "put", "cite", "flush", "mark", "progress", "cursor"}
         => \A u \in done : u \in already \/ u < cursor
    /\ pc \in {"acquire", "spend"} => cursor \notin already
    /\ pc \in {"idle", "entry", "discover", "discovering", "hostput", "hostlog", "load"}
              \cup Ending
         => batch = {} /\ inFlight = {} /\ finished = {}

LEMMA BehindStep == TypeInv /\ Tidy /\ Behind /\ [Next]_vars => Behind'
<1> SUFFICES ASSUME TypeInv, Tidy, Behind, [Next]_vars PROVE Behind'
  OBVIOUS
<1>a. /\ cursor \in Nat \ {0} /\ NumUnits \in Nat /\ cur \in Units \cup {0}
      /\ done \subseteq Units /\ batch \subseteq Units
      /\ inFlight \subseteq Units /\ finished \subseteq Units
      /\ released \subseteq inFlight
  BY DEF TypeInv, TypeOK, RunTypes, DiskTypes
<1> USE DEF Behind, At, Ending
<1>1. ASSUME NEW s \in Scopes, NEW a \in AllowSets, NEW m \in Modes, Begin(s, a, m)
      PROVE  Behind'
  BY <1>1, <1>a DEF Begin, Tidy, HoldsUnit
<1>2. CASE Opening \/ SyncAppend \/ Discovery
  BY <1>2, <1>a DEF Opening, ReturnTerminated, RefuseScope, EmitStarted, ForgetRun,
     SyncAppend, Discovery, DiscoverStop, StopDiscovery, DiscoverReserve,
     DiscoverAnswer, PutHost, EmitHost, DiscoveryDone
<1>3. CASE Driving
  <2>1. CASE DriveSkip
    BY <1>a, <2>1 DEF DriveSkip, Units
  <2>5. CASE Dispatch
    <3>1. /\ \A u \in batch' \cup inFlight' \cup finished' : u < cursor + 1
          /\ cur' = 0 \/ cur' < cursor + 1
          /\ cursor' = cursor + 1 /\ pc' \in {"syn", "join"}
      BY <1>a, <2>5 DEF Dispatch, Units
    <3>2. done' = done /\ already' = already /\ \A u \in done : u \in already \/ u < cursor + 1
      BY <1>a, <2>5 DEF Dispatch, Units
    <3> QED BY <3>1, <3>2
  <2>2. CASE LoadDone \/ DriveStop \/ DriveUnit \/ AcquireCancelled \/ Acquire \/ BudgetExhausted
    BY <1>a, <2>2 DEF LoadDone, DriveStop, BreakDrive, DriveUnit, AcquireCancelled,
       Acquire, BudgetExhausted
  <2>3. CASE SynAnswer \/ SynFails \/ (\E u \in Units : Join(u)) \/ Joined
    BY <1>a, <2>3 DEF SynAnswer, SynFails, Join, Joined
  <2>4. CASE Drained
    BY <1>a, <2>4 DEF Drained
  <2> QED BY <1>3, <2>1, <2>2, <2>3, <2>4, <2>5 DEF Driving
<1>4. CASE Recording
  <2>1. cur \in Units /\ cur < cursor
    BY <1>4, <1>a DEF Recording, ObservePort, DetectNothing, DetectAcquire,
       DetectBudget, DetectProbe, PutEvidence, CiteEvidence, TypeInv, Control,
       HoldsUnit, Units
  <2>2. \/ batch' = batch /\ cur' = cur
        \/ batch' = batch \cup {cur} /\ cur' = 0
    BY <1>4 DEF Recording, ObservePort, DetectNothing, DetectAcquire, DetectBudget,
       DetectProbe, PutEvidence, CiteEvidence, Completed
  <2>3. /\ UNCHANGED <<done, inFlight, finished, cursor, already>>
        /\ pc' \in {"join", "drain", "detect", "detectspend", "put", "cite"}
        /\ \A u \in done : u \in already \/ u < cursor
    BY <1>4 DEF Recording, ObservePort, DetectNothing, DetectAcquire, DetectBudget,
       DetectProbe, PutEvidence, CiteEvidence, Completed
  <2> QED BY <1>a, <2>1, <2>2, <2>3
<1>5. CASE Flushing
  BY <1>5, <1>a DEF Flushing, FlushSync, MarkUnitsDone, EmitProgress, FlushCursor,
     Tidy, InFlush
<1>6. CASE Closing
  BY <1>6, <1>a DEF Closing, EmitTerminal, FinalSync, FinalCursor, Publish, ForgetRun
<1>7. CASE (\E u \in Units : ConnectTask(u)) \/ Cancel \/ Crash \/ UNCHANGED vars
  BY <1>7, <1>a DEF ConnectTask, Connects, ConnectFinishes, TaskEnds, Cancel, Crash, ForgetRun
<1> QED BY <1>1, <1>2, <1>3, <1>4, <1>5, <1>6, <1>7 DEF Next, RunStep

LEMMA BehindInvariant == Spec => [](TypeInv /\ Tidy /\ Behind)
<1>1. Init => Tidy /\ Behind
  BY DEF Init, Tidy, Behind, Ending, HoldsUnit, BeforeStop, InFlush
<1>2. TypeInv /\ Tidy /\ Behind /\ [Next]_vars => Tidy' /\ Behind'
  BY TidyStep, BehindStep
<1> QED BY <1>1, <1>2, TypeInvariant, PTL DEF Spec

\* No unit is in two places, and none the store has completed is in flight.
Apart ==
    /\ done \cap inFlight = {}
    /\ inFlight \cap finished = {}
    /\ batch \cap (inFlight \cup finished) = {}
    /\ cur \notin batch \cup inFlight \cup finished

LEMMA ApartStep == TypeInv /\ Tidy /\ Behind /\ Apart /\ [Next]_vars => Apart'
<1> SUFFICES ASSUME TypeInv, Tidy, Behind, Apart, [Next]_vars PROVE Apart'
  OBVIOUS
<1>a. /\ batch \subseteq Units /\ inFlight \subseteq Units /\ finished \subseteq Units
      /\ released \subseteq inFlight
      /\ 0 \notin Units /\ cursor \in Nat \ {0} /\ done \subseteq Units
      /\ pc \notin HoldsUnit => cur = 0
  BY DEF TypeInv, TypeOK, RunTypes, DiskTypes, Units, Tidy
<1> USE DEF Apart
<1>1. CASE UNCHANGED <<done, batch, inFlight, finished, cur>>
  BY <1>1
<1>2. CASE ForgetRun /\ done' = done
  BY <1>2, <1>a DEF ForgetRun
<1>3. ASSUME NEW u \in Units, ConnectTask(u)
      PROVE  Apart'
  BY <1>3, <1>a DEF ConnectTask, Connects, ConnectFinishes, TaskEnds
<1>4. ASSUME NEW u \in Units, Join(u)
      PROVE  Apart'
  BY <1>4 DEF Join
<1>5. CASE Dispatch
  <2>1. cur = 0 /\ cursor \in Units
    BY <1>5, <1>a DEF Dispatch, At, HoldsUnit, TypeInv, Control
  <2>2. cursor \notin batch \cup inFlight \cup finished
    BY <1>a DEF Behind, Units
  <2>3. cursor \notin done
    BY <1>5, <1>a DEF Dispatch, At, Behind, Units
  <2>4. CASE run.mode = "syn"
    BY <1>5, <1>a, <2>1, <2>2, <2>3, <2>4 DEF Dispatch
  <2>5. CASE run.mode # "syn"
    BY <1>5, <1>a, <2>1, <2>2, <2>3, <2>5 DEF Dispatch
  <2> QED BY <2>4, <2>5
<1>6. CASE pc \in HoldsUnit /\ Completed /\ UNCHANGED <<done, inFlight, finished>>
  <2>1. cur \in Units
    BY <1>6 DEF TypeInv, Control
  <2> QED BY <1>6, <1>a, <2>1 DEF Completed
<1>7. CASE batch' = {} /\ cur' = cur /\ UNCHANGED <<done, inFlight, finished>>
  BY <1>7
<1>8. CASE cur' = 0 /\ UNCHANGED <<done, batch, inFlight, finished>>
  BY <1>8, <1>a
<1>9. ASSUME NEW s \in Scopes, NEW a \in AllowSets, NEW m \in Modes, Begin(s, a, m)
      PROVE  Apart'
  BY <1>1, <1>9 DEF Begin
<1>10. CASE Opening \/ SyncAppend \/ Discovery
  BY <1>1, <1>2, <1>10 DEF Opening, ReturnTerminated, RefuseScope, EmitStarted, SyncAppend,
     Discovery, DiscoverStop, StopDiscovery, DiscoverReserve, DiscoverAnswer, PutHost,
     EmitHost, DiscoveryDone
<1>11. CASE Driving
  BY <1>1, <1>4, <1>5, <1>8, <1>11 DEF Driving, LoadDone, DriveStop, BreakDrive,
     DriveSkip, DriveUnit, AcquireCancelled, Acquire, BudgetExhausted, SynAnswer,
     SynFails, Joined, Drained
<1>12. CASE Recording
  BY <1>1, <1>6, <1>12 DEF Recording, ObservePort, DetectNothing, DetectAcquire,
     DetectBudget, DetectProbe, PutEvidence, CiteEvidence, At, HoldsUnit
<1>13. CASE Flushing
  <2>1. CASE MarkUnitsDone
    BY <1>a, <2>1 DEF MarkUnitsDone
  <2>2. CASE FlushSync \/ EmitProgress \/ FlushCursor
    BY <1>1, <1>7, <2>2 DEF FlushSync, EmitProgress, FlushCursor
  <2> QED BY <1>13, <2>1, <2>2 DEF Flushing
<1>14. CASE Closing
  BY <1>1, <1>2, <1>14 DEF Closing, EmitTerminal, FinalSync, FinalCursor, Publish
<1>15. CASE Cancel \/ Crash \/ UNCHANGED vars
  BY <1>1, <1>2, <1>15 DEF Cancel, Crash
<1> QED BY <1>3, <1>9, <1>10, <1>11, <1>12, <1>13, <1>14, <1>15 DEF Next, RunStep

LEMMA ApartInvariant == Spec => [](TypeInv /\ Tidy /\ Behind /\ Apart)
<1>1. Init => Apart
  BY DEF Init, Apart
<1>2. TypeInv /\ Tidy /\ Behind /\ Apart /\ [Next]_vars => Apart'
  BY ApartStep
<1> QED BY <1>1, <1>2, BehindInvariant, PTL DEF Spec

------------------------------------------------------------------------------
(* Never out of scope, never again.                                         *)

\* Only four steps put anything on the wire.
LEMMA EmittingSteps ==
    ASSUME [Next]_vars
    PROVE  \/ UNCHANGED <<emitted, probes>>
           \/ DiscoverAnswer \/ Dispatch \/ DetectProbe
           \/ \E u \in Units : Connects(u)
<1>1. CASE \E s \in Scopes, a \in AllowSets, m \in Modes : Begin(s, a, m)
  BY <1>1 DEF Begin
<1>2. CASE Opening \/ SyncAppend \/ Discovery
  BY <1>2 DEF Opening, ReturnTerminated, RefuseScope, EmitStarted, SyncAppend,
     Discovery, DiscoverStop, StopDiscovery, DiscoverReserve, PutHost, EmitHost,
     DiscoveryDone
<1>3. CASE Driving
  BY <1>3 DEF Driving, LoadDone, DriveStop, BreakDrive, DriveSkip, DriveUnit,
     AcquireCancelled, Acquire, BudgetExhausted, SynAnswer, SynFails, Join, Joined,
     Drained
<1>4. CASE Recording \/ Flushing
  BY <1>4 DEF Recording, ObservePort, DetectNothing, DetectAcquire, DetectBudget,
     PutEvidence, CiteEvidence, Flushing, FlushSync, MarkUnitsDone, EmitProgress,
     FlushCursor
<1>5. CASE Closing
  BY <1>5 DEF Closing, EmitTerminal, FinalSync, FinalCursor, Publish
<1>6. CASE (\E u \in Units : ConnectTask(u)) \/ Cancel \/ Crash \/ UNCHANGED vars
  BY <1>6 DEF ConnectTask, ConnectFinishes, TaskEnds, Cancel, Crash
<1> QED BY <1>1, <1>2, <1>3, <1>4, <1>5, <1>6 DEF Next, RunStep

\* Every check of the manifest still holds where its packet leaves: neither the
\* manifest of a run nor the unit or host in hand changes in between, and no
\* spawned task outlives the run that spawned it.
Authorised ==
    /\ pc \notin {"idle", "entry"} \cup Ending => run.scope = "ok"
    /\ pc \in {"acquire", "spend"} => UnitHost[cursor] \in run.allows
    /\ pc = "discovering" => host \in run.allows
    /\ pc = "detectspend" => UnitHost[cur] \in run.allows
    /\ \A u \in unpolled : UnitHost[u] \in run.allows

LEMMA AuthorisedStep == TypeInv /\ Behind /\ Authorised /\ [Next]_vars => Authorised'
<1> SUFFICES ASSUME TypeInv, Behind, Authorised, [Next]_vars PROVE Authorised'
  OBVIOUS
<1>a. pc = "idle" => unpolled = {}
  BY DEF Behind, TypeInv, TypeOK, RunTypes
<1> USE DEF Authorised, Ending, At
<1>1. ASSUME NEW s \in Scopes, NEW a \in AllowSets, NEW m \in Modes, Begin(s, a, m)
      PROVE  Authorised'
  BY <1>1, <1>a DEF Begin
<1>2. CASE Opening \/ SyncAppend \/ Discovery
  BY <1>2 DEF Opening, ReturnTerminated, RefuseScope, EmitStarted, ForgetRun,
     SyncAppend, Discovery, DiscoverStop, StopDiscovery, DiscoverReserve,
     DiscoverAnswer, PutHost, EmitHost, DiscoveryDone
<1>3. CASE Driving
  BY <1>3 DEF Driving, LoadDone, DriveStop, BreakDrive, DriveSkip, DriveUnit,
     AcquireCancelled, Acquire, BudgetExhausted, Dispatch, SynAnswer, SynFails,
     Join, Joined, Drained
<1>4. CASE Recording \/ Flushing
  BY <1>4 DEF Recording, ObservePort, DetectNothing, DetectAcquire, DetectBudget,
     DetectProbe, PutEvidence, CiteEvidence, Completed, Flushing, FlushSync,
     MarkUnitsDone, EmitProgress, FlushCursor
<1>5. CASE Closing
  BY <1>5 DEF Closing, EmitTerminal, FinalSync, FinalCursor, Publish, ForgetRun
<1>6. CASE (\E u \in Units : ConnectTask(u)) \/ Cancel \/ Crash \/ UNCHANGED vars
  BY <1>6 DEF ConnectTask, Connects, ConnectFinishes, TaskEnds, Cancel, Crash, ForgetRun
<1> QED BY <1>1, <1>2, <1>3, <1>4, <1>5, <1>6 DEF Next, RunStep

\* No packet leaves for a host the run's manifest does not allow, nor from a
\* run whose manifest is another scan's or has expired, in discovery, dispatch
\* or detection, whatever the earlier runs of the scan were allowed.
THEOREM StaysInScope == Spec => ScopeRespected
<1>1. Init => Authorised
  BY DEF Init, Authorised, Ending
<1>2. TypeInv /\ Behind /\ Authorised /\ [Next]_vars => Authorised'
  BY AuthorisedStep
<1>3. ASSUME TypeInv, Behind, Authorised, [Next]_vars
      PROVE  /\ emitted' > emitted => run.scope = "ok"
             /\ \A u \in Units : probes'[u] > probes[u] => UnitHost[u] \in run.allows
             /\ pc = "discovering" => host \in run.allows
             /\ pc = "detectspend" => UnitHost[cur] \in run.allows
  <2>a. emitted \in Nat /\ probes \in [Units -> Nat]
    BY <1>3 DEF TypeInv, TypeOK, HistoryTypes
  <2>1. CASE UNCHANGED <<emitted, probes>>
    BY <1>3, <2>a, <2>1 DEF Authorised
  <2>2. CASE DiscoverAnswer
    BY <1>3, <2>a, <2>2 DEF DiscoverAnswer, Authorised, At, Ending
  <2>3. CASE Dispatch
    BY <1>3, <2>a, <2>3 DEF Dispatch, Probe, Authorised, At, Ending
  <2>4. CASE DetectProbe
    BY <1>3, <2>a, <2>4 DEF DetectProbe, Authorised, At, Ending
  <2>5. ASSUME NEW u \in Units, Connects(u)
        PROVE  /\ run.scope = "ok"
               /\ \A v \in Units : probes'[v] > probes[v] => UnitHost[v] \in run.allows
    <3>1. pc \notin {"idle", "entry"} \cup Ending /\ UnitHost[u] \in run.allows
      BY <1>3, <2>5 DEF Connects, Behind, Authorised, TypeInv, TypeOK, RunTypes
    <3>2. probes' = [probes EXCEPT ![u] = @ + 1]
      BY <2>5 DEF Connects, Probe
    <3>3. \A v \in Units : v # u => probes'[v] = probes[v] /\ probes[v] \in Nat
      BY <2>a, <3>2
    <3> QED BY <1>3, <3>1, <3>3 DEF Authorised
  <2> QED BY <1>3, <2>1, <2>2, <2>3, <2>4, <2>5, EmittingSteps DEF Authorised
<1> QED BY <1>1, <1>2, <1>3, BehindInvariant, PTL DEF Spec, ScopeRespected

\* Once a unit is completed no later step of any run probes it again, also
\* where it was completed out of order above the index the run began at.
THEOREM NeverProbedAgain == Spec => DoneNeverReprobed
<1>1. ASSUME TypeInv, Tidy, Behind, Apart, [Next]_vars
      PROVE  \A u \in done : probes'[u] = probes[u]
  <2>a. /\ probes \in [Units -> Nat] /\ done \subseteq Units
        /\ cursor \in Nat
    BY <1>1 DEF TypeInv, TypeOK, HistoryTypes, DiskTypes, RunTypes
  <2>1. CASE UNCHANGED <<emitted, probes>> \/ DiscoverAnswer \/ DetectProbe
    BY <2>1 DEF DiscoverAnswer, DetectProbe
  <2>2. CASE Dispatch
    <3>1. cursor \notin done
      BY <1>1, <2>a, <2>2 DEF Dispatch, At, Behind, Units
    <3> QED BY <2>a, <2>2, <3>1 DEF Dispatch, Probe
  <2>3. ASSUME NEW u \in Units, Connects(u)
        PROVE  \A v \in done : probes'[v] = probes[v]
    <3>1. u \notin done
      BY <1>1, <2>3 DEF Connects, Apart, TypeInv, TypeOK, RunTypes
    <3> QED BY <2>a, <2>3, <3>1 DEF Connects, Probe
  <2> QED BY <1>1, <2>1, <2>2, <2>3, EmittingSteps
<1> QED BY <1>1, ApartInvariant, PTL DEF Spec, DoneNeverReprobed

------------------------------------------------------------------------------
(* The status follows the log.                                              *)

Ends(kind) == log # <<>> /\ log[Len(log)].kind = kind

\* While a run is live the status is running; from its terminal event on the
\* log ends in it, and what is published is synced first.
Concluded ==
    /\ pc # "idle" => row.status = "running"
    /\ pc \in {"finalsync", "finalcursor", "publish"} /\ stop # "cancelled"
         => Ends(TerminalKind(stop))
    /\ pc \in {"finalcursor", "publish"} => synced = Len(log)
    /\ pc = "idle" => StatusBackedByLog

LEMMA RowStatus ==
    ASSUME TypeOK
    PROVE  /\ \A s \in Statuses : row' = [row EXCEPT !.status = s] => row'.status = s
           /\ record_progress => row'.status = row.status
  BY DEF TypeOK, DiskTypes, record_progress

LEMMA ConcludedStep == TypeInv /\ Concluded /\ [Next]_vars => Concluded'
<1> SUFFICES ASSUME TypeInv, Concluded, [Next]_vars PROVE Concluded'
  OBVIOUS
<1>a. TypeOK /\ synced \in 0..Len(log) /\ Len(log) \in Nat
  BY DEF TypeInv, TypeOK, DiskTypes
<1>b. TypeOK'
  BY TypeStep DEF TypeInv
<1>c. ASSUME pc # "idle", UNCHANGED row,
             pc' \notin {"idle", "finalsync", "finalcursor", "publish"}
      PROVE  Concluded'
  BY <1>c DEF Concluded
<1>1. ASSUME NEW s \in Scopes, NEW a \in AllowSets, NEW m \in Modes, Begin(s, a, m)
      PROVE  Concluded'
  BY <1>1, <1>a, RowStatus DEF Begin, Concluded, Statuses
<1>2. CASE Opening \/ SyncAppend \/ Discovery
  <2>1. CASE ReturnTerminated
    BY <2>1 DEF ReturnTerminated, ForgetRun, At, Concluded, StatusBackedByLog, TerminalKinds
  <2>2. CASE SyncAppend
    BY <2>2, <1>a DEF SyncAppend, sync_now, Concluded, Ends, StatusBackedByLog
  <2>3. CASE RefuseScope \/ EmitStarted \/ Discovery
    BY <2>3, <1>c DEF RefuseScope, EmitStarted, Discovery, DiscoverStop, StopDiscovery,
       DiscoverReserve, DiscoverAnswer, PutHost, EmitHost, DiscoveryDone, At
  <2> QED BY <1>2, <2>1, <2>2, <2>3 DEF Opening
<1>3. CASE Driving
  BY <1>3, <1>c DEF Driving, LoadDone, DriveStop, BreakDrive, DriveSkip, DriveUnit,
     AcquireCancelled, Acquire, BudgetExhausted, Dispatch, SynAnswer, SynFails,
     Join, Joined, Drained, At
<1>4. CASE Recording
  BY <1>4, <1>c DEF Recording, ObservePort, DetectNothing, DetectAcquire, DetectBudget,
     DetectProbe, PutEvidence, CiteEvidence, Completed, At
<1>5. CASE Flushing
  <2>1. CASE FlushCursor
    BY <1>a, <2>1, RowStatus DEF FlushCursor, At, Concluded
  <2>2. CASE FlushSync \/ MarkUnitsDone \/ EmitProgress
    BY <1>c, <2>2 DEF FlushSync, MarkUnitsDone, EmitProgress, At
  <2> QED BY <1>5, <2>1, <2>2 DEF Flushing
<1>6. CASE EmitTerminal
  <2>1. stop # "cancelled" => Ends(TerminalKind(stop))'
    <3>1. stop # "cancelled" => log' = Append(log, Event(TerminalKind(stop), 0))
      BY <1>6 DEF EmitTerminal, append
    <3>2. stop' = stop /\ log \in Seq([kind : EventKinds, of : Nat])
      BY <1>6, <1>a DEF EmitTerminal, TypeOK, DiskTypes
    <3> SUFFICES ASSUME stop # "cancelled" PROVE Ends(TerminalKind(stop))'
      OBVIOUS
    <3>3. /\ Len(log') = Len(log) + 1 /\ log' # <<>>
          /\ log'[Len(log) + 1] = Event(TerminalKind(stop), 0)
      BY <3>1, <3>2
    <3>4. log'[Len(log')].kind = TerminalKind(stop)
      BY <3>3 DEF Event
    <3> QED BY <3>2, <3>3, <3>4 DEF Ends, TerminalKind
  <2> QED BY <1>6, <2>1 DEF EmitTerminal, At, Concluded
<1>7. CASE FinalSync
  BY <1>7, <1>a DEF FinalSync, sync_now, At, Concluded, Ends
<1>8. CASE FinalCursor
  BY <1>8, <1>a, RowStatus DEF FinalCursor, At, Concluded, Ends
<1>9. CASE Publish
  <2>1. row'.status = TerminalStatus(stop)
    BY <1>9, <1>a DEF Publish, TypeOK, DiskTypes
  <2>2. /\ synced = Len(log)
        /\ stop # "cancelled" => Ends(TerminalKind(stop))
        /\ UNCHANGED <<log, synced>> /\ pc' = "idle"
    BY <1>9 DEF Publish, ForgetRun, At, Concluded
  <2>3. stop = "cancelled" => row'.status \notin TerminalKinds
    BY <2>1 DEF TerminalStatus, TerminalKinds
  <2>4. stop # "cancelled" => row'.status = TerminalKind(stop)
    BY <2>1 DEF TerminalStatus
  <2>5. StatusBackedByLog'
    BY <2>2, <2>3, <2>4 DEF StatusBackedByLog, Ends
  <2> QED BY <2>2, <2>5 DEF Concluded
<1>10. ASSUME NEW u \in Units, ConnectTask(u)
      PROVE  Concluded'
  BY <1>10 DEF ConnectTask, Connects, ConnectFinishes, TaskEnds, Concluded, Ends, StatusBackedByLog
<1>11. CASE Cancel
  BY <1>11 DEF Cancel, Concluded, Ends
<1>12. CASE Crash
  <2>1. row.status \notin TerminalKinds
    BY <1>a, <1>12 DEF Crash, Concluded, StatusBackedByLog, TerminalKinds
  <2> QED BY <1>12, <2>1 DEF Crash, ForgetRun, Concluded, StatusBackedByLog
<1>13. CASE UNCHANGED vars
  BY <1>13 DEF Concluded, Ends, StatusBackedByLog
<1> QED
  BY <1>1, <1>2, <1>3, <1>4, <1>5, <1>6, <1>7, <1>8, <1>9, <1>10, <1>11, <1>12, <1>13
     DEF Next, RunStep, Closing

\* A status a client can read as final is what the log already says, durably:
\* the event, the sync, the counters and the status are written in that order.
THEOREM StatusFollowsLog == Spec => []StatusBackedByLog
<1>1. Init => Concluded
  BY DEF Init, Concluded, StatusBackedByLog, TerminalKinds
<1>2. TypeInv /\ Concluded /\ [Next]_vars => Concluded'
  BY ConcludedStep
<1>3. Concluded => StatusBackedByLog
  BY DEF Concluded, StatusBackedByLog, TerminalKinds
<1> QED BY <1>1, <1>2, <1>3, TypeInvariant, PTL DEF Spec

------------------------------------------------------------------------------
(* Never twice without a crash.                                             *)

\* A unit the run does not have, and the store neither, was probed only in
\* runs that crashed; but for the one under which packetd failed, and that
\* failure ends the scan.
Counted ==
    /\ ReprobedOnlyAfterCrash
    /\ stop # "packetd" /\ ~already_terminated
         => \A u \in Units \ Taken : probes[u] <= crashes
    /\ \A u \in unpolled : probes[u] <= crashes

LEMMA CountedStep ==
    ASSUME TypeInv, WellFormed, Tidy, Behind, Concluded, Counted, [Next]_vars
    PROVE  Counted'
<1>a. /\ probes \in [Units -> Nat] /\ crashes \in Nat /\ cursor \in Nat \ {0}
      /\ NumUnits \in Nat /\ unpolled \subseteq inFlight /\ released \subseteq inFlight
      /\ inFlight \subseteq Units
  BY DEF TypeInv, TypeOK, HistoryTypes, RunTypes
<1>b. NoTerminal => ~already_terminated
  <2>1. log \in Seq([kind : EventKinds, of : Nat])
    BY DEF TypeInv, TypeOK, DiskTypes
  <2> QED BY <2>1 DEF NoTerminal, already_terminated
<1>c. log' = log => already_terminated' = already_terminated
  BY DEF already_terminated
<1>d. ASSUME UNCHANGED <<probes, crashes>>, Taken \ {0} \subseteq Taken',
             unpolled' \subseteq unpolled,
             stop' # "packetd" => stop # "packetd",
             ~already_terminated' => ~already_terminated
      PROVE  Counted'
  BY <1>d, <1>a DEF Counted, ReprobedOnlyAfterCrash, Units
<1>1. ASSUME NEW s \in Scopes, NEW a \in AllowSets, NEW m \in Modes, Begin(s, a, m)
      PROVE  Counted'
  BY <1>1, <1>c, <1>d DEF Begin, Taken
<1>2. CASE Opening
  <2>1. Taken \ {0} \subseteq Taken'
    BY <1>2 DEF Opening, ReturnTerminated, RefuseScope, EmitStarted, ForgetRun, At,
       Behind, Tidy, HoldsUnit, Taken
  <2>2. stop = "none" /\ UNCHANGED <<probes, crashes>> /\ unpolled' \subseteq unpolled
    BY <1>2 DEF Opening, ReturnTerminated, RefuseScope, EmitStarted, ForgetRun, At,
       Tidy, BeforeStop, Ending
  <2>3. ~already_terminated' => ~already_terminated
    BY <1>2, <1>c DEF Opening, ReturnTerminated, RefuseScope, EmitStarted
  <2> QED BY <1>d, <2>1, <2>2, <2>3
<1>3. CASE SyncAppend
  BY <1>3, <1>c, <1>d DEF SyncAppend, Taken
<1>4. CASE Discovery
  <2>1. ~already_terminated /\ stop = "none"
    BY <1>4, <1>b DEF Discovery, DiscoverStop, DiscoverReserve, DiscoverAnswer, PutHost,
       EmitHost, DiscoveryDone, At, WellFormed, Tidy, BeforeStop, Ending
  <2>2. UNCHANGED <<probes, crashes, unpolled>> /\ Taken' = Taken
    BY <1>4 DEF Discovery, DiscoverStop, StopDiscovery, DiscoverReserve,
       DiscoverAnswer, PutHost, EmitHost, DiscoveryDone, Taken
  <2> QED BY <1>d, <2>1, <2>2
<1>5. CASE Driving
  <2>1. CASE Dispatch
    <3>1. ~already_terminated /\ stop = "none" /\ cur = 0
      BY <2>1, <1>b DEF Dispatch, At, WellFormed, Tidy, BeforeStop, Ending, HoldsUnit
    <3>2. cursor \in Units /\ cursor \notin Taken
      BY <2>1, <1>a, <3>1 DEF Dispatch, At, Behind, Taken, TypeInv, Control, Units
    <3>3. cursor \in Taken' /\ Taken \ {0} \subseteq Taken'
      BY <2>1, <3>1 DEF Dispatch, Taken
    <3>4. crashes' = crashes /\ UNCHANGED <<log, stop>>
      BY <2>1 DEF Dispatch
    <3>5. probes[cursor] <= crashes
      BY <3>1, <3>2 DEF Counted
    <3>6. CASE run.mode = "syn"
      <4>1. /\ probes' = [probes EXCEPT ![cursor] = @ + 1]
            /\ unpolled' = unpolled /\ cursor \notin unpolled
        BY <2>1, <1>a, <3>2, <3>6 DEF Dispatch, Probe, Taken
      <4> QED BY <1>a, <1>c, <3>1, <3>2, <3>3, <3>4, <3>5, <4>1
              DEF Counted, ReprobedOnlyAfterCrash, Units
    <3>7. CASE run.mode # "syn"
      <4>1. probes' = probes /\ unpolled' = unpolled \cup {cursor}
        BY <2>1, <3>7 DEF Dispatch
      <4> QED BY <1>a, <1>c, <3>1, <3>2, <3>3, <3>4, <3>5, <4>1
              DEF Counted, ReprobedOnlyAfterCrash, Units
    <3> QED BY <3>6, <3>7
  <2>2. CASE SynFails
    BY <2>2 DEF SynFails, Counted, ReprobedOnlyAfterCrash
  <2>3. CASE LoadDone \/ DriveSkip \/ DriveUnit \/ Acquire \/ SynAnswer \/ Joined \/ Drained
    BY <2>3, <1>c, <1>d DEF LoadDone, DriveSkip, DriveUnit, Acquire, SynAnswer, Joined,
       Drained, Taken
  <2>4. CASE DriveStop \/ AcquireCancelled \/ BudgetExhausted
    <3>1. stop = "none"
      BY <2>4 DEF DriveStop, AcquireCancelled, BudgetExhausted, At, Tidy, BeforeStop, Ending
    <3> QED BY <2>4, <1>c, <1>d, <3>1 DEF DriveStop, AcquireCancelled, BudgetExhausted,
            BreakDrive, Taken
  <2>5. ASSUME NEW u \in Units, Join(u) PROVE Counted'
    <3>1. cur = 0
      BY <2>5 DEF Join, At, Tidy, HoldsUnit
    <3>2. Taken \ {0} \subseteq Taken'
      BY <2>5, <3>1 DEF Join, Taken
    <3> QED BY <2>5, <1>c, <1>d, <3>2 DEF Join
  <2> QED BY <1>5, <2>1, <2>2, <2>3, <2>4, <2>5 DEF Driving
<1>6. CASE Recording
  <2>1. UNCHANGED <<probes, crashes, stop, unpolled>>
    BY <1>6 DEF Recording, ObservePort, DetectNothing, DetectAcquire, DetectBudget,
       DetectProbe, PutEvidence, CiteEvidence, Completed
  <2>2. Taken \ {0} \subseteq Taken'
    BY <1>6 DEF Recording, ObservePort, DetectNothing, DetectAcquire, DetectBudget,
       DetectProbe, PutEvidence, CiteEvidence, Completed, Taken
  <2>3. ~already_terminated
    BY <1>6, <1>b DEF Recording, ObservePort, DetectNothing, DetectAcquire,
       DetectBudget, DetectProbe, PutEvidence, CiteEvidence, At, WellFormed
  <2> QED BY <1>d, <2>1, <2>2, <2>3
<1>7. CASE Flushing
  <2>1. UNCHANGED <<probes, crashes, stop, unpolled>>
    BY <1>7 DEF Flushing, FlushSync, MarkUnitsDone, EmitProgress, FlushCursor
  <2>2. Taken \subseteq Taken'
    BY <1>7 DEF Flushing, FlushSync, MarkUnitsDone, EmitProgress, FlushCursor, At,
       Taken, Tidy
  <2>3. ~already_terminated
    BY <1>7, <1>b DEF Flushing, FlushSync, MarkUnitsDone, EmitProgress, FlushCursor,
       At, WellFormed
  <2> QED BY <1>d, <2>1, <2>2, <2>3
<1>8. CASE Closing
  <2>1. CASE EmitTerminal
    BY <2>1, <1>b, <1>d DEF EmitTerminal, At, WellFormed, Taken
  <2>2. CASE FinalSync \/ FinalCursor
    BY <2>2, <1>c, <1>d DEF FinalSync, FinalCursor, Taken
  <2>3. CASE Publish
    <3>1. /\ Taken \ {0} \subseteq Taken' /\ UNCHANGED <<log, probes, crashes>>
          /\ unpolled' = {}
      BY <2>3 DEF Publish, ForgetRun, At, Behind, Tidy, HoldsUnit, Ending, Taken
    <3>2. stop = "packetd" => already_terminated
      BY <2>3 DEF Publish, At, Concluded, Ends, TerminalKind, already_terminated,
         is_terminal, TerminalKinds
    <3>3. CASE stop = "packetd"
      BY <1>c, <3>1, <3>2, <3>3 DEF Counted, ReprobedOnlyAfterCrash
    <3>4. CASE stop # "packetd"
      BY <1>c, <1>d, <3>1, <3>4
    <3> QED BY <3>3, <3>4
  <2> QED BY <1>8, <2>1, <2>2, <2>3 DEF Closing
<1>9. ASSUME NEW u \in Units, ConnectTask(u)
      PROVE  Counted'
  <2>1. Taken' = Taken /\ UNCHANGED <<log, stop, crashes>>
    BY <1>9, <1>a DEF ConnectTask, Connects, ConnectFinishes, TaskEnds, Taken
  <2>2. CASE Connects(u)
    <3>1. u \in unpolled /\ unpolled' = unpolled \ {u} /\ u \in Taken
      BY <1>a, <2>2 DEF Connects, Taken
    <3>2. probes' = [probes EXCEPT ![u] = @ + 1]
      BY <2>2 DEF Connects, Probe
    <3>3. probes[u] <= crashes /\ \A v \in Units : v # u => probes'[v] = probes[v]
      BY <1>a, <3>1, <3>2 DEF Counted
    <3>4. probes'[u] <= 1 + crashes
      BY <1>a, <3>2, <3>3
    <3> QED BY <1>a, <1>c, <2>1, <3>1, <3>3, <3>4 DEF Counted, ReprobedOnlyAfterCrash
  <2>3. CASE ConnectFinishes(u) \/ TaskEnds(u)
    <3>1. UNCHANGED <<probes, unpolled>>
      BY <2>3 DEF ConnectFinishes, TaskEnds
    <3> QED BY <1>c, <1>d, <2>1, <3>1
  <2> QED BY <1>9, <2>2, <2>3 DEF ConnectTask
<1>10. CASE Cancel
  BY <1>10, <1>c, <1>d DEF Cancel, Taken
<1>11. CASE Crash
  <2>1. probes' = probes /\ crashes' = crashes + 1 /\ unpolled' = {}
    BY <1>11 DEF Crash, ForgetRun
  <2> QED BY <1>a, <2>1 DEF Counted, ReprobedOnlyAfterCrash
<1>12. CASE UNCHANGED vars
  BY <1>12, <1>c, <1>d DEF Taken
<1> QED
  BY <1>1, <1>2, <1>3, <1>4, <1>5, <1>6, <1>7, <1>8, <1>9, <1>10, <1>11, <1>12
     DEF Next, RunStep

\* Runs that end by themselves never repeat a unit: a cancelled run drains and
\* flushes what it dispatched, a failed one does too or ends the scan, so a
\* unit is probed at most once more for every crash.
THEOREM OnlyCrashesRepeat == Spec => []ReprobedOnlyAfterCrash
<1>1. Init => Concluded /\ Counted
  BY DEF Init, Concluded, StatusBackedByLog, TerminalKinds, Counted, ReprobedOnlyAfterCrash
<1>2. TypeInv /\ WellFormed /\ Tidy /\ Behind /\ Concluded /\ Counted /\ [Next]_vars
        => Concluded' /\ Counted'
  BY ConcludedStep, CountedStep
<1>3. Counted => ReprobedOnlyAfterCrash
  BY DEF Counted
<1> QED BY <1>1, <1>2, <1>3, BehindInvariant, WellFormedInvariant, PTL DEF Spec

------------------------------------------------------------------------------
(* What readers of the log rely on.                                         *)

\* Every observation is of a unit of the plan, and a service is reported only
\* of a port that was reported before it.
ObservedInTurn ==
    \A i \in 1..Len(log) :
        /\ log[i].kind \in {"port", "service"} => log[i].of \in Units
        /\ log[i].kind = "service" => Logged(log[i].of, i - 1)

LEMMA ObservedAppend ==
    ASSUME TypeOK, ObservedInTurn, NEW kind, NEW of, append(Event(kind, of)),
           kind \in {"port", "service"} => of \in Units,
           kind = "service" => Logged(of, Len(log))
    PROVE  ObservedInTurn'
<1>1. /\ log \in Seq([kind : EventKinds, of : Nat])
      /\ log' = Append(log, Event(kind, of))
  BY DEF append, TypeOK, DiskTypes
<1>2. /\ Len(log) \in Nat /\ Len(log') = Len(log) + 1
      /\ \A i \in 1..Len(log) : log'[i] = log[i]
      /\ log'[Len(log) + 1].kind = kind /\ log'[Len(log) + 1].of = of
  BY <1>1 DEF Event
<1>3. ASSUME NEW i \in 1..Len(log)
      PROVE  /\ log'[i].kind \in {"port", "service"} => log'[i].of \in Units
             /\ log'[i].kind = "service" =>
                  \E j \in 1..(i - 1) : log'[j] = Event("port", log'[i].of)
  BY <1>2, <1>3 DEF ObservedInTurn, Logged
<1>4. kind = "service" => \E j \in 1..Len(log) : log'[j] = Event("port", of)
  BY <1>2 DEF Logged
<1>5. ASSUME NEW i \in 1..Len(log')
      PROVE  /\ log'[i].kind \in {"port", "service"} => log'[i].of \in Units
             /\ log'[i].kind = "service" =>
                  \E j \in 1..(i - 1) : log'[j] = Event("port", log'[i].of)
  <2>1. CASE i \in 1..Len(log)
    BY <1>3, <2>1
  <2>2. CASE i = Len(log) + 1
    <3>1. i - 1 = Len(log) /\ log'[i].kind = kind /\ log'[i].of = of
      BY <1>2, <2>2
    <3> QED BY <1>4, <3>1
  <2> QED BY <1>2, <2>1, <2>2
<1> QED BY <1>5 DEF ObservedInTurn, Logged

LEMMA ObservedStep ==
    TypeInv /\ Durable /\ ObservedInTurn /\ [Next]_vars => ObservedInTurn'
<1> SUFFICES ASSUME TypeInv, Durable, ObservedInTurn, [Next]_vars PROVE ObservedInTurn'
  OBVIOUS
<1>a. ASSUME UNCHANGED log PROVE ObservedInTurn'
  BY <1>a DEF ObservedInTurn, Logged
<1>b. ASSUME NEW kind, NEW of, append(Event(kind, of)), kind \notin {"port", "service"}
      PROVE  ObservedInTurn'
  BY <1>b, ObservedAppend DEF TypeInv
<1>1. ASSUME NEW s \in Scopes, NEW a \in AllowSets, NEW m \in Modes, Begin(s, a, m)
      PROVE  ObservedInTurn'
  BY <1>1, <1>a DEF Begin
<1>2. CASE Opening
  BY <1>2, <1>a, <1>b DEF Opening, EmitStarted, ReturnTerminated, RefuseScope
<1>3. CASE SyncAppend
  BY <1>3, <1>a DEF SyncAppend
<1>4. CASE Discovery
  BY <1>4, <1>a, <1>b DEF Discovery, DiscoverStop, StopDiscovery, DiscoverReserve,
     DiscoverAnswer, PutHost, EmitHost, DiscoveryDone
<1>5. CASE Driving
  BY <1>5, <1>a DEF Driving, LoadDone, DriveStop, BreakDrive, DriveSkip, DriveUnit,
     AcquireCancelled, Acquire, BudgetExhausted, Dispatch, SynAnswer, SynFails,
     Join, Joined, Drained
<1>6. CASE Recording
  <2>1. CASE CiteEvidence
    <3>1. append(Event("service", cur)) /\ pc = "cite"
      BY <2>1 DEF CiteEvidence, At
    <3>2. cur \in Units /\ Logged(cur, Len(log))
      BY <3>1 DEF TypeInv, Control, HoldsUnit, Durable
    <3> QED BY <3>1, <3>2, ObservedAppend DEF TypeInv
  <2>2. CASE ObservePort
    <3>1. append(Event("port", cur)) /\ cur \in Units
      BY <2>2 DEF ObservePort, At, TypeInv, Control, HoldsUnit
    <3> QED BY <3>1, ObservedAppend DEF TypeInv
  <2>3. CASE ~CiteEvidence /\ ~ObservePort
    BY <1>a, <1>6, <2>3 DEF Recording, DetectNothing, DetectAcquire, DetectBudget,
       DetectProbe, PutEvidence
  <2> QED BY <2>1, <2>2, <2>3
<1>7. CASE Flushing
  BY <1>7, <1>a, <1>b DEF Flushing, FlushSync, MarkUnitsDone, EmitProgress, FlushCursor
<1>8. CASE Closing
  <2>1. CASE EmitTerminal
    <3>1. stop # "cancelled" => TerminalKind(stop) \notin {"port", "service"}
      BY <2>1 DEF EmitTerminal, At, TypeInv, TypeOK, ControlTypes, Control, Ending,
         Reasons, TerminalKind
    <3> QED BY <2>1, <3>1, <1>a, <1>b DEF EmitTerminal
  <2>2. CASE FinalSync \/ FinalCursor \/ Publish
    BY <2>2, <1>a DEF FinalSync, FinalCursor, Publish
  <2> QED BY <1>8, <2>1, <2>2 DEF Closing
<1>9. ASSUME NEW u \in Units, ConnectTask(u)
      PROVE  ObservedInTurn'
  BY <1>9, <1>a DEF ConnectTask, Connects, ConnectFinishes, TaskEnds
<1>10. CASE Cancel
  BY <1>10, <1>a DEF Cancel
<1>11. CASE Crash
  <2>1. PICK k \in synced..Len(log) : log' = SubSeq(log, 1, k)
    BY <1>11 DEF Crash
  <2>2. k \in 0..Len(log) /\ Len(log') = k /\ \A i \in 1..k : log'[i] = log[i]
    BY <2>1, SubSeqFacts DEF TypeInv
  <2>3. Len(log) \in Nat
    BY DEF TypeInv, TypeOK, DiskTypes
  <2> QED BY <2>2, <2>3 DEF ObservedInTurn, Logged
<1>12. CASE UNCHANGED vars
  BY <1>12, <1>a
<1> QED
  BY <1>1, <1>2, <1>3, <1>4, <1>5, <1>6, <1>7, <1>8, <1>9, <1>10, <1>11, <1>12
     DEF Next, RunStep

\* A log on disk reads, through every crash and resume, as the fold takes it to:
\* opened once, by its start or a refusal; closed by nothing but its end;
\* observations of the plan's units alone, a service after its port; complete
\* only over the plan.
ReadableLog ==
    /\ StartedOnceAndFirst
    /\ TerminalIsLast
    /\ ObservedInTurn
    /\ CompletedCoversPlan

\* What Results assumes of the logs of earlier scans is what run leaves.
THEOREM LogsReadAsTaken == Spec => []ReadableLog
<1>1. Init => Durable /\ ObservedInTurn
  BY DEF Init, Durable, ObservedInTurn, Units
<1>2. TypeInv /\ Durable /\ ObservedInTurn /\ [Next]_vars => Durable' /\ ObservedInTurn'
  BY DurableStep, ObservedStep
<1>3. Spec => []ObservedInTurn
  BY <1>1, <1>2, TypeInvariant, PTL DEF Spec
<1>4. StartedOnceAndFirst /\ TerminalIsLast /\ ObservedInTurn /\ CompletedCoversPlan
        => ReadableLog
  BY DEF ReadableLog
<1> QED BY <1>3, <1>4, StartedOnce, TerminalEndsLog, CompletedMeansComplete, PTL
==============================================================================
