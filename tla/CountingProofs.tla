--------------------------- MODULE CountingProofs ----------------------------
(***************************************************************************)
(* What is proved of Scheduler by counting the units a run has in hand,    *)
(* for every plan, flush batch, concurrency, number of worker threads and  *)
(* of service probes: how much leaves, how much of it after a cancel, and  *)
(* how far the ledger can be ahead of the row in the store, which is how   *)
(* much spend one crash can lose.                                          *)
(*                                                                         *)
(* Each unit a run has dispatched and not yet flushed is in exactly one    *)
(* place (Apart, in SchedulerProofs), those places hold a bounded number   *)
(* of units together (Room), a task that has not been polled has reserved  *)
(* what it will emit (Accounted) and holds a permit (Quiet), and no unit   *)
(* costs more than one probe and its service probes (Ahead).               *)
(***************************************************************************)
EXTENDS SchedulerProofs, FiniteSetTheorems

USE SchedulerAssumption DEF SchedulerAssumption
USE DEF vars, disk, ledger, plan, tasks, record, flushed, history

\* How many units each place holds.
Batched == Cardinality(batch)
Unsent  == Cardinality(unpolled)
Holding == Cardinality(inFlight \ released)
Leaving == Cardinality(released)
Flying  == Cardinality(inFlight)
Waiting == Cardinality(finished)
Held    == IF pc \in HoldsUnit THEN 1 ELSE 0
Failed  == IF stop = "packetd" THEN 1 ELSE 0

\* How many tasks a run can have that are not joinable: those with a permit
\* and those a worker is ending.  A probe over packetd is awaited inline.
Permits == IF run.mode = "connect" THEN Concurrency ELSE 0
Slack   == IF run.mode = "connect" THEN Concurrency + Workers ELSE 0

\* The places hold a bounded number of units, in all and where more may be
\* dispatched: permits bound the probes in flight, worker threads the tasks
\* that end, joining everything finished bounds those waiting, and a full
\* batch is flushed before the next unit.
Room ==
    pc # "idle" =>
      /\ Holding <= Permits
      /\ Leaving <= (IF run.mode = "connect" THEN Workers ELSE 0)
      /\ Batched + Flying + Waiting + Held + Failed <= FlushBatch + Slack
      /\ pc \in {"drive", "acquire", "spend"} => Batched < FlushBatch
      /\ pc \in {"drive", "acquire", "spend"} \/ (pc \in InFlush /\ ~drained)
           => Flying + Waiting <= Slack
      /\ pc = "spend" /\ run.mode = "connect" => Holding < Concurrency

------------------------------------------------------------------------------
(* Counting.                                                                *)

LEMMA UnitsFinite ==
    ASSUME NEW S \in SUBSET Units
    PROVE  IsFiniteSet(S) /\ Cardinality(S) \in Nat
<1>1. IsFiniteSet(Units)
  BY FS_Interval DEF Units
<1>2. IsFiniteSet(S)
  BY <1>1, FS_Subset
<1> QED BY <1>2, FS_CardinalityType

LEMMA OneMore ==
    ASSUME NEW S \in SUBSET Units, NEW x \in Units, x \notin S
    PROVE  Cardinality(S \cup {x}) = Cardinality(S) + 1
BY UnitsFinite, FS_AddElement

LEMMA OneLess ==
    ASSUME NEW S \in SUBSET Units, NEW x \in S
    PROVE  Cardinality(S \ {x}) = Cardinality(S) - 1
BY UnitsFinite, FS_RemoveElement

LEMMA SizeTypes ==
    ASSUME TypeInv
    PROVE  /\ Batched \in Nat /\ Flying \in Nat /\ Waiting \in Nat
           /\ Unsent \in Nat /\ Holding \in Nat /\ Leaving \in Nat
           /\ batch = {} => Batched = 0
           /\ inFlight = {} => Flying = 0
           /\ finished = {} => Waiting = 0
           /\ unpolled = {} => Unsent = 0
           /\ released = {} => Leaving = 0
<1>1. /\ batch \in SUBSET Units /\ inFlight \in SUBSET Units /\ finished \in SUBSET Units
      /\ unpolled \in SUBSET Units /\ released \in SUBSET Units
      /\ inFlight \ released \in SUBSET Units
  BY DEF TypeInv, TypeOK, RunTypes
<1>2. Cardinality({}) = 0
  BY FS_EmptySet
<1> QED BY <1>1, <1>2, UnitsFinite
        DEF Batched, Flying, Waiting, Unsent, Holding, Leaving

\* A task that is not joinable holds its permit or has just dropped it, and one
\* that has not been polled still holds it.
LEMMA FlightSizes ==
    ASSUME TypeInv
    PROVE  Flying = Holding + Leaving /\ Unsent <= Holding
<1>1. /\ inFlight \in SUBSET Units /\ released \subseteq inFlight
      /\ unpolled \subseteq inFlight \ released
  BY DEF TypeInv, TypeOK, RunTypes
<1>2. IsFiniteSet(inFlight)
  BY <1>1, UnitsFinite
<1>3. inFlight \cap released = released
  BY <1>1
<1>4. Cardinality(inFlight \ released) = Cardinality(inFlight) - Cardinality(inFlight \cap released)
  BY <1>2, FS_Difference
<1>5. IsFiniteSet(inFlight \ released)
  BY <1>2, FS_Difference
<1>6. Cardinality(unpolled) <= Cardinality(inFlight \ released)
  BY <1>1, <1>5, FS_Subset
<1>7. /\ Cardinality(inFlight) \in Nat /\ Cardinality(released) \in Nat
      /\ Cardinality(unpolled) \in Nat /\ Cardinality(inFlight \ released) \in Nat
  <2>1. /\ unpolled \in SUBSET Units /\ released \in SUBSET Units
        /\ inFlight \ released \in SUBSET Units
    BY <1>1
  <2> QED BY <1>1, <2>1, UnitsFinite
<1>8. Flying = Holding + Leaving
  <2>1. Cardinality(inFlight \ released) = Cardinality(inFlight) - Cardinality(released)
    BY <1>3, <1>4
  <2> QED BY <1>7, <2>1 DEF Flying, Holding, Leaving
<1>9. Unsent <= Holding
  BY <1>6 DEF Unsent, Holding
<1> QED BY <1>8, <1>9

\* Sets that do not change keep their sizes.
LEMMA SameSizes ==
    /\ batch' = batch => Batched' = Batched
    /\ inFlight' = inFlight => Flying' = Flying
    /\ finished' = finished => Waiting' = Waiting
    /\ unpolled' = unpolled => Unsent' = Unsent
    /\ released' = released => Leaving' = Leaving
    /\ UNCHANGED <<inFlight, released>> => Holding' = Holding
BY DEF Batched, Flying, Waiting, Unsent, Holding, Leaving

\* A unit that is recorded moves into the batch.
LEMMA CompletedSizes ==
    ASSUME TypeInv, Apart, pc \in HoldsUnit, Completed
    PROVE  Batched' = Batched + 1
<1>1. cur \in Units /\ batch \in SUBSET Units /\ cur \notin batch
  BY DEF TypeInv, TypeOK, RunTypes, Control, Apart
<1> QED BY <1>1, OneMore DEF Completed, Batched

\* A task connects, drops its permit, and ends.
LEMMA ConnectSizes ==
    ASSUME TypeInv, NEW u \in Units, Connects(u)
    PROVE  Unsent' = Unsent - 1 /\ Unsent \in Nat /\ Unsent > 0
<1>1. unpolled \in SUBSET Units /\ u \in unpolled /\ unpolled' = unpolled \ {u}
  BY DEF TypeInv, TypeOK, RunTypes, Connects
<1>2. unpolled' \in SUBSET Units
  BY <1>1
<1>3. Unsent \in Nat /\ Cardinality(unpolled') \in Nat
  BY <1>1, <1>2, UnitsFinite DEF Unsent
<1>4. Cardinality(unpolled \ {u}) = Cardinality(unpolled) - 1
  BY <1>1, OneLess
<1> QED BY <1>1, <1>3, <1>4 DEF Unsent

LEMMA ReleaseSizes ==
    ASSUME TypeInv, NEW u \in Units, ConnectFinishes(u)
    PROVE  /\ Holding' = Holding - 1 /\ Leaving' = Leaving + 1
           /\ Leaving < Workers /\ Holding > 0
<1>1. /\ inFlight \in SUBSET Units /\ released \in SUBSET Units
      /\ u \in inFlight \ released /\ u \notin released
  BY DEF TypeInv, TypeOK, RunTypes, ConnectFinishes
<1>2. /\ released' = released \cup {u}
      /\ inFlight' \ released' = (inFlight \ released) \ {u}
      /\ Leaving < Workers
  BY DEF ConnectFinishes, Leaving
<1>3. inFlight \ released \in SUBSET Units
  BY <1>1
<1>4. Cardinality((inFlight \ released) \ {u}) = Cardinality(inFlight \ released) - 1
  BY <1>1, <1>3, OneLess
<1>5. Cardinality(released \cup {u}) = Cardinality(released) + 1
  BY <1>1, OneMore
<1>6. Holding > 0
  <2>1. (inFlight \ released) \ {u} \in SUBSET Units
    BY <1>1
  <2>2. /\ Cardinality((inFlight \ released) \ {u}) \in Nat
        /\ Cardinality(inFlight \ released) \in Nat
    BY <1>3, <2>1, UnitsFinite
  <2> QED BY <1>4, <2>2 DEF Holding
<1> QED BY <1>2, <1>4, <1>5, <1>6 DEF Holding, Leaving

LEMMA EndSizes ==
    ASSUME TypeInv, Apart, NEW u \in Units, TaskEnds(u)
    PROVE  /\ Flying' = Flying - 1 /\ Waiting' = Waiting + 1
           /\ Leaving' = Leaving - 1 /\ Holding' = Holding
<1>1. /\ inFlight \in SUBSET Units /\ finished \in SUBSET Units
      /\ released \in SUBSET Units
      /\ u \in inFlight /\ u \in released /\ u \notin finished
  BY DEF TypeInv, TypeOK, RunTypes, Apart, TaskEnds
<1>2. /\ inFlight' = inFlight \ {u} /\ finished' = finished \cup {u}
      /\ released' = released \ {u}
      /\ inFlight' \ released' = inFlight \ released
  BY <1>1 DEF TaskEnds
<1>3. Flying' = Flying - 1
  BY <1>1, <1>2, OneLess DEF Flying
<1>4. Leaving' = Leaving - 1
  BY <1>1, <1>2, OneLess DEF Leaving
<1>5. Waiting' = Waiting + 1
  BY <1>1, <1>2, OneMore DEF Waiting
<1> QED BY <1>2, <1>3, <1>4, <1>5 DEF Holding

LEMMA JoinSizes ==
    ASSUME TypeInv, NEW u \in Units, Join(u)
    PROVE  Waiting' = Waiting - 1
<1>1. finished \in SUBSET Units /\ u \in finished /\ finished' = finished \ {u}
  BY DEF TypeInv, TypeOK, RunTypes, Join
<1> QED BY <1>1, OneLess DEF Waiting

LEMMA DispatchSizes ==
    ASSUME TypeInv, Dispatch, run.mode # "syn"
    PROVE  Flying' = Flying + 1 /\ Holding' = Holding + 1 /\ Unsent' = Unsent + 1
<1>1. /\ inFlight \in SUBSET Units /\ cursor \in Units
      /\ unpolled \in SUBSET inFlight /\ released \in SUBSET inFlight
      /\ cursor \notin inFlight
  BY DEF TypeInv, TypeOK, RunTypes, Control, Dispatch, At, Units
<1>2. /\ inFlight' = inFlight \cup {cursor} /\ unpolled' = unpolled \cup {cursor}
      /\ inFlight' \ released' = (inFlight \ released) \cup {cursor}
  BY <1>1 DEF Dispatch
<1>3. /\ inFlight \ released \in SUBSET Units /\ unpolled \in SUBSET Units
      /\ cursor \notin inFlight \ released /\ cursor \notin unpolled
  BY <1>1
<1>4. Flying' = Flying + 1
  BY <1>1, <1>2, OneMore DEF Flying
<1>5. Holding' = Holding + 1
  BY <1>1, <1>2, <1>3, OneMore DEF Holding
<1>6. Unsent' = Unsent + 1
  BY <1>1, <1>2, <1>3, OneMore DEF Unsent
<1> QED BY <1>4, <1>5, <1>6

------------------------------------------------------------------------------
(* The places hold few.                                                     *)

\* A run that begins has nothing in hand.
LEMMA NothingHeld ==
    ASSUME Batched' = 0, Flying' = 0, Waiting' = 0, Holding' = 0, Leaving' = 0,
           pc' = "entry", stop' = "none"
    PROVE  Room'
<1>1. Permits' >= 0 /\ (IF run'.mode = "connect" THEN Workers ELSE 0) >= 0
  BY DEF Permits
<1>2. FlushBatch + Slack' >= 0
  <2>1. FlushBatch \in Nat /\ Concurrency \in Nat /\ Workers \in Nat
    OBVIOUS
  <2>2. CASE run'.mode = "connect"
    BY <2>1, <2>2 DEF Slack
  <2>3. CASE run'.mode # "connect"
    BY <2>1, <2>3 DEF Slack
  <2> QED BY <2>2, <2>3
<1>3. Held' = 0 /\ Failed' = 0
  BY DEF Held, Failed, HoldsUnit
<1>4. Batched' + Flying' + Waiting' + Held' + Failed' = 0
  BY <1>3
<1>5. Batched' + Flying' + Waiting' + Held' + Failed' <= FlushBatch + Slack'
  BY <1>2, <1>4
<1> HIDE DEF Batched, Flying, Waiting, Holding, Leaving, Permits, Slack, Held, Failed
<1> QED BY <1>1, <1>5 DEF Room, InFlush

LEMMA RoomStep == TypeInv /\ Tidy /\ Behind /\ Apart /\ Room /\ [Next]_vars => Room'
<1> SUFFICES ASSUME TypeInv, Tidy, Behind, Apart, Room, [Next]_vars PROVE Room'
  OBVIOUS
<1>a. /\ Batched \in Nat /\ Flying \in Nat /\ Waiting \in Nat
      /\ batch = {} => Batched = 0
      /\ inFlight = {} => Flying = 0
      /\ finished = {} => Waiting = 0
      /\ Holding \in Nat /\ Leaving \in Nat /\ Flying = Holding + Leaving
      /\ released = {} => Leaving = 0
      /\ FlushBatch \in Nat /\ FlushBatch >= 1 /\ Concurrency \in Nat /\ Workers \in Nat
      /\ Permits \in Nat /\ Slack \in Nat
      /\ run.mode = "connect" => Permits = Concurrency /\ Slack = Concurrency + Workers
      /\ run.mode # "connect" => Permits = 0 /\ Slack = 0
  BY SizeTypes, FlightSizes DEF Permits, Slack
<1>b. /\ batch' = batch => Batched' = Batched
      /\ inFlight' = inFlight => Flying' = Flying
      /\ finished' = finished => Waiting' = Waiting
      /\ released' = released => Leaving' = Leaving
      /\ UNCHANGED <<inFlight, released>> => Holding' = Holding
      /\ batch' = {} => Batched' = 0
      /\ run' = run => Permits' = Permits /\ Slack' = Slack
  BY SameSizes, FS_EmptySet DEF Batched, Permits, Slack
<1>c. /\ run.mode \in {"connect", "syn"}
      /\ stop # "none" => pc \notin BeforeStop
  BY DEF TypeInv, TypeOK, ControlTypes, Tidy, BeforeStop, Ending
<1> USE <1>a, <1>b DEF Room, At, Held, Failed, HoldsUnit, InFlush
<1> HIDE DEF Batched, Flying, Waiting, Holding, Leaving, Permits, Slack
<1>1. ASSUME NEW s \in Scopes, NEW a \in AllowSets, NEW m \in Modes, Begin(s, a, m)
      PROVE  Room'
  <2>1. Batched = 0 /\ Flying = 0 /\ Waiting = 0 /\ stop = "none"
    BY <1>1, <1>c DEF Begin, Behind, BeforeStop
  <2>2. /\ Batched' = 0 /\ Flying' = 0 /\ Waiting' = 0 /\ Holding' = 0 /\ Leaving' = 0
        /\ pc' = "entry" /\ stop' = "none"
    BY <1>1, <2>1 DEF Begin
  <2> QED BY <2>2, NothingHeld
<1>2. CASE ForgetRun
  BY <1>2 DEF ForgetRun
<1>3. CASE Opening \/ SyncAppend
  <2>1. CASE ReturnTerminated
    BY <1>2, <2>1 DEF ReturnTerminated
  <2>2. CASE SyncAppend
    BY <2>2 DEF SyncAppend
  <2>3. CASE RefuseScope
    BY <2>3 DEF RefuseScope
  <2>4. CASE EmitStarted
    BY <2>4 DEF EmitStarted
  <2> QED BY <1>3, <2>1, <2>2, <2>3, <2>4 DEF Opening
<1>4. CASE Discovery
  <2>1. Batched = 0 /\ Flying = 0 /\ Waiting = 0
    BY <1>4 DEF Discovery, DiscoverStop, DiscoverReserve, DiscoverAnswer, PutHost,
       EmitHost, DiscoveryDone, Behind
  <2>2. /\ UNCHANGED <<batch, inFlight, released, finished, run, drained>>
        /\ pc' \in {"discover", "discovering", "hostput", "hostlog", "load", "terminal"}
    BY <1>4 DEF Discovery, DiscoverStop, StopDiscovery, DiscoverReserve, DiscoverAnswer,
       PutHost, EmitHost, DiscoveryDone
  <2> QED BY <2>1, <2>2
<1>5. CASE Driving
  <2>1. CASE LoadDone
    BY <2>1 DEF LoadDone, Behind
  <2>2. CASE DriveStop \/ AcquireCancelled \/ BudgetExhausted
    BY <2>2 DEF DriveStop, AcquireCancelled, BudgetExhausted, BreakDrive
  <2>3. CASE DriveSkip \/ DriveUnit
    BY <2>3 DEF DriveSkip, DriveUnit
  <2>4. CASE Acquire
    BY <2>4 DEF Acquire, Holding
  <2>5. CASE Dispatch
    <3>1. /\ stop = "none" /\ stop' = "none"
          /\ Batched < FlushBatch /\ Flying + Waiting <= Slack
          /\ UNCHANGED <<batch, released, finished, run>>
      BY <2>5, <1>c DEF Dispatch, BeforeStop
    <3>2. CASE run.mode = "syn"
      BY <2>5, <3>1, <3>2 DEF Dispatch
    <3>3. CASE run.mode # "syn"
      <4>1. Flying' = Flying + 1 /\ Holding' = Holding + 1 /\ pc' = "join"
        BY <2>5, <3>3, DispatchSizes DEF Dispatch
      <4>2. Holding < Concurrency /\ run.mode = "connect"
        BY <1>c, <2>5, <3>3 DEF Dispatch
      <4>3. run' = run /\ Leaving' = Leaving /\ Batched' = Batched /\ Waiting' = Waiting
        BY <3>1
      <4>4. Held' = 0 /\ Failed' = 0
        BY <3>1, <4>1
      <4>5. Batched' + Flying' + Waiting' + Held' + Failed' <= FlushBatch + Slack'
        BY <3>1, <4>1, <4>3, <4>4
      <4>6. /\ Holding' <= Permits'
            /\ Leaving' <= (IF run'.mode = "connect" THEN Workers ELSE 0)
        BY <2>5, <4>1, <4>2, <4>3 DEF Dispatch
      <4> QED BY <4>1, <4>5, <4>6
    <3> QED BY <3>2, <3>3
  <2>6. CASE SynAnswer \/ SynFails
    BY <2>6 DEF SynAnswer, SynFails
  <2>7. ASSUME NEW u \in Units, Join(u)
        PROVE  Room'
    BY <2>7, JoinSizes DEF Join
  <2>8. CASE Joined
    BY <2>8, <1>c DEF Joined, Batched, BeforeStop
  <2>9. CASE Drained
    BY <2>9 DEF Drained
  <2> QED BY <1>5, <2>1, <2>2, <2>3, <2>4, <2>5, <2>6, <2>7, <2>8, <2>9 DEF Driving
<1>6. CASE Recording
  <2>1. /\ UNCHANGED <<inFlight, released, finished, run, stop, drained>>
        /\ pc \in HoldsUnit
        /\ \/ batch' = batch /\ pc' \in {"detect", "detectspend", "put", "cite"}
           \/ Completed
    BY <1>6 DEF Recording, ObservePort, DetectNothing, DetectAcquire, DetectBudget,
       DetectProbe, PutEvidence, CiteEvidence
  <2>2. CASE batch' = batch /\ pc' \in {"detect", "detectspend", "put", "cite"}
    BY <2>1, <2>2
  <2>3. CASE Completed
    <3>1. Batched' = Batched + 1 /\ pc' \in {"drain", "join"}
      BY <2>1, <2>3, CompletedSizes DEF Completed
    <3> QED BY <2>1, <3>1
  <2> QED BY <2>1, <2>2, <2>3
<1>7. CASE Flushing
  <2>1. CASE FlushSync \/ MarkUnitsDone \/ EmitProgress
    <3>1. /\ UNCHANGED <<batch, inFlight, released, finished, run, stop, drained>>
          /\ pc \in InFlush /\ pc' \in {"mark", "progress", "cursor"}
      BY <2>1 DEF FlushSync, MarkUnitsDone, EmitProgress
    <3> QED BY <3>1
  <2>2. CASE FlushCursor
    <3>1. /\ UNCHANGED <<inFlight, released, finished, run, stop, drained>>
          /\ Batched' = 0 /\ pc' = IF drained THEN "terminal" ELSE "drive"
          /\ pc = "cursor"
      BY <2>2 DEF FlushCursor
    <3> QED BY <3>1
  <2> QED BY <1>7, <2>1, <2>2 DEF Flushing
<1>8. CASE Closing
  BY <1>2, <1>8 DEF Closing, EmitTerminal, FinalSync, FinalCursor, Publish
<1>9. ASSUME NEW u \in Units, ConnectTask(u)
      PROVE  Room'
  <2>1. UNCHANGED <<batch, run, pc, stop, drained>>
    BY <1>9 DEF ConnectTask, Connects, ConnectFinishes, TaskEnds
  <2>2. CASE Connects(u)
    BY <2>1, <2>2 DEF Connects
  <2>3. CASE ConnectFinishes(u)
    <3>1. /\ Holding' = Holding - 1 /\ Leaving' = Leaving + 1
          /\ Leaving < Workers /\ Holding > 0
          /\ Flying' = Flying /\ Waiting' = Waiting
      BY <2>3, ReleaseSizes DEF ConnectFinishes
    <3>2. pc # "idle" => run.mode = "connect"
      BY <1>c, <3>1
    <3> QED BY <2>1, <3>1, <3>2
  <2>4. CASE TaskEnds(u)
    <3>1. /\ Flying' = Flying - 1 /\ Waiting' = Waiting + 1
          /\ Leaving' = Leaving - 1 /\ Holding' = Holding
      BY <2>4, EndSizes
    <3> QED BY <2>1, <3>1
  <2> QED BY <1>9, <2>2, <2>3, <2>4 DEF ConnectTask
<1>10. CASE Cancel \/ Crash \/ UNCHANGED vars
  BY <1>2, <1>10 DEF Cancel, Crash
<1> QED BY <1>1, <1>3, <1>4, <1>5, <1>6, <1>7, <1>8, <1>9, <1>10 DEF Next, RunStep
------------------------------------------------------------------------------
(* Never over budget.                                                       *)

\* What has left, and what tasks that have not been polled are still to send,
\* is accounted for by the live ledger, or by the stored one; a host's
\* discovery was reserved whole before it began, and a run that can end
\* without a crash has first stored what it spent.
Accounted ==
    /\ pc # "idle" => emitted + Unsent <= spent + lost
    /\ pc = "idle" => emitted <= row.packets + lost
    /\ pc = "discovering" => emitted + DiscoveryCost <= spent + lost
    /\ pc \in {"entry", "publish"} => row.packets = spent

LEMMA AccountedStep == TypeInv /\ Behind /\ Accounted /\ [Next]_vars => Accounted'
<1> SUFFICES ASSUME TypeInv, Behind, Accounted, [Next]_vars PROVE Accounted'
  OBVIOUS
<1>a. /\ row \in [status : Statuses, seq : Nat, packets : 0..MaxPackets]
      /\ row.packets \in 0..MaxPackets /\ spent \in 0..MaxPackets
      /\ emitted \in Nat /\ lost \in Nat /\ Unsent \in Nat
      /\ unpolled \subseteq inFlight
  BY SizeTypes DEF TypeInv, TypeOK, DiskTypes, RunTypes, HistoryTypes
<1>b. /\ unpolled' = unpolled => Unsent' = Unsent
      /\ unpolled = {} => Unsent = 0
  BY SameSizes, SizeTypes
<1>c. pc \in {"idle", "entry", "discover", "discovering", "hostput", "hostlog", "load"}
             \cup Ending
        => unpolled = {}
  BY <1>a DEF Behind
<1> USE <1>a, <1>b DEF Accounted, At
<1> HIDE DEF Unsent
<1>1. ASSUME NEW s \in Scopes, NEW a \in AllowSets, NEW m \in Modes, Begin(s, a, m)
      PROVE  Accounted'
  <2>1. row'.packets = row.packets /\ unpolled = {}
    BY <1>1, <1>c, StatusTypes DEF Begin
  <2> QED BY <1>1, <2>1 DEF Begin, resumed
<1>2. CASE Opening
  BY <1>2 DEF Opening, ReturnTerminated, ForgetRun, RefuseScope, EmitStarted
<1>3. CASE SyncAppend
  BY <1>3 DEF SyncAppend
<1>4. CASE Discovery
  <2>1. CASE DiscoverReserve
    BY <2>1, <1>c DEF DiscoverReserve
  <2>2. CASE DiscoverAnswer
    BY <2>2, <1>c DEF DiscoverAnswer
  <2>3. CASE DiscoverStop \/ PutHost \/ EmitHost \/ DiscoveryDone
    BY <2>3 DEF DiscoverStop, StopDiscovery, PutHost, EmitHost, DiscoveryDone
  <2> QED BY <1>4, <2>1, <2>2, <2>3 DEF Discovery
<1>5. CASE Driving
  <2>1. CASE Dispatch
    <3>1. spent' = spent + 1 /\ pc = "spend" /\ pc' \in {"syn", "join"} /\ lost' = lost
      BY <2>1 DEF Dispatch
    <3>2. CASE run.mode = "syn"
      BY <2>1, <3>1, <3>2 DEF Dispatch, Probe
    <3>3. CASE run.mode # "syn"
      <4>1. Unsent' = Unsent + 1 /\ emitted' = emitted
        BY <2>1, <3>3, DispatchSizes DEF Dispatch
      <4> QED BY <3>1, <4>1
    <3> QED BY <3>2, <3>3
  <2>2. CASE ~Dispatch
    BY <1>5, <2>2 DEF Driving, LoadDone, DriveStop, BreakDrive, DriveSkip,
       DriveUnit, AcquireCancelled, Acquire, BudgetExhausted, SynAnswer,
       SynFails, Join, Joined, Drained
  <2> QED BY <2>1, <2>2
<1>6. CASE Recording
  BY <1>6 DEF Recording, ObservePort, DetectNothing, DetectAcquire, DetectBudget,
     DetectProbe, PutEvidence, CiteEvidence, Completed
<1>7. CASE Flushing
  <2>1. CASE FlushSync \/ MarkUnitsDone \/ EmitProgress
    BY <2>1 DEF FlushSync, MarkUnitsDone, EmitProgress
  <2>2. CASE FlushCursor
    BY <2>2 DEF FlushCursor
  <2> QED BY <1>7, <2>1, <2>2 DEF Flushing
<1>8. CASE Closing
  <2>1. CASE FinalCursor
    <3>1. row'.packets = spent
      BY <2>1, CursorTypes DEF FinalCursor
    <3> QED BY <2>1, <3>1 DEF FinalCursor
  <2>2. CASE Publish
    <3>1. row'.packets = row.packets /\ pc = "publish" /\ pc' = "idle"
      BY <2>2 DEF Publish, ForgetRun
    <3> QED BY <2>2, <3>1 DEF Publish
  <2>3. CASE EmitTerminal \/ FinalSync
    BY <2>3 DEF EmitTerminal, FinalSync
  <2> QED BY <1>8, <2>1, <2>2, <2>3 DEF Closing
<1>9. ASSUME NEW u \in Units, ConnectTask(u)
      PROVE  Accounted'
  <2>1. UNCHANGED <<pc, row, spent, lost>>
    BY <1>9 DEF ConnectTask, Connects, ConnectFinishes, TaskEnds
  <2>2. CASE Connects(u)
    <3>1. /\ Unsent' = Unsent - 1 /\ Unsent > 0
          /\ emitted' = emitted + 1
      BY <2>2, ConnectSizes DEF Connects, Probe
    <3> QED BY <2>1, <3>1, <1>c
  <2>3. CASE ConnectFinishes(u) \/ TaskEnds(u)
    <3>1. emitted' = emitted /\ unpolled' = unpolled
      BY <2>3 DEF ConnectFinishes, TaskEnds
    <3> QED BY <2>1, <3>1
  <2> QED BY <1>9, <2>2, <2>3 DEF ConnectTask
<1>10. CASE Cancel
  BY <1>10 DEF Cancel
<1>11. CASE Crash
  BY <1>11 DEF Crash, ForgetRun
<1>12. CASE UNCHANGED vars
  BY <1>12
<1> QED
  BY <1>1, <1>2, <1>3, <1>4, <1>5, <1>6, <1>7, <1>8, <1>9, <1>10, <1>11, <1>12
     DEF Next, RunStep

\* Whatever is cancelled, resumed or crashed, the packets a scan has put on the
\* wire stay within what its ledgers reserved, the part crashes lost included;
\* a probe is paid for when its task is spawned, before it can leave.
THEOREM NeverOverBudget == Spec => []EmissionWithinBudget
<1>1. Init => Accounted
  BY DEF Init, Accounted
<1>2. TypeInv /\ Behind /\ Accounted /\ [Next]_vars => Accounted'
  BY AccountedStep
<1>3. TypeInv /\ Accounted => EmissionWithinBudget
  BY SizeTypes
     DEF TypeInv, TypeOK, DiskTypes, RunTypes, HistoryTypes, Accounted,
         EmissionWithinBudget
<1> QED BY <1>1, <1>2, <1>3, BehindInvariant, PTL DEF Spec
------------------------------------------------------------------------------
(* No unit costs more than its share.                                       *)

\* What b units may cost, and the discovery of h hosts.
Cost(b)     == b * (1 + Candidates)
DiscCost(h) == h * DiscoveryCost

LEMMA CostFacts ==
    /\ Cost(0) = 0
    /\ \A b \in Nat : Cost(b) \in Nat /\ b <= Cost(b)
    /\ \A b \in Nat : Cost(b + 1) = Cost(b) + 1 + Candidates
<1>1. Cost(0) = 0
  BY DEF Cost
<1>2. \A b \in Nat : Cost(b) \in Nat /\ b <= Cost(b)
  BY DEF Cost
<1>3. \A b \in Nat : Cost(b + 1) = Cost(b) + 1 + Candidates
  BY DEF Cost
<1> QED BY <1>1, <1>2, <1>3

LEMMA CostSums ==
    /\ \A a, b \in Nat : Cost(a + b) = Cost(a) + Cost(b)
    /\ \A a, b \in Nat : a <= b => Cost(a) <= Cost(b)
<1>1. \A a, b \in Nat : Cost(a + b) = Cost(a) + Cost(b)
  BY DEF Cost
<1>2. ASSUME NEW a \in Nat, NEW b \in Nat, a <= b
      PROVE  Cost(a) <= Cost(b)
  <2>1. b - a \in Nat /\ a + (b - a) = b
    BY <1>2
  <2>2. Cost(b) = Cost(a) + Cost(b - a)
    BY <1>1, <2>1
  <2> QED BY <2>1, <2>2, CostFacts
<1> QED BY <1>1, <1>2

LEMMA DiscCostFacts ==
    /\ DiscCost(0) = 0
    /\ \A h \in Nat : DiscCost(h) \in Nat
    /\ \A h \in Nat : DiscCost(h + 1) = DiscCost(h) + DiscoveryCost
    /\ \A h, k \in Nat : h <= k => DiscCost(h) <= DiscCost(k)
<1>1. DiscCost(0) = 0 /\ \A h \in Nat : DiscCost(h) \in Nat
  BY DEF DiscCost
<1>2. \A h \in Nat : DiscCost(h + 1) = DiscCost(h) + DiscoveryCost
  BY DEF DiscCost
<1>3. ASSUME NEW h \in Nat, NEW k \in Nat, h <= k
      PROVE  DiscCost(h) <= DiscCost(k)
  BY <1>3 DEF DiscCost
<1> QED BY <1>1, <1>2, <1>3

\* What the unit in hand has cost so far, at most.
Hand ==
    IF pc \in {"syn", "observe"} THEN 1
    ELSE IF pc \in {"detect", "detectspend"} THEN 1 + Candidates - tries
    ELSE IF pc \in {"put", "cite"} THEN 1 + Candidates
    ELSE 0

\* What the discovery phase may have cost.
Discovered == IF Inventory THEN DiscCost(NumHosts) ELSE 0

\* How far the ledger is ahead of the store.
Lead == spent - row.packets

\* A unit recorded may have cost a probe and every candidate, one in flight,
\* waiting, or lost to packetd one probe; hosts were discovered one by one.
Ahead ==
    /\ pc = "entry" => Lead = 0
    /\ pc = "discover" => Lead <= DiscCost(host - 1)
    /\ pc \in {"discovering", "hostput", "hostlog"} => Lead <= DiscCost(host)
    /\ pc # "idle" =>
         Lead <= Discovered + Cost(Batched) + Flying + Waiting + Hand + Failed
    /\ pc = "entry" => host = 1
    /\ pc \in {"discover", "discovering", "hostput", "hostlog"} => Inventory

LEMMA LeadTypes ==
    ASSUME TypeInv
    PROVE  /\ Lead \in Int
           /\ UNCHANGED <<spent, row>> => Lead' = Lead
           /\ row' = row /\ spent' = spent + 1 => Lead' = Lead + 1
           /\ record_progress /\ spent' = spent => Lead' = 0
<1>1. spent \in Int /\ row.packets \in Int
  BY DEF TypeInv, TypeOK, RunTypes, DiskTypes
<1>2. ASSUME record_progress, spent' = spent
      PROVE  Lead' = 0
  <2>1. row'.packets = spent
    BY <1>2 DEF TypeInv, TypeOK, DiskTypes, record_progress
  <2> QED BY <1>1, <1>2, <2>1 DEF Lead
<1>3. Lead \in Int /\ (UNCHANGED <<spent, row>> => Lead' = Lead)
  BY <1>1 DEF Lead
<1>4. row' = row /\ spent' = spent + 1 => Lead' = Lead + 1
  BY <1>1 DEF Lead
<1> QED BY <1>2, <1>3, <1>4

\* A run begins level with the store; a reservation moves it ahead.
LEMMA LeadAtStart ==
    ASSUME NEW n \in Nat, row'.packets = n, spent' = n
    PROVE  Lead' = 0
BY DEF Lead

LEMMA LeadReserved ==
    ASSUME TypeInv, row' = row, spent' = spent + DiscoveryCost
    PROVE  Lead' = Lead + DiscoveryCost
<1>1. spent \in Int /\ row.packets \in Int /\ DiscoveryCost \in Int
  BY DEF TypeInv, TypeOK, RunTypes, DiskTypes
<1> QED BY <1>1 DEF Lead

LEMMA AheadStep ==
    TypeInv /\ Tidy /\ Behind /\ Apart /\ Accounted /\ Ahead /\ [Next]_vars
      => Ahead'
<1> SUFFICES ASSUME TypeInv, Tidy, Behind, Apart, Accounted, Ahead, [Next]_vars
             PROVE  Ahead'
  OBVIOUS
<1>a. /\ Batched \in Nat /\ Flying \in Nat /\ Waiting \in Nat
      /\ batch = {} => Batched = 0
      /\ inFlight = {} => Flying = 0
      /\ finished = {} => Waiting = 0
      /\ Candidates \in Nat /\ tries \in Nat /\ Lead \in Int
      /\ Cost(Batched) \in Nat /\ Cost(0) = 0
      /\ Cost(Batched + 1) = Cost(Batched) + 1 + Candidates
      /\ Discovered \in Nat
  <2>1. Discovered \in Nat
    BY DiscCostFacts DEF Discovered
  <2>2. tries \in Nat
    BY DEF TypeInv, TypeOK, RunTypes
  <2> QED BY <2>1, <2>2, SizeTypes, CostFacts, LeadTypes
<1>b. /\ batch' = batch => Batched' = Batched
      /\ inFlight' = inFlight => Flying' = Flying
      /\ finished' = finished => Waiting' = Waiting
      /\ batch' = {} => Batched' = 0
      /\ UNCHANGED <<spent, row>> => Lead' = Lead
      /\ row' = row /\ spent' = spent + 1 => Lead' = Lead + 1
  BY SameSizes, LeadTypes, FS_EmptySet DEF Batched
<1>c. stop # "none" => pc \notin BeforeStop
  BY DEF Tidy, BeforeStop, Ending
<1> USE <1>a, <1>b DEF Ahead, At, Hand, Failed
<1> HIDE DEF Batched, Flying, Waiting, Lead, Discovered, Cost, DiscCost
<1>1. ASSUME NEW s \in Scopes, NEW a \in AllowSets, NEW m \in Modes, Begin(s, a, m)
      PROVE  Ahead'
  <2>1. /\ Batched' = 0 /\ Flying' = 0 /\ Waiting' = 0
        /\ pc' = "entry" /\ host' = 1
    BY <1>1 DEF Begin, Behind
  <2>2. Lead' = 0
    <3>1. TypeInv' /\ Accounted'
      BY TypeStep, AccountedStep
    <3>2. row'.packets = spent' /\ spent' \in Nat
      BY <2>1, <3>1 DEF Accounted, TypeInv, TypeOK, RunTypes
    <3> QED BY <3>2, LeadAtStart
  <2> QED BY <2>1, <2>2
<1>2. CASE ForgetRun
  BY <1>2 DEF ForgetRun
<1>3. CASE Opening
  <2>1. CASE RefuseScope \/ EmitStarted
    <3>1. /\ Lead' = 0 /\ host' = 1
          /\ UNCHANGED <<batch, inFlight, finished>>
          /\ pc' \in {"terminal", "discover", "load"}
          /\ pc' = "discover" => Inventory
      BY <2>1 DEF RefuseScope, EmitStarted
    <3>2. DiscCost(host' - 1) = 0
      BY <3>1, DiscCostFacts
    <3> QED BY <3>1, <3>2
  <2> QED BY <1>2, <1>3, <2>1 DEF Opening, ReturnTerminated
<1>4. CASE SyncAppend
  BY <1>4 DEF SyncAppend
<1>5. CASE Discovery
  <2>1. /\ Discovered = DiscCost(NumHosts) /\ Inventory
        /\ stop = "none" /\ host \in Nat \ {0}
        /\ UNCHANGED <<batch, inFlight, finished>>
    BY <1>5, <1>c DEF Discovery, DiscoverStop, StopDiscovery, DiscoverReserve,
       DiscoverAnswer, PutHost, EmitHost, DiscoveryDone, Discovered, BeforeStop,
       TypeInv, TypeOK, RunTypes
  <2>2. /\ DiscCost(host - 1) + DiscoveryCost = DiscCost(host)
        /\ DiscCost(host - 1) \in Nat /\ DiscCost(host) \in Nat
    <3>1. host - 1 \in Nat /\ (host - 1) + 1 = host
      BY <2>1
    <3> QED BY <3>1, DiscCostFacts
  <2>3. host \in Hosts => DiscCost(host) <= Discovered
    BY <2>1, DiscCostFacts DEF Hosts
  <2>4. CASE DiscoverStop \/ DiscoveryDone
    BY <2>1, <2>4 DEF DiscoverStop, StopDiscovery, DiscoveryDone
  <2>5. CASE DiscoverReserve
    <3>1. Lead' = Lead + DiscoveryCost
      BY <2>5, LeadReserved DEF DiscoverReserve
    <3>2. /\ Lead <= DiscCost(host - 1) /\ host \in Hosts
          /\ pc' = "discovering" /\ host' = host
          /\ UNCHANGED <<batch, inFlight, finished, stop>>
      BY <2>5 DEF DiscoverReserve
    <3>3. Lead' <= DiscCost(host) /\ Lead' <= Discovered
      BY <2>2, <2>3, <3>1, <3>2
    <3> QED BY <2>1, <2>2, <3>1, <3>2, <3>3
  <2>6. (host + 1) - 1 = host
    BY <2>1
  <2>7. CASE DiscoverAnswer
    <3>1. UNCHANGED <<spent, row>> /\ pc = "discovering"
      BY <2>7 DEF DiscoverAnswer
    <3>2. CASE pc' = "discover" /\ host' = host + 1 /\ stop' = stop
      BY <2>1, <2>6, <3>1, <3>2
    <3>3. CASE pc' = "hostput" /\ host' = host /\ stop' = stop
      BY <2>1, <3>1, <3>3
    <3>4. CASE pc' = "terminal"
      BY <2>1, <3>1, <3>4
    <3> QED BY <2>7, <3>2, <3>3, <3>4 DEF DiscoverAnswer
  <2>8. CASE PutHost
    BY <2>1, <2>8 DEF PutHost
  <2>9. CASE EmitHost
    BY <2>1, <2>6, <2>9 DEF EmitHost
  <2> QED BY <1>5, <2>4, <2>5, <2>7, <2>8, <2>9 DEF Discovery
<1>6. CASE Driving
  <2>1. CASE DriveStop \/ AcquireCancelled \/ BudgetExhausted
    <3>1. /\ UNCHANGED <<batch, inFlight, finished, spent, row>>
          /\ pc \in {"drive", "acquire", "spend"} /\ pc' = "drain"
      BY <2>1 DEF DriveStop, AcquireCancelled, BudgetExhausted, BreakDrive
    <3>2. stop = "none"
      BY <1>c, <3>1 DEF BeforeStop
    <3> QED BY <3>1, <3>2
  <2>2. CASE LoadDone \/ DriveSkip \/ DriveUnit \/ Acquire \/ Joined \/ Drained
    <3>1. /\ UNCHANGED <<batch, inFlight, finished, spent, row, stop>>
          /\ pc \in {"load", "drive", "acquire", "join", "drain"}
          /\ pc' \in {"drive", "acquire", "spend", "flush", "terminal"}
      BY <2>2 DEF LoadDone, DriveSkip, DriveUnit, Acquire, Joined, Drained
    <3> QED BY <3>1
  <2>3. CASE Dispatch
    <3>1. /\ Lead' = Lead + 1 /\ pc = "spend"
          /\ UNCHANGED <<batch, finished, stop>>
      BY <2>3 DEF Dispatch
    <3>2. CASE run.mode = "syn"
      <4>1. pc' = "syn" /\ inFlight' = inFlight
        BY <2>3, <3>2 DEF Dispatch
      <4> QED BY <3>1, <4>1
    <3>3. CASE run.mode # "syn"
      <4>1. pc' = "join" /\ Flying' = Flying + 1
        BY <2>3, <3>3, DispatchSizes DEF Dispatch
      <4> QED BY <3>1, <4>1
    <3> QED BY <3>2, <3>3
  <2>4. CASE SynAnswer
    BY <2>4 DEF SynAnswer
  <2>5. CASE SynFails
    <3>1. stop = "none"
      BY <2>5, <1>c DEF SynFails, BeforeStop
    <3> QED BY <2>5, <3>1 DEF SynFails
  <2>6. ASSUME NEW u \in Units, Join(u)
        PROVE  Ahead'
    <3>1. Waiting' = Waiting - 1
      BY <2>6, JoinSizes
    <3>2. /\ UNCHANGED <<batch, inFlight, spent, row, stop>>
          /\ pc \in {"join", "drain"} /\ pc' = "observe"
      BY <2>6 DEF Join
    <3> QED BY <3>1, <3>2
  <2> QED BY <1>6, <2>1, <2>2, <2>3, <2>4, <2>5, <2>6 DEF Driving
<1>7. CASE Recording
  <2>1. UNCHANGED <<inFlight, finished, stop, row>>
    BY <1>7 DEF Recording, ObservePort, DetectNothing, DetectAcquire, DetectBudget,
       DetectProbe, PutEvidence, CiteEvidence
  <2>2. ASSUME Completed, pc \in HoldsUnit,
               \/ UNCHANGED spent
               \/ spent' = spent + 1 /\ pc = "detectspend"
        PROVE  Ahead'
    <3>1. /\ Cost(Batched') = Cost(Batched) + 1 + Candidates
          /\ pc' \in {"drain", "join"}
      BY <2>2, CompletedSizes DEF Completed
    <3>2. CASE UNCHANGED spent
      <4>1. Lead' = Lead /\ UNCHANGED <<inFlight, finished, stop>>
        BY <2>1, <3>2
      <4>2. pc # "idle" /\ Hand <= 1 + Candidates
        BY <2>2 DEF HoldsUnit
      <4> QED BY <3>1, <4>1, <4>2
    <3>3. CASE spent' = spent + 1 /\ pc = "detectspend"
      <4>1. tries > 0
        BY <3>3 DEF TypeInv, Control
      <4> QED BY <2>1, <3>1, <3>3, <4>1
    <3> QED BY <2>2, <3>2, <3>3
  <2>3. CASE ObservePort
    <3>1. UNCHANGED spent /\ pc = "observe"
      BY <2>3 DEF ObservePort
    <3>2. CASE Completed
      BY <2>2, <3>1, <3>2 DEF HoldsUnit
    <3>3. CASE tries' = Candidates /\ pc' = "detect" /\ batch' = batch
      BY <2>1, <3>1, <3>3
    <3> QED BY <2>3, <3>2, <3>3 DEF ObservePort
  <2>4. CASE DetectNothing \/ DetectBudget \/ CiteEvidence
    BY <2>2, <2>4 DEF DetectNothing, DetectBudget, CiteEvidence, HoldsUnit
  <2>5. CASE DetectAcquire \/ PutEvidence
    BY <2>1, <2>5 DEF DetectAcquire, PutEvidence
  <2>6. CASE DetectProbe
    <3>1. spent' = spent + 1 /\ pc = "detectspend"
      BY <2>6 DEF DetectProbe
    <3>2. tries > 0
      BY <3>1 DEF TypeInv, Control
    <3>3. CASE tries' = tries - 1 /\ pc' = "detect" /\ batch' = batch
      BY <2>1, <3>1, <3>2, <3>3
    <3>4. CASE Completed
      BY <2>2, <3>1, <3>4 DEF HoldsUnit
    <3>5. CASE pc' = "put" /\ batch' = batch
      BY <2>1, <3>1, <3>2, <3>5
    <3> QED BY <2>6, <3>3, <3>4, <3>5 DEF DetectProbe
  <2> QED BY <1>7, <2>3, <2>4, <2>5, <2>6 DEF Recording
<1>8. CASE Flushing
  <2>1. CASE FlushSync \/ MarkUnitsDone \/ EmitProgress
    <3>1. /\ UNCHANGED <<batch, inFlight, finished, spent, row, stop>>
          /\ pc \in InFlush /\ pc' \in {"mark", "progress", "cursor"}
      BY <2>1 DEF FlushSync, MarkUnitsDone, EmitProgress, InFlush
    <3> QED BY <3>1 DEF InFlush
  <2>2. CASE FlushCursor
    <3>1. /\ UNCHANGED <<inFlight, finished, stop>>
          /\ Batched' = 0 /\ pc' \in {"terminal", "drive"} /\ Lead' = 0
      BY <2>2, LeadTypes DEF FlushCursor
    <3> QED BY <3>1
  <2> QED BY <1>8, <2>1, <2>2 DEF Flushing
<1>9. CASE Closing
  <2>1. CASE EmitTerminal \/ FinalSync
    BY <2>1 DEF EmitTerminal, FinalSync
  <2>2. CASE FinalCursor
    <3>1. /\ UNCHANGED <<batch, inFlight, finished, stop>>
          /\ pc' = "publish" /\ Lead' = 0
      BY <2>2, LeadTypes DEF FinalCursor
    <3> QED BY <3>1
  <2> QED BY <1>2, <1>9, <2>1, <2>2 DEF Closing, Publish
<1>10. ASSUME NEW u \in Units, ConnectTask(u)
       PROVE  Ahead'
  <2>1. UNCHANGED <<batch, spent, row, pc, stop, tries, host>>
    BY <1>10 DEF ConnectTask, Connects, ConnectFinishes, TaskEnds
  <2>2. CASE Connects(u) \/ ConnectFinishes(u)
    <3>1. UNCHANGED <<inFlight, finished>>
      BY <2>2 DEF Connects, ConnectFinishes
    <3> QED BY <2>1, <3>1
  <2>3. CASE TaskEnds(u)
    <3>1. Flying' = Flying - 1 /\ Waiting' = Waiting + 1
      BY <2>3, EndSizes
    <3> QED BY <2>1, <3>1
  <2> QED BY <1>10, <2>2, <2>3 DEF ConnectTask
<1>11. CASE Cancel \/ Crash \/ UNCHANGED vars
  BY <1>2, <1>11 DEF Cancel, Crash
<1> QED BY <1>1, <1>3, <1>4, <1>5, <1>6, <1>7, <1>8, <1>9, <1>10, <1>11
        DEF Next, RunStep

------------------------------------------------------------------------------
(* Together.                                                                *)

LEMMA RoomBoundsLead ==
    ASSUME TypeInv, Room, Ahead
    PROVE  CrashLossBounded
<1> SUFFICES ASSUME pc # "idle" PROVE Lead <= Cost(FlushBatch + Slack) + Discovered
  BY DEF CrashLossBounded, Lead, Cost, Discovered, DiscCost, Slack
<1>a. /\ Batched \in Nat /\ Flying \in Nat /\ Waiting \in Nat
      /\ Held \in Nat /\ Failed \in Nat /\ Slack \in Nat
      /\ FlushBatch \in Nat /\ Candidates \in Nat /\ tries \in Nat
      /\ Lead \in Int /\ Discovered \in Nat
  <2>1. Discovered \in Nat
    BY DiscCostFacts DEF Discovered
  <2>2. Slack \in Nat
    BY DEF Slack
  <2>3. Held \in Nat /\ Failed \in Nat
    BY DEF Held, Failed
  <2>4. tries \in Nat
    BY DEF TypeInv, TypeOK, RunTypes
  <2> QED BY <2>1, <2>2, <2>3, <2>4, SizeTypes, LeadTypes
<1>1. Hand <= Cost(Held)
  <2>1. Cost(0) = 0 /\ Cost(1) = 1 + Candidates
    BY <1>a DEF Cost
  <2> QED BY <1>a, <2>1 DEF Hand, Held, HoldsUnit
<1>2. Lead <= Discovered + Cost(Batched) + Cost(Flying) + Cost(Waiting) + Cost(Held)
                + Cost(Failed)
  <2>1. Lead <= Discovered + Cost(Batched) + Flying + Waiting + Hand + Failed
    BY DEF Ahead
  <2>2. /\ Flying <= Cost(Flying) /\ Waiting <= Cost(Waiting) /\ Failed <= Cost(Failed)
        /\ Cost(Batched) \in Nat /\ Cost(Flying) \in Nat /\ Cost(Waiting) \in Nat
        /\ Cost(Held) \in Nat /\ Cost(Failed) \in Nat
    BY <1>a, CostFacts
  <2>3. Hand \in Int
    BY <1>a DEF Hand
  <2> HIDE DEF Hand, Held, Failed, Lead, Discovered, Cost
  <2> QED BY <1>a, <1>1, <2>1, <2>2, <2>3
<1>3. Cost(Batched) + Cost(Flying) + Cost(Waiting) + Cost(Held) + Cost(Failed)
        = Cost(Batched + Flying + Waiting + Held + Failed)
  <2>1. /\ Batched + Flying \in Nat /\ Batched + Flying + Waiting \in Nat
        /\ Batched + Flying + Waiting + Held \in Nat
    BY <1>a
  <2> QED BY <1>a, <2>1, CostSums
<1>4. Cost(Batched + Flying + Waiting + Held + Failed) <= Cost(FlushBatch + Slack)
  <2>1. Batched + Flying + Waiting + Held + Failed <= FlushBatch + Slack
    BY DEF Room
  <2>2. /\ Batched + Flying + Waiting + Held + Failed \in Nat
        /\ FlushBatch + Slack \in Nat
    BY <1>a
  <2> QED BY <2>1, <2>2, CostSums
<1>5. \A b \in Nat : Cost(b) \in Nat
  BY CostFacts
<1> HIDE DEF Cost, Lead, Discovered, Batched, Flying, Waiting, Held, Failed, Slack
<1> QED BY <1>a, <1>2, <1>3, <1>4, <1>5

\* One crash throws away a bounded amount of spend: at most the discovery
\* phase, and one probe with its service probes for every unit of a flush
\* batch, every permit and every worker thread (flush_progress records the
\* spend of what it flushes).
THEOREM CrashLossIsBounded == Spec => []CrashLossBounded
<1>1. Init => Accounted /\ Apart /\ Room /\ Ahead
  BY DEF Init, Accounted, Apart, Room, Ahead
<1>2. TypeInv /\ Tidy /\ Behind /\ Accounted /\ Apart /\ Room /\ Ahead /\ [Next]_vars
        => Accounted' /\ Apart' /\ Room' /\ Ahead'
  BY AccountedStep, ApartStep, RoomStep, AheadStep
<1>3. TypeInv /\ Room /\ Ahead => CrashLossBounded
  BY RoomBoundsLead
<1> QED BY <1>1, <1>2, <1>3, BehindInvariant, PTL DEF Spec

------------------------------------------------------------------------------
(* Cancellation.                                                            *)

\* What StillToLeave admits beside a discovery, and what is past its last look
\* at the token: tasks that are spawned, and a reservation about to be made.
AtOnce ==
    IF "connect" \in Modes
    THEN Concurrency + (IF Candidates > 0 THEN 1 ELSE 0)
    ELSE 1

Decided == Unsent + (IF pc \in {"spend", "detectspend"} THEN 1 ELSE 0)

\* What has left since the token was cancelled and what is still to leave fit
\* together, or all of it was the discovery of one host.
Quiet ==
    /\ pc # "idle" => run.mode \in Modes
    /\ tries <= Candidates
    /\ ~cancel => late = 0
    /\ pc = "discovering" => late = 0
    /\ pc \in {"discover", "discovering", "hostput", "hostlog"} => Inventory
    /\ \/ late + Decided <= AtOnce
       \/ /\ cancel /\ Inventory
          /\ late <= DiscoveryCost
          /\ Decided = 0

\* A run that has not been cancelled has decided on no more than its permits.
LEMMA DecidedFits ==
    ASSUME TypeInv, Room, Quiet, pc # "idle"
    PROVE  /\ pc = "acquire" /\ Holding < Concurrency => Unsent + 1 <= AtOnce
           /\ pc = "detect" /\ tries > 0 => Unsent + 1 <= AtOnce
<1>1. /\ Unsent <= Holding /\ Holding <= Permits
      /\ Unsent \in Nat /\ Holding \in Nat /\ Permits \in Nat
      /\ Concurrency \in Nat /\ Concurrency >= 1
  BY FlightSizes, SizeTypes DEF Room, Permits
<1>2. run.mode \in Modes /\ run.mode \in {"connect", "syn"}
  BY DEF Quiet, TypeInv, TypeOK, ControlTypes
<1>3. tries \in Nat /\ Candidates \in Nat /\ tries <= Candidates
  BY DEF Quiet, TypeInv, TypeOK, RunTypes
<1>4. CASE run.mode = "connect"
  <2>1. Permits = Concurrency /\ "connect" \in Modes
    BY <1>2, <1>4 DEF Permits
  <2> QED BY <1>1, <1>3, <2>1 DEF AtOnce
<1>5. CASE run.mode = "syn"
  <2>1. Unsent = 0
    BY <1>1, <1>5 DEF Permits
  <2> QED BY <1>1, <2>1 DEF AtOnce
<1> QED BY <1>2, <1>4, <1>5

LEMMA QuietStep ==
    TypeInv /\ Behind /\ Apart /\ Room /\ Quiet /\ [Next]_vars => Quiet'
<1> SUFFICES ASSUME TypeInv, Behind, Apart, Room, Quiet, [Next]_vars PROVE Quiet'
  OBVIOUS
<1>a. /\ late \in Nat /\ DiscoveryCost \in Nat /\ Inventory \in BOOLEAN
      /\ Unsent \in Nat /\ AtOnce \in Nat /\ AtOnce >= 1
      /\ tries \in Nat /\ Candidates \in Nat /\ cancel \in BOOLEAN
  BY SizeTypes DEF TypeInv, TypeOK, HistoryTypes, RunTypes, ControlTypes, AtOnce
<1>b. /\ unpolled' = unpolled => Unsent' = Unsent
      /\ unpolled' = {} => Unsent' = 0
  BY SameSizes, FS_EmptySet DEF Unsent
<1>c. pc = "discovering" => Unsent = 0
  <2>1. pc = "discovering" => unpolled = {}
    BY DEF Behind, TypeInv, TypeOK, RunTypes
  <2> QED BY <2>1, SizeTypes
<1> USE <1>a, <1>b DEF Quiet, Decided, At
<1> HIDE DEF Unsent, AtOnce
<1>1. ASSUME NEW s \in Scopes, NEW a \in AllowSets, NEW m \in Modes, Begin(s, a, m)
      PROVE  Quiet'
  BY <1>1 DEF Begin
<1>2. CASE ForgetRun
  BY <1>2 DEF ForgetRun
<1>3. CASE Opening \/ SyncAppend
  BY <1>2, <1>3 DEF Opening, ReturnTerminated, RefuseScope, EmitStarted, SyncAppend
<1>4. CASE Discovery
  <2>1. CASE DiscoverAnswer
    <3>1. PICK n \in 0..DiscoveryCost : late' = IF cancel THEN late + n ELSE late
      BY <2>1 DEF DiscoverAnswer
    <3>2. /\ UNCHANGED <<run, tries, cancel, unpolled>>
          /\ pc = "discovering" /\ pc' \in {"hostput", "discover", "terminal"}
      BY <2>1 DEF DiscoverAnswer
    <3> QED BY <1>c, <3>1, <3>2
  <2>2. CASE DiscoverStop \/ DiscoverReserve \/ PutHost \/ EmitHost \/ DiscoveryDone
    BY <2>2 DEF DiscoverStop, StopDiscovery, DiscoverReserve, PutHost, EmitHost,
       DiscoveryDone
  <2> QED BY <1>4, <2>1, <2>2 DEF Discovery
<1>5. CASE Driving
  <2>1. CASE Dispatch
    <3>1. /\ UNCHANGED <<run, tries, cancel>>
          /\ pc = "spend" /\ pc' \in {"syn", "join"}
      BY <2>1 DEF Dispatch
    <3>2. CASE run.mode = "syn"
      <4>1. /\ unpolled' = unpolled
            /\ late' = IF cancel THEN late + 1 ELSE late
        BY <2>1, <3>2 DEF Dispatch, Probe
      <4> QED BY <3>1, <4>1
    <3>3. CASE run.mode # "syn"
      <4>1. Unsent' = Unsent + 1 /\ late' = late
        BY <2>1, <3>3, DispatchSizes DEF Dispatch
      <4> QED BY <3>1, <4>1
    <3> QED BY <3>2, <3>3
  <2>2. CASE Acquire
    <3>1. Unsent + 1 <= AtOnce
      BY <2>2, DecidedFits DEF Acquire, Holding
    <3> QED BY <2>2, <3>1 DEF Acquire
  <2>3. CASE ~Dispatch /\ ~Acquire
    BY <1>5, <2>3 DEF Driving, LoadDone, DriveStop, BreakDrive, DriveSkip, DriveUnit,
       AcquireCancelled, BudgetExhausted, SynAnswer, SynFails, Join, Joined, Drained
  <2> QED BY <2>1, <2>2, <2>3
<1>6. CASE Recording
  <2>1. CASE DetectAcquire
    <3>1. Unsent + 1 <= AtOnce
      BY <2>1, DecidedFits DEF DetectAcquire
    <3> QED BY <2>1, <3>1 DEF DetectAcquire
  <2>2. CASE DetectProbe
    BY <2>2 DEF DetectProbe, Completed
  <2>3. CASE ObservePort \/ DetectNothing \/ DetectBudget \/ PutEvidence \/ CiteEvidence
    BY <2>3 DEF ObservePort, DetectNothing, DetectBudget, PutEvidence, CiteEvidence,
       Completed
  <2> QED BY <1>6, <2>1, <2>2, <2>3 DEF Recording
<1>7. CASE Flushing
  BY <1>7 DEF Flushing, FlushSync, MarkUnitsDone, EmitProgress, FlushCursor
<1>8. CASE Closing
  BY <1>2, <1>8 DEF Closing, EmitTerminal, FinalSync, FinalCursor, Publish
<1>9. ASSUME NEW u \in Units, ConnectTask(u)
      PROVE  Quiet'
  <2>1. UNCHANGED <<run, tries, cancel, pc>>
    BY <1>9 DEF ConnectTask, Connects, ConnectFinishes, TaskEnds
  <2>2. CASE Connects(u)
    <3>1. /\ Unsent' = Unsent - 1 /\ Unsent > 0
          /\ late' = IF cancel THEN late + 1 ELSE late
      BY <2>2, ConnectSizes DEF Connects, Probe
    <3> QED BY <1>c, <2>1, <3>1
  <2>3. CASE ConnectFinishes(u) \/ TaskEnds(u)
    <3>1. late' = late /\ unpolled' = unpolled
      BY <2>3 DEF ConnectFinishes, TaskEnds
    <3> QED BY <2>1, <3>1
  <2> QED BY <1>9, <2>2, <2>3 DEF ConnectTask
<1>10. CASE Cancel
  BY <1>10 DEF Cancel
<1>11. CASE Crash \/ UNCHANGED vars
  BY <1>2, <1>11 DEF Crash
<1> QED BY <1>1, <1>3, <1>4, <1>5, <1>6, <1>7, <1>8, <1>9, <1>10, <1>11
        DEF Next, RunStep

\* After its token is cancelled a run sends at most what had passed its last
\* look at the token: the connects of the tasks that hold a permit and one
\* service probe, or one host's discovery; draining and recording what is in
\* flight decide on nothing new (detect_service asks the token too).
THEOREM CancelIsQuiet == Spec => []CancelStartsNothingNew
<1>1. Init => Apart /\ Room /\ Quiet
  <2>1. Init => Apart /\ Room
    BY DEF Init, Apart, Room
  <2>2. Init => Unsent = 0
    BY FS_EmptySet DEF Init, Unsent
  <2>3. AtOnce >= 1 /\ AtOnce \in Nat
    BY DEF AtOnce
  <2>4. Init => Quiet
    BY <2>2, <2>3 DEF Init, Quiet, Decided
  <2> QED BY <2>1, <2>4
<1>2. TypeInv /\ Tidy /\ Behind /\ Apart /\ Room /\ Quiet /\ [Next]_vars
        => Apart' /\ Room' /\ Quiet'
  BY ApartStep, RoomStep, QuietStep
<1>3. TypeInv /\ Quiet => CancelStartsNothingNew
  <2> SUFFICES ASSUME TypeInv, Quiet PROVE CancelStartsNothingNew
    OBVIOUS
  <2>1. StillToLeave = IF Inventory /\ DiscoveryCost > AtOnce THEN DiscoveryCost ELSE AtOnce
    BY DEF StillToLeave, AtOnce
  <2>2. Unsent \in Nat /\ late \in Nat /\ AtOnce \in Nat
    BY SizeTypes DEF TypeInv, TypeOK, HistoryTypes, AtOnce
  <2> HIDE DEF Unsent, AtOnce
  <2> QED BY <2>1, <2>2 DEF Quiet, Decided, CancelStartsNothingNew
<1> QED BY <1>1, <1>2, <1>3, BehindInvariant, PTL DEF Spec
==============================================================================
