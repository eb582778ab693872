------------------------------ MODULE Scheduler ------------------------------
(***************************************************************************)
(* One scan, driven to its end by bathy-engine's Scheduler::run over       *)
(* however many runs that takes: a start, cancellations, crashes and       *)
(* resumes.  The writer lock of the event log admits one run at a time     *)
(* (see EventLog), so a single control state describes the live run; its   *)
(* connect probes, the cancellation token and the disk evolve around it.   *)
(*                                                                         *)
(* On disk are the event log (a sequence of events of which only the       *)
(* first `synced' have been fsynced), the evidence blobs, the scan's row   *)
(* in the task store and its set of completed units.  A commit of the      *)
(* store and a put of a blob are durable when they return; an append to    *)
(* the log is durable only after the next sync (group commit).             *)
(*                                                                         *)
(* Units are numbered 1..NumUnits here and 0..len-1 in the code; hosts     *)
(* are the plan's sorted targets, 1..NumHosts.                             *)
(***************************************************************************)
EXTENDS Integers, Sequences, FiniteSets

CONSTANTS
    NumUnits,        \* plan.len()
    NumHosts,        \* plan.targets().len()
    UnitHost,        \* the host a unit probes
    AllowSets,       \* the allow sets a run's manifest may carry
    Scopes,          \* what the up-front manifest check may find, a subset of Verdicts
    Modes,           \* how a run probes: "connect", "syn" (through packetd)
    MaxPackets,      \* Budgets::maximum_packets
    Concurrency,     \* SchedulerConfig::concurrency
    Workers,         \* worker threads of the runtime
    FlushBatch,      \* STORE_FLUSH_BATCH
    MaxEvents,       \* GroupCommitConfig::max_events
    ProgressEvery,   \* SchedulerConfig::progress_every
    Candidates,      \* probes select_probes offers for an open port, 0: detection off
    KeepEvidence,    \* evidence_level is not `none'
    Inventory,       \* the objective is HostInventory
    DiscoveryCost,   \* worst-case packets of one host's discovery
    MaxRuns,         \* bound: runs of the scan
    MaxCrashes       \* bound: crashes and aborted runs

Units == 1..NumUnits
Hosts == 1..NumHosts
Verdicts == {"ok", "mismatch", "expired"}

ASSUME SchedulerAssumption ==
    /\ NumUnits \in Nat \ {0}
    /\ NumHosts \in Nat \ {0}
    /\ UnitHost \in [Units -> Hosts]
    /\ AllowSets \subseteq SUBSET Hosts
    /\ Scopes \subseteq Verdicts
    /\ Modes \subseteq {"connect", "syn"}
    /\ MaxPackets \in Nat
    /\ Concurrency \in Nat \ {0}
    /\ Workers \in Nat \ {0}
    /\ FlushBatch \in Nat \ {0}
    /\ MaxEvents \in Nat \ {0}
    /\ ProgressEvery \in Nat \ {0}
    /\ Candidates \in Nat
    /\ KeepEvidence \in BOOLEAN
    /\ Inventory \in BOOLEAN
    /\ DiscoveryCost \in Nat
    /\ MaxRuns \in Nat
    /\ MaxCrashes \in Nat

VARIABLES
    \* on disk
    log,           \* the scan's events, in file order
    synced,        \* how many of them are durable
    blobs,         \* what the evidence store holds: <<"unit", u>>, <<"host", h>>
    done,          \* completed units, in the task store
    row,           \* the scan's row: status, last_sequence, packets_spent
    \* the live run
    pc,            \* where Scheduler::run stands, "idle" when no run is live
    run,           \* what the run was built with: scope verdict, allow set, mode
    cancel,        \* the cancellation token
    stop,          \* why dispatch ended
    spent,         \* the ledger's packets_spent
    pending,       \* appends since the last sync
    syncDue,       \* the append just made must sync before it returns
    cursor,        \* the next unit the plan's iterator yields
    host,          \* the next host to discover
    already,       \* completed units as loaded when dispatch began
    inFlight,      \* connect tasks that cannot be joined yet
    unpolled,      \* those of them the runtime has not polled yet
    released,      \* those of them that have dropped their permit
    finished,      \* connect tasks that can be joined
    drained,       \* dispatch is over, in-flight work is being drained
    cur,           \* the unit being probed over packetd or recorded
    tries,         \* service probes still to try on cur
    batch,         \* completed_batch
    fresh,         \* units completed since the last scan.progress
    \* history of the whole scan, read by the properties only
    probes,        \* how often each unit was probed
    emitted,       \* packets put on the wire
    late,          \* packets emitted since this run's token was cancelled
    lost,          \* ledger spend that crashes threw away
    runs,          \* runs begun
    crashes        \* crashes so far

disk    == <<log, synced, blobs, done, row>>
ledger  == <<pending, syncDue>>
plan    == <<cursor, host, already>>
tasks   == <<inFlight, unpolled, released, finished>>
record  == <<cur, tries>>
flushed == <<batch, fresh>>
history == <<probes, emitted, late, lost, runs, crashes>>
vars == <<disk, pc, run, cancel, stop, spent, ledger, plan, tasks, drained,
          record, flushed, history>>

-----------------------------------------------------------------------------
(* The event log and its group commit.                                     *)

Event(kind, of) == [kind |-> kind, of |-> of]
TerminalKinds == {"completed", "failed", "denied"}
EventKinds == TerminalKinds \cup {"started", "host", "port", "service", "progress"}
is_terminal(e) == e.kind \in TerminalKinds

\* GroupCommitLog::append: the record is written; a terminal event, a full
\* batch or an elapsed interval (any append may find it elapsed) then syncs.
append(e) ==
    /\ log' = Append(log, e)
    /\ pending' = pending + 1
    /\ syncDue' \in BOOLEAN
    /\ is_terminal(e) \/ pending + 1 >= MaxEvents => syncDue'

\* GroupCommitLog::sync_now: everything written so far becomes durable.
sync_now ==
    /\ synced' = Len(log)
    /\ pending' = 0

\* The second half of an append that has to sync.
SyncAppend ==
    /\ syncDue
    /\ sync_now
    /\ syncDue' = FALSE
    /\ UNCHANGED <<log, blobs, done, row, pc, run, cancel, stop, spent, plan,
                   tasks, drained, record, flushed, history>>

\* The run's control is at p, and no append is still syncing.
At(p) == pc = p /\ ~syncDue

-----------------------------------------------------------------------------
(* Beginning a run.                                                         *)

\* Mutant of already_terminated: a resume does not look at how the log ends.
NeverTerminated == FALSE

already_terminated == log # <<>> /\ is_terminal(log[Len(log)])

\* TaskStore::next_pending_unit: the lowest unit not completed.
next_pending_unit(u) ==
    /\ u \in Units \ done
    /\ \A v \in Units \ done : u <= v

\* Mutant of resumed: every run begins with the whole ceiling.
resumed_afresh(packets) == 0

\* BudgetLedger::resumed: a resumed ledger starts from the stored spend.
resumed(packets) == IF packets <= MaxPackets THEN packets ELSE MaxPackets

\* scan.start (nothing stored yet) and scan.resume both open the log, mark the
\* scan running and build a Scheduler; a scan without pending units is not run.
Begin(scope, allows, mode) ==
    /\ pc = "idle"
    /\ runs < MaxRuns
    /\ pc' = "entry"
    /\ run' = [scope |-> scope, allows |-> allows, mode |-> mode]
    /\ row' = [row EXCEPT !.status = "running"]
    /\ spent' = resumed(row.packets)
    /\ \E u \in Units : next_pending_unit(u) /\ cursor' = u
    /\ host' = 1
    /\ runs' = runs + 1
    /\ UNCHANGED <<log, synced, blobs, done, cancel, stop, ledger, already,
                   tasks, drained, record, flushed, probes, emitted, late,
                   lost, crashes>>

\* What a run holds in memory, before it begins and once it is gone.
NoRun == [scope |-> "ok", allows |-> {}, mode |-> "connect"]

ForgetRun ==
    /\ pc' = "idle"
    /\ run' = NoRun
    /\ cancel' = FALSE
    /\ stop' = "none"
    /\ spent' = 0
    /\ pending' = 0
    /\ syncDue' = FALSE
    /\ cursor' = 1
    /\ host' = 1
    /\ already' = {}
    /\ inFlight' = {}
    /\ unpolled' = {}
    /\ released' = {}
    /\ finished' = {}
    /\ drained' = FALSE
    /\ cur' = 0
    /\ tries' = 0
    /\ batch' = {}
    /\ fresh' = 0
    /\ late' = 0

\* A log that already ends in a terminal event makes run() a no-op: it
\* returns without writing anything, the status included.
ReturnTerminated ==
    /\ At("entry")
    /\ already_terminated
    /\ ForgetRun
    /\ UNCHANGED <<disk, probes, emitted, lost, runs, crashes>>

\* Scope mismatch or expiry refuses the whole scan before scan.started.
RefuseScope ==
    /\ At("entry")
    /\ ~already_terminated
    /\ run.scope # "ok"
    /\ stop' = "denied"
    /\ pc' = "terminal"
    /\ UNCHANGED <<disk, run, cancel, spent, ledger, plan, tasks, drained,
                   record, flushed, history>>

\* Mutants of EmitStarted: it is written by every run; the log is truncated.
EmitStartedAlways ==
    /\ At("entry")
    /\ ~already_terminated
    /\ run.scope = "ok"
    /\ append(Event("started", 0))
    /\ pc' = IF log = <<>> /\ Inventory THEN "discover" ELSE "load"
    /\ UNCHANGED <<synced, blobs, done, row, run, cancel, stop, spent, plan,
                   tasks, drained, record, flushed, history>>

EmitStartedTruncating ==
    /\ At("entry")
    /\ ~already_terminated
    /\ run.scope = "ok"
    /\ log' = <<Event("started", 0)>>
    /\ pc' = "load"
    /\ UNCHANGED <<synced, blobs, done, row, run, cancel, stop, spent, ledger,
                   plan, tasks, drained, record, flushed, history>>

\* scan.started is written when the log is empty, and only then does a
\* host inventory discover hosts.
EmitStarted ==
    /\ At("entry")
    /\ ~already_terminated
    /\ run.scope = "ok"
    /\ IF log = <<>>
       THEN /\ append(Event("started", 0))
            /\ pc' = IF Inventory THEN "discover" ELSE "load"
       ELSE /\ pc' = "load"
            /\ UNCHANGED <<log, ledger>>
    /\ UNCHANGED <<synced, blobs, done, row, run, cancel, stop, spent, plan,
                   tasks, drained, record, flushed, history>>

-----------------------------------------------------------------------------
(* The discovery phase of a host inventory.                                *)

\* The checks at the top of the loop that end the dispatch block: no drain
\* and no flush follow, there is nothing to drain or flush yet.
StopDiscovery(reason) ==
    /\ stop' = reason
    /\ pc' = "terminal"
    /\ UNCHANGED <<disk, run, cancel, spent, ledger, plan, tasks, drained,
                   record, flushed, history>>

DiscoverStop ==
    /\ At("discover")
    /\ host \in Hosts
    /\ \/ cancel /\ StopDiscovery("cancelled")
       \/ ~cancel /\ StopDiscovery("time")
       \/ /\ ~cancel
          /\ host \notin run.allows
          /\ StopDiscovery("denied")
       \/ /\ ~cancel
          /\ host \in run.allows
          /\ spent + DiscoveryCost > MaxPackets
          /\ StopDiscovery("budget")

\* Mutant of DiscoverReserve: the host is not checked against the manifest.
DiscoverReserveUnscoped ==
    /\ At("discover")
    /\ host \in Hosts
    /\ ~cancel
    /\ spent + DiscoveryCost <= MaxPackets
    /\ spent' = spent + DiscoveryCost
    /\ pc' = "discovering"
    /\ UNCHANGED <<disk, run, cancel, stop, ledger, plan, tasks, drained,
                   record, flushed, history>>

\* The worst case of a host is reserved before anything is sent to it.
DiscoverReserve ==
    /\ At("discover")
    /\ host \in Hosts
    /\ ~cancel
    /\ host \in run.allows
    /\ spent + DiscoveryCost <= MaxPackets
    /\ spent' = spent + DiscoveryCost
    /\ pc' = "discovering"
    /\ UNCHANGED <<disk, run, cancel, stop, ledger, plan, tasks, drained,
                   record, flushed, history>>

\* discover_host_combined sends up to the reserved packets and answers; a
\* failed packetd ends the scan.
DiscoverAnswer ==
    /\ At("discovering")
    /\ \E n \in 0..DiscoveryCost :
         /\ emitted' = emitted + n
         /\ late' = IF cancel THEN late + n ELSE late
    /\ \/ /\ pc' = "hostput"                                       \* up
          /\ UNCHANGED <<stop, host>>
       \/ /\ pc' = "discover"                                      \* not up
          /\ host' = host + 1
          /\ UNCHANGED stop
       \/ /\ run.mode = "syn"                                      \* packetd failed
          /\ stop' = "packetd"
          /\ pc' = "terminal"
          /\ UNCHANGED host
    /\ UNCHANGED <<disk, run, cancel, spent, ledger, cursor, already, tasks,
                   drained, record, flushed, probes, lost, runs, crashes>>

\* Mutant of PutHost: a blob that could not be stored is cited all the same.
PutHostLost ==
    /\ At("hostput")
    /\ pc' = "hostlog"
    /\ UNCHANGED <<disk, run, cancel, stop, spent, ledger, plan, tasks, drained,
                   record, flushed, history>>

\* emit_host_discovered: the record is stored as evidence, then cited.
PutHost ==
    /\ At("hostput")
    /\ blobs' = blobs \cup {<<"host", host>>}
    /\ pc' = "hostlog"
    /\ UNCHANGED <<log, synced, done, row, run, cancel, stop, spent, ledger,
                   plan, tasks, drained, record, flushed, history>>

EmitHost ==
    /\ At("hostlog")
    /\ append(Event("host", host))
    /\ host' = host + 1
    /\ pc' = "discover"
    /\ UNCHANGED <<synced, blobs, done, row, run, cancel, stop, spent, cursor,
                   already, tasks, drained, record, flushed, history>>

DiscoveryDone ==
    /\ At("discover")
    /\ host \notin Hosts
    /\ pc' = "load"
    /\ UNCHANGED <<disk, run, cancel, stop, spent, ledger, plan, tasks,
                   drained, record, flushed, history>>

-----------------------------------------------------------------------------
(* The dispatch loop.                                                       *)

\* Mutant of LoadDone: only the index of the cursor is trusted.
LoadNothing ==
    /\ At("load")
    /\ already' = {}
    /\ pc' = "drive"
    /\ UNCHANGED <<disk, run, cancel, stop, spent, ledger, cursor, host, tasks,
                   drained, record, flushed, history>>

LoadDone ==
    /\ At("load")
    /\ already' = done
    /\ pc' = "drive"
    /\ UNCHANGED <<disk, run, cancel, stop, spent, ledger, cursor, host, tasks,
                   drained, record, flushed, history>>

\* Leaving the loop: what is in flight is drained, whatever the reason.
BreakDrive(reason) ==
    /\ stop' = reason
    /\ drained' = TRUE
    /\ pc' = "drain"
    /\ UNCHANGED <<disk, run, cancel, spent, ledger, plan, tasks, record,
                   flushed, history>>

\* The checks at the top of every iteration, in the code's order; the runtime
\* ceiling may be found exceeded at any of them.
DriveStop ==
    /\ At("drive")
    /\ \/ cancel /\ BreakDrive("cancelled")
       \/ ~cancel /\ BreakDrive("time")
       \/ /\ ~cancel
          /\ cursor \notin Units
          /\ BreakDrive("exhausted")
       \/ /\ ~cancel
          /\ cursor \in Units \ already
          /\ UnitHost[cursor] \notin run.allows
          /\ BreakDrive("denied")

DriveSkip ==
    /\ At("drive")
    /\ ~cancel
    /\ cursor \in already
    /\ cursor' = cursor + 1
    /\ UNCHANGED <<disk, pc, run, cancel, stop, spent, ledger, host, already,
                   tasks, drained, record, flushed, history>>

DriveUnit ==
    /\ At("drive")
    /\ ~cancel
    /\ cursor \in Units \ already
    /\ UnitHost[cursor] \in run.allows
    /\ pc' = "acquire"
    /\ UNCHANGED <<disk, run, cancel, stop, spent, ledger, plan, tasks,
                   drained, record, flushed, history>>

\* The wait for a rate token and a permit loses to cancellation.
AcquireCancelled ==
    /\ At("acquire")
    /\ cancel
    /\ BreakDrive("cancelled")

\* Mutant of Acquire: a probe keeps its permit until it is joined.
AcquireUntilJoined ==
    /\ At("acquire")
    /\ ~cancel
    /\ Cardinality(inFlight \cup finished) < Concurrency
    /\ pc' = "spend"
    /\ UNCHANGED <<disk, run, cancel, stop, spent, ledger, plan, tasks,
                   drained, record, flushed, history>>

Acquire ==
    /\ At("acquire")
    /\ ~cancel
    /\ Cardinality(inFlight \ released) < Concurrency
    /\ pc' = "spend"
    /\ UNCHANGED <<disk, run, cancel, stop, spent, ledger, plan, tasks,
                   drained, record, flushed, history>>

\* Mutant of CanSpend: off by one at the ceiling.
CanSpendPast == spent <= MaxPackets

\* BudgetLedger::try_spend_packets(1) succeeds.
CanSpend == spent + 1 <= MaxPackets

BudgetExhausted ==
    /\ At("spend")
    /\ ~CanSpend
    /\ BreakDrive("budget")

\* A probe of u is put on the wire.
Probe(u) ==
    /\ emitted' = emitted + 1
    /\ late' = IF cancel THEN late + 1 ELSE late
    /\ probes' = [probes EXCEPT ![u] = @ + 1]

\* The unit's packet is reserved, then it is handed to packetd at once or to a
\* task of its own, which emits nothing before the runtime first polls it.
Dispatch ==
    /\ At("spend")
    /\ CanSpend
    /\ spent' = spent + 1
    /\ cursor' = cursor + 1
    /\ IF run.mode = "syn"
       THEN /\ Probe(cursor)
            /\ cur' = cursor
            /\ pc' = "syn"
            /\ UNCHANGED <<inFlight, unpolled>>
       ELSE /\ inFlight' = inFlight \cup {cursor}
            /\ unpolled' = unpolled \cup {cursor}
            /\ pc' = "join"
            /\ UNCHANGED <<cur, emitted, late, probes>>
    /\ UNCHANGED <<disk, run, cancel, stop, ledger, host, already, released,
                   finished, drained, tries, flushed, lost, runs, crashes>>

\* A spawned task is polled for the first time: connect() goes out, whatever
\* has become of the token since the task was spawned.
Connects(u) ==
    /\ u \in unpolled
    /\ Probe(u)
    /\ unpolled' = unpolled \ {u}
    /\ UNCHANGED <<disk, pc, run, cancel, stop, spent, ledger, plan, inFlight,
                   released, finished, drained, record, flushed, lost, runs,
                   crashes>>

\* Its probe gets an outcome, or times out, and drops the permit ...
ConnectFinishes(u) ==
    /\ u \in inFlight \ (unpolled \cup released)
    /\ Cardinality(released) < Workers
    /\ released' = released \cup {u}
    /\ UNCHANGED <<disk, pc, run, cancel, stop, spent, ledger, plan, inFlight,
                   unpolled, finished, drained, record, flushed, history>>

\* ... and only then does the task end and can be joined.  Nothing is awaited
\* in between, so a task stands here only while a worker thread executes it.
TaskEnds(u) ==
    /\ u \in released
    /\ released' = released \ {u}
    /\ inFlight' = inFlight \ {u}
    /\ finished' = finished \cup {u}
    /\ UNCHANGED <<disk, pc, run, cancel, stop, spent, ledger, plan, unpolled,
                   drained, record, flushed, history>>

\* PacketdClient::probe answers inline, or the daemon is gone.
SynAnswer ==
    /\ At("syn")
    /\ pc' = "observe"
    /\ UNCHANGED <<disk, run, cancel, stop, spent, ledger, plan, tasks,
                   drained, record, flushed, history>>

SynFails ==
    /\ At("syn")
    /\ stop' = "packetd"
    /\ drained' = TRUE
    /\ cur' = 0
    /\ pc' = "drain"
    /\ UNCHANGED <<disk, run, cancel, spent, ledger, plan, tasks, tries,
                   flushed, history>>

\* try_join_next in the loop and join_next in the drain: take one finished
\* probe and record it.
Join(u) ==
    /\ At(IF drained THEN "drain" ELSE "join")
    /\ u \in finished
    /\ finished' = finished \ {u}
    /\ cur' = u
    /\ pc' = "observe"
    /\ UNCHANGED <<disk, run, cancel, stop, spent, ledger, plan, inFlight,
                   unpolled, released, drained, tries, flushed, history>>

\* Nothing more to join: flush a full batch, or take the next unit.
Joined ==
    /\ At("join")
    /\ finished = {}
    /\ pc' = IF Cardinality(batch) >= FlushBatch THEN "flush" ELSE "drive"
    /\ UNCHANGED <<disk, run, cancel, stop, spent, ledger, plan, tasks,
                   drained, record, flushed, history>>

\* Mutants of Drained: what is still in flight is dropped; what was drained is
\* never flushed.
DrainedEarly ==
    /\ At("drain")
    /\ finished = {}
    /\ pc' = IF batch = {} THEN "terminal" ELSE "flush"
    /\ UNCHANGED <<disk, run, cancel, stop, spent, ledger, plan, tasks,
                   drained, record, flushed, history>>

DrainedUnflushed ==
    /\ At("drain")
    /\ inFlight = {}
    /\ finished = {}
    /\ pc' = "terminal"
    /\ UNCHANGED <<disk, run, cancel, stop, spent, ledger, plan, tasks,
                   drained, record, flushed, history>>

Drained ==
    /\ At("drain")
    /\ inFlight = {}
    /\ finished = {}
    /\ pc' = IF batch = {} THEN "terminal" ELSE "flush"
    /\ UNCHANGED <<disk, run, cancel, stop, spent, ledger, plan, tasks,
                   drained, record, flushed, history>>

-----------------------------------------------------------------------------
(* Scheduler::record, with service detection.                              *)

\* The tail of record: the unit joins the batch of completed units.
Completed ==
    /\ batch' = batch \cup {cur}
    /\ fresh' = fresh + 1
    /\ cur' = 0
    /\ tries' = 0
    /\ pc' = IF drained THEN "drain" ELSE "join"

\* port.state is logged first; only an open port is probed for its service.
ObservePort ==
    /\ At("observe")
    /\ append(Event("port", cur))
    /\ \/ Completed
       \/ /\ Candidates > 0
          /\ tries' = Candidates
          /\ pc' = "detect"
          /\ UNCHANGED <<cur, flushed>>
    /\ UNCHANGED <<synced, blobs, done, row, run, cancel, stop, spent, plan,
                   tasks, drained, history>>

\* detect_service gives up: out of scope, out of candidates, cancelled, or
\* out of budget.
DetectNothing ==
    /\ At("detect")
    /\ \/ UnitHost[cur] \notin run.allows
       \/ tries = 0
       \/ cancel
    /\ Completed
    /\ UNCHANGED <<disk, run, cancel, stop, spent, ledger, plan, tasks,
                   drained, history>>

\* Mutant of DetectAcquire: the wait ignores the token.
DetectAcquireAnyway ==
    /\ At("detect")
    /\ UnitHost[cur] \in run.allows
    /\ tries > 0
    /\ pc' = "detectspend"
    /\ UNCHANGED <<disk, run, cancel, stop, spent, ledger, plan, tasks,
                   drained, record, flushed, history>>

\* Past the cancellable wait for a rate token, the reservation is made.
DetectAcquire ==
    /\ At("detect")
    /\ UnitHost[cur] \in run.allows
    /\ tries > 0
    /\ ~cancel
    /\ pc' = "detectspend"
    /\ UNCHANGED <<disk, run, cancel, stop, spent, ledger, plan, tasks,
                   drained, record, flushed, history>>

DetectBudget ==
    /\ At("detectspend")
    /\ ~CanSpend
    /\ Completed
    /\ UNCHANGED <<disk, run, cancel, stop, spent, ledger, plan, tasks,
                   drained, history>>

\* One service probe: it fails and the next candidate is tried, or its
\* capture is interpreted; without stored evidence there is no event.
DetectProbe ==
    /\ At("detectspend")
    /\ CanSpend
    /\ spent' = spent + 1
    /\ emitted' = emitted + 1
    /\ late' = IF cancel THEN late + 1 ELSE late
    /\ \/ /\ tries' = tries - 1
          /\ pc' = "detect"
          /\ UNCHANGED <<cur, flushed>>
       \/ /\ ~KeepEvidence
          /\ Completed
       \/ /\ KeepEvidence
          /\ pc' = "put"
          /\ UNCHANGED <<record, flushed>>
    /\ UNCHANGED <<disk, run, cancel, stop, ledger, plan, tasks, drained,
                   probes, lost, runs, crashes>>

\* emit_service_observed: the capture is stored, then cited.
PutEvidence ==
    /\ At("put")
    /\ blobs' = blobs \cup {<<"unit", cur>>}
    /\ pc' = "cite"
    /\ UNCHANGED <<log, synced, done, row, run, cancel, stop, spent, ledger,
                   plan, tasks, drained, record, flushed, history>>

CiteEvidence ==
    /\ At("cite")
    /\ append(Event("service", cur))
    /\ Completed
    /\ UNCHANGED <<synced, blobs, done, row, run, cancel, stop, spent, plan,
                   tasks, drained, history>>

-----------------------------------------------------------------------------
(* Scheduler::flush_progress.                                               *)

\* Mutant of FlushSync: the log is left to its group commit.
FlushWithoutSync ==
    /\ At("flush")
    /\ pc' = "mark"
    /\ UNCHANGED <<disk, run, cancel, stop, spent, ledger, plan, tasks, drained,
                   record, flushed, history>>

\* The log is forced durable first ...
FlushSync ==
    /\ At("flush")
    /\ sync_now
    /\ pc' = "mark"
    /\ UNCHANGED <<log, blobs, done, row, run, cancel, stop, spent, syncDue,
                   plan, tasks, drained, record, flushed, history>>

\* ... then the batch is committed to the resumption cursor ...
MarkUnitsDone ==
    /\ At("mark")
    /\ done' = done \cup batch
    /\ pc' = "progress"
    /\ UNCHANGED <<log, synced, blobs, row, run, cancel, stop, spent, ledger,
                   plan, tasks, drained, record, flushed, history>>

\* ... a scan.progress event may follow ...
EmitProgress ==
    /\ At("progress")
    /\ IF fresh >= ProgressEvery
       THEN /\ append(Event("progress", 0))
            /\ fresh' = 0
       ELSE UNCHANGED <<log, ledger, fresh>>
    /\ pc' = "cursor"
    /\ UNCHANGED <<synced, blobs, done, row, run, cancel, stop, spent, plan,
                   tasks, drained, record, batch, history>>

\* Mutant of record_progress: the spend is not stored.
record_sequence ==
    row' = [row EXCEPT !.seq = Len(log)]

\* TaskStore::record_progress
record_progress ==
    row' = [row EXCEPT !.seq = Len(log), !.packets = spent]

\* ... and the row's counters are brought up to date.
FlushCursor ==
    /\ At("cursor")
    /\ record_progress
    /\ batch' = {}
    /\ pc' = IF drained THEN "terminal" ELSE "drive"
    /\ UNCHANGED <<log, synced, blobs, done, run, cancel, stop, spent, ledger,
                   plan, tasks, drained, record, fresh, history>>

-----------------------------------------------------------------------------
(* The end of a run.                                                        *)

TerminalKind(reason) ==
    CASE reason \in {"packetd", "budget", "time"} -> "failed"
      [] reason = "denied" -> "denied"
      [] reason = "exhausted" -> "completed"

TerminalStatus(reason) ==
    IF reason = "cancelled" THEN "cancelled" ELSE TerminalKind(reason)

\* Mutant of EmitTerminal: a run out of time ends like a cancelled one.
EmitTerminalInTime ==
    /\ At("terminal")
    /\ IF stop \in {"cancelled", "time"}
       THEN UNCHANGED <<log, ledger>>
       ELSE append(Event(TerminalKind(stop), 0))
    /\ pc' = "finalsync"
    /\ UNCHANGED <<synced, blobs, done, row, run, cancel, stop, spent, plan,
                   tasks, drained, record, flushed, history>>

\* Every outcome but cancellation gets its terminal event.
EmitTerminal ==
    /\ At("terminal")
    /\ IF stop = "cancelled"
       THEN UNCHANGED <<log, ledger>>
       ELSE append(Event(TerminalKind(stop), 0))
    /\ pc' = "finalsync"
    /\ UNCHANGED <<synced, blobs, done, row, run, cancel, stop, spent, plan,
                   tasks, drained, record, flushed, history>>

FinalSync ==
    /\ At("finalsync")
    /\ sync_now
    /\ pc' = "finalcursor"
    /\ UNCHANGED <<log, blobs, done, row, run, cancel, stop, spent, syncDue,
                   plan, tasks, drained, record, flushed, history>>

FinalCursor ==
    /\ At("finalcursor")
    /\ record_progress
    /\ pc' = "publish"
    /\ UNCHANGED <<log, synced, blobs, done, run, cancel, stop, spent, ledger,
                   plan, tasks, drained, record, flushed, history>>

\* publish_terminal_status: the writer lock is released, then the outcome is
\* written.
Publish ==
    /\ At("publish")
    /\ row' = [row EXCEPT !.status = TerminalStatus(stop)]
    /\ ForgetRun
    /\ UNCHANGED <<log, synced, blobs, done, probes, emitted, lost, runs,
                   crashes>>

-----------------------------------------------------------------------------
(* The environment.                                                         *)

\* The watcher cancels the run's token.
Cancel ==
    /\ pc # "idle"
    /\ ~cancel
    /\ cancel' = TRUE
    /\ UNCHANGED <<disk, pc, run, stop, spent, ledger, plan, tasks, drained,
                   record, flushed, history>>

\* The process dies, or an I/O error makes run() return early: nothing more is
\* written, and with the machine the unsynced tail of the log may go too.
Crash ==
    /\ pc # "idle" \/ synced < Len(log)
    /\ crashes < MaxCrashes
    /\ \E k \in synced..Len(log) : log' = SubSeq(log, 1, k)
    /\ crashes' = crashes + 1
    /\ lost' = IF pc = "idle" THEN lost ELSE lost + (spent - row.packets)
    /\ ForgetRun
    /\ UNCHANGED <<synced, blobs, done, row, probes, emitted, runs>>

-----------------------------------------------------------------------------

Init ==
    /\ log = <<>> /\ synced = 0 /\ blobs = {} /\ done = {}
    /\ row = [status |-> "pending", seq |-> 0, packets |-> 0]
    /\ pc = "idle" /\ run = NoRun
    /\ cancel = FALSE /\ stop = "none"
    /\ spent = 0 /\ pending = 0 /\ syncDue = FALSE
    /\ cursor = 1 /\ host = 1 /\ already = {}
    /\ inFlight = {} /\ unpolled = {} /\ released = {} /\ finished = {}
    /\ drained = FALSE
    /\ cur = 0 /\ tries = 0 /\ batch = {} /\ fresh = 0
    /\ probes = [u \in Units |-> 0]
    /\ emitted = 0 /\ late = 0 /\ lost = 0 /\ runs = 0 /\ crashes = 0

\* The steps of Scheduler::run itself, phase by phase.
Opening == ReturnTerminated \/ RefuseScope \/ EmitStarted

Discovery ==
    \/ DiscoverStop \/ DiscoverReserve \/ DiscoverAnswer
    \/ PutHost \/ EmitHost \/ DiscoveryDone

Driving ==
    \/ LoadDone \/ DriveStop \/ DriveSkip \/ DriveUnit
    \/ AcquireCancelled \/ Acquire \/ BudgetExhausted \/ Dispatch
    \/ SynAnswer \/ SynFails
    \/ \E u \in Units : Join(u)
    \/ Joined \/ Drained

Recording ==
    \/ ObservePort \/ DetectNothing \/ DetectAcquire \/ DetectBudget
    \/ DetectProbe \/ PutEvidence \/ CiteEvidence

Flushing == FlushSync \/ MarkUnitsDone \/ EmitProgress \/ FlushCursor

Closing == EmitTerminal \/ FinalSync \/ FinalCursor \/ Publish

\* The steps of a spawned connect task.
ConnectTask(u) == Connects(u) \/ ConnectFinishes(u) \/ TaskEnds(u)

RunStep == Opening \/ SyncAppend \/ Discovery \/ Driving \/ Recording \/ Flushing \/ Closing

Next ==
    \/ \E s \in Scopes, a \in AllowSets, m \in Modes : Begin(s, a, m)
    \/ RunStep
    \/ \E u \in Units : ConnectTask(u)
    \/ Cancel
    \/ Crash

Spec == Init /\ [][Next]_vars
-----------------------------------------------------------------------------
(* Fairness.  The run's task and the connect tasks are polled by the        *)
(* runtime, and every connect is bounded by connect_timeout; nobody         *)
(* promises a cancellation, a resume or a crash.                            *)

Fairness ==
    /\ WF_vars(RunStep)
    /\ \A u \in Units : WF_vars(ConnectTask(u))

FairSpec == Spec /\ Fairness

-----------------------------------------------------------------------------
(* Properties.                                                              *)

Locations == {"idle", "entry", "discover", "discovering", "hostput", "hostlog",
              "load", "drive", "acquire", "spend", "syn", "join", "drain",
              "observe", "detect", "detectspend", "put", "cite", "flush",
              "mark", "progress", "cursor", "terminal", "finalsync",
              "finalcursor", "publish"}
Reasons == {"none", "cancelled", "time", "exhausted", "denied", "budget", "packetd"}
Statuses == {"pending", "running", "cancelled"} \cup TerminalKinds

\* What is on disk, what the live run holds, and the history.
DiskTypes ==
    /\ log \in Seq([kind : EventKinds, of : Nat])
    /\ synced \in 0..Len(log)
    /\ blobs \subseteq ({"unit"} \X Units) \cup ({"host"} \X Hosts)
    /\ done \subseteq Units
    /\ row \in [status : Statuses, seq : Nat, packets : 0..MaxPackets]

ControlTypes ==
    /\ pc \in Locations
    /\ run \in [scope : Verdicts, allows : SUBSET Hosts, mode : {"connect", "syn"}]
    /\ cancel \in BOOLEAN
    /\ stop \in Reasons
    /\ drained \in BOOLEAN
    /\ syncDue \in BOOLEAN

RunTypes ==
    /\ spent \in 0..MaxPackets
    /\ pending \in Nat
    /\ cursor \in Nat \ {0}
    /\ host \in Nat \ {0}
    /\ already \subseteq Units
    /\ inFlight \subseteq Units
    /\ unpolled \subseteq inFlight
    /\ released \subseteq inFlight \ unpolled
    /\ finished \subseteq Units
    /\ cur \in Units \cup {0}
    /\ tries \in Nat
    /\ batch \subseteq Units
    /\ fresh \in Nat

HistoryTypes ==
    /\ probes \in [Units -> Nat]
    /\ emitted \in Nat
    /\ late \in Nat
    /\ lost \in Nat
    /\ runs \in Nat
    /\ crashes \in Nat

\* Every variable holds a value of the kind the code's types allow.
TypeOK == DiskTypes /\ ControlTypes /\ RunTypes /\ HistoryTypes

\* Never skips: a unit the store calls completed has its port.state in the
\* durable part of the log, so no crash can leave a unit that a resume will
\* not probe again without its observation (flush_progress syncs, then marks).
DoneIsDurable ==
    \A u \in done : \E i \in 1..synced : log[i] = Event("port", u)

\* No dangling evidence: whatever a host.discovered or service.observed event
\* in the log cites was put into the evidence store first, in every run and
\* through every crash (put before log in emit_host_discovered and
\* emit_service_observed).  What a power failure leaves of a put is
\* EvidenceStore's subject.
CitedEvidenceStored ==
    \A i \in 1..Len(log) :
        /\ log[i].kind = "host" => <<"host", log[i].of>> \in blobs
        /\ log[i].kind = "service" => <<"unit", log[i].of>> \in blobs

\* A terminal event ends the log for good: over all runs of the scan nothing
\* is ever written after it, in particular no second one (already_terminated).
TerminalIsLast ==
    \A i \in 1..Len(log) : is_terminal(log[i]) => i = Len(log)

\* scan.started is written once per scan, first, however often it is resumed;
\* only a refusal up front leaves a log that does not begin with it.
StartedOnceAndFirst ==
    \A i \in 1..Len(log) :
        IF i = 1 THEN log[i].kind \in {"started", "denied"}
                 ELSE log[i].kind # "started"

\* A log that says completed accounts for the whole plan: every unit has a
\* port.state event before it and is marked done in the store.
CompletedCoversPlan ==
    \A i \in 1..Len(log) : log[i].kind = "completed" =>
        \A u \in Units : u \in done /\ \E j \in 1..i : log[j] = Event("port", u)

\* The published status never runs ahead of the log: a terminal status is
\* backed by the matching terminal event, already durable.
StatusBackedByLog ==
    row.status \in TerminalKinds =>
        /\ synced = Len(log)
        /\ log # <<>>
        /\ log[Len(log)].kind = row.status

\* Over all runs of a scan the packets emitted stay within what the ledgers
\* reserved; what the operator's ceiling does not cover is exactly the spend
\* that crashes threw away before it reached the store.
EmissionWithinBudget ==
    /\ emitted <= (IF pc = "idle" THEN row.packets ELSE spent) + lost
    /\ spent <= MaxPackets /\ row.packets <= MaxPackets

\* A crash loses a bounded amount of spend: the ledger is never further ahead
\* of the store than one flush batch and, for connect probes, those that hold
\* a permit and those a worker is still ending, each with its service probes,
\* plus the one-off discovery phase.
CrashLossBounded ==
    pc # "idle" =>
        spent - row.packets <=
            (FlushBatch + (IF run.mode = "connect" THEN Concurrency + Workers ELSE 0))
                * (1 + Candidates)
            + (IF Inventory THEN NumHosts * DiscoveryCost ELSE 0)

\* A unit is probed again only because a crash lost its completion: runs that
\* end by themselves, cancelled ones included, never repeat one.
ReprobedOnlyAfterCrash ==
    \A u \in Units : probes[u] <= 1 + crashes

\* Never re-probes: no step of any run probes a unit the store has completed,
\* also one completed out of order above the index a resume starts from.
DoneNeverReprobed ==
    [][\A u \in done : probes'[u] = probes[u]]_vars

\* Nothing leaves for a host the run's manifest does not allow, be it a
\* discovery, a probe of a unit (also one whose task was spawned long before)
\* or a service probe, and nothing at all from a run whose manifest is another
\* scan's or has expired.
ScopeRespected ==
    [][/\ emitted' > emitted => run.scope = "ok"
       /\ \A u \in Units : probes'[u] > probes[u] => UnitHost[u] \in run.allows
       /\ pc = "discovering" => host \in run.allows
       /\ pc = "detectspend" => UnitHost[cur] \in run.allows]_vars

\* What a cancelled run can still emit: over packetd the one probe already past
\* its cancellation check; with connect probes also every task that was
\* spawned, or about to be, before the cancel: each of those holds a permit.
StillToLeave ==
    LET atOnce == IF "connect" \in Modes
                  THEN Concurrency + (IF Candidates > 0 THEN 1 ELSE 0)
                  ELSE 1
    IN  IF Inventory /\ DiscoveryCost > atOnce THEN DiscoveryCost ELSE atOnce

\* Once the token is cancelled a bounded number of packets still leaves, those
\* decided on before it: draining in-flight work never starts new traffic.
CancelStartsNothingNew == late <= StillToLeave

\* Every run comes to an end by itself, whether or not it is cancelled.
RunsEnd == (pc # "idle") ~> (pc = "idle")

\* To everything that reads it, one scan's log is the abstract append-only
\* log, through all its runs and crashes.
AbstractLog == INSTANCE AppendLog
    WITH recs <- log, stable <- synced, Record <- [kind : EventKinds, of : Nat]
LogAppendOnly == AbstractLog!Spec
=============================================================================
