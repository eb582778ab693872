# A TLA+ model of bathy

bathy is a network inventory scanner built for agents: a scan is started once
under a signed-off scope manifest, runs for as long as it takes, survives
cancellation, crashes and resumes, and leaves an append-only event log and a
content-addressed evidence store that every answer is derived from.  This
directory models the parts of it that make those promises hold: the scheduler,
the logs and the stores, the protocol by which several processes share one
state directory without a daemon, the privileged packet helper and its client,
the gate a wide scan passes before it is recorded, and what the query tools
make of a log.

All source paths below are relative to `crates/`.

## 1. Inventory

### Components, state, operations

| component | state | operations | where |
|---|---|---|---|
| scheduler | dispatch position, ledger, in-flight probes, batch of completed units | `run` (open, discover, dispatch, record, detect, flush, drain, end), `publish_terminal_status` | `bathy-engine/src/scheduler.rs` |
| group-commit log | unsynced appends, time of last sync | `append`, `force_sync`, `release_writer_lock` | `bathy-engine/src/durable_log.rs` |
| event log | file, record index, advisory lock, `released` | `open` (lock, then scan), `append`, `sync`, `read_from`; `EventLogReader` without a lock | `bathy-evidence/src/log.rs` |
| evidence store | blobs by digest, temp files | `put`, `put_capped`, `get` | `bathy-evidence/src/store.rs` |
| task store | `scans`, `unit_progress` (SQLite) | `start_or_reuse`, `set_status`, `record_progress`, `mark_units_done`, `completed_units`, `next_pending_unit`, `list`, migration | `bathy-store/src/tasks.rs` |
| cancellation | a marker file, a token per run | `request`, `clear`, `spawn_watcher` | `bathy-engine/src/cancel.rs` |
| scan tools | none of their own | `admit_into_store`, `prepare_resume`, `cancel`, `events`, `spawn_scan` | `bathy-mcp/src/tools/scan.rs`, `engine.rs` |
| budget ledger | packets and seconds spent | `try_spend_packets`, `resumed`, `elapsed_exceeded` | `bathy-scope/src/budget.rs` |
| manifest and policy | allow and deny networks, expiry | `load`, `allows`, `evaluate` | `bathy-scope/src` |
| plan | sorted targets and ports | `expand_targets`, `expand_ports`, `units_from`, `unit`, `hash` | `bathy-plan/src` |
| rate limiter | token bucket | `acquire` | `bathy-engine/src/rate.rs` |
| packetd client | child process, worker thread, next id | `start`, `probe`, `icmp_probe`, drop |  `bathy-engine/src/packetd.rs` |
| packetd daemon | session state, scope, probes charged, identity counter | `handle_line`, `admit`, `probe` | `bathy-packetd/src` |
| approval gate | key, nonce counter, redeemed nonces with expiry | `challenge`, `redeem`, `consume` | `bathy-mcp/src/approval.rs` |
| MCP server | lifecycle opener, routing | first request, tools | `bathy-mcp/src` |
| query | none | `fold_events`, `diff` | `bathy-query/src` |
| probes, interpretation, types, command line | none that outlives a call | | `bathy-probe`, `bathy-interpret`, `bathy-types`, `bathy` |

### How they interact

`scan.start` and `scan.resume`, from the MCP server or the command line, write
the scan's row, open its event log (and with it take the writer lock), clear
the cancel marker and hand the open log to a scheduler.  The scheduler logs
through the group-commit log, stores evidence before it cites it, and commits
units to the task store in batches, after it has forced the log durable.
`scan.cancel` writes a marker file that the run's watcher polls.
`scan.events` reads the log file without a lock while it is being written.
Before any of this, `scan.start` reads the manifest, expands the request into a
plan, and above a threshold of addresses asks a human: the question goes out
with a sealed token, the retry brings it back.  SYN and ICMP probes leave
through one `bathy-packetd` child per run, spoken to line by line over its
pipes.  `result.query`, `result.diff` and `evidence.get` fold the log afresh at
every call.  Processes meet only through the file system, SQLite and those
pipes.

### What is hard

* A crash between any two of: log append, log sync, blob put, unit commit,
  counter update, lock release, status write.
* Two processes starting, resuming or cancelling the same scan at once.
* Completions out of plan order, then a crash, then a resume from an index.
* Cancellation arriving between a check and the packet it should have stopped,
  which a spawned task may send much later.
* A budget that must hold over several runs, each with a fresh ledger.
* A reader beside a writer, a writer after a killed writer.
* A late reply on the wire, while a later probe of the same endpoint waits.
* The end of a run while its helper hangs, or while a thread is in a read.
* A token presented twice, after its nonce was forgotten, after a restart, or
  over a manifest edited in between.
* Events of equal time and repeated probes folded into one belief.

`PROJECT.json` lists these hazards one by one, each at its line, with the
properties that cover it or the reason none does yet.

## 2. Modules

| module | models | how its state and actions correspond |
|---|---|---|
| `Scheduler` | one scan over all its runs | `log`, `synced`, `blobs`, `done`, `row` are the disk; `pc` is the statement `run` stands at; one action per awaited or durable step.  A connect task is spawned (`Dispatch`), connects when the runtime first polls it (`Connects`, cancelled or not), drops its permit (`ConnectFinishes`) and only then can be joined (`TaskEnds`); at most `Workers` tasks stand between the last two, since nothing is awaited there.  `Crash` keeps the disk up to any cut of the unsynced log tail.  `Begin` is a start or a resume reduced to what the run sees |
| `EventLog` | the log file, its lock, writer handles, readers | opening is two steps (`TryLock`, `ScanExisting`), appending three (`BeginWrite`, `FinishWrite`, `Commit...`), so kills and readers fall in between |
| `AppendLog` | abstract: what others rely on from a log | grows by one record, hardens, loses an unsafe suffix; implemented by `EventLog` and by the log inside `Scheduler` |
| `TaskStore` | `start_or_reuse` from several connections | lookup and insert are separate steps; the UNIQUE index is the guard of `Insert` |
| `IdempotentStart` | abstract: the promise of an idempotency key | implemented by `TaskStore` |
| `ScanLifecycle` | start, resume, cancel and the end of a run, from several processes | every access to row, lock, marker and log is a step (a flush is two); removing the marker may fail; the run itself is reduced to spending, flushing and ending |
| `PacketdSession` | one `bathy-packetd` process | `main`'s start-up and line loop, the session states of `protocol.rs`, `admit`, emission, the wait for a matching reply or the deadline, the teardown.  Single threaded, so a step is a line read, a packet emitted, a reply matched or a deadline |
| `PacketdClient` | `PacketdClient` over that process | the handshake, one awaited probe at a time, the worker thread's write and read, `Drop` step by step, the engine killed; `EXTENDS PacketdSession`, so the two are composed by their shared pipe variables.  `roles` also puts a daemon of another build or a stranger at either end |
| `ScanPlan` | expansion, port selection, numbering, policy | pure operators; a sorted deduplicated list is a set, whose k-th member is `Nth` |
| `Approval` | `scan.start` up to the recorded scan | each call is admitted, asks (`Challenge`) or redeems in three steps (`Open`, which reads the clock to check expiry, `ReadClock`, which reads it again for the nonce set, `Consume`, under the mutex) and begins; time passes between any two; the store's part is the atomic promise `TaskStore` implements; the token's seal is external |
| `EvidenceStore` | `put` and `get` | put is create (with the fan-out directory), write, sync, rename, sync of the blob's own directory; memory and disk of each file are apart, and so are the fan-out directories that exist (`made`) and those whose entry in their parent is on disk (`entered`), so that a power failure has a choice |
| `ResultFold` | `fold_events`, `diff` | the types of an event and pure operators over a sequence of events: the total order, precedence of observations, citations, comparability |
| `Results` | a scan being written while it is read | composes `EvidenceStore` and `ResultFold` with the order in which a run puts and cites |
| `*Proofs` | theorems about the module they extend | see section 5 |
| `MC*` | instances for TLC | `MCApproval` also evaluates the operators of `ScanPlan` over every specification of its width |

Operators marked "Mutant of X" are plausible bugs of the code X models.  They
are used by no specification; substituting one for X makes the property it is
paired with in `PROJECT.json` fail, which is how each property is known to
depend on the code.

### Abstractions

* Units are `1..NumUnits` (the code counts from 0), hosts are numbers; payloads,
  timestamps and event bodies are dropped down to kind and subject.
* Time: the runtime ceiling and the group-commit interval may be found elapsed
  at any check; rate-limiter waits are unbounded and cancellable where the code
  races them against the token.
* `BudgetLedger` counts packets; seconds are part of "may elapse at any check".
* An I/O error that makes `run` return early leaves the disk as a crash of the
  process does, so `Crash` stands for both; a process crash that loses nothing
  and a machine crash that loses the unsynced tail are cuts of the same action.
* A SQLite commit is durable when it returns.  In `Scheduler` so is a blob put:
  what that module checks is the order of put, append and sync.  Whether a put
  is durable is `EvidenceStore`'s subject, and a new fan-out directory is where
  it is not (section 4).
* `EventLog` takes the directory entry of a log file to outlive a machine crash;
  the code creates the file and never syncs its directory (`log.rs:270-282`).
* `Scheduler` runs one scheduler at a time.  That two never run together is
  `OneRunAtATime`, checked in `ScanLifecycle`, and rests on `EventLog`'s lock.
  A ledger seeded from a record another run has since changed is possible only
  between processes and is in `ScanLifecycle`, not in `Scheduler`.
* A probe over packetd, in `Scheduler`, answers or the daemon is gone; that an
  answer belongs to its probe, and comes at all, is checked in `PacketdClient`.
* `Approval` has one clock, for the codec that checks a token's expiry and for
  the gate that forgets nonces, and takes it never to step back; it may advance
  between any two steps of a call.  A token opens strictly before its expiry.  A budget of 0 stands for one not given;
  an explicit 0 is refused when the request is parsed.
* A reply on the wire can arrive during the `Span` further probes after its own
  (`SOURCE_PORT_SPAN`): after that its source port is in use again and no
  matching rule could tell it apart.  One daemon is modelled: replies to the
  probes of a second one on the same machine, which `icmp.rs:107-110` admits to
  be indistinguishable by identity, are outside.
* The client's `Understood` gives one meaning to each line and job, in the order
  `exchange` compares them: a result or host result with another id is a lost
  session, whatever the job.
* Powers of two (`1 << n` in the code) are the recursive function `power2`, up to
  the width of an address.
* A digest is injective; addresses and ports are small numbers; observations
  are records of numbers, compared as the code compares them.

## 3. What the runs check

| run | instance | what it shows |
|---|---|---|
| `scheduler_connect` | 3 units, 2 permits, batches and group commits of 2, one service probe per open port, 1 worker thread, 4 packets, 2 runs, 1 crash (4 350 000 states) | the resumption contract of one scan, and what a cancel still lets out |
| `scheduler_inventory` | 3 units on 2 hosts over packetd, discovery of 2 packets a host, manifests that narrow or expire, 7 packets (about 2 000 000 states) | scope, budget, evidence, status, and refinement of `AppendLog` |
| `scheduler_concurrency` | 5 units, 2 permits, 1 worker thread, a flush after every unit, 2 runs (565 000 states) | how far the ledger may be ahead of the store, and that every run ends |
| `event_log` | 2 handles, 1 reader, 4 appends, groups and pages of 2, 1 machine crash | log integrity, durability of what was acknowledged, readers, refinement of `AppendLog` |
| `task_store` | 3 processes, 2 keys, 2 plans, 3 identifiers | one scan per key, refinement of `IdempotentStart` |
| `scan_lifecycle` | 2 processes, 2 units, 3 packets, 4 starts or resumes, 1 death | mutual exclusion, what a refused resume leaves alone, cancelled runs end |
| `packetd` | 4 targets (allowed, denied, reserved, IPv6), ceiling of 2 or 4, 3 probes or lines of a stranger, 2 replies that come at any time, 2 lines of a daemon of another build, identities repeating after 2 (276 000 states) | what is emitted was authorised; answers belong to their probes; probes end; neither a drop nor a killed engine leaves a daemon behind |
| `approval` | 2 concurrent calls, 5 requests (two spellings of the same wide plan, narrow, too large, unusable), 2 manifests, 2 tokens, 2 processes, 3 clock values (1 420 000 states) | an approval is redeemed once while it is valid, and for what it was given; what is recorded is lawful |
| `query` | a plan of two endpoints and a narrower one, 2 port states, 2 observations, 4 events, 2 writers of one capture, power failure, decay, a log edited by hand, 7 baselines (294 000 states) | folds, diffs and evidence of a scan being written |
| `lost_put`, `running_without_runner`, `ceiling_on_resume` | as small as the case needs | three statements of the documentation the code does not meet, section 4 |

Why these bounds are enough for the cases that matter.  Three units with two
permits give completions out of order above the index of a resume; a batch of
two gives units flushed, units batched and units in flight at the same crash;
a group commit of two gives an unsynced tail across a flush.  Four packets for
three units with detection run out in dispatch, in detection and after a
resume.  Two runs and a crash reach: crashed, resumed and ended; ended and
resumed; cancelled and resumed.  In the inventory run seven packets cannot pay
for everything (four for discovery, two per unit), so the ceiling is met in
discovery and in dispatch.  `CrashLossBounded` is checked with five units
against a bound of four (two permits, one worker, a batch of one), so that its
concurrency term is what keeps it; the bound is attained there.  A late connect
needs a task that is spawned and not polled when the token is cancelled: two
permits give two, which with one service probe attains the bound of
`CancelStartsNothingNew`.  Identities that repeat after two
probes, with three probes, are the least with which a late reply meets a later
probe of the same endpoint and the same port; a ceiling of two with three
probes is met; a denied, a reserved and a version 6 target each meet their own
refusal.  Two tokens and two calls give one token presented twice, two given
for one plan, and each presented for the other's; a token life of two over
three clock values gives a token redeemed before and at its expiry, a nonce
forgotten, and a call that opened its token in time and consumes it afterwards;
one principal is used, since a token of another one does not open.  Four events give a probe repeated after a crash with a
capture in between; what four events cannot reach, a second terminal event for
one, `Scheduler` excludes.  Four appends with two handles give a
handle opened after a killed one, after a failed write and after a crash.

`CHECK_DEADLOCK FALSE` everywhere: the counters that bound runs, appends and
crashes let the system stop, and a finished scan legitimately does nothing.

### Fairness

`Scheduler`: weak fairness of the run's own steps (a task the runtime polls;
every wait in it is bounded by a timeout or a permit) and of each connect task
being polled, finishing (`connect_timeout`) and ending.  Nothing is assumed of cancellation, resumes or
crashes.  `RunsEnd` is checked for connect probes; over packetd it also needs
the daemon to answer or exit, which is `ProbesEnd`.
`ScanLifecycle`: weak fairness of the watcher's poll and of what a run does once
its token is cancelled (`WindDown`: flush, record, release, publish), and of
nothing else: that a run gets on with its units is not assumed, so a run that
never finishes them has only the marker to end it, and `CancelEndsRun` fails
without the watcher.  `PacketdClient`: weak fairness of this repository's daemon (its wait for
a reply has a deadline), of the worker thread, of the handshake and of `Drop`
(threads the system runs), and of a sent SIGKILL taking effect.  The network,
the run and a daemon of another build promise nothing.  `EventLog`,
`TaskStore`, `Approval` and `Results` have safety properties only.

## 4. Where code and documentation differ

1. **A put that can be lost** (`OkIsNeverLost`): `put` creates the fan-out
   directories `blobs/xx/yy` with `create_dir_all` (`store.rs:179`) and syncs
   only the innermost one (line 243), never the directories their entries are
   in.  The doc of `open` (lines 143-147) says a crash right after `Ok` "can
   never lose or corrupt the bytes"; a power failure can take a new directory
   with a blob that an event already cites.  What remains true is
   `EvidenceServed`: nothing else loses a cited capture, and a power failure
   makes one missing, never wrong.
2. **Running without a runner** (`RunningHasRunner`): resuming a scan that
   failed with units pending stamps it `running`; the run finds the terminal
   event and returns without writing a status.
3. **Ceiling over a resume** (`CeilingHolds`): the ledger is seeded from a
   record read before the lock was taken.

Noted while modelling, without a run:

* `flush_progress` stores a `last_sequence` that counts a `scan.progress` not yet
  synced (`scheduler.rs:1646-1674`), though its doc (1599-1602) says the cursor
  is durable only after the events it certifies.  Nothing resumes from it.
* A kill inside `write_all` leaves an unterminated line (`log.rs:628`), which
  `durable_log.rs:28-37` says cannot be observed; every later writer refuses the
  file, so that scan cannot be resumed.  Readers skip the line (`EventLog` has
  both).
* `cancel::clear` ignores the result of `remove_file` (`cancel.rs:43-45`): a
  marker that cannot be removed cancels the next run too, which `cancel.rs:8-10`
  and 41-42 say cannot happen.  `ClearMarker` may leave the marker.
* `ApprovalGate::redeem` promises a token "has not been redeemed before"
  (`approval.rs:248-252`, module doc 29-32).  It reads the clock twice, to open
  the token (264) and to drop forgotten nonces (287-290): a call that is held up
  in between until the nonce of an earlier redemption is forgotten redeems the
  token again.  `OneUseBeforeExpiry` states what holds; the late redemption
  starts nothing, since the token binds the arguments and with them the
  idempotency key (`WideScansApproved`).
* A terminal status published by a run can overwrite the status of a later run
  that took the lock between the release and the write (`scheduler.rs:604-605`),
  so that a stored status is terminal while a live run holds the lock, against
  the contract stated above that function; a start writes `running` before it holds the
  lock, although a comment there says nothing is touched until then; "already
  complete" may be answered with the status `running`; a caller that kept using
  a log handle after a failed append would write a sequence number twice (no
  caller does).
* The client's handshake and its reads have no timeout.  With a daemon of
  another build that hangs, `start` or a probe waits for ever and only dropping
  the client ends it; `ProbesEnd` is therefore stated of this repository's
  daemon, `DropEnds` of any.
* `exchange` compares the id of a result, not of a refusal
  (`bathy-engine/src/packetd.rs:593`).  Over this daemon, which answers every
  line in turn, it makes no difference (`AnswersAreTheirOwn`).
* `request.rs:161-164` of `bathy-types` says the daemon's ceiling counts the
  RST that tears a connection down; `admit` (`bathy-packetd/src/syn.rs:470`)
  compares probes only.  `EmissionAuthorised` states what holds: at most the
  ceiling in probes, and one RST more for each SYN.
* The plan's hash covers the scope's id and budgets, not its allow list: a plan
  approved under one allow list can be redeemed under another.  The retry
  evaluates the manifest it reads (`RecordedPlansLawful`), so what starts is
  still allowed.
* Between logs as they were written, two completed scans of one plan never
  yield an appeared or disappeared endpoint, since completing means that every
  unit was reported: such changes need a log that was edited.

## 5. Proofs

Every theorem holds for every value of the constants its module's assumptions
allow: any number of units, hosts, handles, processes, keys, calls, tokens,
targets or writers, and without the bounds TLC needs mattering to the argument.
Each invariant follows the same pattern: an inductive strengthening, one lemma
per action or phase, one temporal step at the end.

### `SchedulerProofs` and `CountingProofs`

| theorem | property | inductive invariant |
|---|---|---|
| `TypeCorrect` | `TypeOK` | `TypeInv`: the types plus what the control state implies (`Control`: a unit is held exactly where `record` works on one, dispatch has a current unit, an outcome is set before the end) |
| `NeverSkips` | `DoneIsDurable` | `Durable`: from the sync of a flush until the commit, every unit of the batch is in the durable prefix; before it, every unit of the batch is at least in the log |
| `NeverOverBudget` (`CountingProofs`) | `EmissionWithinBudget` | `Accounted`: what was emitted, and what tasks not yet polled or a discovery about to begin will emit, is covered by the ledger plus what was lost |
| `TerminalEndsLog`, `StartedOnce` | `TerminalIsLast`, `StartedOnceAndFirst` | `WellFormed`: past the opening checks the log holds no terminal event and begins with `scan.started`, and after the terminal event nothing is left but to sync and publish |
| `NoDanglingEvidence` | `CitedEvidenceStored` | `Backed`: between the put and the append the blob is there |
| `CompletedMeansComplete` | `CompletedCoversPlan` | `Tidy` and `Placed`: every unit dispatch has passed is done, batched, in flight, finished or in hand, and none of those sets holds anything where `run` has emptied it; with `Durable` |
| `StaysInScope` | `ScopeRespected` | `Authorised`: wherever `run` is about to emit, the target it holds was checked against the manifest of this run |
| `NeverProbedAgain` | `DoneNeverReprobed` | `Behind`: what is in hand, in flight or batched comes from below the cursor, and what the store calls done is below it too or was loaded before dispatch began |
| `StatusFollowsLog` | `StatusBackedByLog` | `Concluded`: from the terminal event to the publication the log ends in the event the status is taken from, and before the publication it is synced |
| `CancelIsQuiet` (`CountingProofs`) | `CancelStartsNothingNew` | `Quiet`: what has left since the cancel and what is past its last look at the token (`Decided`: tasks not polled, a reservation about to be sent) fit together into the permits and one service probe, or are one host's discovery; with `Room` |
| `LogsReadAsTaken` | none of a run | `ObservedInTurn`: observations are of units of the plan, a service after its port; with the three theorems on the log above and `Durable` |
| `OnlyCrashesRepeat` | `ReprobedOnlyAfterCrash` | `Counted`: a unit neither the store nor the run in progress has was probed at most once per crash; with `WellFormed`, `Tidy`, `Behind` and `Concluded` |
| `LogImplementsAppendLog` | `LogAppendOnly` | each step is a step or a stutter of `AppendLog` |
| `CrashLossIsBounded` (`CountingProofs`) | `CrashLossBounded` | `Apart` (a unit dispatched and not yet flushed is in one place: batch, in flight, finished, in hand), `Room` (those places hold `FlushBatch` units, one for each permit and one for each worker, all told) and `Ahead` (what each place may have cost, and what the hosts discovered so far have) |

Why the strengthenings: each property speaks of the disk, and each is kept
because of where `run` stands when it writes.  `DoneIsDurable` alone is not
inductive, since `mark_units_done` commits a batch held in memory; `Durable`
carries the batch through the sync that precedes it.  Crash steps use a lemma
on prefixes (`SubSeqFacts`), append steps one lemma per invariant
(`AppendLogged`, `ShapeAppend`, `BackedAppend`), and each `...Step` lemma has
one step per phase of `run`.  `CrashLossBounded` cannot be kept by itself, since
it does not say how much of its bound is already used: `Ahead` charges the
ledger's lead to the units that caused it, and `Room` counts those.  A permit
is dropped inside the task (`scheduler.rs:1064`), before the task can be joined:
a full set of permits may be out while up to `Workers` more tasks are ending,
which is why the bound has a term for them.  It stands because a task that can
be joined is joined before the next dispatch, and a full batch is flushed first.

### The other modules

| theorem | property | inductive invariant, and why it is needed |
|---|---|---|
| `EventLogProofs`: `Typed`, `NumberedWithoutGap`, `IndexNeverStale`, `AcknowledgedSurvives`, `ReadersSeePrefix` | `TypeOK`, `GapFree`, `IndexCurrent`, `AckedSurvives`, `ReaderSeesPrefix` | `Indexed` (who may append holds the lock, has counted every line and left the last one terminated), `Durable` (what was acknowledged is synced) and `Views` (a reader's snapshot and what it delivered lie inside the file).  A gap-free file stays so only because the handle's index, a copy, ends where the file does |
| `LogIsAppendOnly` | `AppendOnly` | the same, over which each step is a step or a stutter of `AppendLog` |
| `TaskStoreProofs`: `Typed`, `OneScan` | `TypeOK`, `OneScanPerKey` | `Drawn` (an identifier belongs to one call, before and after its insert), `RowsDiffer`, `Backed` (what a caller was told is in the table, and rows never change) |
| `StoreImplementsPromise` | `ImplementsPromise` | the same: the insert is the abstract claim, the second lookup the abstract reuse or refusal, everything else a stutter |
| `ScanLifecycleProofs`: `Typed`, `OneRun`, `ResumeAcquiresFirst` | `TypeOK`, `OneRunAtATime`, `AcquireFirst` | `Unwritten` (units held and written never pass the plan), `Decided` (a run that is ending has an outcome), `Started` (who created the scan is not resuming it).  That whoever clears the marker is the only one past `OpenLog` is `OneRunAtATime` |
| `ApprovalProofs`: `Typed`, `RedeemedOnce` | `TypeOK`, `OneUseBeforeExpiry` | `Nonces` (a nonce names one token of its process, and no token outlives `Ttl`), `Opened` (what `consume` is given was sealed by this process for this call, not after the time it read), `Remembered` (a spent token that could still open has not been forgotten).  Forgetting is the point: single use must follow from the expiry of the token where the nonce is gone, and from the key where the process is |
| `WideScansStandOnApproval` | `WideScansApproved` | `Approved` (a wide call past the gate holds a redeemed, affirmative token for its own arguments and plan) and `KeyedOnce` (a key has one recorded scan): two calls may hold one token, redeemed again after it expired, but then they have the same arguments and the same key, and the second records nothing |
| `RecordedPlansAreLawful` | `RecordedPlansLawful` | `PlansInv`: what any call past `admit` goes on with, and what is recorded, is `Licit`, authorised by a manifest some call read.  A request and a manifest keep their meaning, so it does not matter what the file holds when the scan is recorded |
| `ExpansionWithinCount`, `UnitsNumberTheProduct` | checks of `ScanPlan` in `MCApproval` | none: the addresses a request expands to are at most the ones counted beforehand, however its specs overlap; `unit` is a bijection between the indices below `len` and the pairs of an address and a port |
| `PacketdProofs`: `ClientTypesHold` | `TypeOK` | `EInv` below, and `Peers`, `Calls`, `Spoken`: who is at which end, what a call and the worker may hold, that what waits in the pipe was written |
| `AnswersBelongToTheirProbe` | `AnswersAreTheirOwn` | `AInv`: `Numbered` (a reply carries what its packet carried), `Witnessed` (a result rests on a reply to the probe it names), `ToldBacked` (what a caller was told was said for its probe), `Pipeline` (between this client and this daemon at most one line is on its way, and the worker's probe is in one place) and `OncePerId` (an id is put on the wire or refused, once).  A refusal's id is not compared in the code; that the pipeline never holds more than one line is why it need not be |
| `EmitsOnlyAuthorised` | `EmissionAuthorised` | `Fixed` (the scope is the first Init's), `Paid` (every packet was charged, and its counter is its own), `InScope`, `Torn` (a teardown is owed to one wait that is over), with the types of every line the pipe may hold |
| `ResultsProofs`: `CapturesKept` | `CitedServed`, the half of `EvidenceServed` about the store | `IInv`: `Whole` (a path holds its own bytes, synced, or nothing), `Progressing` (what each step of a put relies on of the ones before), `InHand` (the pending citation is of the capture being put, and may be logged next), `Recorded` (a log no hand has touched is `AsWritten`), `CitedKept` (what is cited is on disk, not only in memory, unless it rotted or was swept away with its directory) |
| `FoldsCiteWhatIsServed` | `EvidenceServed` | the same, and that a fold gives out no digest its events do not cite |
| `FoldForgetsArrival` | none of a run, which tries neighbours and the reversal | none: any permutation of any events folds to the same |
| `FoldsAreBeliefs` | `FoldIsBelief` | `IInv`, for `Recorded`: what a fold believes holds of a log as written, of any length |
| `DiffsInventNothing` | `DiffInventsNothing` | the same; that a diff counts each endpoint once, mirrors and takes no silence for evidence holds of any two folds |

How the fold is reasoned about.  `FoldLeft` is the recursion one expects, but
the prover knows neither recursion nor induction on it.  Induction over the
numbers is to be had in its form for sets (`SetInduction`: a set that holds 0
and each successor of a member holds every number), from the well-foundedness of
`<`; a recursive function equals its body only if some function does, so its
existence is proved first (`FoldExists`, and the like for `power2`).  With these
`FoldUnfolds` says once what a fold over a sequence is, for the three folds of
the code: the sort, the fold of events, the citations of an endpoint.  The sort:
`Precedes`, which compares sequence numbers and then `tie_key`, is a strict total
order on whole events (`SameKey`: two that agree in both are one event), insertion keeps a sequence in order and every event's number
of predecessors, and a sequence in order is determined by these numbers
(`SortedOnce`); hence the outcome does not depend on the order of arrival, and a
log numbered from 1 is its own sort.  Over such a log the fold is followed
event by event (`BelievesMore`): the last state, the last observation, each
reference once, the hosts, the plan.  `CompletedCovers` then turns a completed
fold's silence into evidence.

Why earlier scans may be assumed `AsWritten`.  `ResultsAssumption` takes the
logs compared with to have the shape `Scheduler::run` leaves, and that is proved:
`LogsReadAsTaken` for how a log begins and ends, for what it observes and what
completion means, whatever crashes and resumes made it; `NumberedWithoutGap`
for its numbers.  The scan under way is not assumed anything: `Recorded` is
kept by each of its steps, and a log edited by hand is exempt.

The assumptions are those of the modules (`SchedulerAssumption`,
`EventLogAssumption`, `TaskStoreAssumption`, `LifecycleAssumption`,
`SessionAssumption`, `ClientAssumption`, `PlanAssumption`,
`ApprovalAssumption`, `ResultsAssumption` and so on): sizes are natural
numbers, reserved addresses are addresses, manifests are ones `load` accepts,
requests have the shape the request schema admits (at least one target and one
port specification, each a network, range or single value of the address
width), plans are lists of endpoints, observations and events are records of
numbers.
TLC evaluates each on the instance of its run.

### Only model-checked

* Liveness, which the prover does not do: `RunsEnd`, `CancelEndsRun`,
  `ProbesEnd`, `DropEnds`.  Every other invariant, action property and refinement that
  a passing run checks is proved.
* That the log's shape in `Scheduler` and in `Results` is the same one
  (`ReadableLog`, `AsWritten`) is read off the two definitions: their events
  carry different fields.

## 6. Plan

Written, in this order: `Scheduler`, `EventLog` with `AppendLog`, `TaskStore`
with `IdempotentStart`, `ScanLifecycle`, `SchedulerProofs`; then
`PacketdSession` with `PacketdClient`, `ScanPlan` with `Approval`,
`EvidenceStore` and `ResultFold` with `Results`; then the proofs of each, of
six more properties of `Scheduler`, and of the fold, the diff, the recorded
plans and the client's answers.

Left to model:

1. The rate limiter over integer ticks of one token each, where its refill is
   exact: what its one waiter is granted in any window, and that cancelling
   it in the middle of its wait grants nothing.  With it the ledger's seconds.
2. Event paging and following (`scan.events`) over `EventLog`, with a cursor
   that outlives a machine crash.
3. `TaskStore::open` by two processes over a database without a version.
4. The lifecycle opener before the first request.

Left to prove: that the daemon's side of a probe ends in a bounded number of
its own steps, as a variant in place of the liveness the prover lacks; that a
run does (`RunsEnd`), likewise; and one log shape shared by `Scheduler` and
`Results`, through a mapping of their events.

## 7. Not modelled, and why

* Rate limiter (`bathy-engine/src/rate.rs`): floating-point tokens over a wall
  clock.  `Scheduler` lets a wait for it last any time and be cancelled.  A run
  has one waiter at a time, and it asks for one token, so that the queueing of
  waiters and an acquisition larger than the bucket are not reached.
* Elapsed seconds of the ledger: any check may find the ceiling passed.
* The lifecycle opener (`bathy-mcp/src/lifecycle.rs`): one Boolean and a pure
  classification; what it guards against is in the SDK.
* `TaskStore`'s migration: a one-time step of a database written by an older
  build.
* The order of ICMP and TCP inside one host's discovery, and the classification
  of socket errors in connect probing.
* Wire documents, filters and page cursors of the query tools; probe payloads,
  interpretation rules, serialization, schemas, and the command line's parsing
  and output: data with no state that outlives a call.
* Raw packet construction, the system calls of the privilege drop, the seal of
  a token and the MCP transport are the operating system's or a library's.
* Developer tooling (`xtask`, fuzz targets) is not part of the running system.

## 8. Running

    tlc -config MCSchedulerConnect.cfg MCScheduler
    tlc -config MCSchedulerInventory.cfg MCScheduler
    tlc -config MCSchedulerConcurrency.cfg MCScheduler
    tlc -config MCEventLog.cfg MCEventLog
    tlc -config MCTaskStore.cfg MCTaskStore
    tlc -config MCScanLifecycle.cfg ScanLifecycle
    tlc -config MCPacketd.cfg MCPacketd
    tlc -config MCApproval.cfg MCApproval
    tlc -config MCResults.cfg MCResults

    tlc -config MCResultsLost.cfg MCResults                (expects a violation)
    tlc -config MCScanLifecycleRunner.cfg ScanLifecycle    (expects a violation)
    tlc -config MCScanLifecycleCeiling.cfg ScanLifecycle   (expects a violation)

    for m in Scheduler Counting EventLog TaskStore ScanLifecycle Approval Packetd Results
    do tlapm ${m}Proofs.tla; done
