---------------------------- MODULE ScanLifecycle ----------------------------
(***************************************************************************)
(* One scan as several processes see it: the command line and the MCP      *)
(* server both start, resume and cancel scans through the same state       *)
(* directory, with no daemon between them.  They meet in four places: the  *)
(* scan's row in the task store, its event log with the writer lock, its   *)
(* unit progress, and the cancel marker file.  Every read or write of one  *)
(* of these is a step of its own here.                                     *)
(*                                                                         *)
(* The run itself is Scheduler's subject; here it only spends packets,     *)
(* completes units in order and ends in one of three ways, a refusal       *)
(* counting as a failure.                                                  *)
(***************************************************************************)
EXTENDS Integers, FiniteSets

CONSTANTS
    Procs,         \* processes that act on the scan
    NoProc,        \* the writer lock is free
    NumUnits,      \* units of the plan
    MaxPackets,    \* Budgets::maximum_packets
    OpenMayFail,   \* opening a log nobody holds may still fail (I/O)
    MaxOps,        \* bound: starts and resumes attempted
    MaxCrashes     \* bound: processes that die or abort with an error

ASSUME LifecycleAssumption ==
    /\ NoProc \notin Procs
    /\ NumUnits \in Nat \ {0}
    /\ MaxPackets \in Nat
    /\ OpenMayFail \in BOOLEAN
    /\ MaxOps \in Nat
    /\ MaxCrashes \in Nat

VARIABLES
    status,    \* scans.status, "absent" before the row exists
    packets,   \* scans.packets_spent
    unitsDone, \* completed units in the store
    logEnd,    \* the terminal event the log ends in, "none" without one
    lock,      \* the process that holds the log's writer lock
    marker,    \* whether the cancel marker file is there
    proc,      \* each process: where it stands and what it remembers
    emitted,   \* history: packets emitted over the whole scan
    ops,       \* history: starts and resumes attempted
    crashes    \* history: processes that died

shared  == <<status, packets, unitsDone, logEnd, lock, marker>>
history == <<emitted, ops, crashes>>
vars == <<shared, proc, history>>

Terminal == {"completed", "failed", "cancelled"}

\* at: where; op: start or resume; seen: packets_spent as read by the resume;
\* spent: the ledger; batch: units not flushed; token: the cancellation token;
\* why: the outcome.
Idle == [at |-> "idle", op |-> "start", seen |-> 0, spent |-> 0, batch |-> 0,
         token |-> FALSE, why |-> "none"]

Go(p, at) == proc' = [proc EXCEPT ![p].at = at]
Stop(p)   == proc' = [proc EXCEPT ![p] = Idle]

-----------------------------------------------------------------------------
(* scan.start: admit_into_store.                                            *)

\* start_or_reuse inserted the row; only one process ever gets here.
Create(p) ==
    /\ proc[p].at = "idle"
    /\ status = "absent"
    /\ ops < MaxOps
    /\ status' = "pending"
    /\ proc' = [proc EXCEPT ![p] = [Idle EXCEPT !.at = "created", !.op = "start"]]
    /\ ops' = ops + 1
    /\ UNCHANGED <<packets, unitsDone, logEnd, lock, marker, emitted, crashes>>

\* The status is written before the log is opened.
AdmitRunning(p) ==
    /\ proc[p].at = "created"
    /\ status' = "running"
    /\ Go(p, "opening")
    /\ UNCHANGED <<packets, unitsDone, logEnd, lock, marker, history>>

(* scan.resume: prepare_resume.                                             *)

\* The record is read first; the resumed ledger will be seeded from it.
ReadRecord(p) ==
    /\ proc[p].at = "idle"
    /\ status # "absent"
    /\ ops < MaxOps
    /\ proc' = [proc EXCEPT ![p] =
                  [Idle EXCEPT !.at = "read", !.op = "resume", !.seen = packets]]
    /\ ops' = ops + 1
    /\ UNCHANGED <<shared, emitted, crashes>>

\* Without a pending unit the answer is "already complete" and nothing runs.
ResumeComplete(p) ==
    /\ proc[p].at = "read"
    /\ unitsDone = NumUnits
    /\ Stop(p)
    /\ UNCHANGED <<shared, history>>

\* Mutant of ResumePending: the marker and the status are written first.
ResumeMutatesFirst(p) ==
    /\ proc[p].at = "read"
    /\ unitsDone < NumUnits
    /\ marker' = FALSE
    /\ status' = "running"
    /\ Go(p, "opening")
    /\ UNCHANGED <<packets, unitsDone, logEnd, lock, history>>

ResumePending(p) ==
    /\ proc[p].at = "read"
    /\ unitsDone < NumUnits
    /\ Go(p, "opening")
    /\ UNCHANGED <<shared, history>>

-----------------------------------------------------------------------------
(* Both: the writer lock, the marker, and for a resume only then the status. *)

\* Mutant of OpenLog: the lock is taken from whoever holds it.
OpenLogUnlocked(p) ==
    /\ proc[p].at = "opening"
    /\ lock' = p
    /\ Go(p, "locked")
    /\ UNCHANGED <<status, packets, unitsDone, logEnd, marker, history>>

OpenLog(p) ==
    /\ proc[p].at = "opening"
    /\ lock = NoProc
    /\ lock' = p
    /\ Go(p, "locked")
    /\ UNCHANGED <<status, packets, unitsDone, logEnd, marker, history>>

\* log_unavailable: another writer is live, or the file could not be opened.
OpenLogFails(p) ==
    /\ proc[p].at = "opening"
    /\ lock # NoProc \/ OpenMayFail
    /\ Stop(p)
    /\ UNCHANGED <<shared, history>>

\* cancel::clear, which ignores a file it cannot remove.  The ledger of a
\* resume starts from the record read before the lock was taken, that of a
\* start from nothing.
ClearMarker(p) ==
    /\ proc[p].at = "locked"
    /\ marker' \in {marker, FALSE}
    /\ proc' = [proc EXCEPT
                  ![p].at = IF proc[p].op = "start" THEN "entry" ELSE "cleared",
                  ![p].spent = IF proc[p].seen <= MaxPackets THEN proc[p].seen
                               ELSE MaxPackets]
    /\ UNCHANGED <<status, packets, unitsDone, logEnd, lock, history>>

ResumeRunning(p) ==
    /\ proc[p].at = "cleared"
    /\ status' = "running"
    /\ Go(p, "entry")
    /\ UNCHANGED <<packets, unitsDone, logEnd, lock, marker, history>>

-----------------------------------------------------------------------------
(* Scheduler::run, and the watcher beside it.                               *)

\* A log that already ended: run returns, and the dropped handle frees the
\* lock.
RunTerminated(p) ==
    /\ proc[p].at = "entry"
    /\ logEnd # "none"
    /\ Stop(p)
    /\ lock' = NoProc
    /\ UNCHANGED <<status, packets, unitsDone, logEnd, marker, history>>

RunBegins(p) ==
    /\ proc[p].at = "entry"
    /\ logEnd = "none"
    /\ Go(p, "work")
    /\ UNCHANGED <<shared, history>>

\* Mutant of Watch: the watcher looks once, when it is spawned.
WatchOnce(p) ==
    /\ proc[p].at = "entry"
    /\ marker
    /\ ~proc[p].token
    /\ proc' = [proc EXCEPT ![p].token = TRUE]
    /\ UNCHANGED <<shared, history>>

\* spawn_watcher: the marker is polled for as long as the run lasts.
Watch(p) ==
    /\ proc[p].at \in {"entry", "work", "flushed", "end"}
    /\ marker
    /\ ~proc[p].token
    /\ proc' = [proc EXCEPT ![p].token = TRUE]
    /\ UNCHANGED <<shared, history>>

Left(p) == NumUnits - unitsDone - proc[p].batch

\* A unit is paid for and probed.
Work(p) ==
    /\ proc[p].at = "work"
    /\ ~proc[p].token
    /\ Left(p) > 0
    /\ proc[p].spent < MaxPackets
    /\ emitted' = emitted + 1
    /\ proc' = [proc EXCEPT ![p].spent = @ + 1, ![p].batch = @ + 1]
    /\ UNCHANGED <<shared, ops, crashes>>

\* Mutant of Flush: the unwritten batch is not reset.
FlushTwice(p) ==
    /\ proc[p].at = "work"
    /\ proc[p].batch > 0
    /\ unitsDone' = unitsDone + proc[p].batch
    /\ Go(p, "flushed")
    /\ UNCHANGED <<status, packets, logEnd, lock, marker, history>>

\* flush_progress, its two store writes: mark_units_done,
Flush(p) ==
    /\ proc[p].at = "work"
    /\ proc[p].batch > 0
    /\ unitsDone' = unitsDone + proc[p].batch
    /\ proc' = [proc EXCEPT ![p].at = "flushed", ![p].batch = 0]
    /\ UNCHANGED <<status, packets, logEnd, lock, marker, history>>

\* and record_progress.
RecordProgress(p) ==
    /\ proc[p].at = "flushed"
    /\ packets' = proc[p].spent
    /\ Go(p, "work")
    /\ UNCHANGED <<status, unitsDone, logEnd, lock, marker, history>>

\* Dispatch is over and drained; cancellation alone leaves no terminal event.
Finish(p) ==
    /\ proc[p].at = "work"
    /\ proc[p].batch = 0
    /\ \E why \in Terminal :
         /\ \/ why = "cancelled" /\ proc[p].token
            \/ why = "completed" /\ ~proc[p].token /\ Left(p) = 0
            \/ why = "failed" /\ ~proc[p].token     \* budget, time or scope
         /\ proc' = [proc EXCEPT ![p].at = "end", ![p].why = why]
         /\ logEnd' = IF why = "cancelled" THEN logEnd ELSE why
    /\ UNCHANGED <<status, packets, unitsDone, lock, marker, history>>

FinalRecord(p) ==
    /\ proc[p].at = "end"
    /\ packets' = proc[p].spent
    /\ Go(p, "recorded")
    /\ UNCHANGED <<status, unitsDone, logEnd, lock, marker, history>>

\* publish_terminal_status, its two statements.
ReleaseLock(p) ==
    /\ proc[p].at = "recorded"
    /\ lock' = NoProc
    /\ Go(p, "released")
    /\ UNCHANGED <<status, packets, unitsDone, logEnd, marker, history>>

SetTerminalStatus(p) ==
    /\ proc[p].at = "released"
    /\ status' = proc[p].why
    /\ Stop(p)
    /\ UNCHANGED <<packets, unitsDone, logEnd, lock, marker, history>>

-----------------------------------------------------------------------------
(* Anyone, any time.                                                        *)

\* scan.cancel: the scan has to exist, and that is all; a process stamping,
\* resuming or ending the scan at the same time is not looked at.
RequestCancel ==
    /\ status # "absent"
    /\ marker' = TRUE
    /\ UNCHANGED <<status, packets, unitsDone, logEnd, lock, proc, history>>

Die(p) ==
    /\ proc[p].at # "idle"
    /\ crashes < MaxCrashes
    /\ crashes' = crashes + 1
    /\ Stop(p)
    /\ lock' = IF lock = p THEN NoProc ELSE lock
    /\ UNCHANGED <<status, packets, unitsDone, logEnd, marker, emitted, ops>>

-----------------------------------------------------------------------------

Init ==
    /\ status = "absent" /\ packets = 0 /\ unitsDone = 0 /\ logEnd = "none"
    /\ lock = NoProc /\ marker = FALSE
    /\ proc = [p \in Procs |-> Idle]
    /\ emitted = 0 /\ ops = 0 /\ crashes = 0

Step(p) ==
    \/ AdmitRunning(p) \/ ResumeComplete(p) \/ ResumePending(p)
    \/ OpenLog(p) \/ OpenLogFails(p) \/ ClearMarker(p) \/ ResumeRunning(p)
    \/ RunTerminated(p) \/ RunBegins(p) \/ Work(p) \/ Flush(p)
    \/ RecordProgress(p) \/ Finish(p) \/ FinalRecord(p) \/ ReleaseLock(p) \/ SetTerminalStatus(p)

Next ==
    \/ \E p \in Procs : Create(p) \/ ReadRecord(p) \/ Step(p) \/ Watch(p) \/ Die(p)
    \/ RequestCancel

Spec == Init /\ [][Next]_vars

\* What a run does on the way out, once its token is cancelled.
WindDown(p) ==
    \/ proc[p].token /\ (Flush(p) \/ RecordProgress(p) \/ Finish(p))
    \/ FinalRecord(p) \/ ReleaseLock(p) \/ SetTerminalStatus(p)

\* The watcher's poll goes on, and a cancelled run winds down: its loop breaks
\* at the token and what is in flight is bounded by timeouts.  That a run gets
\* on with its units otherwise is not assumed: one whose probes take forever
\* has only the marker to end it.  No one promises a start, a resume or a cancel.
Fairness == \A p \in Procs : WF_vars(Watch(p)) /\ WF_vars(WindDown(p))

FairSpec == Spec /\ Fairness

-----------------------------------------------------------------------------
(* Properties.                                                              *)

Places == {"idle", "created", "read", "opening", "locked", "cleared", "entry",
           "work", "flushed", "end", "recorded", "released"}

\* Every variable holds a value of the kind the code's types allow.
TypeOK ==
    /\ status \in {"absent", "pending", "running"} \cup Terminal
    /\ packets \in 0..MaxPackets
    /\ unitsDone \in 0..NumUnits
    /\ logEnd \in {"none", "completed", "failed"}
    /\ lock \in Procs \cup {NoProc}
    /\ marker \in BOOLEAN
    /\ proc \in [Procs -> [at : Places, op : {"start", "resume"},
                           seen : 0..MaxPackets, spent : 0..MaxPackets,
                           batch : 0..NumUnits, token : BOOLEAN,
                           why : Terminal \cup {"none"}]]
    /\ emitted \in Nat /\ ops \in Nat /\ crashes \in Nat

\* What the lock protects, from the moment it is taken until it is released.
Running == {"entry", "work", "flushed", "end", "recorded"}
Owning  == {"locked", "cleared"} \cup Running

\* At most one process drives the scan: two runs never work on one log.
OneRunAtATime == \A p \in Procs : proc[p].at \in Owning <=> lock = p

\* Acquire first, mutate second: a cancel request is taken away only by a
\* process that holds the lock and before anything runs, never from under a
\* live run by a resume that is about to be refused; and a resume writes the
\* status only from the moment it holds the lock until it has published.
AcquireFirst ==
    [][ /\ marker /\ ~marker' =>
             lock # NoProc /\ \A p \in Procs : proc[p].at \notin Running
        /\ \A p \in Procs :
             proc[p].op = "resume" /\ proc'[p] # proc[p] /\ status' # status =>
               lock = p \/ proc[p].at = "released" ]_vars

\* A cancelled run ends: once the marker is there, the process at work notices
\* it, drains what is in flight, publishes and lets go, however long its units
\* would have taken.
CancelEndsRun ==
    \A p \in Procs : proc[p].at = "work" /\ marker ~> proc[p].at = "idle"

\* Work::log: a scan is never left stamped running while "no process was
\* running and no poll would ever see [it] finish", short of a crash.
RunningHasRunner ==
    status = "running" /\ crashes = 0 => \E p \in Procs : proc[p].at # "idle"

\* prepare_resume: cancelling and resuming never exceeds "the ceiling an
\* operator wrote down".
CeilingHolds == crashes = 0 => emitted <= MaxPackets
=============================================================================
