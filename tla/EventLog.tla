------------------------------ MODULE EventLog -------------------------------
(***************************************************************************)
(* The append-only event log of one scan: bathy-evidence's EventLog and    *)
(* EventLogReader, and bathy-engine's GroupCommitLog around the former.    *)
(*                                                                         *)
(* Handles and readers live in any number of processes.  A handle is       *)
(* opened in two steps, as the code does it: the exclusive lock, then the  *)
(* validating scan.  An append is two steps as well: its bytes reach the   *)
(* file piecemeal, so a reader, a kill or a full disk can find the file    *)
(* ending in an unterminated line.                                         *)
(*                                                                         *)
(* A line is the sequence number found on it, together with the number of  *)
(* the append that wrote it.                                               *)
(***************************************************************************)
EXTENDS Integers, Sequences

CONSTANTS
    Handles,         \* writer handles, each used over and over
    Readers,         \* polling readers, each with its cursor
    NoHandle,        \* the lock is free
    GroupSize,       \* GroupCommitConfig::max_events
    PageSize,        \* the limit of one scan.events page
    Kinds,           \* which constructors are used: "durable", "group"
    MaxAppends,      \* bound: appends attempted
    MaxCrashes       \* bound: machine crashes

ASSUME EventLogAssumption ==
    /\ NoHandle \notin Handles
    /\ GroupSize \in Nat \ {0}
    /\ PageSize \in Nat \ {0}
    /\ Kinds \subseteq {"durable", "group"}
    /\ MaxAppends \in Nat
    /\ MaxCrashes \in Nat

VARIABLES
    file,      \* the terminated lines of the file
    torn,      \* the file ends in an unterminated line
    synced,    \* how many lines are on durable storage
    lock,      \* the handle that holds the writer lock
    handle,    \* each handle: state, index length, constructor, unsynced appends
    reader,    \* each reader: state, snapshot and what it has delivered
    appends,   \* appends attempted so far
    acked,     \* appends whose caller was told they are durable
    crashes    \* machine crashes so far

vars == <<file, torn, synced, lock, handle, reader, appends, acked, crashes>>

Line == [seq : Nat, id : Nat]

\* RecordIndex: the next record is one past the index.
next_sequence(h) == handle[h].last + 1

\* scan_records: every line is a record, numbered consecutively from 1.
GapFreeFile == \A i \in 1..Len(file) : file[i].seq = i

Set(h, st) == handle' = [handle EXCEPT ![h].st = st]

-----------------------------------------------------------------------------
(* Opening: lock before scan_existing, never after.                        *)

\* Mutant of TryLock: an open that does not ask for the lock.
OpenUnlocked(h, kind) ==
    /\ handle[h].st = "closed"
    /\ lock' = h
    /\ handle' = [handle EXCEPT ![h] =
                    [st |-> "locked", last |-> 0, kind |-> kind, pending |-> 0]]
    /\ UNCHANGED <<file, torn, synced, reader, appends, acked, crashes>>

\* The lock is taken without waiting; a held one is LogError::Locked, which
\* changes nothing.
TryLock(h, kind) ==
    /\ handle[h].st = "closed"
    /\ lock = NoHandle
    /\ lock' = h
    /\ handle' = [handle EXCEPT ![h] =
                    [st |-> "locked", last |-> 0, kind |-> kind, pending |-> 0]]
    /\ UNCHANGED <<file, torn, synced, reader, appends, acked, crashes>>

\* Mutants of ScanExisting: an unterminated tail is taken for a live writer's;
\* it is repaired away together with the line before it.
ScanTolerant(h) ==
    /\ handle[h].st = "locked"
    /\ handle' = [handle EXCEPT ![h].st = "open", ![h].last = Len(file)]
    /\ UNCHANGED <<file, torn, synced, lock, reader, appends, acked, crashes>>

ScanRepairing(h) ==
    /\ handle[h].st = "locked"
    /\ file' = IF torn /\ file # <<>> THEN SubSeq(file, 1, Len(file) - 1) ELSE file
    /\ torn' = FALSE
    /\ handle' = [handle EXCEPT ![h].st = "open", ![h].last = Len(file')]
    /\ UNCHANGED <<synced, lock, reader, appends, acked, crashes>>

\* The writer's scan rejects an unterminated tail and any line out of
\* sequence; the handle is then dropped, and the lock with it.
ScanExisting(h) ==
    /\ handle[h].st = "locked"
    /\ IF GapFreeFile /\ ~torn
       THEN /\ handle' = [handle EXCEPT ![h].st = "open", ![h].last = Len(file)]
            /\ UNCHANGED lock
       ELSE /\ Set(h, "closed")
            /\ lock' = NoHandle
    /\ UNCHANGED <<file, torn, synced, reader, appends, acked, crashes>>

-----------------------------------------------------------------------------
(* Appending.                                                               *)

\* The first bytes of the record.  A handle that released its lock refuses
\* (LogError::Released), and one whose last append failed is not used again:
\* the run it served returns the error.
BeginWrite(h) ==
    /\ handle[h].st = "open"
    /\ appends < MaxAppends
    /\ appends' = appends + 1
    /\ Set(h, "writing")
    /\ torn' = TRUE
    /\ UNCHANGED <<file, synced, lock, reader, acked, crashes>>

\* write_all has written the whole line, newline included.
FinishWrite(h) ==
    /\ handle[h].st = "writing"
    /\ file' = Append(file, [seq |-> next_sequence(h), id |-> appends])
    /\ torn' = FALSE
    /\ Set(h, "written")
    /\ UNCHANGED <<synced, lock, reader, appends, acked, crashes>>

\* Mutant of FailWrite: the record before the failed one is rolled back too.
FailWriteRollback(h) ==
    /\ handle[h].st = "writing"
    /\ file' = IF file # <<>> THEN SubSeq(file, 1, Len(file) - 1) ELSE file
    /\ torn' = FALSE
    /\ Set(h, "failed")
    /\ UNCHANGED <<synced, lock, reader, appends, acked, crashes>>

\* write_all failed part of the way, or before its first byte.
FailWrite(h) ==
    /\ handle[h].st = "writing"
    /\ torn' \in BOOLEAN
    /\ Set(h, "failed")
    /\ UNCHANGED <<file, synced, lock, reader, appends, acked, crashes>>

Ids(n) == {file[i].id : i \in 1..n}

\* Mutant of Sync: durability is announced, not awaited.
SyncLater ==
    /\ UNCHANGED synced
    /\ acked' = acked \cup Ids(Len(file))

\* sync_data succeeded: every line written so far is durable, and the caller
\* is about to be told so.
Sync ==
    /\ synced' = Len(file)
    /\ acked' = acked \cup Ids(Len(file))

\* EventLog::append of a durable handle: sync, and only then the index.
CommitDurable(h) ==
    /\ handle[h].st = "written"
    /\ handle[h].kind = "durable"
    /\ \/ /\ Sync
          /\ handle' = [handle EXCEPT ![h].st = "open", ![h].last = @ + 1]
       \/ /\ Set(h, "failed")
          /\ UNCHANGED <<synced, acked>>
    /\ UNCHANGED <<file, torn, lock, reader, appends, crashes>>

\* GroupCommitLog::append: the index first, then the sync its trigger asks
\* for: a full group, an elapsed interval or a terminal event, the last two of
\* which any append may meet.
CommitGroup(h) ==
    /\ handle[h].st = "written"
    /\ handle[h].kind = "group"
    /\ \/ /\ handle[h].pending + 1 < GroupSize
          /\ handle' = [handle EXCEPT ![h].st = "open", ![h].last = @ + 1,
                                      ![h].pending = @ + 1]
          /\ UNCHANGED <<synced, acked>>
       \/ /\ Sync
          /\ handle' = [handle EXCEPT ![h].st = "open", ![h].last = @ + 1,
                                      ![h].pending = 0]
       \/ /\ handle' = [handle EXCEPT ![h].st = "failed", ![h].last = @ + 1,
                                      ![h].pending = @ + 1]
          /\ UNCHANGED <<synced, acked>>
    /\ UNCHANGED <<file, torn, lock, reader, appends, crashes>>

\* GroupCommitLog::force_sync
ForceSync(h) ==
    /\ handle[h].st = "open"
    /\ handle[h].kind = "group"
    /\ Sync
    /\ handle' = [handle EXCEPT ![h].st = "open", ![h].pending = 0]
    /\ UNCHANGED <<file, torn, lock, reader, appends, crashes>>

-----------------------------------------------------------------------------
(* Letting go.                                                              *)

\* release_writer_lock: what is still pending is synced before the next
\* writer may number records; after it the handle only reads.
Release(h) ==
    /\ handle[h].st = "open"
    /\ IF handle[h].kind = "group" /\ handle[h].pending > 0
       THEN Sync
       ELSE UNCHANGED <<synced, acked>>
    /\ lock' = NoHandle
    /\ handle' = [handle EXCEPT ![h].st = "released", ![h].pending = 0]
    /\ UNCHANGED <<file, torn, reader, appends, crashes>>

\* The handle is dropped, or its process is killed wherever it stands: the
\* operating system frees the lock and keeps the bytes.
Drop(h) ==
    /\ handle[h].st # "closed"
    /\ Set(h, "closed")
    /\ lock' = IF lock = h THEN NoHandle ELSE lock
    /\ UNCHANGED <<file, torn, synced, reader, appends, acked, crashes>>

\* The machine goes down: handles and readers are gone, and of what was not
\* synced any suffix may be too, perhaps in the middle of a line.
MachineCrash ==
    /\ crashes < MaxCrashes
    /\ crashes' = crashes + 1
    /\ \E k \in synced..Len(file) :
         /\ file' = SubSeq(file, 1, k)
         /\ torn' \in IF k < Len(file) \/ torn THEN BOOLEAN ELSE {FALSE}
    /\ lock' = NoHandle
    /\ handle' = [h \in Handles |-> [handle[h] EXCEPT !.st = "closed"]]
    /\ reader' = [r \in Readers |-> [reader[r] EXCEPT !.st = "closed"]]
    /\ UNCHANGED <<synced, appends, acked>>

-----------------------------------------------------------------------------
(* EventLogReader: no lock, a snapshot of last_sequence, one page a poll.   *)

\* Mutant of OpenReader: a reader scans the way a writer does.
OpenReaderStrict(r) ==
    /\ reader[r].st = "closed"
    /\ reader' = IF GapFreeFile /\ ~torn
                 THEN [reader EXCEPT ![r].st = "open", ![r].last = Len(file)]
                 ELSE [reader EXCEPT ![r].st = "failed"]
    /\ UNCHANGED <<file, torn, synced, lock, handle, appends, acked, crashes>>

\* An unterminated tail is skipped, any other defect fails the open.
OpenReader(r) ==
    /\ reader[r].st = "closed"
    /\ reader' = IF GapFreeFile
                 THEN [reader EXCEPT ![r].st = "open", ![r].last = Len(file)]
                 ELSE [reader EXCEPT ![r].st = "failed"]
    /\ UNCHANGED <<file, torn, synced, lock, handle, appends, acked, crashes>>

\* read_from(cursor), bounded by the snapshot and by the page.
PageEnd(r) ==
    LET after == Len(reader[r].got)
    IN  IF reader[r].last <= after + PageSize THEN reader[r].last
        ELSE after + PageSize

\* Mutant of ReadPage: the cursor is inclusive.
ReadPageInclusive(r) ==
    /\ reader[r].st = "open"
    /\ reader' = [reader EXCEPT
                    ![r].got = @ \o SubSeq(file, IF @ = <<>> THEN 1 ELSE Len(@),
                                           PageEnd(r)),
                    ![r].st = "closed"]
    /\ UNCHANGED <<file, torn, synced, lock, handle, appends, acked, crashes>>

ReadPage(r) ==
    /\ reader[r].st = "open"
    /\ reader' = [reader EXCEPT
                    ![r].got = @ \o SubSeq(file, Len(@) + 1, PageEnd(r)),
                    ![r].st = "closed"]
    /\ UNCHANGED <<file, torn, synced, lock, handle, appends, acked, crashes>>

-----------------------------------------------------------------------------

Init ==
    /\ file = <<>> /\ torn = FALSE /\ synced = 0
    /\ lock = NoHandle
    /\ handle = [h \in Handles |->
                    [st |-> "closed", last |-> 0, kind |-> "group", pending |-> 0]]
    /\ reader = [r \in Readers |-> [st |-> "closed", last |-> 0, got |-> <<>>]]
    /\ appends = 0 /\ acked = {} /\ crashes = 0

Next ==
    \/ \E h \in Handles :
         \/ \E kind \in Kinds : TryLock(h, kind)
         \/ ScanExisting(h)
         \/ BeginWrite(h) \/ FinishWrite(h) \/ FailWrite(h)
         \/ CommitDurable(h) \/ CommitGroup(h) \/ ForceSync(h)
         \/ Release(h) \/ Drop(h)
    \/ MachineCrash
    \/ \E r \in Readers : OpenReader(r) \/ ReadPage(r)

Spec == Init /\ [][Next]_vars

-----------------------------------------------------------------------------
(* Properties.                                                              *)

HandleStates == {"closed", "locked", "open", "writing", "written", "failed",
                 "released"}

\* Every variable holds a value of the kind the code's types allow.
TypeOK ==
    /\ file \in Seq(Line)
    /\ torn \in BOOLEAN
    /\ synced \in 0..Len(file)
    /\ lock \in Handles \cup {NoHandle}
    /\ handle \in [Handles -> [st : HandleStates, last : Nat,
                               kind : {"durable", "group"}, pending : Nat]]
    /\ reader \in [Readers -> [st : {"closed", "open", "failed"}, last : Nat,
                               got : Seq(Line)]]
    /\ appends \in Nat
    /\ acked \subseteq Nat
    /\ crashes \in Nat

\* Sequences are gap-free: through every interleaving of handles, kill and
\* crash, line i of the file is the record numbered i.
GapFree == GapFreeFile

\* No opener's view goes stale: a handle that may still append holds the lock,
\* and its index ends exactly where the file does (lock before scan_existing).
Holding == {"locked", "open", "writing", "written", "failed"}

IndexCurrent ==
    \A h \in Handles :
        /\ handle[h].st \in Holding => lock = h
        /\ handle[h].st = "open" => handle[h].last = Len(file) /\ ~torn

\* What a caller was told is durable is in the file for good, whatever is
\* killed or crashes afterwards.
AckedSurvives == acked \subseteq Ids(Len(file))

\* A reader polling beside a live writer is never turned away by a record
\* being written, and never loses, repeats or reorders one: its pages, put end
\* to end, are numbered from 1 without a gap and, until a machine crash takes
\* unsynced lines a reader already saw, are a prefix of the file.
ReaderSeesPrefix ==
    \A r \in Readers :
        /\ reader[r].st # "failed"
        /\ \A i \in 1..Len(reader[r].got) : reader[r].got[i].seq = i
        /\ crashes = 0 => reader[r].got = SubSeq(file, 1, Len(reader[r].got))

\* The log implements the abstract append-only log.
AbstractLog == INSTANCE AppendLog WITH recs <- file, stable <- synced, Record <- Line
AppendOnly == AbstractLog!Spec
=============================================================================
