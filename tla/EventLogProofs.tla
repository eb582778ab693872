--------------------------- MODULE EventLogProofs ---------------------------
(***************************************************************************)
(* What is proved of EventLog for any number of handles, readers, appends  *)
(* and crashes, any group size and any page size.                          *)
(***************************************************************************)
EXTENDS EventLog, TLAPS, SequenceTheorems

\* Whoever may still append holds the lock, has counted every line, and found
\* or left the last of them terminated.
Indexed ==
    \A h \in Handles :
        /\ handle[h].st \in Holding => lock = h
        /\ handle[h].st \in {"open", "writing"} => handle[h].last = Len(file)
        /\ handle[h].st = "written" => handle[h].last + 1 = Len(file)
        /\ handle[h].st \in {"open", "written"} => ~torn

\* What was acknowledged is among the synced lines, which no crash takes.
Durable == acked \subseteq Ids(synced)

\* A reader's snapshot does not reach past the file, and what it has delivered
\* is numbered; before any crash, it is the beginning of the file.
Views ==
    \A r \in Readers :
        /\ reader[r].st # "failed"
        /\ reader[r].st = "open" => reader[r].last <= Len(file)
        /\ \A i \in 1..Len(reader[r].got) : reader[r].got[i].seq = i
        /\ crashes = 0 => /\ Len(reader[r].got) <= Len(file)
                          /\ \A i \in 1..Len(reader[r].got) : reader[r].got[i] = file[i]

IInv == TypeOK /\ GapFree /\ Indexed /\ Durable /\ Views

USE EventLogAssumption DEF EventLogAssumption

HandleType == [st : HandleStates, last : Nat, kind : {"durable", "group"}, pending : Nat]

\* A handle lost with its process, or closed, is still a handle.
LEMMA ShutTyped ==
    ASSUME NEW h \in HandleType
    PROVE  /\ [h EXCEPT !.st = "closed"] \in HandleType
           /\ [h EXCEPT !.st = "closed"].st = "closed"
BY DEF HandleType, HandleStates

-----------------------------------------------------------------------------
LEMMA Started == Init => IInv
<1> SUFFICES ASSUME Init PROVE IInv
  OBVIOUS
<1> USE DEF Init
<1>1. TypeOK
  <2>1. <<>> \in Seq(Line) /\ Len(<<>>) = 0
    OBVIOUS
  <2>2. file \in Seq(Line) /\ Len(file) = 0 /\ synced = 0
    BY <2>1
  <2>3. synced \in 0..Len(file)
    BY <2>2
  <2>4. /\ torn \in BOOLEAN
        /\ lock \in Handles \cup {NoHandle} /\ appends \in Nat /\ acked \subseteq Nat
        /\ crashes \in Nat
    BY <2>1
  <2>5. handle \in [Handles -> HandleType]
    BY DEF HandleType, HandleStates
  <2>6. reader \in [Readers -> [st : {"closed", "open", "failed"}, last : Nat,
                               got : Seq(Line)]]
    BY <2>1
  <2> QED BY <2>2, <2>3, <2>4, <2>5, <2>6 DEF TypeOK, HandleType
<1>2. GapFree /\ Indexed /\ Durable
  BY DEF GapFree, GapFreeFile, Indexed, Holding, Durable
<1>3. Views
  BY DEF Views
<1> QED BY <1>1, <1>2, <1>3 DEF IInv

\* A step that adds no line and takes none keeps what is said of the lines.
LEMMA LinesKept ==
    ASSUME IInv, UNCHANGED <<file, reader, crashes>>, UNCHANGED <<synced, acked>> \/ Sync
    PROVE  GapFree' /\ Durable' /\ Views' /\ synced' \in 0..Len(file') /\ acked' \subseteq Nat
<1> USE DEF IInv
<1>1. GapFree' /\ Views'
  BY DEF GapFree, GapFreeFile, Views
<1>2. Len(file) \in Nat /\ file \in Seq(Line) /\ synced \in 0..Len(file)
  BY DEF TypeOK
<1>3. Durable' /\ acked' \subseteq Nat /\ synced' \in 0..Len(file')
  <2>1. CASE UNCHANGED <<synced, acked>>
    BY <2>1, <1>2 DEF Durable, Ids, TypeOK
  <2>2. CASE Sync
    <3>1. Ids(synced) \subseteq Ids(Len(file))
      BY <1>2 DEF Ids
    <3>2. Ids(Len(file)) \subseteq Nat
      <4>1. \A i \in 1..Len(file) : file[i] \in Line
        BY <1>2
      <4> QED BY <4>1 DEF Ids, Line
    <3>3. Ids(synced)' = Ids(Len(file))
      BY <2>2 DEF Sync, Ids
    <3>4. acked' = acked \cup Ids(Len(file)) /\ synced' = Len(file)
      BY <2>2 DEF Sync
    <3>5. synced' \in 0..Len(file')
      BY <1>2, <3>4
    <3> QED BY <3>1, <3>2, <3>3, <3>4, <3>5 DEF Durable
  <2> QED BY <2>1, <2>2
<1> QED BY <1>1, <1>3

\* Moving the handle that holds the lock cannot disturb another's index.
LEMMA HolderMoves ==
    ASSUME IInv, NEW h \in Handles, NEW new \in HandleType,
           handle' = [handle EXCEPT ![h] = new],
           lock = h \/ lock = NoHandle, lock' = h \/ new.st \notin Holding,
           new.st \in {"open", "writing"} => new.last = Len(file'),
           new.st = "written" => new.last + 1 = Len(file'),
           new.st \in {"open", "written"} => ~torn'
    PROVE  Indexed' /\ handle' \in [Handles -> HandleType]
<1> USE DEF IInv
<1>1. /\ handle'[h] = new
      /\ \A g \in Handles : g # h => handle'[g] = handle[g]
      /\ handle' \in [Handles -> HandleType]
  BY DEF TypeOK, HandleType
<1>2. \A g \in Handles : g # h => handle[g].st \notin Holding
  BY DEF Indexed
<1>3. {"open", "writing", "written"} \subseteq Holding
  BY DEF Holding
<1> QED BY <1>1, <1>2, <1>3 DEF Indexed

LEMMA TryLockKeeps ==
    ASSUME IInv, NEW h \in Handles, NEW kind \in Kinds, TryLock(h, kind) PROVE IInv'
<1> DEFINE new == [st |-> "locked", last |-> 0, kind |-> kind, pending |-> 0]
<1>1. /\ handle' = [handle EXCEPT ![h] = new] /\ lock = NoHandle /\ lock' = h
      /\ UNCHANGED <<file, torn, synced, reader, appends, acked, crashes>>
  BY DEF TryLock
<1>2. new \in HandleType
  BY DEF HandleType, HandleStates
<1>3. Indexed' /\ handle' \in [Handles -> HandleType]
  BY <1>1, <1>2, HolderMoves
<1>4. GapFree' /\ Durable' /\ Views'
  BY <1>1, LinesKept
<1> QED BY <1>1, <1>3, <1>4 DEF IInv, TypeOK, HandleType

\* The handle an action is about, when that action needs it to hold the lock.
LEMMA Holder ==
    ASSUME IInv, NEW h \in Handles, handle[h].st \in Holding
    PROVE  lock = h /\ handle[h] \in HandleType
BY DEF IInv, Indexed, TypeOK, HandleType

LEMMA ScanKeeps == ASSUME IInv, NEW h \in Handles, ScanExisting(h) PROVE IInv'
<1> USE DEF IInv
<1>1. lock = h /\ handle[h] \in HandleType
  BY Holder DEF ScanExisting, Holding
<1>2. UNCHANGED <<file, torn, synced, reader, appends, acked, crashes>>
  BY DEF ScanExisting
<1>3. GapFree' /\ Durable' /\ Views'
  BY <1>2, LinesKept
<1>4. CASE ~torn
  <2> DEFINE new == [handle[h] EXCEPT !.st = "open", !.last = Len(file)]
  <2>1. handle' = [handle EXCEPT ![h] = new] /\ lock' = lock
    BY <1>4 DEF ScanExisting, GapFree, TypeOK
  <2>2. new \in HandleType /\ new.last = Len(file) /\ new.st = "open"
    <3>1. Len(file) \in Nat
      BY DEF TypeOK
    <3> QED BY <1>1, <3>1 DEF HandleType, HandleStates
  <2> HIDE DEF new
  <2>3. Indexed' /\ handle' \in [Handles -> HandleType]
    BY <1>1, <1>2, <1>4, <2>1, <2>2, HolderMoves
  <2> QED BY <1>2, <1>3, <2>1, <2>3 DEF TypeOK, HandleType
<1>5. CASE torn
  <2> DEFINE new == [handle[h] EXCEPT !.st = "closed"]
  <2>1. handle' = [handle EXCEPT ![h] = new] /\ lock' = NoHandle
    BY <1>5 DEF ScanExisting, Set, TypeOK
  <2>2. new \in HandleType /\ new.st = "closed"
    BY <1>1 DEF HandleType, HandleStates
  <2> HIDE DEF new
  <2>3. Indexed' /\ handle' \in [Handles -> HandleType]
    BY <1>1, <2>1, <2>2, HolderMoves DEF Holding
  <2> QED BY <1>2, <1>3, <2>1, <2>3 DEF TypeOK, HandleType
<1> QED BY <1>4, <1>5 DEF TypeOK

LEMMA BeginWriteKeeps == ASSUME IInv, NEW h \in Handles, BeginWrite(h) PROVE IInv'
<1> USE DEF IInv
<1> DEFINE new == [handle[h] EXCEPT !.st = "writing"]
<1>1. lock = h /\ handle[h] \in HandleType /\ handle[h].last = Len(file)
  BY Holder DEF BeginWrite, Holding, Indexed
<1>2. /\ handle' = [handle EXCEPT ![h] = new] /\ torn' = TRUE /\ appends' = appends + 1
      /\ UNCHANGED <<file, synced, lock, reader, acked, crashes>>
  BY DEF BeginWrite, Set, TypeOK
<1>3. new \in HandleType /\ new.st = "writing" /\ new.last = Len(file)
  BY <1>1 DEF HandleType, HandleStates
<1>4. GapFree' /\ Durable' /\ Views'
  BY <1>2, LinesKept
<1> HIDE DEF new
<1>5. Indexed' /\ handle' \in [Handles -> HandleType]
  BY <1>1, <1>2, <1>3, HolderMoves
<1> QED BY <1>2, <1>4, <1>5 DEF TypeOK, HandleType

\* The line that was written is the next one.
LEMMA FinishWriteKeeps == ASSUME IInv, NEW h \in Handles, FinishWrite(h) PROVE IInv'
<1> USE DEF IInv
<1> DEFINE new  == [handle[h] EXCEPT !.st = "written"]
           line == [seq |-> next_sequence(h), id |-> appends]
<1>1. lock = h /\ handle[h] \in HandleType /\ handle[h].last = Len(file)
  BY Holder DEF FinishWrite, Holding, Indexed
<1>2. /\ handle' = [handle EXCEPT ![h] = new] /\ torn' = FALSE
      /\ file' = Append(file, line)
      /\ UNCHANGED <<synced, lock, reader, appends, acked, crashes>>
  BY DEF FinishWrite, Set, TypeOK
<1>3. line \in Line /\ line.seq = Len(file) + 1
  BY <1>1 DEF Line, next_sequence, TypeOK
<1>4. /\ file' \in Seq(Line) /\ Len(file') = Len(file) + 1
      /\ file'[Len(file) + 1] = line
      /\ \A i \in 1..Len(file) : file'[i] = file[i]
      /\ Len(file) \in Nat
  BY <1>2, <1>3 DEF TypeOK
<1>5. new \in HandleType /\ new.st = "written" /\ new.last + 1 = Len(file')
  BY <1>1, <1>4 DEF HandleType, HandleStates
<1> HIDE DEF new, line
<1>6. GapFree'
  BY <1>3, <1>4 DEF GapFree, GapFreeFile
<1>7. Durable'
  BY <1>2, <1>4 DEF Durable, Ids, TypeOK
<1>8. Views'
  <2> SUFFICES ASSUME NEW r \in Readers
               PROVE  /\ reader[r].st = "open" => reader[r].last <= Len(file')
                      /\ crashes = 0 =>
                           /\ Len(reader[r].got) <= Len(file')
                           /\ \A i \in 1..Len(reader[r].got) : reader[r].got[i] = file'[i]
    BY <1>2 DEF Views
  <2>1. reader[r].last \in Nat /\ Len(reader[r].got) \in Nat
    BY DEF TypeOK
  <2> QED BY <1>4, <2>1 DEF Views
<1>9. Indexed' /\ handle' \in [Handles -> HandleType]
  BY <1>1, <1>2, <1>5, HolderMoves
<1>10. TypeOK'
  <2>1. synced \in 0..Len(file)
    BY DEF TypeOK
  <2>2. synced' = synced
    BY <1>2
  <2>3. synced' \in 0..Len(file')
    BY <1>4, <2>1, <2>2
  <2> QED BY <1>2, <1>4, <1>9, <2>3 DEF TypeOK, HandleType
<1> QED BY <1>6, <1>7, <1>8, <1>9, <1>10

\* A write or a sync that failed leaves the lines alone.
LEMMA FailKeeps ==
    ASSUME IInv, NEW h \in Handles, handle[h].st \in Holding,
           NEW new \in HandleType, handle' = [handle EXCEPT ![h] = new], new.st = "failed",
           torn' \in BOOLEAN,
           UNCHANGED <<file, synced, lock, reader, appends, acked, crashes>>
    PROVE  IInv'
<1>1. lock = h
  BY Holder
<1>2. Indexed' /\ handle' \in [Handles -> HandleType]
  BY <1>1, HolderMoves
<1>3. GapFree' /\ Durable' /\ Views'
  BY LinesKept
<1> QED BY <1>2, <1>3 DEF IInv, TypeOK, HandleType

LEMMA FailWriteKeeps == ASSUME IInv, NEW h \in Handles, FailWrite(h) PROVE IInv'
<1> DEFINE new == [handle[h] EXCEPT !.st = "failed"]
<1>1. handle[h].st \in Holding
  BY DEF FailWrite, Holding
<1>2. new \in HandleType /\ new.st = "failed"
  BY <1>1, Holder DEF HandleType, HandleStates
<1>3. handle' = [handle EXCEPT ![h] = new]
  BY DEF FailWrite, Set, IInv, TypeOK
<1> HIDE DEF new
<1> QED BY <1>1, <1>2, <1>3, FailKeeps DEF FailWrite

\* A handle that wrote its line, or had written them all, goes on.
LEMMA OpenKeeps ==
    ASSUME IInv, NEW h \in Handles, handle[h].st \in {"written", "open"},
           NEW new \in HandleType, handle' = [handle EXCEPT ![h] = new],
           new.st = "open", new.last = Len(file),
           UNCHANGED <<synced, acked>> \/ Sync,
           UNCHANGED <<file, torn, lock, reader, appends, crashes>>
    PROVE  IInv'
<1>1. lock = h /\ ~torn
  BY Holder DEF Holding, IInv, Indexed
<1>2. Indexed' /\ handle' \in [Handles -> HandleType]
  BY <1>1, HolderMoves
<1>3. GapFree' /\ Durable' /\ Views' /\ synced' \in 0..Len(file') /\ acked' \subseteq Nat
  BY LinesKept
<1> QED BY <1>2, <1>3 DEF IInv, TypeOK, HandleType

\* A handle whose index now ends where the file does.
Moved(h, st, pending) ==
    [st |-> st, last |-> Len(file), kind |-> handle[h].kind, pending |-> pending]

LEMMA MovedType ==
    ASSUME IInv, NEW h \in Handles, NEW st \in HandleStates, NEW pending \in Nat
    PROVE  /\ Moved(h, st, pending) \in HandleType
           /\ Moved(h, st, pending).st = st
           /\ Moved(h, st, pending).last = Len(file)
<1>1. handle[h] \in HandleType /\ Len(file) \in Nat
  BY DEF IInv, TypeOK, HandleType
<1> QED BY <1>1 DEF Moved, HandleType

LEMMA CommitDurableKeeps == ASSUME IInv, NEW h \in Handles, CommitDurable(h) PROVE IInv'
<1> USE DEF IInv
<1> DEFINE up   == Moved(h, "open", handle[h].pending)
           down == [handle[h] EXCEPT !.st = "failed"]
<1>1. /\ handle[h].st = "written" /\ handle[h].st \in Holding
      /\ UNCHANGED <<file, torn, lock, reader, appends, crashes>>
  BY DEF CommitDurable, Holding
<1>2. handle[h] \in HandleType /\ handle[h].last + 1 = Len(file)
  BY <1>1, Holder DEF Indexed
<1>3. /\ up \in HandleType /\ up.st = "open" /\ up.last = Len(file)
      /\ down \in HandleType /\ down.st = "failed"
  <2>1. handle[h].pending \in Nat /\ "open" \in HandleStates
    BY <1>2 DEF HandleType, HandleStates
  <2>2. up \in HandleType /\ up.st = "open" /\ up.last = Len(file)
    BY <2>1, MovedType
  <2>3. down \in HandleType /\ down.st = "failed"
    BY <1>2 DEF HandleType, HandleStates
  <2> QED BY <2>2, <2>3
<1>4. \/ Sync /\ handle' = [handle EXCEPT ![h] = up]
      \/ UNCHANGED <<synced, acked>> /\ handle' = [handle EXCEPT ![h] = down]
  BY <1>2 DEF CommitDurable, Set, TypeOK, Moved, HandleType
<1>5. torn \in BOOLEAN
  BY DEF TypeOK
<1> HIDE DEF up, down
<1> QED BY <1>1, <1>3, <1>4, <1>5, OpenKeeps, FailKeeps

LEMMA CommitGroupKeeps == ASSUME IInv, NEW h \in Handles, CommitGroup(h) PROVE IInv'
<1> USE DEF IInv
<1> DEFINE later == Moved(h, "open", handle[h].pending + 1)
           now   == Moved(h, "open", 0)
           down  == Moved(h, "failed", handle[h].pending + 1)
<1>1. /\ handle[h].st = "written" /\ handle[h].st \in Holding
      /\ UNCHANGED <<file, torn, lock, reader, appends, crashes>>
  BY DEF CommitGroup, Holding
<1>2. handle[h] \in HandleType /\ handle[h].last + 1 = Len(file)
  BY <1>1, Holder DEF Indexed
<1>3. /\ later \in HandleType /\ later.st = "open" /\ later.last = Len(file)
      /\ now \in HandleType /\ now.st = "open" /\ now.last = Len(file)
      /\ down \in HandleType /\ down.st = "failed"
  <2>1. /\ handle[h].pending + 1 \in Nat /\ 0 \in Nat
        /\ "open" \in HandleStates /\ "failed" \in HandleStates
    BY <1>2 DEF HandleType, HandleStates
  <2> QED BY <2>1, MovedType
<1>4. \/ UNCHANGED <<synced, acked>> /\ handle' = [handle EXCEPT ![h] = later]
      \/ Sync /\ handle' = [handle EXCEPT ![h] = now]
      \/ UNCHANGED <<synced, acked>> /\ handle' = [handle EXCEPT ![h] = down]
  BY <1>2 DEF CommitGroup, TypeOK, Moved, HandleType
<1>5. torn \in BOOLEAN
  BY DEF TypeOK
<1> HIDE DEF later, now, down
<1> QED BY <1>1, <1>3, <1>4, <1>5, OpenKeeps, FailKeeps

LEMMA ForceSyncKeeps == ASSUME IInv, NEW h \in Handles, ForceSync(h) PROVE IInv'
<1> USE DEF IInv
<1> DEFINE new == [handle[h] EXCEPT !.st = "open", !.pending = 0]
<1>1. /\ handle[h].st = "open" /\ handle[h].st \in Holding /\ Sync
      /\ UNCHANGED <<file, torn, lock, reader, appends, crashes>>
  BY DEF ForceSync, Holding
<1>2. handle[h] \in HandleType /\ handle[h].last = Len(file)
  BY <1>1, Holder DEF Indexed
<1>3. new \in HandleType /\ new.st = "open" /\ new.last = Len(file)
  BY <1>2 DEF HandleType, HandleStates
<1>4. handle' = [handle EXCEPT ![h] = new]
  BY DEF ForceSync, TypeOK
<1> HIDE DEF new
<1> QED BY <1>1, <1>3, <1>4, OpenKeeps

LEMMA ReleaseKeeps == ASSUME IInv, NEW h \in Handles, Release(h) PROVE IInv'
<1> USE DEF IInv
<1> DEFINE new == [handle[h] EXCEPT !.st = "released", !.pending = 0]
<1>1. /\ handle[h].st \in Holding /\ (UNCHANGED <<synced, acked>> \/ Sync)
      /\ lock' = NoHandle
      /\ UNCHANGED <<file, torn, reader, appends, crashes>>
  BY DEF Release, Holding
<1>2. lock = h /\ handle[h] \in HandleType
  BY <1>1, Holder
<1>3. new \in HandleType /\ new.st = "released"
  BY <1>2 DEF HandleType, HandleStates
<1>4. handle' = [handle EXCEPT ![h] = new]
  BY DEF Release, TypeOK
<1> HIDE DEF new
<1>5. Indexed' /\ handle' \in [Handles -> HandleType]
  BY <1>2, <1>3, <1>4, HolderMoves DEF Holding
<1>6. GapFree' /\ Durable' /\ Views' /\ synced' \in 0..Len(file') /\ acked' \subseteq Nat
  BY <1>1, LinesKept
<1> QED BY <1>1, <1>5, <1>6 DEF TypeOK, HandleType

\* The lock a handle leaves behind was its own.
LEMMA DropKeeps == ASSUME IInv, NEW h \in Handles, Drop(h) PROVE IInv'
<1> USE DEF IInv
<1>1. /\ handle' = [handle EXCEPT ![h].st = "closed"]
      /\ lock' = IF lock = h THEN NoHandle ELSE lock
      /\ UNCHANGED <<file, torn, synced, reader, appends, acked, crashes>>
  BY DEF Drop, Set
<1>2. handle[h] \in HandleType
  BY DEF TypeOK, HandleType
<1>3. /\ handle'[h].st = "closed" /\ handle' \in [Handles -> HandleType]
      /\ \A g \in Handles : g # h => handle'[g] = handle[g]
  BY <1>1, <1>2 DEF TypeOK, HandleType, HandleStates
<1>4. Indexed'
  <2> SUFFICES ASSUME NEW g \in Handles
               PROVE  /\ handle'[g].st \in Holding => lock' = g
                      /\ handle'[g].st \in {"open", "writing"} => handle'[g].last = Len(file)
                      /\ handle'[g].st = "written" => handle'[g].last + 1 = Len(file)
                      /\ handle'[g].st \in {"open", "written"} => ~torn
    BY <1>1 DEF Indexed
  <2>1. CASE g = h
    BY <1>3, <2>1 DEF Holding
  <2>2. CASE g # h
    BY <1>1, <1>3, <2>2 DEF Indexed
  <2> QED BY <2>1, <2>2
<1>5. GapFree' /\ Durable' /\ Views'
  BY <1>1, LinesKept
<1>6. lock' \in Handles \cup {NoHandle}
  BY <1>1 DEF TypeOK
<1> QED BY <1>1, <1>3, <1>4, <1>5, <1>6 DEF TypeOK, HandleType

\* What a crash leaves of the file is its beginning.
LEMMA PrefixOf ==
    ASSUME TypeOK, NEW k \in synced..Len(file)
    PROVE  /\ SubSeq(file, 1, k) \in Seq(Line) /\ Len(SubSeq(file, 1, k)) = k
           /\ \A i \in 1..k : SubSeq(file, 1, k)[i] = file[i]
           /\ synced \in 0..k /\ k \in Nat /\ k <= Len(file)
<1>1. file \in Seq(Line) /\ synced \in 0..Len(file) /\ Len(file) \in Nat
  BY DEF TypeOK
<1>2. k \in Int /\ k >= 0 /\ k <= Len(file) /\ synced <= k
  BY <1>1
<1>3. \A i \in 1..k : file[i] \in Line
  BY <1>1, <1>2
<1>4. /\ SubSeq(file, 1, k) \in Seq(Line)
      /\ Len(SubSeq(file, 1, k)) = IF 1 <= k THEN k - 1 + 1 ELSE 0
      /\ \A i \in 1..(k - 1 + 1) : SubSeq(file, 1, k)[i] = file[1 + i - 1]
  BY <1>2, <1>3, SubSeqProperties
<1>5. \A i \in 1..k : 1 + i - 1 = i /\ i \in 1..(k - 1 + 1)
  BY <1>2
<1>6. \A i \in 1..k : SubSeq(file, 1, k)[i] = file[i]
  BY <1>4, <1>5
<1> QED BY <1>1, <1>2, <1>4, <1>6

LEMMA MachineCrashKeeps == ASSUME IInv, MachineCrash PROVE IInv'
<1> USE DEF IInv
<1>1. PICK k \in synced..Len(file) :
        /\ file' = SubSeq(file, 1, k)
        /\ torn' \in IF k < Len(file) \/ torn THEN BOOLEAN ELSE {FALSE}
  BY DEF MachineCrash
<1>2. /\ file' \in Seq(Line) /\ Len(file') = k /\ k <= Len(file) /\ k \in Nat
      /\ \A i \in 1..k : file'[i] = file[i]
      /\ synced \in 0..k
  BY <1>1, PrefixOf
<1>3. /\ crashes' = crashes + 1 /\ lock' = NoHandle
      /\ handle' = [h \in Handles |-> [handle[h] EXCEPT !.st = "closed"]]
      /\ reader' = [r \in Readers |-> [reader[r] EXCEPT !.st = "closed"]]
      /\ UNCHANGED <<synced, appends, acked>>
  BY DEF MachineCrash
<1>4. /\ handle' \in [Handles -> HandleType]
      /\ \A h \in Handles : handle'[h].st = "closed"
  <2>1. \A h \in Handles : /\ [handle[h] EXCEPT !.st = "closed"] \in HandleType
                           /\ [handle[h] EXCEPT !.st = "closed"].st = "closed"
    <3>1. handle \in [Handles -> HandleType]
      BY DEF TypeOK, HandleType
    <3> QED BY <3>1, ShutTyped
  <2> QED BY <1>3, <2>1
<1>5. /\ reader' \in [Readers -> [st : {"closed", "open", "failed"}, last : Nat, got : Seq(Line)]]
      /\ \A r \in Readers : reader'[r].st = "closed" /\ reader'[r].got = reader[r].got
  <2> DEFINE shut(r) == [reader[r] EXCEPT !.st = "closed"]
  <2>1. \A r \in Readers :
          /\ shut(r) \in [st : {"closed", "open", "failed"}, last : Nat, got : Seq(Line)]
          /\ shut(r).st = "closed" /\ shut(r).got = reader[r].got
    BY DEF TypeOK
  <2>2. \A r \in Readers : reader'[r] = shut(r)
    BY <1>3
  <2>3. reader' = [r \in Readers |-> shut(r)]
    BY <1>3
  <2> HIDE DEF shut
  <2> QED BY <2>1, <2>2, <2>3
<1>6. TypeOK'
  <2>1. torn' \in BOOLEAN /\ crashes' \in Nat
    <3>1. torn' \in BOOLEAN
      BY <1>1
    <3>2. crashes \in Nat /\ crashes' = crashes + 1
      BY <1>3 DEF TypeOK
    <3> QED BY <3>1, <3>2
  <2>2. synced' \in 0..Len(file')
    <3>1. synced' = synced
      BY <1>3
    <3> QED BY <1>2, <3>1
  <2>3. lock' \in Handles \cup {NoHandle} /\ appends' \in Nat /\ acked' \subseteq Nat
    BY <1>3 DEF TypeOK
  <2> QED BY <1>2, <1>4, <1>5, <2>1, <2>2, <2>3 DEF TypeOK, HandleType
<1>7. GapFree'
  BY <1>2 DEF GapFree, GapFreeFile
<1>8. Indexed'
  BY <1>4 DEF Indexed, Holding
<1>9. Durable'
  <2>1. Ids(synced)' = Ids(synced)
    <3>1. synced' = synced /\ \A i \in 1..synced : file'[i] = file[i]
      BY <1>2, <1>3
    <3> QED BY <3>1 DEF Ids
  <2> QED BY <1>3, <2>1 DEF Durable
<1>10. Views'
  <2>1. crashes' # 0
    BY <1>3 DEF TypeOK
  <2> QED BY <1>5, <2>1 DEF Views
<1> QED BY <1>6, <1>7, <1>8, <1>9, <1>10

ReaderType == [st : {"closed", "open", "failed"}, last : Nat, got : Seq(Line)]

\* A reader opens on a whole number of records, never on a defect.
LEMMA OpenReaderKeeps == ASSUME IInv, NEW r \in Readers, OpenReader(r) PROVE IInv'
<1> USE DEF IInv
<1> DEFINE new == [reader[r] EXCEPT !.st = "open", !.last = Len(file)]
<1>1. /\ reader' = [reader EXCEPT ![r] = new]
      /\ UNCHANGED <<file, torn, synced, lock, handle, appends, acked, crashes>>
  BY DEF OpenReader, GapFree, TypeOK
<1>2. Len(file) \in Nat /\ reader[r] \in ReaderType
  BY DEF TypeOK, ReaderType
<1>3. new \in ReaderType /\ new.st = "open" /\ new.last = Len(file) /\ new.got = reader[r].got
  BY <1>2 DEF ReaderType
<1> HIDE DEF new
<1>4. /\ reader'[r] = new /\ \A q \in Readers : q # r => reader'[q] = reader[q]
      /\ reader' \in [Readers -> ReaderType]
  BY <1>1, <1>3 DEF TypeOK, ReaderType
<1>5. TypeOK'
  BY <1>1, <1>4 DEF TypeOK, ReaderType
<1>6. Views'
  <2> SUFFICES ASSUME NEW q \in Readers
               PROVE  /\ reader'[q].st # "failed"
                      /\ reader'[q].st = "open" => reader'[q].last <= Len(file)
                      /\ reader'[q].got = reader[q].got
    BY <1>1 DEF Views
  <2>1. CASE q = r
    BY <1>2, <1>3, <1>4, <2>1
  <2>2. CASE q # r
    BY <1>4, <2>2 DEF Views
  <2> QED BY <2>1, <2>2
<1>7. GapFree' /\ Indexed' /\ Durable'
  BY <1>1 DEF GapFree, GapFreeFile, Indexed, Durable, Ids
<1> QED BY <1>5, <1>6, <1>7

LEMMA Joined ==
    ASSUME NEW s \in Seq(Line), NEW t \in Seq(Line)
    PROVE  /\ s \o t \in Seq(Line) /\ Len(s \o t) = Len(s) + Len(t)
           /\ \A i \in 1..Len(s) : (s \o t)[i] = s[i]
           /\ \A i \in 1..Len(t) : (s \o t)[Len(s) + i] = t[i]
OBVIOUS

\* A page continues where the last one ended.
LEMMA ReadPageKeeps == ASSUME IInv, NEW r \in Readers, ReadPage(r) PROVE IInv'
<1> USE DEF IInv
<1> DEFINE got  == reader[r].got
           page == SubSeq(file, Len(got) + 1, PageEnd(r))
           new  == [reader[r] EXCEPT !.got = got \o page, !.st = "closed"]
<1>1. /\ reader[r].st = "open" /\ reader' = [reader EXCEPT ![r] = new]
      /\ UNCHANGED <<file, torn, synced, lock, handle, appends, acked, crashes>>
  BY DEF ReadPage, TypeOK
<1>2. /\ reader[r] \in ReaderType /\ got \in Seq(Line) /\ Len(got) \in Nat
      /\ file \in Seq(Line) /\ Len(file) \in Nat /\ reader[r].last \in Nat
  <2>1. reader[r] \in ReaderType /\ file \in Seq(Line)
    BY DEF TypeOK, ReaderType
  <2>2. got \in Seq(Line) /\ reader[r].last \in Nat
    BY <2>1 DEF ReaderType
  <2> QED BY <2>1, <2>2, LenProperties
<1>3. PageEnd(r) \in Nat /\ PageEnd(r) <= Len(file)
  <2>1. reader[r].last <= Len(file)
    BY <1>1 DEF Views
  <2>2. Len(got) + PageSize \in Nat
    BY <1>2
  <2> QED BY <1>2, <2>1, <2>2 DEF PageEnd
<1>4. \A i \in (Len(got) + 1)..PageEnd(r) : file[i] \in Line
  BY <1>2, <1>3
<1>5. /\ page \in Seq(Line)
      /\ Len(page) = IF Len(got) + 1 <= PageEnd(r) THEN PageEnd(r) - (Len(got) + 1) + 1 ELSE 0
      /\ \A i \in 1..(PageEnd(r) - (Len(got) + 1) + 1) : page[i] = file[Len(got) + 1 + i - 1]
  BY <1>2, <1>3, <1>4, SubSeqProperties
<1> HIDE DEF page
<1>6. Len(page) \in Nat /\ \A i \in 1..Len(page) :
        /\ page[i] = file[Len(got) + i] /\ Len(got) + i \in 1..Len(file)
  <2>1. CASE Len(got) + 1 <= PageEnd(r)
    <3>1. Len(page) = PageEnd(r) - Len(got)
      BY <1>2, <1>3, <1>5, <2>1
    <3>2. \A i \in 1..Len(page) : /\ i \in 1..(PageEnd(r) - (Len(got) + 1) + 1)
                                  /\ Len(got) + 1 + i - 1 = Len(got) + i
                                  /\ Len(got) + i \in 1..Len(file)
      BY <1>2, <1>3, <2>1, <3>1
    <3>3. Len(page) \in Nat
      BY <1>2, <1>3, <2>1, <3>1
    <3> QED BY <1>5, <3>2, <3>3
  <2>2. CASE ~(Len(got) + 1 <= PageEnd(r))
    <3>1. Len(page) = 0
      BY <1>5, <2>2
    <3> QED BY <3>1
  <2> QED BY <2>1, <2>2
<1> DEFINE all == got \o page
<1>7. /\ all \in Seq(Line) /\ Len(all) = Len(got) + Len(page)
      /\ \A i \in 1..Len(got) : all[i] = got[i]
      /\ \A i \in 1..Len(page) : all[Len(got) + i] = page[i]
  BY <1>2, <1>5, Joined
<1>8. new \in ReaderType /\ new.st = "closed" /\ new.got = all
  BY <1>2, <1>7 DEF ReaderType
<1> HIDE DEF new, all
<1>9. \A i \in 1..Len(all) :
        \/ i \in 1..Len(got) /\ all[i] = got[i]
        \/ i \in 1..Len(file) /\ all[i] = file[i]
  <2> SUFFICES ASSUME NEW i \in 1..Len(all), i \notin 1..Len(got)
               PROVE  i \in 1..Len(file) /\ all[i] = file[i]
    BY <1>7
  <2>1. i - Len(got) \in 1..Len(page) /\ Len(got) + (i - Len(got)) = i
    BY <1>2, <1>6, <1>7
  <2> QED BY <1>6, <1>7, <2>1
<1>10. /\ reader'[r] = new /\ \A q \in Readers : q # r => reader'[q] = reader[q]
       /\ reader' \in [Readers -> ReaderType]
  BY <1>1, <1>8 DEF TypeOK, ReaderType
<1>11. TypeOK'
  BY <1>1, <1>10 DEF TypeOK, ReaderType
<1>12. Views'
  <2>1. ASSUME NEW q \in Readers, q # r
        PROVE  /\ reader'[q].st # "failed"
               /\ reader'[q].st = "open" => reader'[q].last <= Len(file)
               /\ \A i \in 1..Len(reader'[q].got) : reader'[q].got[i].seq = i
               /\ crashes = 0 => /\ Len(reader'[q].got) <= Len(file)
                                 /\ \A i \in 1..Len(reader'[q].got) : reader'[q].got[i] = file[i]
    BY <1>10, <2>1 DEF Views
  <2>2. \A i \in 1..Len(all) : all[i].seq = i
    BY <1>9 DEF Views, GapFree, GapFreeFile
  <2>3. crashes = 0 => Len(all) <= Len(file) /\ \A i \in 1..Len(all) : all[i] = file[i]
    <3> SUFFICES ASSUME crashes = 0
                 PROVE  Len(all) <= Len(file) /\ \A i \in 1..Len(all) : all[i] = file[i]
      OBVIOUS
    <3>1. Len(got) <= Len(file) /\ \A i \in 1..Len(got) : got[i] = file[i]
      BY DEF Views
    <3>2. Len(all) <= Len(file)
      <4>1. Len(all) \in Nat /\ (Len(all) \in 1..Len(all) \/ Len(all) = 0)
        BY <1>2, <1>6, <1>7
      <4>2. \A i \in 1..Len(all) : i <= Len(file)
        BY <1>2, <1>9, <3>1
      <4> QED BY <1>2, <4>1, <4>2
    <3> QED BY <1>9, <3>1, <3>2
  <2>4. reader'[r].st = "closed" /\ reader'[r].got = all
    BY <1>8, <1>10
  <2> QED BY <1>1, <2>1, <2>2, <2>3, <2>4 DEF Views
<1>13. GapFree' /\ Indexed' /\ Durable'
  BY <1>1 DEF GapFree, GapFreeFile, Indexed, Durable, Ids
<1> QED BY <1>11, <1>12, <1>13

LEMMA Kept == IInv /\ [Next]_vars => IInv'
<1> SUFFICES ASSUME IInv, [Next]_vars PROVE IInv'
  OBVIOUS
<1>1. CASE UNCHANGED vars
  BY <1>1 DEF vars, IInv, TypeOK, GapFree, GapFreeFile, Indexed, Durable, Ids, Views
<1>2. ASSUME NEW h \in Handles,
             \/ \E kind \in Kinds : TryLock(h, kind)
             \/ ScanExisting(h) \/ BeginWrite(h) \/ FinishWrite(h) \/ FailWrite(h)
             \/ CommitDurable(h) \/ CommitGroup(h) \/ ForceSync(h) \/ Release(h) \/ Drop(h)
      PROVE  IInv'
  BY <1>2, TryLockKeeps, ScanKeeps, BeginWriteKeeps, FinishWriteKeeps, FailWriteKeeps,
     CommitDurableKeeps, CommitGroupKeeps, ForceSyncKeeps, ReleaseKeeps, DropKeeps
<1> QED BY <1>1, <1>2, MachineCrashKeeps, OpenReaderKeeps, ReadPageKeeps DEF Next

-----------------------------------------------------------------------------
\* Every variable of the log has its type.
THEOREM Typed == Spec => []TypeOK
<1>1. IInv => TypeOK
  BY DEF IInv
<1> QED BY <1>1, Started, Kept, PTL DEF Spec

\* Line i is the record numbered i, whatever handles, kills, full disks and
\* crashes did to the file.
THEOREM NumberedWithoutGap == Spec => []GapFree
<1>1. IInv => GapFree
  BY DEF IInv
<1> QED BY <1>1, Started, Kept, PTL DEF Spec

\* A handle that may append holds the lock and its index ends where the file
\* does: EventLog::open scans after it locked, never before.
THEOREM IndexNeverStale == Spec => []IndexCurrent
<1>1. IInv => IndexCurrent
  BY DEF IInv, Indexed, IndexCurrent
<1> QED BY <1>1, Started, Kept, PTL DEF Spec

\* What a caller was told is durable survives any number of crashes.
THEOREM AcknowledgedSurvives == Spec => []AckedSurvives
<1>1. IInv => AckedSurvives
  <2> SUFFICES ASSUME IInv PROVE AckedSurvives
    OBVIOUS
  <2>1. synced \in 0..Len(file) /\ Len(file) \in Nat
    BY DEF IInv, TypeOK
  <2>2. Ids(synced) \subseteq Ids(Len(file))
    BY <2>1 DEF Ids
  <2> QED BY <2>2 DEF IInv, Durable, AckedSurvives
<1> QED BY <1>1, Started, Kept, PTL DEF Spec

\* A polling reader is never turned away, and what its pages add up to is
\* numbered without a gap and, before a machine crash, the file's beginning.
THEOREM ReadersSeePrefix == Spec => []ReaderSeesPrefix
<1>1. IInv => ReaderSeesPrefix
  <2> SUFFICES ASSUME IInv, NEW r \in Readers, crashes = 0
               PROVE  reader[r].got = SubSeq(file, 1, Len(reader[r].got))
    BY DEF IInv, Views, ReaderSeesPrefix
  <2> DEFINE got == reader[r].got
             n   == Len(got)
  <2>1. reader[r] \in ReaderType /\ file \in Seq(Line) /\ Len(file) \in Nat
    BY DEF IInv, TypeOK, ReaderType
  <2>2. got \in Seq(Line) /\ n \in Nat
    BY <2>1 DEF ReaderType
  <2>3. n <= Len(file) /\ \A i \in 1..n : got[i] = file[i]
    BY DEF IInv, Views
  <2> HIDE DEF got
  <2>4. \A i \in 1..n : file[i] \in Line
    BY <2>1, <2>2, <2>3
  <2>5. /\ SubSeq(file, 1, n) \in Seq(Line)
        /\ Len(SubSeq(file, 1, n)) = IF 1 <= n THEN n - 1 + 1 ELSE 0
        /\ \A i \in 1..(n - 1 + 1) : SubSeq(file, 1, n)[i] = file[1 + i - 1]
    BY <2>2, <2>4, SubSeqProperties
  <2>6. Len(SubSeq(file, 1, n)) = n /\ \A i \in 1..n : SubSeq(file, 1, n)[i] = got[i]
    <3>1. \A i \in 1..n : 1 + i - 1 = i /\ i \in 1..(n - 1 + 1)
      BY <2>2
    <3> QED BY <2>2, <2>3, <2>5, <3>1
  <2>7. got = SubSeq(file, 1, n)
    BY <2>2, <2>5, <2>6, SeqEqual
  <2> QED BY <2>7 DEF got
<1> QED BY <1>1, Started, Kept, PTL DEF Spec

-----------------------------------------------------------------------------
\* The lock, the torn tails, the group commit and the readers implement an
\* append-only sequence of which a crash takes only what was not synced.
THEOREM LogIsAppendOnly == Spec => AppendOnly
<1> DEFINE Abstract == [AbstractLog!Next]_<<file, synced>>
<1>1. Init => AbstractLog!Init
  BY DEF Init, AbstractLog!Init
<1>2. ASSUME IInv, NEW h \in Handles, FinishWrite(h) PROVE Abstract
  <2> DEFINE line == [seq |-> next_sequence(h), id |-> appends]
  <2>1. handle[h] \in HandleType /\ file \in Seq(Line) /\ appends \in Nat
    BY <1>2 DEF IInv, TypeOK, HandleType
  <2>2. line \in Line
    BY <2>1 DEF Line, HandleType, next_sequence
  <2>3. file' = Append(file, line) /\ UNCHANGED synced
    BY <1>2 DEF FinishWrite
  <2> HIDE DEF line
  <2>4. Len(file') = Len(file) + 1 /\ file'[Len(file')] = line
    BY <2>1, <2>2, <2>3
  <2>5. AbstractLog!Grow
    BY <2>2, <2>3, <2>4 DEF AbstractLog!Grow
  <2> QED BY <2>3, <2>5 DEF AbstractLog!Next, AbstractLog!Extend
<1>3. ASSUME UNCHANGED file, UNCHANGED <<synced, acked>> \/ Sync PROVE Abstract
  BY <1>3 DEF Sync, AbstractLog!Next, AbstractLog!Harden
<1>4. ASSUME NEW h \in Handles,
             CommitDurable(h) \/ CommitGroup(h) \/ ForceSync(h) \/ Release(h)
      PROVE  Abstract
  <2>1. UNCHANGED file /\ (UNCHANGED <<synced, acked>> \/ Sync)
    BY <1>4 DEF CommitDurable, CommitGroup, ForceSync, Release
  <2> QED BY <1>3, <2>1
<1>5. ASSUME MachineCrash PROVE Abstract
  <2>1. PICK k \in synced..Len(file) : file' = SubSeq(file, 1, k)
    BY <1>5 DEF MachineCrash
  <2>2. UNCHANGED synced
    BY <1>5 DEF MachineCrash
  <2>3. AbstractLog!Lose
    BY <2>1, <2>2 DEF AbstractLog!Lose
  <2> QED BY <2>3 DEF AbstractLog!Next
<1>6. IInv /\ [Next]_vars => Abstract
  <2>1. ASSUME NEW h \in Handles,
               \/ \E kind \in Kinds : TryLock(h, kind)
               \/ ScanExisting(h) \/ BeginWrite(h) \/ FailWrite(h) \/ Drop(h)
        PROVE  UNCHANGED <<file, synced>>
    BY <2>1 DEF TryLock, ScanExisting, BeginWrite, FailWrite, Drop
  <2>2. ASSUME NEW r \in Readers, OpenReader(r) \/ ReadPage(r)
        PROVE  UNCHANGED <<file, synced>>
    BY <2>2 DEF OpenReader, ReadPage
  <2>3. UNCHANGED vars => UNCHANGED <<file, synced>>
    BY DEF vars
  <2>4. UNCHANGED <<file, synced>> => Abstract
    OBVIOUS
  <2> HIDE DEF Abstract
  <2> QED BY <1>2, <1>4, <1>5, <2>1, <2>2, <2>3, <2>4 DEF Next
<1> QED BY <1>1, <1>6, Started, Kept, PTL DEF Spec, AppendOnly, AbstractLog!Spec
=============================================================================
