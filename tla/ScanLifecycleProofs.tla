------------------------- MODULE ScanLifecycleProofs -------------------------
(***************************************************************************)
(* What the writer lock guarantees to any number of processes that start,  *)
(* resume and cancel one scan, whatever the plan, the ceiling and the      *)
(* number of deaths.                                                       *)
(***************************************************************************)
EXTENDS ScanLifecycle, TLAPS

\* Units are held unwritten only where the run works, and no more of them
\* than the plan has left.
Unwritten ==
    \A p \in Procs : /\ proc[p].at # "work" => proc[p].batch = 0
                     /\ unitsDone + proc[p].batch <= NumUnits

\* A run past its end has an outcome to publish.
Decided ==
    \A p \in Procs : proc[p].at \in {"end", "recorded", "released"} => proc[p].why \in Terminal

\* A process that created the scan, or does nothing, is not resuming it.
Started ==
    \A p \in Procs : proc[p].at \in {"idle", "created"} => proc[p].op = "start"

IInv == TypeOK /\ OneRunAtATime /\ Unwritten /\ Decided /\ Started

ProcType == [at : Places, op : {"start", "resume"}, seen : 0..MaxPackets,
             spent : 0..MaxPackets, batch : 0..NumUnits, token : BOOLEAN,
             why : Terminal \cup {"none"}]

LEMMA IdleTyped == Idle \in ProcType
  BY LifecycleAssumption DEF Idle, ProcType, Places

\* The program starts in a state of the invariant.
LEMMA InitIInv == Init => IInv
<1> SUFFICES ASSUME Init PROVE IInv
  OBVIOUS
<1>1. TypeOK
  <2>1. proc \in [Procs -> ProcType]
    BY IdleTyped DEF Init
  <2>2. marker \in BOOLEAN
    BY DEF Init
  <2> QED BY <2>1, <2>2, LifecycleAssumption DEF Init, TypeOK, ProcType, Terminal
<1>2. OneRunAtATime
  BY LifecycleAssumption DEF Init, OneRunAtATime, Owning, Running, Idle
<1>3. Unwritten /\ Decided /\ Started
  BY LifecycleAssumption DEF Init, Unwritten, Decided, Started, Idle
<1> QED BY <1>1, <1>2, <1>3 DEF IInv

\* No step gives a process or a shared place a value of another kind; a
\* flush stays within the plan because the writer is alone.
LEMMA TypeStep ==
  ASSUME IInv, [Next]_vars
  PROVE  TypeOK'
<1> USE LifecycleAssumption DEF TypeOK, Terminal
<1> DEFINE Rec == proc' \in [Procs -> ProcType]
<1>0. proc \in [Procs -> ProcType]
  BY DEF IInv, ProcType
<1>1. CASE UNCHANGED vars
  BY <1>1 DEF IInv, vars, shared, history
<1>2. ASSUME NEW p \in Procs, Stop(p) PROVE Rec
  BY <1>0, <1>2, IdleTyped DEF Stop
<1>3. ASSUME NEW p \in Procs, NEW a \in Places, Go(p, a) PROVE Rec
  BY <1>0, <1>3 DEF Go, ProcType
<1>4. Rec => proc' \in [Procs -> [at : Places, op : {"start", "resume"},
                           seen : 0..MaxPackets, spent : 0..MaxPackets,
                           batch : 0..NumUnits, token : BOOLEAN,
                           why : Terminal \cup {"none"}]]
  BY DEF ProcType
<1> HIDE DEF Rec
<1>5. ASSUME NEW p \in Procs, Create(p) PROVE TypeOK'
  <2>1. [Idle EXCEPT !.at = "created", !.op = "start"] \in ProcType
    BY IdleTyped DEF ProcType, Idle, Places
  <2>2. Rec
    BY <1>0, <1>5, <2>1 DEF Create, Rec
  <2> QED BY <1>4, <1>5, <2>2 DEF Create, IInv
<1>6. ASSUME NEW p \in Procs, ReadRecord(p) PROVE TypeOK'
  <2>1. [Idle EXCEPT !.at = "read", !.op = "resume", !.seen = packets] \in ProcType
    BY IdleTyped DEF ProcType, Idle, Places, IInv
  <2>2. Rec
    BY <1>0, <1>6, <2>1 DEF ReadRecord, Rec
  <2> QED BY <1>4, <1>6, <2>2 DEF ReadRecord, IInv, shared
<1>7. ASSUME NEW p \in Procs, Step(p) PROVE TypeOK'
  <2>1. CASE AdmitRunning(p) \/ ResumeComplete(p) \/ ResumePending(p)
    BY <1>2, <1>3, <1>4, <2>1
       DEF AdmitRunning, ResumeComplete, ResumePending, IInv, shared, history, Places
  <2>2. CASE OpenLog(p) \/ OpenLogFails(p) \/ ResumeRunning(p)
    BY <1>2, <1>3, <1>4, <2>2
       DEF OpenLog, OpenLogFails, ResumeRunning, IInv, shared, history, Places
  <2>3. CASE ClearMarker(p)
    <3>1. proc[p].seen \in 0..MaxPackets
      BY <1>0 DEF ProcType
    <3> DEFINE to == IF proc[p].op = "start" THEN "entry" ELSE "cleared"
               with == IF proc[p].seen <= MaxPackets THEN proc[p].seen
                       ELSE MaxPackets
    <3>2. to \in Places /\ with \in 0..MaxPackets
      BY <3>1 DEF Places
    <3>3. proc' = [proc EXCEPT ![p] = [proc[p] EXCEPT !.at = to, !.spent = with]]
      BY <1>0, <2>3 DEF ClearMarker, ProcType
    <3> HIDE DEF to, with
    <3>4. [proc[p] EXCEPT !.at = to, !.spent = with] \in ProcType
      BY <1>0, <3>2 DEF ProcType
    <3>5. Rec
      BY <1>0, <3>3, <3>4 DEF Rec
    <3>6. marker' \in BOOLEAN
      BY <2>3 DEF ClearMarker, IInv
    <3> QED BY <1>4, <2>3, <3>5, <3>6 DEF ClearMarker, IInv, history
  <2>4. CASE RunTerminated(p) \/ RunBegins(p)
    BY <1>2, <1>3, <1>4, <2>4 DEF RunTerminated, RunBegins, IInv, shared, history, Places
  <2>5. CASE Work(p)
    <3>1. /\ proc[p].spent + 1 \in 0..MaxPackets
          /\ proc[p].batch + 1 \in 0..NumUnits
      BY <1>0, <2>5 DEF Work, Left, ProcType, IInv
    <3>2. proc' = [proc EXCEPT ![p] = [proc[p] EXCEPT !.spent = proc[p].spent + 1,
                                                      !.batch = proc[p].batch + 1]]
      BY <1>0, <2>5 DEF Work, ProcType
    <3>3. [proc[p] EXCEPT !.spent = proc[p].spent + 1,
                          !.batch = proc[p].batch + 1] \in ProcType
      BY <1>0, <3>1 DEF ProcType
    <3>4. Rec
      BY <1>0, <3>2, <3>3 DEF Rec
    <3> QED BY <1>4, <2>5, <3>4 DEF Work, IInv, shared
  <2>6. CASE Flush(p)
    <3>1. Rec
      BY <1>0, <2>6 DEF Flush, Rec, ProcType, Places
    <3>2. unitsDone + proc[p].batch \in 0..NumUnits
      BY <1>0 DEF IInv, Unwritten, ProcType
    <3> QED BY <1>4, <2>6, <3>1, <3>2 DEF Flush, IInv, history
  <2>7. CASE Finish(p)
    <3>1. PICK why \in Terminal :
             /\ why \in {"completed", "failed"} \/ why = "cancelled"
             /\ proc' = [proc EXCEPT ![p].at = "end", ![p].why = why]
             /\ logEnd' = IF why = "cancelled" THEN logEnd ELSE why
      BY <2>7 DEF Finish
    <3>2. proc' = [proc EXCEPT ![p] = [proc[p] EXCEPT !.at = "end", !.why = why]]
      BY <1>0, <3>1 DEF ProcType
    <3>3. [proc[p] EXCEPT !.at = "end", !.why = why] \in ProcType
      BY <1>0 DEF ProcType, Places
    <3>4. Rec
      BY <1>0, <3>2, <3>3 DEF Rec
    <3> QED BY <1>4, <2>7, <3>1, <3>4 DEF Finish, IInv, history
  <2>8. CASE FinalRecord(p)
    <3>1. proc[p].spent \in 0..MaxPackets
      BY <1>0 DEF ProcType
    <3> QED BY <1>3, <1>4, <2>8, <3>1 DEF FinalRecord, IInv, history, Places
  <2>9. CASE ReleaseLock(p)
    BY <1>3, <1>4, <2>9 DEF ReleaseLock, IInv, history, Places
  <2>10. CASE SetTerminalStatus(p)
    <3>1. proc[p].why \in Terminal
      BY <2>10 DEF SetTerminalStatus, IInv, Decided
    <3> QED BY <1>2, <1>4, <2>10, <3>1 DEF SetTerminalStatus, IInv, history
  <2>11. CASE RecordProgress(p)
    <3>1. proc[p].spent \in 0..MaxPackets
      BY <1>0 DEF ProcType
    <3> QED BY <1>3, <1>4, <2>11, <3>1 DEF RecordProgress, IInv, history, Places
  <2> QED BY <1>7, <2>1, <2>2, <2>3, <2>4, <2>5, <2>6, <2>7, <2>8, <2>9, <2>10, <2>11 DEF Step
<1>8. ASSUME NEW p \in Procs, Watch(p) PROVE TypeOK'
  <2>1. Rec
    BY <1>0, <1>8 DEF Watch, Rec, ProcType
  <2> QED BY <1>4, <1>8, <2>1 DEF Watch, IInv, shared, history
<1>9. ASSUME NEW p \in Procs, Die(p) PROVE TypeOK'
  BY <1>2, <1>4, <1>9 DEF Die, IInv
<1>10. CASE RequestCancel
  BY <1>10 DEF RequestCancel, IInv, history
<1> QED BY <1>1, <1>5, <1>6, <1>7, <1>8, <1>9, <1>10 DEF Next

\* What a step does to the place, the batch and the outcome of each process.
Moves(p) == /\ proc' \in [Procs -> ProcType]
            /\ \A q \in Procs \ {p} : proc'[q] = proc[q]

\* A step of one process leaves the others where they stand.
LEMMA OthersStay ==
  ASSUME IInv, NEW p \in Procs,
         Create(p) \/ ReadRecord(p) \/ Step(p) \/ Watch(p) \/ Die(p)
  PROVE  Moves(p)
<1>1. proc \in [Procs -> ProcType] /\ TypeOK'
  BY TypeStep DEF IInv, TypeOK, ProcType, Next
<1>2. proc' \in [Procs -> ProcType]
  BY <1>1 DEF TypeOK, ProcType
<1>3. \A q \in Procs \ {p} : proc'[q] = proc[q]
  <2>1. CASE Create(p) \/ ReadRecord(p) \/ Watch(p) \/ Die(p)
    BY <1>1, <2>1 DEF Create, ReadRecord, Watch, Die, Stop
  <2>2. CASE Step(p)
    BY <1>1, <2>2
       DEF Step, AdmitRunning, ResumeComplete, ResumePending, OpenLog,
           OpenLogFails, ClearMarker, ResumeRunning, RunTerminated, RunBegins,
           Work, Flush, RecordProgress, Finish, FinalRecord, ReleaseLock,
           SetTerminalStatus, Go, Stop
  <2> QED BY <2>1, <2>2
<1> QED BY <1>2, <1>3 DEF Moves

\* A start and a resume begin outside the lock and with nothing in hand.
LEMMA EntersEmpty ==
  ASSUME IInv, NEW p \in Procs
  PROVE  /\ Create(p) => proc'[p].at = "created" /\ proc'[p].batch = 0
         /\ ReadRecord(p) => proc'[p].at = "read" /\ proc'[p].batch = 0
<1>0. proc \in [Procs -> ProcType]
  BY DEF IInv, TypeOK, ProcType
<1>1. ASSUME Create(p) PROVE proc'[p].at = "created" /\ proc'[p].batch = 0
  <2>1. proc'[p] = [Idle EXCEPT !.at = "created", !.op = "start"]
    BY <1>0, <1>1 DEF Create
  <2> QED BY <2>1 DEF Idle
<1>2. ASSUME ReadRecord(p) PROVE proc'[p].at = "read" /\ proc'[p].batch = 0
  <2>1. proc'[p] = [Idle EXCEPT !.at = "read", !.op = "resume", !.seen = packets]
    BY <1>0, <1>2 DEF ReadRecord
  <2> QED BY <2>1 DEF Idle
<1> QED BY <1>1, <1>2

\* Clearing the marker takes a process on, with its outcome and batch as before.
LEMMA Clears ==
  ASSUME proc \in [Procs -> ProcType], NEW p \in Procs, ClearMarker(p)
  PROVE  /\ proc[p].at = "locked" /\ proc'[p].at \in {"entry", "cleared"}
         /\ proc'[p].op = proc[p].op /\ proc'[p].batch = proc[p].batch
         /\ proc'[p].why = proc[p].why /\ UNCHANGED <<lock, unitsDone>>
<1> DEFINE to == IF proc[p].op = "start" THEN "entry" ELSE "cleared"
           with == IF proc[p].seen <= MaxPackets THEN proc[p].seen ELSE MaxPackets
<1>1. /\ proc' = [proc EXCEPT ![p].at = to, ![p].spent = with]
      /\ proc[p].at = "locked" /\ UNCHANGED <<lock, unitsDone>>
  BY DEF ClearMarker
<1>2. to \in {"entry", "cleared"}
  OBVIOUS
<1> HIDE DEF to, with
<1> QED BY <1>1, <1>2 DEF ProcType

\* The lock changes hands only where a process enters or leaves its section.
LEMMA LockStep ==
  ASSUME IInv, [Next]_vars
  PROVE  OneRunAtATime'
<1> USE LifecycleAssumption DEF OneRunAtATime, Owning, Running
<1>0. proc \in [Procs -> ProcType] /\ OneRunAtATime
  BY DEF IInv, TypeOK, ProcType
<1>1. CASE UNCHANGED vars
  BY <1>0, <1>1 DEF vars, shared
<1>2. CASE RequestCancel
  BY <1>0, <1>2 DEF RequestCancel
<1>3. ASSUME NEW p \in Procs,
             Create(p) \/ ReadRecord(p) \/ Step(p) \/ Watch(p) \/ Die(p)
      PROVE  OneRunAtATime'
  <2>1. Moves(p)
    BY <1>3, OthersStay
  <2>2. proc'[p].at \in Owning <=> lock' = p
    <3>1. CASE Create(p) \/ ReadRecord(p)
      BY <1>0, <3>1, EntersEmpty DEF Create, ReadRecord, shared
    <3>2. CASE Watch(p) \/ Die(p)
      BY <1>0, <3>2 DEF Watch, Die, Stop, Idle, shared, ProcType
    <3>3. CASE ClearMarker(p) \/ Work(p) \/ Flush(p) \/ Finish(p)
      BY <1>0, <3>3, Clears DEF Work, Flush, Finish, ProcType
    <3>4. CASE Step(p) /\ ~(ClearMarker(p) \/ Work(p) \/ Flush(p) \/ Finish(p))
      BY <1>0, <3>4
         DEF Step, AdmitRunning, ResumeComplete, ResumePending, OpenLog, OpenLogFails,
             ResumeRunning, RunTerminated, RunBegins, RecordProgress, FinalRecord,
             ReleaseLock, SetTerminalStatus, Go, Stop, Idle, shared, ProcType
    <3> QED BY <1>3, <3>1, <3>2, <3>3, <3>4
  <2>3. lock' = lock \/ (lock = NoProc /\ lock' = p) \/ (lock = p /\ lock' = NoProc)
    <3>1. CASE Create(p) \/ ReadRecord(p) \/ Watch(p) \/ Die(p)
      BY <3>1 DEF Create, ReadRecord, Watch, Die, shared
    <3>2. CASE Step(p)
      BY <1>0, <3>2
         DEF Step, AdmitRunning, ResumeComplete, ResumePending, OpenLog,
             OpenLogFails, ClearMarker, ResumeRunning, RunTerminated, RunBegins,
             Work, Flush, RecordProgress, Finish, FinalRecord, ReleaseLock, SetTerminalStatus, shared
    <3> QED BY <1>3, <3>1, <3>2
  <2> QED BY <1>0, <2>1, <2>2, <2>3 DEF Moves
<1> QED BY <1>1, <1>2, <1>3 DEF Next

\* The batch is filled, flushed and dropped where the run works, by the one
\* process that works.
LEMMA BatchStep ==
  ASSUME IInv, [Next]_vars
  PROVE  Unwritten'
<1> USE LifecycleAssumption DEF Unwritten
<1>0. /\ proc \in [Procs -> ProcType] /\ Unwritten
      /\ unitsDone \in 0..NumUnits
  BY DEF IInv, TypeOK, ProcType
<1>1. CASE UNCHANGED vars
  BY <1>0, <1>1 DEF vars, shared
<1>2. CASE RequestCancel
  BY <1>0, <1>2 DEF RequestCancel
<1>3. ASSUME NEW p \in Procs,
             Create(p) \/ ReadRecord(p) \/ Step(p) \/ Watch(p) \/ Die(p)
      PROVE  Unwritten'
  <2>1. Moves(p)
    BY <1>3, OthersStay
  <2>2. CASE Flush(p)
    <3>1. \A q \in Procs \ {p} : proc[q].batch = 0
      BY <1>0, <2>2 DEF Flush, IInv, OneRunAtATime, Owning, Running
    <3>2. /\ proc'[p].batch = 0
          /\ unitsDone' = unitsDone + proc[p].batch
      BY <1>0, <2>2 DEF Flush, ProcType
    <3> QED BY <1>0, <2>1, <3>1, <3>2 DEF Moves, ProcType
  <2>3. CASE ~Flush(p)
    <3>1. unitsDone' = unitsDone
      BY <1>3, <2>3
         DEF Create, ReadRecord, Watch, Die, Step, AdmitRunning, ResumeComplete,
             ResumePending, OpenLog, OpenLogFails, ClearMarker, ResumeRunning,
             RunTerminated, RunBegins, Work, RecordProgress, Finish, FinalRecord, ReleaseLock,
             SetTerminalStatus, shared
    <3>2. /\ proc'[p].at # "work" => proc'[p].batch = 0
          /\ unitsDone + proc'[p].batch <= NumUnits
      <4>1. CASE Create(p) \/ ReadRecord(p)
        BY <1>0, <4>1, EntersEmpty
      <4>2. CASE Watch(p) \/ Die(p)
        BY <1>0, <4>2 DEF Watch, Die, Stop, Idle, ProcType
      <4>3. CASE Work(p)
        BY <1>0, <4>3 DEF Work, Left, ProcType
      <4>4. CASE ClearMarker(p) \/ Finish(p)
        BY <1>0, <4>4, Clears DEF Finish, ProcType
      <4>5. CASE Step(p) /\ ~(ClearMarker(p) \/ Work(p) \/ Finish(p))
        BY <1>0, <2>3, <4>5
           DEF Step, AdmitRunning, ResumeComplete, ResumePending, OpenLog, OpenLogFails,
               ResumeRunning, RunTerminated, RunBegins, RecordProgress, FinalRecord,
               ReleaseLock, SetTerminalStatus, Go, Stop, Idle, ProcType
      <4> QED BY <1>3, <4>1, <4>2, <4>3, <4>4, <4>5
    <3> QED BY <1>0, <2>1, <3>1, <3>2 DEF Moves
  <2> QED BY <2>2, <2>3
<1> QED BY <1>1, <1>2, <1>3 DEF Next

\* A run reaches its end by deciding how it ended.
LEMMA OutcomeStep ==
  ASSUME IInv, [Next]_vars
  PROVE  Decided'
<1> USE DEF Decided
<1>0. proc \in [Procs -> ProcType] /\ Decided
  BY DEF IInv, TypeOK, ProcType
<1>1. CASE UNCHANGED vars
  BY <1>0, <1>1 DEF vars
<1>2. CASE RequestCancel
  BY <1>0, <1>2 DEF RequestCancel
<1>3. ASSUME NEW p \in Procs,
             Create(p) \/ ReadRecord(p) \/ Step(p) \/ Watch(p) \/ Die(p)
      PROVE  Decided'
  <2>1. Moves(p)
    BY <1>3, OthersStay
  <2>2. proc'[p].at \in {"end", "recorded", "released"} => proc'[p].why \in Terminal
    <3>1. CASE Create(p) \/ ReadRecord(p)
      BY <3>1, EntersEmpty
    <3>2. CASE Watch(p) \/ Die(p)
      BY <1>0, <3>2 DEF Watch, Die, Stop, Idle, ProcType
    <3>3. CASE ClearMarker(p) \/ Work(p) \/ Flush(p)
      BY <1>0, <3>3, Clears DEF Work, Flush, ProcType
    <3>4. CASE Finish(p)
      BY <1>0, <3>4 DEF Finish, ProcType
    <3>5. CASE Step(p) /\ ~(ClearMarker(p) \/ Work(p) \/ Flush(p) \/ Finish(p))
      BY <1>0, <3>5
         DEF Step, AdmitRunning, ResumeComplete, ResumePending, OpenLog, OpenLogFails,
             ResumeRunning, RunTerminated, RunBegins, RecordProgress, FinalRecord,
             ReleaseLock, SetTerminalStatus, Go, Stop, Idle, ProcType
    <3> QED BY <1>3, <3>1, <3>2, <3>3, <3>4, <3>5
  <2> QED BY <1>0, <2>1, <2>2 DEF Moves
<1> QED BY <1>1, <1>2, <1>3 DEF Next

\* Only a start is created, and a process is idle again as it began.
LEMMA StartedStep ==
  ASSUME IInv, [Next]_vars
  PROVE  Started'
<1> USE DEF Started
<1>0. proc \in [Procs -> ProcType] /\ Started
  BY DEF IInv, TypeOK, ProcType
<1>1. CASE UNCHANGED vars
  BY <1>0, <1>1 DEF vars
<1>2. CASE RequestCancel
  BY <1>0, <1>2 DEF RequestCancel
<1>3. ASSUME NEW p \in Procs,
             Create(p) \/ ReadRecord(p) \/ Step(p) \/ Watch(p) \/ Die(p)
      PROVE  Started'
  <2>1. Moves(p)
    BY <1>3, OthersStay
  <2>2. proc'[p].at \in {"idle", "created"} => proc'[p].op = "start"
    <3>1. CASE Create(p)
      <4>1. proc'[p] = [Idle EXCEPT !.at = "created", !.op = "start"]
        BY <1>0, <3>1 DEF Create
      <4> QED BY <4>1 DEF Idle
    <3>2. CASE ReadRecord(p)
      BY <3>2, EntersEmpty
    <3>3. CASE Watch(p) \/ Die(p)
      BY <1>0, <3>3 DEF Watch, Die, Stop, Idle, ProcType
    <3>4. CASE ClearMarker(p) \/ Work(p) \/ Flush(p) \/ Finish(p)
      BY <1>0, <3>4, Clears DEF Work, Flush, Finish, ProcType
    <3>5. CASE Step(p) /\ ~(ClearMarker(p) \/ Work(p) \/ Flush(p) \/ Finish(p))
      BY <1>0, <3>5
         DEF Step, AdmitRunning, ResumeComplete, ResumePending, OpenLog, OpenLogFails,
             ResumeRunning, RunTerminated, RunBegins, RecordProgress, FinalRecord,
             ReleaseLock, SetTerminalStatus, Go, Stop, Idle, ProcType
    <3> QED BY <1>3, <3>1, <3>2, <3>3, <3>4, <3>5
  <2> QED BY <1>0, <2>1, <2>2 DEF Moves
<1> QED BY <1>1, <1>2, <1>3 DEF Next

\* The marker goes only where a process has just taken the lock, the status
\* of a resume only where it has it or has given it back.
LEMMA AcquiredFirst ==
  ASSUME IInv, [Next]_vars
  PROVE  /\ marker /\ ~marker' =>
              lock # NoProc /\ \A p \in Procs : proc[p].at \notin Running
         /\ \A p \in Procs :
              proc[p].op = "resume" /\ proc'[p] # proc[p] /\ status' # status =>
                lock = p \/ proc[p].at = "released"
<1>0. proc \in [Procs -> ProcType] /\ OneRunAtATime /\ Procs \cap {NoProc} = {}
  BY LifecycleAssumption DEF IInv, TypeOK, ProcType
<1>1. CASE UNCHANGED vars
  BY <1>1 DEF vars, shared
<1>2. CASE RequestCancel
  BY <1>2 DEF RequestCancel
<1>3. ASSUME NEW p \in Procs, ClearMarker(p)
      PROVE  lock # NoProc /\ status' = status /\ \A q \in Procs : proc[q].at \notin Running
  <2>1. proc[p].at = "locked" /\ lock = p /\ status' = status
    BY <1>0, <1>3 DEF ClearMarker, OneRunAtATime, Owning
  <2>2. \A q \in Procs : proc[q].at \in Running => q = p
    BY <1>0, <2>1 DEF OneRunAtATime, Owning
  <2> QED BY <1>0, <2>1, <2>2 DEF Running
<1>4. ASSUME NEW p \in Procs, ~ClearMarker(p),
             Create(p) \/ ReadRecord(p) \/ Step(p) \/ Watch(p) \/ Die(p)
      PROVE  marker' = marker
  BY <1>4 DEF Create, ReadRecord, Watch, Die, Step, AdmitRunning, ResumeComplete,
              ResumePending, OpenLog, OpenLogFails, ResumeRunning, RunTerminated,
              RunBegins, Work, Flush, RecordProgress, Finish, FinalRecord,
              ReleaseLock, SetTerminalStatus, shared
<1>5. ASSUME NEW p \in Procs, status' # status,
             Create(p) \/ ReadRecord(p) \/ Step(p) \/ Watch(p) \/ Die(p)
      PROVE  Create(p) \/ AdmitRunning(p) \/ ResumeRunning(p) \/ SetTerminalStatus(p)
  BY <1>5 DEF ReadRecord, Watch, Die, Step, ResumeComplete, ResumePending, OpenLog,
              OpenLogFails, ClearMarker, RunTerminated, RunBegins, Work, Flush,
              RecordProgress, Finish, FinalRecord, ReleaseLock, shared
<1>6. ASSUME NEW p \in Procs, ResumeRunning(p) PROVE lock = p
  BY <1>0, <1>6 DEF ResumeRunning, OneRunAtATime, Owning
<1>7. ASSUME NEW p \in Procs, Create(p) \/ AdmitRunning(p) PROVE proc[p].op = "start"
  BY <1>7 DEF Create, AdmitRunning, IInv, Started
<1>8. ASSUME NEW p \in Procs,
             Create(p) \/ ReadRecord(p) \/ Step(p) \/ Watch(p) \/ Die(p),
             NEW q \in Procs, proc[q].op = "resume", proc'[q] # proc[q], status' # status
      PROVE  lock = q \/ proc[q].at = "released"
  <2>1. q = p
    BY <1>8, OthersStay DEF Moves
  <2>2. ResumeRunning(p) \/ SetTerminalStatus(p)
    BY <1>5, <1>7, <1>8, <2>1
  <2> QED BY <1>6, <2>1, <2>2 DEF SetTerminalStatus
<1> QED BY <1>1, <1>2, <1>3, <1>4, <1>8 DEF Next

LEMMA Invariance == Spec => []IInv
<1>1. IInv /\ [Next]_vars => IInv'
  BY TypeStep, LockStep, BatchStep, OutcomeStep, StartedStep DEF IInv
<1> QED BY InitIInv, <1>1, PTL DEF Spec

\* Every variable of the shared state and of the processes keeps its type;
\* in particular the store never counts more completed units than the plan
\* has (flush_progress).
THEOREM Typed == Spec => []TypeOK
<1>1. IInv => TypeOK
  BY DEF IInv
<1> QED BY Invariance, <1>1, PTL

\* Two runs never work on one scan, whoever starts, resumes or dies: the
\* processes between EventLog::open and the release of its lock are exactly
\* its holder.
THEOREM OneRun == Spec => []OneRunAtATime
<1>1. IInv => OneRunAtATime
  BY DEF IInv
<1> QED BY Invariance, <1>1, PTL

\* Acquire first, mutate second (Work::log): no resume takes a cancel request
\* away from a live run, and none writes the status before it has the lock.
THEOREM ResumeAcquiresFirst == Spec => AcquireFirst
<1>1. IInv /\ [Next]_vars =>
        [ /\ marker /\ ~marker' =>
               lock # NoProc /\ \A p \in Procs : proc[p].at \notin Running
          /\ \A p \in Procs :
               proc[p].op = "resume" /\ proc'[p] # proc[p] /\ status' # status =>
                 lock = p \/ proc[p].at = "released" ]_vars
  BY AcquiredFirst
<1> QED BY Invariance, <1>1, PTL DEF Spec, AcquireFirst
=============================================================================
