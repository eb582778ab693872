------------------------------- MODULE Results -------------------------------
(***************************************************************************)
(* What result.query, result.diff and evidence.get answer about a scan     *)
(* while it is being written: its run appends what Scheduler::run does, a  *)
(* capture is put before the event that cites it, another scan's writer    *)
(* puts captures of its own, processes and the machine crash, a resumed    *)
(* run probes again what a crash took, and a log may be edited by hand.    *)
(*                                                                         *)
(* The scan is compared with every log of Baselines, each what some        *)
(* earlier scan may have left.                                             *)
(***************************************************************************)
EXTENDS ResultFold, EvidenceStore

CONSTANTS
    scan, other,    \* the writer of this scan's run, and another scan's
    Plans,          \* Plans[p]: the endpoints plan p covers; plans are 1, 2, ..
    States,         \* port states, from 1
    Seen,           \* observations, as ResultFold writes them
    Baselines,      \* logs of earlier scans
    MaxEvents       \* bound: events of this scan's log

\* A log no hand has touched, as Scheduler::run leaves it: numbered from 1,
\* opened by its plan or a refusal, closed by nothing but its end, and
\* complete only over the plan.
AsWritten(l) ==
    /\ l \in Seq(Event)
    /\ \A i \in DOMAIN l :
         LET b == l[i].body
         IN  /\ l[i].sequence = i
             /\ i = 1 => b.kind \in {"started", "denied"}
             /\ b.kind = "started" => i = 1 /\ b.what \in DOMAIN Plans
             /\ b.at # 0 <=> b.kind \in {"port", "service"}
             /\ b.at # 0 => b.at \in Plans[l[1].body.what]
             /\ b.kind \in TerminalKinds => i = Len(l)
             /\ b.kind = "completed" =>
                  \A e \in Plans[l[1].body.what] :
                    \E j \in DOMAIN l : l[j].body.kind = "port" /\ l[j].body.at = e

ASSUME ResultsAssumption ==
    /\ Writers = {scan, other} /\ scan # other
    /\ Plans \in Seq(SUBSET (Nat \ {0}))
    /\ States \subseteq Nat \ {0}
    /\ Seen \subseteq Observation
    /\ \A b \in Baselines : AsWritten(b)
    /\ MaxEvents \in Nat

VARIABLES
    log,        \* this scan's events, as a reader sees the file
    pending,    \* the observation a finished put will be cited by
    edited      \* whether the log was changed by hand

vars == <<storeVars, log, pending, edited>>

NoPending == Progress

Init ==
    /\ StoreInit
    /\ log = <<>>
    /\ pending = NoPending
    /\ edited = FALSE

Bodies(kind) == {i \in DOMAIN log : log[i].body.kind = kind}
Ended == \E i \in DOMAIN log : log[i].body.kind \in TerminalKinds
plan  == LET i == CHOOSE i \in Bodies("started") : TRUE IN log[i].body.what
Probed == {log[i].body.at : i \in Bodies("port")}
LastState(e) == LET i == CHOOSE i \in Bodies("port") :
                          /\ log[i].body.at = e
                          /\ \A j \in Bodies("port") : log[j].body.at = e => j <= i
                IN  log[i].body.state

Writing == Len(log) < MaxEvents /\ ~Ended /\ ~edited /\ putting[scan] = NoPut
AppendBody(body) == log' = Append(log, [sequence |-> Len(log) + 1, body |-> body])
OnlyLog == UNCHANGED <<storeVars, pending, edited>>

-----------------------------------------------------------------------------
(* The run, as far as the log shows it.                                    *)

Begin ==
    /\ Writing /\ log = <<>>
    /\ \/ \E p \in DOMAIN Plans : AppendBody(Started(p))
       \/ AppendBody(Denied(1))
    /\ OnlyLog

\* host.discovered before the first probe, scan.progress after a flush.
Note ==
    /\ Writing /\ log # <<>>
    /\ \/ Probed = {} /\ AppendBody(Host(1))
       \/ Probed # {} /\ AppendBody(Progress)
    /\ OnlyLog

\* A resumed run probes a unit again when a crash took its completion.
ProbePort ==
    /\ Writing /\ log # <<>>
    /\ \E e \in Plans[plan], st \in States : AppendBody(PortState(e, st, <<>>))
    /\ OnlyLog

\* emit_service_observed: the capture of an open port is put ...
Capture ==
    /\ Writing
    /\ \E e \in Probed, seen \in Seen, d \in Digests :
         /\ LastState(e) = 1
         /\ pending' = Service(e, seen, <<d>>)
         /\ PutCreate(scan, d)
    /\ UNCHANGED <<log, edited>>

\* Mutant of Cite: the event is logged while the put is under way.
CiteEarly ==
    /\ putting[scan].at \in {"rename", "done"} /\ pending # NoPending
    /\ AppendBody(pending)
    /\ pending' = NoPending
    /\ StopWriters({scan})
    /\ UNCHANGED <<temp, blob, onDisk, made, entered, rotted, swept, edited>>

\* ... and only then cited.
Cite ==
    /\ Returned(scan)
    /\ AppendBody(pending)
    /\ pending' = NoPending
    /\ StopWriters({scan})
    /\ UNCHANGED <<temp, blob, onDisk, made, entered, rotted, swept, edited>>

\* A run completes only over its whole plan; at any time it may fail, or
\* meet a target its manifest no longer allows.
End ==
    /\ Writing /\ log # <<>>
    /\ \/ Plans[plan] \subseteq Probed /\ AppendBody(Completed(1))
       \/ AppendBody(Failed(1))
       \/ AppendBody(Denied(1))
    /\ OnlyLog

\* Another scan's capture of the same banner.
OtherPuts ==
    /\ \E d \in Digests : PutCreate(other, d)
    /\ UNCHANGED <<log, pending, edited>>

OtherDone ==
    /\ Returned(other)
    /\ StopWriters({other})
    /\ UNCHANGED <<temp, blob, onDisk, made, entered, rotted, swept, log, pending,
                   edited>>

PutStep(w) ==
    /\ PutWrite(w) \/ PutSync(w) \/ PutRename(w) \/ PutSyncDir(w)
    /\ UNCHANGED <<log, pending, edited>>

\* The scan's process dies.
ProcessDies ==
    /\ putting[scan] # NoPut
    /\ StopWriters({scan})
    /\ pending' = NoPending
    /\ UNCHANGED <<temp, blob, onDisk, made, entered, rotted, swept, log, edited>>

\* The machine stops: a tail of the log is lost with it.
MachineStops ==
    /\ PowerFails
    /\ \E n \in 0..Len(log) : log' = SubSeq(log, 1, n)
    /\ pending' = NoPending
    /\ UNCHANGED edited

Rots ==
    /\ \E d \in Digests : Rot(d)
    /\ UNCHANGED <<log, pending, edited>>

\* A log edited by hand: the last event's number is there twice.
Splice ==
    /\ log # <<>> /\ Len(log) < MaxEvents /\ ~edited /\ putting[scan] = NoPut
    /\ \E e \in UNION {Plans[p] : p \in DOMAIN Plans}, st \in States :
         \E body \in {PortState(e, st, <<>>), Failed(1)} :
           log' = Append(log, [sequence |-> Len(log), body |-> body])
    /\ edited' = TRUE
    /\ UNCHANGED <<storeVars, pending>>

Next ==
    \/ Begin \/ Note \/ ProbePort \/ Capture \/ Cite \/ End
    \/ OtherPuts \/ OtherDone \/ \E w \in Writers : PutStep(w)
    \/ ProcessDies \/ MachineStops \/ Rots \/ Splice

Spec == Init /\ [][Next]_vars

-----------------------------------------------------------------------------
(* Properties.                                                             *)

fold == fold_events(log)

\* The indices of the events that say something of an endpoint.
About(e) == {i \in DOMAIN log : log[i].body.at = e}
LastOf(S) == CHOOSE i \in S : \A j \in S : j <= i

\* What a reader should believe, said without an order of evaluation.
Believed(e) ==
    LET P == {i \in About(e) : log[i].body.kind = "port"}
        S == {i \in About(e) : log[i].body.kind = "service"}
    IN  /\ fold.endpoints[e].state = (IF P = {} THEN 0 ELSE log[LastOf(P)].body.state)
        /\ fold.endpoints[e].seen = (IF S = {} THEN NoObservation ELSE log[LastOf(S)].body.seen)
        /\ \A d \in Digests :
             (\E i \in About(e) : \E k \in DOMAIN log[i].body.refs : log[i].body.refs[k] = d)
             <=> (Cardinality({k \in DOMAIN fold.endpoints[e].refs :
                                 fold.endpoints[e].refs[k] = d}) = 1)

\* The fold is a function of the events and not of the order they are handed
\* over in, also when an edited log repeats a number; and of a log as it was
\* written it says what was last learned of every endpoint, whole.
FoldIsBelief ==
    /\ \A i \in 1..(Len(log) - 1) :
         fold_events([log EXCEPT ![i] = log[i + 1], ![i + 1] = log[i]]) = fold
    /\ fold_events([i \in DOMAIN log |-> log[Len(log) + 1 - i]]) = fold
    /\ ~edited =>
         /\ DOMAIN fold.endpoints = {log[i].body.at : i \in DOMAIN log} \ {0}
         /\ \A e \in DOMAIN fold.endpoints : Believed(e)
         /\ fold.hosts_up = {log[i].body.what : i \in Bodies("host")}
         /\ fold.terminal.kind = "completed" => Plans[fold.plan_hash] \subseteq DOMAIN fold.endpoints

Opposite == [appeared |-> "disappeared", disappeared |-> "appeared"]
Turned(kind) == IF kind \in DOMAIN Opposite THEN Opposite[kind] ELSE kind

\* A diff invents nothing.  A scan compared with itself has no changes; the
\* other way round the answer is the mirror image; every endpoint is counted
\* once; and silence is a change only against a scan that completed the same
\* plan, which between logs as they were written never happens.
DiffInventsNothing ==
    LET now == fold
    IN  /\ diff(now, now).changes = <<>>
        /\ \A base \in Baselines :
             LET before == fold_events(base)
                 d == diff(before, now)
                 back == diff(now, before)
             IN  /\ Cardinality(DOMAIN d.changes) + d.unchanged + Cardinality(d.undetermined)
                      = Cardinality(Either(before, now))
                 /\ back.changes = [e \in DOMAIN d.changes |-> Turned(d.changes[e])]
                 /\ back.undetermined = d.undetermined
                 /\ (\E e \in DOMAIN d.changes : d.changes[e] \in DOMAIN Opposite) =>
                      /\ completed(before) /\ completed(now)
                      /\ before.plan_hash = now.plan_hash /\ now.plan_hash # 0
                      /\ edited
                 /\ DOMAIN retain_substantive(d).changes =
                      {e \in DOMAIN d.changes : d.changes[e] # "confidence_only"}

\* What a fold cites: digests result.query hands an agent to fetch.
HandedOut == UNION {ToSet(fold.endpoints[e].refs) : e \in DOMAIN fold.endpoints}

\* Every digest a fold gives an agent can be fetched and names its own bytes:
\* while captures are put at the same time, after a process died in the middle
\* of a put and after a power failure.  What is not served was lost to the
\* environment after it was put: a decaying disk makes it corrupt, a power
\* failure that takes its new fan-out directory makes it missing and never
\* corrupt, and putting the capture again heals either.
EvidenceServed ==
    \A d \in HandedOut :
        /\ d \notin rotted \cup swept => get(d) = "found"
        /\ d \notin rotted => get(d) # "corrupt"

\* What store.rs says of put: once it has returned Ok, and so of whatever is
\* cited, no crash loses or corrupts the bytes.
OkIsNeverLost == \A d \in HandedOut : d \notin rotted => get(d) = "found"
=============================================================================
