---------------------------- MODULE PacketdClient ----------------------------
(***************************************************************************)
(* bathy-engine's PacketdClient over the daemon it spawned: the handshake, *)
(* one caller (Scheduler::run awaits every probe inline), the worker       *)
(* thread that writes a line and reads a line, and Drop.                   *)
(*                                                                         *)
(* Neither side trusts the other.  So the client is also run against a     *)
(* daemon of another build, which may write any line, stop reading, hang   *)
(* or exit, and this daemon against a stranger that holds its pipe and     *)
(* writes any line.                                                        *)
(***************************************************************************)
EXTENDS PacketdSession

CONSTANTS
    Manifest,       \* the scope and ceiling of the authorization
    Scopes,         \* scopes a stranger may put in an Init
    MaxId,          \* bound: probes asked, or lines a stranger writes
    MaxStray        \* bound: lines a daemon of another build writes

ASSUME ClientAssumption ==
    Manifest \in Scope /\ Scopes \subseteq Scope /\ MaxId \in Nat /\ MaxStray \in Nat

VARIABLES
    roles,      \* who holds the two ends of the pipe, fixed
    client,     \* where PacketdClient is in its life
    signalled,  \* kill was sent to the child
    call,       \* the probe the run awaits, or Nothing
    inbox,      \* the job sent and not taken, or Nothing
    sender,     \* whether the job sender still exists
    worker,     \* the worker thread and the job it carries
    nextId,     \* the next probe's id
    told,       \* history: what probe and icmp_probe returned
    strays      \* lines written by a daemon of another build

clientVars == <<client, signalled, call, inbox, sender, worker, nextId, told>>
vars == <<daemonVars, said, pipeVars, roles, clientVars, strays>>

Asks(role)   == roles.engine = role
Serves(role) == roles.daemon = role

InitLine(s)   == [type |-> "init", id |-> 0, scope |-> s]
WorkLine(job) == [type |-> "work", id |-> job.id, work |-> job.work]

Told(job, answer) == told' = told \cup {[id |-> job.id, work |-> job.work, answer |-> answer]}
Failed == \E t \in told : t.answer \in {"gone", "refused"}

Init ==
    /\ SessionInit
    /\ roles \in {[engine |-> "client",   daemon |-> "ours"],
                  [engine |-> "client",   daemon |-> "other"],
                  [engine |-> "stranger", daemon |-> "ours"]}
    /\ client = IF roles.engine = "client" THEN "handshake" ELSE "none"
    /\ toDaemon = IF roles.engine = "client" THEN <<InitLine(Manifest)>> ELSE <<>>
    /\ inOpen = TRUE
    /\ signalled = FALSE
    /\ call = Nothing
    /\ inbox = Nothing
    /\ sender = TRUE
    /\ worker = [at |-> "recv", job |-> Nothing]
    /\ nextId = 1
    /\ told = {}
    /\ strays = 0

-----------------------------------------------------------------------------
(* PacketdClient::start.  It has no timeout of its own.                    *)

Greeted ==
    /\ client = "handshake"
    /\ toEngine # <<>>
    /\ toEngine' = Tail(toEngine)
    /\ IF Head(toEngine) = Ready(TRUE)
       THEN client' = "ready" /\ UNCHANGED <<signalled, inOpen>>
       ELSE client' = "failing" /\ signalled' = TRUE /\ inOpen' = FALSE
    /\ UNCHANGED <<daemonVars, said, toDaemon, outOpen, roles, call, inbox, sender,
                   worker, nextId, told, strays>>

GreetedByEof ==
    /\ client = "handshake"
    /\ toEngine = <<>> /\ ~alive
    /\ client' = "failing" /\ signalled' = TRUE /\ inOpen' = FALSE
    /\ UNCHANGED <<daemonVars, said, toDaemon, toEngine, outOpen, roles, call, inbox,
                   sender, worker, nextId, told, strays>>

\* The child was killed, its stderr is drained and it is waited for.
Unavailable ==
    /\ client = "failing"
    /\ ~alive
    /\ client' = "unavailable"
    /\ outOpen' = FALSE
    /\ UNCHANGED <<daemonVars, said, toDaemon, inOpen, toEngine, roles, signalled, call,
                   inbox, sender, worker, nextId, told, strays>>

-----------------------------------------------------------------------------
(* PacketdClient::probe and icmp_probe, as the run calls them.             *)

\* Sending to a worker that ended fails at once.
Probe(work) ==
    /\ client = "ready" /\ call = Nothing /\ ~Failed
    /\ nextId <= MaxId
    /\ nextId' = nextId + 1
    /\ LET job == [kind |-> "job", id |-> nextId, work |-> work]
       IN  IF worker.at = "done"
           THEN Told(job, "gone") /\ UNCHANGED <<call, inbox>>
           ELSE call' = job /\ inbox' = job /\ UNCHANGED told
    /\ UNCHANGED <<daemonVars, said, pipeVars, roles, client, signalled, sender, worker, strays>>

\* Mutant of Understood: the id of an answer is not compared.
UnderstoodAnyId(line, job) ==
    CASE line.type = "result"      -> IF job.work.kind = "probe" THEN line.state ELSE "wrong_kind"
      [] line.type = "host_result" -> IF job.work.kind = "icmp_probe" THEN line.state ELSE "wrong_kind"
      [] line.type = "refused"     -> "refused"
      [] OTHER -> "gone"

\* exchange: what one line read for a job means.  An answer of the other
\* kind is an answer to the worker and a lost session to the caller.
Understood(line, job) ==
    CASE line.type = "result" /\ line.id = job.id ->
           IF job.work.kind = "probe" THEN line.state ELSE "wrong_kind"
      [] line.type = "host_result" /\ line.id = job.id ->
           IF job.work.kind = "icmp_probe" THEN line.state ELSE "wrong_kind"
      [] line.type = "refused" -> "refused"
      [] OTHER -> "gone"

\* The reply reaches the caller, unless its future was dropped meanwhile.
Deliver(job, answer) ==
    IF call = job
    THEN Told(job, IF answer = "wrong_kind" THEN "gone" ELSE answer) /\ call' = Nothing
    ELSE UNCHANGED <<told, call>>

\* serve returns: its ends of both pipes close with it.
WorkerReturns ==
    /\ worker' = [at |-> "done", job |-> Nothing]
    /\ inOpen' = FALSE /\ outOpen' = FALSE

WorkerTakes ==
    /\ Asks("client") /\ client \notin {"handshake", "failing", "unavailable"}
    /\ worker.at = "recv" /\ inbox # Nothing
    /\ inbox' = Nothing
    /\ IF alive
       THEN /\ toDaemon' = Append(toDaemon, WorkLine(inbox))
            /\ worker' = [at |-> "reading", job |-> inbox]
            /\ UNCHANGED <<inOpen, outOpen, told, call>>
       ELSE Deliver(inbox, "gone") /\ WorkerReturns /\ UNCHANGED toDaemon
    /\ UNCHANGED <<daemonVars, said, toEngine, roles, client, signalled, sender, nextId, strays>>

WorkerReads ==
    /\ worker.at = "reading"
    /\ toEngine # <<>>
    /\ toEngine' = Tail(toEngine)
    /\ LET answer == Understood(Head(toEngine), worker.job)
       IN  /\ Deliver(worker.job, answer)
           /\ IF answer = "gone" THEN WorkerReturns
              ELSE worker' = [at |-> "recv", job |-> Nothing] /\ UNCHANGED <<inOpen, outOpen>>
    /\ UNCHANGED <<daemonVars, said, toDaemon, roles, client, signalled, inbox, sender,
                   nextId, strays>>

WorkerReadsEof ==
    /\ worker.at = "reading"
    /\ toEngine = <<>> /\ ~alive
    /\ Deliver(worker.job, "gone")
    /\ WorkerReturns
    /\ UNCHANGED <<daemonVars, said, toDaemon, toEngine, roles, client, signalled, inbox,
                   sender, nextId, strays>>

\* recv fails once the sender is gone and nothing is queued.
WorkerEnds ==
    /\ Asks("client") /\ worker.at = "recv"
    /\ inbox = Nothing /\ ~sender
    /\ WorkerReturns
    /\ UNCHANGED <<daemonVars, said, toDaemon, toEngine, roles, client, signalled, call,
                   inbox, sender, nextId, told, strays>>

-----------------------------------------------------------------------------
(* The run ends, or its future is dropped while it awaits a probe.         *)

\* Mutant of RunEnds: the future is dropped, its call is not.
RunEndsAwaiting ==
    /\ client = "ready"
    /\ client' = "dropping"
    /\ UNCHANGED <<daemonVars, said, pipeVars, roles, signalled, call, inbox, sender, worker,
                   nextId, told, strays>>

RunEnds ==
    /\ client = "ready"
    /\ client' = "dropping"
    /\ call' = Nothing
    /\ UNCHANGED <<daemonVars, said, pipeVars, roles, signalled, inbox, sender, worker,
                   nextId, told, strays>>

DropKills ==
    /\ client = "dropping"
    /\ client' = "releasing"
    /\ signalled' = TRUE
    /\ UNCHANGED <<daemonVars, said, pipeVars, roles, call, inbox, sender, worker,
                   nextId, told, strays>>

\* Mutant of DropReleases: the worker is joined with the sender still held.
DropJoinsFirst ==
    /\ client = "releasing"
    /\ client' = "joining"
    /\ UNCHANGED <<daemonVars, said, pipeVars, roles, signalled, call, inbox, sender, worker,
                   nextId, told, strays>>

DropReleases ==
    /\ client = "releasing"
    /\ client' = "joining"
    /\ sender' = FALSE
    /\ UNCHANGED <<daemonVars, said, pipeVars, roles, signalled, call, inbox, worker,
                   nextId, told, strays>>

DropJoins ==
    /\ client = "joining"
    /\ worker.at = "done"
    /\ client' = "reaping"
    /\ UNCHANGED <<daemonVars, said, pipeVars, roles, signalled, call, inbox, sender, worker,
                   nextId, told, strays>>

DropReaps ==
    /\ client = "reaping"
    /\ ~alive
    /\ client' = "dropped"
    /\ UNCHANGED <<daemonVars, said, pipeVars, roles, signalled, call, inbox, sender, worker,
                   nextId, told, strays>>

\* The engine's process dies: nothing is dropped, the system closes the pipes.
EngineDies ==
    /\ Asks("client") /\ client \notin {"dropped", "unavailable", "dead"}
    /\ client' = "dead"
    /\ call' = Nothing /\ inbox' = Nothing /\ sender' = FALSE
    /\ worker' = [at |-> "done", job |-> Nothing]
    /\ inOpen' = FALSE /\ outOpen' = FALSE
    /\ UNCHANGED <<daemonVars, said, toDaemon, toEngine, roles, signalled, nextId, told, strays>>

\* SIGKILL takes effect some time after kill returned.
Dies ==
    /\ signalled /\ alive
    /\ process' = "killed"
    /\ UNCHANGED <<session, scope, opened, prober, handling, sent, said, spoken, pipeVars,
                   roles, clientVars, strays>>

-----------------------------------------------------------------------------
(* Peers that are not this repository's.                                   *)

StrayLines ==
    {Ready(TRUE), Ready(FALSE), Fatal, [type |-> "garbage", id |-> 0]}
    \cup UNION {{Result([id |-> i], "open"), HostResult([id |-> i], "up"),
                 Refused([id |-> i], "out_of_session_scope")} : i \in 1..MaxId}

OtherWrites(line) ==
    /\ Serves("other") /\ alive /\ outOpen
    /\ strays < MaxStray
    /\ strays' = strays + 1
    /\ Write(line)
    /\ UNCHANGED <<session, scope, opened, prober, handling, sent, said, toDaemon, inOpen,
                   outOpen, roles, clientVars>>

OtherReads ==
    /\ Serves("other") /\ alive /\ toDaemon # <<>>
    /\ toDaemon' = Tail(toDaemon)
    /\ UNCHANGED <<daemonVars, said, inOpen, toEngine, outOpen, roles, clientVars, strays>>

StrangerLines ==
    {InitLine(s) : s \in Scopes}
    \cup {WorkLine([id |-> nextId, work |-> w]) : w \in Works}
    \cup {[type |-> "shutdown", id |-> 0], [type |-> "bad", id |-> 0]}

StrangerWrites(line) ==
    /\ Asks("stranger") /\ inOpen /\ toDaemon = <<>>
    /\ nextId <= MaxId
    /\ nextId' = nextId + 1
    /\ toDaemon' = <<line>>
    /\ UNCHANGED <<daemonVars, said, inOpen, toEngine, outOpen, roles, client, signalled,
                   call, inbox, sender, worker, told, strays>>

StrangerCloses ==
    /\ Asks("stranger") /\ inOpen
    /\ inOpen' = FALSE
    /\ outOpen' \in BOOLEAN
    /\ UNCHANGED <<daemonVars, said, toDaemon, toEngine, roles, clientVars, strays>>

-----------------------------------------------------------------------------
Daemon  == Serves("ours") /\ DaemonStep /\ UNCHANGED <<roles, clientVars, strays>>
Network == NetworkReplies /\ UNCHANGED <<roles, clientVars, strays>>
Killed  == Crash /\ UNCHANGED <<roles, clientVars, strays>>

Start  == Greeted \/ GreetedByEof \/ Unavailable
Worker == WorkerTakes \/ WorkerReads \/ WorkerReadsEof \/ WorkerEnds
Drop   == DropKills \/ DropReleases \/ DropJoins \/ DropReaps

Next ==
    \/ Daemon \/ Network \/ Killed \/ Dies
    \/ Start \/ Worker \/ Drop \/ RunEnds \/ EngineDies
    \/ \E work \in Works : Probe(work)
    \/ \E line \in StrayLines : OtherWrites(line)
    \/ \E line \in StrangerLines : StrangerWrites(line)
    \/ OtherReads \/ StrangerCloses

\* This daemon's deadline, the threads and a sent SIGKILL make progress; the
\* network, the run and a daemon of another build promise nothing.
Fairness ==
    /\ WF_vars(Daemon) /\ WF_vars(Dies)
    /\ WF_vars(Start) /\ WF_vars(Worker) /\ WF_vars(Drop)

Spec == Init /\ [][Next]_vars /\ Fairness

-----------------------------------------------------------------------------
(* Properties.                                                             *)

ClientStates == {"none", "handshake", "failing", "unavailable", "ready", "dropping",
                 "releasing", "joining", "reaping", "dropped", "dead"}

\* Every variable has its type; a line is read only while the daemon runs.
TypeOK ==
    /\ process \in {"starting", "running", "ok", "failed", "no_privilege", "killed"}
    /\ session \in {"awaiting_init", "running", "ended", "fatal"}
    /\ scope \in Scope /\ opened \in Scope
    /\ prober \in [probes : Nat, counter : Nat, emitted : Nat]
    /\ client \in ClientStates
    /\ worker.at \in {"recv", "reading", "done"}
    /\ {inOpen, outOpen, signalled, sender} \subseteq BOOLEAN
    /\ nextId \in Nat /\ strays \in Nat
    /\ handling # Nothing => handling.packet \in sent
    /\ call # Nothing => client = "ready"

\* What the daemon puts on the wire stays inside the scope the session was
\* opened with, whoever wrote the lines: no later Init widens it, every target
\* passes both lists and the reserved ranges, SYN and echo probes together
\* stay within the ceiling, and the teardowns are at most one per SYN.
EmissionAuthorised ==
    /\ \A packet \in sent : /\ packet.work.target \in opened.allowed \ opened.denied
                            /\ packet.work.target \notin Reserved \cup Version6
    /\ Cardinality(sent) <= opened.max
    /\ prober.emitted <= Cardinality(sent)
                         + Cardinality({p \in sent : p.work.kind = "probe"})
    /\ Asks("client") => opened \in {NoScope, Manifest}

Witness(t, what) == \E reply \in said : reply.id = t.id /\ reply.what = what

\* What the run is told about a probe is about that probe: a state was written
\* by the daemon for that very id; this daemon says open, closed, up or down
\* only on a reply to the packet it emitted for it, however late other replies
\* arrive; and a refused probe emitted nothing.
AnswersAreTheirOwn ==
    \A t \in told :
      /\ t.answer \in PortStates =>
           t.work.kind = "probe" /\ Result(t, t.answer) \in spoken
      /\ t.answer \in HostStates =>
           t.work.kind = "icmp_probe" /\ HostResult(t, t.answer) \in spoken
      /\ Serves("ours") =>
           /\ t.answer = "open"   => Witness(t, "syn_ack")
           /\ t.answer = "closed" => Witness(t, "rst")
           /\ t.answer = "up"     => Witness(t, "echo_reply")
           /\ t.answer = "down"   => Witness(t, "echo_unreachable")
           /\ t.answer = "refused" => \A packet \in sent : packet.id # t.id

\* A probe this daemon was asked is answered, or lost with the daemon: the run
\* never waits for ever, though nothing on the engine's side has a timeout.
ProbesEnd == (Serves("ours") /\ call # Nothing) ~> (call = Nothing)

\* This daemon holds a privilege and is gone once nobody holds its pipe.
OrphanEnds == (Serves("ours") /\ ~inOpen) ~> ~alive

\* Once the run lets go of the client, also in the middle of a probe and with
\* a daemon that hangs, the worker ends, the child is dead and Drop returns; a
\* failed start ends the child too.  An engine that is killed drops nothing:
\* then it is this daemon that ends, whatever it was doing.
DropEnds ==
    /\ (client \in {"dropping", "failing"}) ~>
         (client = "dead" \/ (client \in {"dropped", "unavailable"} /\ ~alive))
    /\ OrphanEnds
=============================================================================
