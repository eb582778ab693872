--------------------------- MODULE PacketdSession ---------------------------
(***************************************************************************)
(* One bathy-packetd process: the privileged start-up of main, the line    *)
(* session of protocol.rs, and the prober of syn.rs and icmp.rs that puts  *)
(* packets on the wire and waits for what comes back.                      *)
(*                                                                         *)
(* The process is single threaded: it reads a line, answers it, reads the  *)
(* next.  A probe that was admitted waits for a matching reply or for its  *)
(* deadline.  Lines are records tagged by kind; a line that is too long,   *)
(* malformed, not UTF-8 or cut off is a "bad" line.  CIDR lists are the    *)
(* sets of targets they cover, and time is the choice between Poll and     *)
(* Deadline.                                                               *)
(***************************************************************************)
EXTENDS Naturals, Sequences, FiniteSets

CONSTANTS
    Targets,        \* every address a probe may name
    Reserved,       \* those is_reserved refuses whatever the session allows
    Version6,       \* those that are not IPv4
    FirstCounter,   \* the process identifier the counter starts at
    Span,           \* SOURCE_PORT_SPAN, and for how many probes a reply lives
    MaxReplies      \* bound: replies the network produces

ASSUME SessionAssumption ==
    /\ Reserved \subseteq Targets
    /\ Version6 \subseteq Targets
    /\ FirstCounter \in Nat
    /\ Span \in Nat \ {0}
    /\ MaxReplies \in Nat

VARIABLES
    process,    \* where the process is, or how it ended
    session,    \* State: what the protocol state machine accepts
    scope,      \* the SessionScope that Init fixed
    opened,     \* history: the scope of the first accepted Init
    prober,     \* probes admitted, the identity counter, packets emitted
    handling,   \* the probe whose reply is awaited, or Nothing
    sent,       \* history: probe packets put on the wire
    said,       \* replies the network produced; each may come at any time
    toDaemon,   \* lines written to the daemon and not read
    inOpen,     \* whether the write end of its stdin is open
    toEngine,   \* lines the daemon wrote and nobody read
    outOpen,    \* whether the read end of its stdout is open
    spoken      \* history: every line the daemon wrote

daemonVars == <<process, session, scope, opened, prober, handling, sent, spoken>>
pipeVars   == <<toDaemon, inOpen, toEngine, outOpen>>

Works   == [kind : {"probe", "icmp_probe"}, target : Targets]
Scope   == [allowed : SUBSET Targets, denied : SUBSET Targets, max : Nat]
NoScope == [allowed |-> {}, denied |-> {}, max |-> 0]
Nothing == [kind |-> "none"]

PortStates == {"open", "closed", "filtered", "indeterminate"}
HostStates == {"up", "down", "unknown"}

alive == process \in {"starting", "running"}

-----------------------------------------------------------------------------
(* Lines.  Every line has an id; those that answer no probe have id 0.     *)

Ready(dropped)  == [type |-> "ready", id |-> 0, dropped |-> dropped]
Result(p, st)   == [type |-> "result", id |-> p.id, state |-> st]
HostResult(p, st) == [type |-> "host_result", id |-> p.id, state |-> st]
Refused(p, why) == [type |-> "refused", id |-> p.id, reason |-> why]
Fatal           == [type |-> "fatal", id |-> 0]

\* What Response a finished probe becomes (Session::handle_work).
Response(p, st) ==
    IF p.work.kind = "probe" THEN Result(p, st) ELSE HostResult(p, st)

\* main's emit: writing to a pipe nobody reads ends the process.
Write(line) ==
    IF outOpen
    THEN /\ toEngine' = Append(toEngine, line)
         /\ spoken' = spoken \cup {line}
         /\ UNCHANGED process
    ELSE process' = "failed" /\ UNCHANGED <<toEngine, spoken>>

-----------------------------------------------------------------------------
(* The second scope check, and the ceiling both probe kinds share.         *)

in_session_scope(target) ==
    /\ target \notin Version6
    /\ target \notin Reserved
    /\ target \notin scope.denied
    /\ target \in scope.allowed

\* Mutant of admit: an echo request is not charged to the ceiling.
AdmitSynOnly(work) ==
    IF ~in_session_scope(work.target) THEN "out_of_session_scope"
    ELSE IF work.kind = "probe" /\ prober.probes >= scope.max
         THEN "session_budget_exhausted" ELSE "admitted"

\* Prober::admit: scope is decided before the ceiling.
admit(work) ==
    IF ~in_session_scope(work.target) THEN "out_of_session_scope"
    ELSE IF prober.probes >= scope.max THEN "session_budget_exhausted" ELSE "admitted"

\* Prober::discriminator: the source port, or the echo identifier.
discriminator(counter) == counter % Span

\* Mutant of matches: attributed by endpoint alone.
MatchesEndpoint(reply, p) == reply.work = p.work

\* match_reply, match_echo: a reply, or the header an unreachable quotes,
\* names the protocol, the endpoint and the discriminator of its probe.
matches(reply, p) ==
    /\ reply.work = p.work
    /\ discriminator(reply.counter) = discriminator(p.counter)

\* classify_reply, classify_icmp.
classify(what) ==
    CASE what = "syn_ack"    -> "open"
      [] what = "rst"        -> "closed"
      [] what = "tcp_unreachable" -> "filtered"
      [] what = "echo_reply" -> "up"
      [] what = "echo_unreachable" -> "down"

Silence(work)    == IF work.kind = "probe" THEN "filtered" ELSE "unknown"
Unemitted(work)  == IF work.kind = "probe" THEN "indeterminate" ELSE "unknown"
RepliesTo(work)  == IF work.kind = "probe" THEN {"syn_ack", "rst", "tcp_unreachable"}
                    ELSE {"echo_reply", "echo_unreachable"}

-----------------------------------------------------------------------------
SessionInit ==
    /\ process = "starting"
    /\ session = "awaiting_init"
    /\ scope = NoScope
    /\ opened = NoScope
    /\ prober = [probes |-> 0, counter |-> FirstCounter, emitted |-> 0]
    /\ handling = Nothing
    /\ sent = {}
    /\ said = {}
    /\ toEngine = <<>>
    /\ outOpen = TRUE
    /\ spoken = {}

\* main: sockets, then the capability drop, then the first read.  Without
\* sockets the status is 69, with capabilities still held it is 1.
StartUp ==
    /\ process = "starting"
    /\ process' \in {"running", "no_privilege", "failed"}
    /\ UNCHANGED <<session, scope, opened, prober, handling, sent, said, spoken, pipeVars>>

Reading == process = "running" /\ handling = Nothing /\ toDaemon # <<>>
Line    == Head(toDaemon)
Took    == toDaemon' = Tail(toDaemon) /\ UNCHANGED <<inOpen, outOpen, said>>

\* Mutant of AcceptsInit: a later Init replaces the scope.
AcceptsAnyInit(line) == line.scope.allowed # {}

\* Session::dispatch: the one legal first message, with something allowed.
AcceptsInit(line) == session = "awaiting_init" /\ line.scope.allowed # {}

OpenSession ==
    /\ Reading
    /\ Line.type = "init"
    /\ AcceptsInit(Line)
    /\ session' = "running"
    /\ scope' = Line.scope
    /\ opened' = IF session = "awaiting_init" THEN Line.scope ELSE opened
    /\ Write(Ready(TRUE))
    /\ Took
    /\ UNCHANGED <<prober, handling, sent>>

\* Out-of-state messages, a second or empty Init, and bad lines: Fatal is
\* written, the session is terminated and the loop ends.
Illegal(line) ==
    \/ line.type = "bad"
    \/ line.type = "init" /\ ~AcceptsInit(line)
    \/ line.type \in {"work", "shutdown"} /\ session # "running"

Terminate ==
    /\ Reading
    /\ Illegal(Line)
    /\ session' = "fatal"
    /\ process' = "failed"
    /\ IF outOpen THEN toEngine' = Append(toEngine, Fatal) /\ spoken' = spoken \cup {Fatal}
                  ELSE UNCHANGED <<toEngine, spoken>>
    /\ Took
    /\ UNCHANGED <<scope, opened, prober, handling, sent>>

Shutdown ==
    /\ Reading
    /\ Line.type = "shutdown"
    /\ session = "running"
    /\ session' = "ended"
    /\ process' = "ok"
    /\ Took
    /\ UNCHANGED <<scope, opened, prober, handling, sent, toEngine, spoken>>

\* A clean end of stream is the ordinary way a session ends.
EndOfInput ==
    /\ process = "running" /\ handling = Nothing
    /\ toDaemon = <<>> /\ ~inOpen
    /\ process' = "ok"
    /\ UNCHANGED <<session, scope, opened, prober, handling, sent, said, spoken, pipeVars>>

-----------------------------------------------------------------------------
(* Prober::probe and Prober::icmp_probe.                                   *)

Working == Reading /\ Line.type = "work" /\ session = "running"

Refuse ==
    /\ Working
    /\ admit(Line.work) # "admitted"
    /\ Write(Refused(Line, admit(Line.work)))
    /\ Took
    /\ UNCHANGED <<session, scope, opened, prober, handling, sent>>

Charged == [prober EXCEPT !.probes = @ + 1, !.counter = @ + 1]

\* Admitted and charged, but there is no route or the send fails.
NotEmitted ==
    /\ Working
    /\ admit(Line.work) = "admitted"
    /\ prober' = Charged
    /\ Write(Response(Line, Unemitted(Line.work)))
    /\ Took
    /\ UNCHANGED <<session, scope, opened, handling, sent>>

Emit ==
    /\ Working
    /\ admit(Line.work) = "admitted"
    /\ LET packet == [id |-> Line.id, work |-> Line.work, counter |-> Charged.counter]
       IN  /\ handling' = [kind |-> "await", packet |-> packet]
           /\ sent' = sent \cup {packet}
    /\ prober' = [Charged EXCEPT !.emitted = @ + 1]
    /\ Took
    /\ UNCHANGED <<process, session, scope, opened, toEngine, spoken>>

Awaiting == process = "running" /\ handling.kind = "await"

Answer(st) ==
    /\ Write(Response(handling.packet, st))
    /\ handling' = Nothing
    /\ UNCHANGED <<session, scope, opened, sent, said, toDaemon, inOpen, outOpen>>

\* await_matching: a packet that does not match is read and forgotten, so a
\* stale reply changes nothing.  A SYN-ACK is answered with an RST, outside
\* the ceiling; that send may fail.
Poll(reply) ==
    /\ Awaiting
    /\ reply.counter + Span > prober.counter
    /\ matches(reply, handling.packet)
    /\ prober' \in IF reply.what = "syn_ack"
                   THEN {prober, [prober EXCEPT !.emitted = @ + 1]} ELSE {prober}
    /\ Answer(classify(reply.what))

\* Mutant of Deadline: every packet read starts the wait over.
DeadlineIfQuiet ==
    /\ Awaiting
    /\ said = {}
    /\ Answer(Silence(handling.packet.work))
    /\ UNCHANGED prober

Deadline ==
    /\ Awaiting
    /\ Answer(Silence(handling.packet.work))
    /\ UNCHANGED prober

DaemonStep ==
    \/ StartUp \/ OpenSession \/ Terminate \/ Shutdown \/ EndOfInput
    \/ Refuse \/ NotEmitted \/ Emit \/ Deadline
    \/ \E reply \in said : Poll(reply)

\* The network: a probe may be answered, later than its deadline too.
NetworkReplies ==
    /\ Cardinality(said) < MaxReplies
    /\ \E packet \in sent : \E what \in RepliesTo(packet.work) :
         said' = said \cup {[id |-> packet.id, work |-> packet.work,
                             counter |-> packet.counter, what |-> what]}
    /\ UNCHANGED <<daemonVars, pipeVars>>

\* The process is killed from outside.
Crash ==
    /\ alive
    /\ process' = "killed"
    /\ UNCHANGED <<session, scope, opened, prober, handling, sent, said, spoken, pipeVars>>
=============================================================================
