---------------------------- MODULE PacketdProofs ----------------------------
(***************************************************************************)
(* What is proved of the packet daemon and its client for any targets,     *)
(* scopes, ceilings and number of probes: whoever writes its lines, what   *)
(* the daemon puts on the wire was authorised by the Init that opened its  *)
(* session (EInv); and what a run is told of a probe is about that probe,  *)
(* with a reply to its own packet behind it (AInv).                        *)
(***************************************************************************)
EXTENDS PacketdClient, TLAPS, SequenceTheorems, FiniteSetTheorems

Lines ==
    [type : {"init"}, id : Nat, scope : Scope]
    \cup [type : {"work"}, id : Nat, work : Works]
    \cup [type : {"shutdown", "bad"}, id : Nat]

\* The engine opens a session with the scope of its manifest and no other.
Sendable == {line \in Lines : roles.engine = "client" /\ line.type = "init"
                                => line.scope = Manifest}

Jobs    == [kind : {"job"}, id : Nat, work : Works]
Packets == [id : Nat, work : Works, counter : Nat]
Ledger  == [probes : Nat, counter : Nat, emitted : Nat]

Syns == {p \in sent : p.work.kind = "probe"}

Types ==
    /\ session \in {"awaiting_init", "running", "ended", "fatal"}
    /\ scope \in Scope
    /\ prober \in Ledger
    /\ toDaemon \in Seq(Sendable)
    /\ inbox \in Jobs \cup {Nothing}
    /\ nextId \in Nat
    /\ sent \subseteq Packets /\ IsFiniteSet(sent)
    /\ handling \in [kind : {"await"}, packet : Packets] \cup {Nothing}

\* The scope is the first Init's; before it nothing was charged or emitted.
Fixed ==
    /\ opened = scope
    /\ session = "awaiting_init" => sent = {} /\ prober.probes = 0
    /\ roles.engine = "client" => scope \in {NoScope, Manifest}

\* Every packet on the wire was charged to the ceiling and drew a counter.
Paid ==
    /\ Cardinality(sent) <= prober.probes /\ prober.probes <= scope.max
    /\ \A p \in sent : p.counter <= prober.counter

InScope ==
    \A p \in sent : /\ p.work.target \in scope.allowed \ scope.denied
                    /\ p.work.target \notin Reserved \cup Version6

AwaitsSyn == handling.kind = "await" /\ handling.packet.work.kind = "probe"

\* A teardown is owed to a SYN-ACK, and the wait it ends is not begun again.
Torn ==
    /\ prober.emitted + (IF AwaitsSyn THEN 1 ELSE 0) <= Cardinality(sent) + Cardinality(Syns)
    /\ \A reply \in said : reply.what = "syn_ack" => reply.work.kind = "probe"

EInv == Types /\ Fixed /\ Paid /\ InScope /\ Torn

daemonState == <<session, scope, opened, prober, handling, sent>>

USE SessionAssumption, ClientAssumption DEF SessionAssumption, ClientAssumption

-----------------------------------------------------------------------------
LEMMA SynsFinite ==
    ASSUME IsFiniteSet(sent)
    PROVE  /\ IsFiniteSet(Syns) /\ Cardinality(Syns) \in Nat /\ Cardinality(sent) \in Nat
           /\ Cardinality(Syns) <= Cardinality(sent)
BY FS_Subset, FS_CardinalityType DEF Syns

\* What the daemon reads is one of the lines, and the rest is still there.
LEMMA Reads ==
    ASSUME Types, toDaemon # <<>>, UNCHANGED roles
    PROVE  Line \in Sendable /\ Tail(toDaemon) \in Seq(Sendable')
<1>1. Sendable' = Sendable
  BY DEF Sendable
<1> QED BY <1>1, HeadTailProperties DEF Types, Line

LEMMA LineKinds ==
    ASSUME NEW line \in Sendable
    PROVE  /\ line.type = "init" => /\ line.scope \in Scope
                                    /\ roles.engine = "client" => line.scope = Manifest
           /\ line.type = "work" => line.work \in Works /\ line.id \in Nat
BY DEF Sendable, Lines

\* A step of the engine, the network or a peer leaves the daemon's books alone.
LEMMA Elsewhere ==
    ASSUME EInv, UNCHANGED <<daemonState, roles>>, toDaemon' \in Seq(Sendable),
           inbox' \in Jobs \cup {Nothing}, nextId' \in Nat,
           \A reply \in said' : reply.what = "syn_ack" => reply.work.kind = "probe"
    PROVE  EInv'
<1> USE DEF EInv, daemonState
<1>1. Sendable' = Sendable
  BY DEF Sendable
<1>2. Types' /\ Fixed'
  BY <1>1 DEF Types, Fixed
<1>3. Paid' /\ InScope'
  BY DEF Paid, InScope
<1>4. Torn'
  BY DEF Torn, AwaitsSyn, Syns
<1> QED BY <1>2, <1>3, <1>4

\* A step of the daemon that charges and emits nothing.
LEMMA NothingEmitted ==
    ASSUME EInv, UNCHANGED <<scope, opened, prober, handling, sent, said, roles, inbox, nextId>>,
           toDaemon' \in Seq(Sendable'),
           session' = session \/ session' \in {"ended", "fatal"}
    PROVE  EInv'
<1> USE DEF EInv
<1>1. Types' /\ Fixed'
  BY DEF Types, Fixed
<1>2. Paid' /\ InScope'
  BY DEF Paid, InScope
<1>3. Torn'
  BY DEF Torn, AwaitsSyn, Syns
<1> QED BY <1>1, <1>2, <1>3

Daemonic == UNCHANGED <<roles, clientVars, strays>>

\* The one Init that is accepted comes before anything is charged.
LEMMA OpenSessionKeeps == ASSUME EInv, OpenSession, Daemonic PROVE EInv'
<1> USE DEF EInv
<1>1. /\ session = "awaiting_init" /\ Line.type = "init" /\ toDaemon # <<>>
      /\ session' = "running" /\ scope' = Line.scope /\ opened' = Line.scope
      /\ toDaemon' = Tail(toDaemon)
      /\ UNCHANGED <<prober, handling, sent, said, roles, inbox, nextId>>
  BY DEF OpenSession, Reading, AcceptsInit, Took, Daemonic, clientVars
<1>2. /\ Line.scope \in Scope /\ toDaemon' \in Seq(Sendable')
      /\ roles.engine = "client" => Line.scope = Manifest
  BY <1>1, Reads, LineKinds
<1>3. sent = {} /\ prober.probes = 0
  BY <1>1 DEF Fixed
<1>4. Types'
  BY <1>1, <1>2 DEF Types
<1>5. Fixed' /\ InScope'
  BY <1>1, <1>2, <1>3 DEF Fixed, InScope
<1>6. Paid'
  <2>1. Line.scope.max \in Nat
    BY <1>2 DEF Scope
  <2> QED BY <1>1, <1>3, <2>1, FS_EmptySet DEF Paid
<1>7. Torn'
  BY <1>1 DEF Torn, AwaitsSyn, Syns
<1> QED BY <1>4, <1>5, <1>6, <1>7

\* A probe that is admitted is in the session's scope and below its ceiling.
LEMMA Admitted ==
    ASSUME EInv, Working, UNCHANGED roles, admit(Line.work) = "admitted"
    PROVE  /\ session = "running" /\ Line.work \in Works /\ Line.id \in Nat
           /\ prober.probes + 1 <= scope.max
           /\ Line.work.target \in scope.allowed \ scope.denied
           /\ Line.work.target \notin Reserved \cup Version6
           /\ Tail(toDaemon) \in Seq(Sendable')
<1>1. /\ Line.type = "work" /\ session = "running" /\ toDaemon # <<>>
      /\ Line \in Sendable /\ Tail(toDaemon) \in Seq(Sendable')
  BY Reads DEF Working, Reading, EInv
<1>2. in_session_scope(Line.work.target) /\ ~(prober.probes >= scope.max)
  BY DEF admit
<1>3. prober.probes \in Nat /\ scope.max \in Nat
  BY DEF EInv, Types, Scope, Ledger
<1> QED BY <1>1, <1>2, <1>3, LineKinds DEF in_session_scope

LEMMA EmittedOne ==
    ASSUME NEW c \in Ledger
    PROVE  LET d == [c EXCEPT !.emitted = @ + 1]
           IN  /\ d \in Ledger /\ d.probes = c.probes
               /\ d.counter = c.counter /\ d.emitted = c.emitted + 1
BY DEF Ledger

LEMMA ChargedIs ==
    ASSUME prober \in Ledger
    PROVE  /\ Charged \in Ledger /\ Charged.probes = prober.probes + 1
           /\ Charged.counter = prober.counter + 1 /\ Charged.emitted = prober.emitted
<1>1. prober.probes \in Nat /\ prober.counter \in Nat /\ prober.emitted \in Nat
  BY DEF Ledger
<1>2. Charged.probes = prober.probes + 1
  BY DEF Charged, Ledger
<1>3. Charged.counter = prober.counter + 1
  BY DEF Charged, Ledger
<1>4. Charged.emitted = prober.emitted
  BY DEF Charged, Ledger
<1>5. Charged \in Ledger
  <2> DEFINE first == [prober EXCEPT !.probes = @ + 1]
  <2>1. prober.probes + 1 \in Nat /\ prober.counter + 1 \in Nat
    BY <1>1
  <2>2. first \in Ledger /\ first.counter = prober.counter
    BY <2>1 DEF Ledger
  <2>3. Charged = [first EXCEPT !.counter = prober.counter + 1]
    BY <2>2 DEF Charged, Ledger
  <2> HIDE DEF first
  <2>4. [first EXCEPT !.counter = prober.counter + 1] \in Ledger
    BY <2>1, <2>2 DEF Ledger
  <2> QED BY <2>3, <2>4
<1> QED BY <1>2, <1>3, <1>4, <1>5

LEMMA NotEmittedKeeps == ASSUME EInv, NotEmitted, Daemonic PROVE EInv'
<1> USE DEF EInv
<1>1. /\ Working /\ admit(Line.work) = "admitted" /\ prober' = Charged
      /\ toDaemon' = Tail(toDaemon)
      /\ UNCHANGED <<session, scope, opened, handling, sent, said, roles, inbox, nextId>>
  BY DEF NotEmitted, Took, Daemonic, clientVars
<1>2. /\ session = "running" /\ prober.probes + 1 <= scope.max
      /\ toDaemon' \in Seq(Sendable')
  BY <1>1, Admitted
<1>3. /\ prober' \in Ledger
      /\ prober'.probes = prober.probes + 1 /\ prober'.counter = prober.counter + 1
      /\ prober'.emitted = prober.emitted
  BY <1>1, ChargedIs DEF Types, Ledger
<1>4. Types' /\ Fixed' /\ InScope'
  BY <1>1, <1>2, <1>3 DEF Types, Fixed, InScope
<1>5. Paid'
  <2>1. prober.probes \in Nat /\ prober.counter \in Nat /\ Cardinality(sent) \in Nat
        /\ \A p \in sent : p.counter \in Nat
    BY FS_CardinalityType DEF Types, Packets, Ledger
  <2> QED BY <1>1, <1>2, <1>3, <2>1 DEF Paid
<1>6. Torn'
  BY <1>1, <1>3 DEF Torn, AwaitsSyn, Syns
<1> QED BY <1>4, <1>5, <1>6

LEMMA EmitKeeps == ASSUME EInv, Emit, Daemonic PROVE EInv'
<1> USE DEF EInv
<1> DEFINE packet == [id |-> Line.id, work |-> Line.work, counter |-> prober.counter + 1]
<1>1. /\ Working /\ admit(Line.work) = "admitted"
      /\ toDaemon' = Tail(toDaemon) /\ sent' = sent \cup {packet}
      /\ handling = Nothing /\ handling' = [kind |-> "await", packet |-> packet]
      /\ prober' = [Charged EXCEPT !.emitted = @ + 1]
      /\ UNCHANGED <<session, scope, opened, said, roles, inbox, nextId>>
  BY DEF Emit, Working, Reading, Took, Daemonic, clientVars, Charged, Types
<1>2. /\ session = "running" /\ Line.work \in Works /\ Line.id \in Nat
      /\ prober.probes + 1 <= scope.max /\ toDaemon' \in Seq(Sendable')
      /\ Line.work.target \in scope.allowed \ scope.denied
      /\ Line.work.target \notin Reserved \cup Version6
  BY <1>1, Admitted
<1>3. /\ prober.probes \in Nat /\ prober.counter \in Nat /\ prober.emitted \in Nat
      /\ \A p \in sent : p.counter \in Nat /\ p.counter <= prober.counter
  BY DEF Types, Paid, Packets, Ledger
<1>4. /\ prober' \in Ledger
      /\ prober'.probes = prober.probes + 1 /\ prober'.counter = prober.counter + 1
      /\ prober'.emitted = prober.emitted + 1
  <2>1. prober \in Ledger
    BY DEF Types
  <2> QED BY <1>1, <1>3, <2>1, ChargedIs, EmittedOne
<1>5. packet \in Packets /\ packet \notin sent
  BY <1>2, <1>3 DEF Packets
<1>6. packet.work = Line.work /\ packet.counter = prober.counter + 1
  OBVIOUS
<1> HIDE DEF packet
<1>7. IsFiniteSet(sent') /\ Cardinality(sent') = Cardinality(sent) + 1
  BY <1>1, <1>5, FS_AddElement DEF Types
<1>8. Types' /\ Fixed' /\ InScope'
  <2>1. Types'
    BY <1>1, <1>2, <1>4, <1>5, <1>7 DEF Types
  <2>2. Fixed' /\ InScope'
    BY <1>1, <1>2, <1>6 DEF Fixed, InScope
  <2> QED BY <2>1, <2>2
<1>9. Cardinality(sent) \in Nat /\ Cardinality(Syns) \in Nat /\ IsFiniteSet(Syns)
  BY SynsFinite DEF Types
<1>10. Paid'
  <2>1. Cardinality(sent') <= prober'.probes
    BY <1>3, <1>4, <1>7, <1>9 DEF Paid
  <2>2. \A p \in sent' : p.counter <= prober'.counter
    BY <1>1, <1>3, <1>4, <1>6
  <2> QED BY <1>1, <1>2, <1>4, <2>1, <2>2 DEF Paid
<1>11. Torn'
  <2>1. prober.emitted <= Cardinality(sent) + Cardinality(Syns)
    <3>1. ~AwaitsSyn
      BY <1>1 DEF AwaitsSyn, Nothing
    <3> QED BY <1>3, <1>9, <3>1 DEF Torn
  <2>a. \A reply \in said' : reply.what = "syn_ack" => reply.work.kind = "probe"
    BY <1>1 DEF Torn
  <2>2. CASE Line.work.kind = "probe"
    <3>1. Syns' = Syns \cup {packet} /\ packet \notin Syns
      BY <1>1, <1>5, <1>6, <2>2 DEF Syns
    <3>2. Cardinality(Syns') = Cardinality(Syns) + 1
      BY <1>9, <3>1, FS_AddElement
    <3>3. prober'.emitted + 1 <= Cardinality(sent') + Cardinality(Syns')
      BY <1>3, <1>4, <1>7, <1>9, <2>1, <3>2
    <3>4. prober'.emitted + (IF AwaitsSyn' THEN 1 ELSE 0)
            <= Cardinality(sent') + Cardinality(Syns')
      BY <1>3, <1>4, <1>7, <1>9, <3>2, <3>3
    <3> QED BY <2>a, <3>4 DEF Torn
  <2>3. CASE Line.work.kind # "probe"
    <3>1. Syns' = Syns /\ ~AwaitsSyn'
      BY <1>1, <1>6, <2>3 DEF Syns, AwaitsSyn
    <3>2. prober'.emitted <= Cardinality(sent') + Cardinality(Syns')
      BY <1>3, <1>4, <1>7, <1>9, <2>1, <3>1
    <3>3. prober'.emitted + (IF AwaitsSyn' THEN 1 ELSE 0)
            <= Cardinality(sent') + Cardinality(Syns')
      BY <1>3, <1>4, <1>7, <1>9, <3>1, <3>2
    <3> QED BY <2>a, <3>3 DEF Torn
  <2> QED BY <2>2, <2>3
<1> QED BY <1>8, <1>10, <1>11

\* The reply or the deadline that ends a wait.
LEMMA AnswerKeeps ==
    ASSUME EInv, Daemonic, NEW st, Answer(st),
           \/ UNCHANGED prober
           \/ AwaitsSyn /\ prober' = [prober EXCEPT !.emitted = @ + 1]
    PROVE  EInv'
<1> USE DEF EInv
<1>1. /\ handling' = Nothing
      /\ UNCHANGED <<session, scope, opened, sent, said, toDaemon, roles, inbox, nextId>>
  BY DEF Answer, Daemonic, clientVars
<1>2. /\ prober' \in Ledger
      /\ prober'.probes = prober.probes /\ prober'.counter = prober.counter
      /\ prober'.emitted <= prober.emitted + IF AwaitsSyn THEN 1 ELSE 0
  BY DEF Types, Ledger
<1>3. Types' /\ Fixed'
  BY <1>1, <1>2 DEF Types, Fixed, Sendable
<1>4. Paid' /\ InScope'
  BY <1>1, <1>2 DEF Paid, InScope
<1>5. Torn'
  <2>1. ~AwaitsSyn' /\ Syns' = Syns
    BY <1>1 DEF AwaitsSyn, Nothing, Syns
  <2>2. /\ prober.emitted \in Nat /\ prober'.emitted \in Nat
        /\ Cardinality(sent) \in Nat /\ Cardinality(Syns) \in Nat
    BY <1>2, SynsFinite DEF Types, Ledger
  <2> QED BY <1>1, <1>2, <2>1, <2>2 DEF Torn
<1> QED BY <1>3, <1>4, <1>5

LEMMA PollKeeps == ASSUME EInv, NEW reply \in said, Poll(reply), Daemonic PROVE EInv'
<1>1. handling.kind = "await" /\ reply.work = handling.packet.work /\ Answer(classify(reply.what))
  BY DEF Poll, Awaiting, matches
<1>2. CASE reply.what = "syn_ack"
  <2>1. AwaitsSyn
    BY <1>1, <1>2 DEF EInv, Torn, AwaitsSyn
  <2>2. prober' = prober \/ prober' = [prober EXCEPT !.emitted = @ + 1]
    BY <1>2 DEF Poll
  <2> QED BY <1>1, <2>1, <2>2, AnswerKeeps
<1>3. CASE reply.what # "syn_ack"
  <2>1. prober' = prober
    BY <1>3 DEF Poll
  <2> QED BY <1>1, <2>1, AnswerKeeps
<1> QED BY <1>2, <1>3

LEMMA DaemonKeeps == ASSUME EInv, DaemonStep, Daemonic PROVE EInv'
<1>1. CASE Deadline
  BY <1>1, AnswerKeeps DEF Deadline
<1>2. CASE StartUp \/ EndOfInput
  <2>1. UNCHANGED <<session, scope, opened, prober, handling, sent, said, toDaemon,
                    roles, inbox, nextId>>
    BY <1>2 DEF StartUp, EndOfInput, pipeVars, Daemonic, clientVars
  <2>2. toDaemon' \in Seq(Sendable')
    BY <2>1 DEF EInv, Types, Sendable
  <2> QED BY <2>1, <2>2, NothingEmitted
<1>3. CASE Terminate \/ Shutdown \/ Refuse
  <2>1. /\ toDaemon # <<>> /\ toDaemon' = Tail(toDaemon)
        /\ UNCHANGED <<scope, opened, prober, handling, sent, said, roles, inbox, nextId>>
        /\ session' = session \/ session' \in {"ended", "fatal"}
    BY <1>3 DEF Terminate, Shutdown, Refuse, Working, Reading, Took, Daemonic, clientVars
  <2>2. toDaemon' \in Seq(Sendable')
    BY <2>1, Reads DEF EInv
  <2> QED BY <2>1, <2>2, NothingEmitted
<1> QED BY <1>1, <1>2, <1>3, OpenSessionKeeps, NotEmittedKeeps, EmitKeeps, PollKeeps
        DEF DaemonStep

\* Neither the engine, nor the network, nor a peer of another build emits.
LEMMA OthersKeep ==
    ASSUME EInv, ~Daemon, Next PROVE EInv'
<1> USE DEF daemonState, daemonVars, pipeVars, clientVars
<1>1. /\ toDaemon \in Seq(Sendable) /\ inbox \in Jobs \cup {Nothing} /\ nextId \in Nat
      /\ \A reply \in said : reply.what = "syn_ack" => reply.work.kind = "probe"
  BY DEF EInv, Types, Torn
<1>2. ASSUME UNCHANGED <<daemonState, roles, toDaemon, inbox, nextId, said>> PROVE EInv'
  BY <1>1, <1>2, Elsewhere
<1>3. CASE Network
  <2>1. \A reply \in said' : reply.what = "syn_ack" => reply.work.kind = "probe"
    BY <1>1, <1>3 DEF Network, NetworkReplies, RepliesTo
  <2>2. UNCHANGED <<daemonState, roles, toDaemon, inbox, nextId>>
    BY <1>3 DEF Network, NetworkReplies
  <2> QED BY <1>1, <2>1, <2>2, Elsewhere
<1>4. ASSUME NEW work \in Works, Probe(work) PROVE EInv'
  <2>1. inbox' \in Jobs \cup {Nothing} /\ nextId' \in Nat
    BY <1>1, <1>4 DEF Probe, Jobs
  <2>2. UNCHANGED <<daemonState, roles, toDaemon, said>>
    BY <1>4 DEF Probe
  <2> QED BY <1>1, <2>1, <2>2, Elsewhere
<1>5. CASE WorkerTakes
  <2>1. inbox \in Jobs /\ inbox' = Nothing
    BY <1>1, <1>5 DEF WorkerTakes
  <2>2. WorkLine(inbox) \in Sendable
    BY <2>1 DEF WorkLine, Sendable, Lines, Jobs
  <2>3. toDaemon' \in Seq(Sendable)
    BY <1>1, <1>5, <2>2, AppendProperties DEF WorkerTakes
  <2>4. UNCHANGED <<daemonState, roles, said, nextId>>
    BY <1>5 DEF WorkerTakes
  <2> QED BY <1>1, <2>1, <2>3, <2>4, Elsewhere
<1>6. CASE OtherReads
  <2>1. toDaemon' \in Seq(Sendable)
    BY <1>1, <1>6, HeadTailProperties DEF OtherReads
  <2>2. UNCHANGED <<daemonState, roles, said, inbox, nextId>>
    BY <1>6 DEF OtherReads
  <2> QED BY <1>1, <2>1, <2>2, Elsewhere
<1>7. ASSUME NEW line \in StrangerLines, StrangerWrites(line) PROVE EInv'
  <2>1. line \in Lines
    BY <1>1, <1>7 DEF StrangerLines, Lines, InitLine, WorkLine
  <2>2. roles.engine = "stranger" /\ toDaemon' = <<line>> /\ nextId' = nextId + 1
    BY <1>7 DEF StrangerWrites, Asks
  <2>3. toDaemon' \in Seq(Sendable) /\ nextId' \in Nat
    BY <1>1, <2>1, <2>2 DEF Sendable
  <2>4. UNCHANGED <<daemonState, roles, said, inbox>>
    BY <1>7 DEF StrangerWrites
  <2> QED BY <1>1, <2>3, <2>4, Elsewhere
<1>8. CASE Killed \/ Dies \/ Start \/ Drop \/ RunEnds \/ StrangerCloses
  <2>1. UNCHANGED <<daemonState, roles, toDaemon, inbox, nextId, said>>
    BY <1>8 DEF Killed, Crash, Dies, Start, Greeted, GreetedByEof, Unavailable, Drop,
                DropKills, DropReleases, DropJoins, DropReaps, RunEnds, StrangerCloses
  <2> QED BY <1>2, <2>1
<1>9. CASE WorkerReads \/ WorkerReadsEof \/ WorkerEnds
  <2>1. UNCHANGED <<daemonState, roles, toDaemon, inbox, nextId, said>>
    BY <1>9 DEF WorkerReads, WorkerReadsEof, WorkerEnds
  <2> QED BY <1>2, <2>1
<1>11. CASE EngineDies
  <2>1. inbox' = Nothing /\ UNCHANGED <<daemonState, roles, toDaemon, nextId, said>>
    BY <1>11 DEF EngineDies
  <2> QED BY <1>1, <2>1, Elsewhere
<1>10. ASSUME NEW line \in StrayLines, OtherWrites(line) PROVE EInv'
  <2>1. UNCHANGED <<daemonState, roles, toDaemon, inbox, nextId, said>>
    BY <1>10 DEF OtherWrites
  <2> QED BY <1>2, <2>1
<1> QED BY <1>3, <1>4, <1>5, <1>6, <1>7, <1>8, <1>9, <1>10, <1>11 DEF Next, Worker

LEMMA EmissionInit == Init => EInv
<1> SUFFICES ASSUME Init PROVE EInv
  OBVIOUS
<1> USE DEF Init, SessionInit
<1>1. sent = {} /\ handling = Nothing /\ said = {} /\ opened = scope /\ scope = NoScope
      /\ prober = [probes |-> 0, counter |-> FirstCounter, emitted |-> 0]
      /\ inbox = Nothing /\ nextId = 1 /\ session = "awaiting_init"
  OBVIOUS
<1>2. toDaemon \in Seq(Sendable)
  <2>1. InitLine(Manifest) \in Sendable
    BY DEF InitLine, Sendable, Lines
  <2> QED BY <2>1
<1>3. NoScope \in Scope /\ NoScope.max = 0
  BY DEF NoScope, Scope
<1>4. Types
  BY <1>1, <1>2, <1>3, FS_EmptySet DEF Types, Ledger
<1>5. Fixed /\ InScope
  BY <1>1 DEF Fixed, InScope
<1>6. Paid
  BY <1>1, <1>3, FS_EmptySet DEF Paid
<1>7. Torn
  <2>1. Syns = {} /\ ~AwaitsSyn
    BY <1>1 DEF Syns, AwaitsSyn, Nothing
  <2> QED BY <1>1, <2>1, FS_EmptySet DEF Torn
<1> QED BY <1>4, <1>5, <1>6, <1>7 DEF EInv

LEMMA EmissionStep == EInv /\ [Next]_vars => EInv'
<1> SUFFICES ASSUME EInv, [Next]_vars PROVE EInv'
  OBVIOUS
<1>1. CASE Daemon
  BY <1>1, DaemonKeeps DEF Daemon, Daemonic
<1>2. CASE ~Daemon /\ Next
  BY <1>2, OthersKeep
<1>3. CASE UNCHANGED vars
  <2>1. UNCHANGED <<daemonState, roles, toDaemon, inbox, nextId, said>>
    BY <1>3 DEF vars, daemonState, daemonVars, pipeVars, clientVars
  <2> QED BY <2>1, Elsewhere DEF EInv, Types, Torn
<1> QED BY <1>1, <1>2, <1>3

-----------------------------------------------------------------------------
\* However many lines of whatever kind reach it, the daemon emits only probes
\* of addresses its first Init allows, no more than its ceiling, and at most
\* one teardown for each SYN; and no later Init changes what that Init said.
THEOREM EmitsOnlyAuthorised == Spec => []EmissionAuthorised
<1>1. EInv => EmissionAuthorised
  <2> SUFFICES ASSUME EInv PROVE EmissionAuthorised
    OBVIOUS
  <2>1. \A p \in sent : /\ p.work.target \in opened.allowed \ opened.denied
                       /\ p.work.target \notin Reserved \cup Version6
    BY DEF EInv, Fixed, InScope
  <2>2. /\ Cardinality(sent) \in Nat /\ Cardinality(Syns) \in Nat
        /\ prober.probes \in Nat /\ prober.emitted \in Nat /\ scope.max \in Nat
    BY SynsFinite DEF EInv, Types, Ledger, Scope
  <2>3. Cardinality(sent) <= opened.max
    BY <2>2 DEF EInv, Fixed, Paid
  <2>4. prober.emitted <= Cardinality(sent) + Cardinality(Syns)
    BY <2>2 DEF EInv, Torn
  <2>5. Asks("client") => opened \in {NoScope, Manifest}
    BY DEF EInv, Fixed, Asks
  <2> QED BY <2>1, <2>3, <2>4, <2>5 DEF EmissionAuthorised, Syns
<1> QED BY <1>1, EmissionInit, EmissionStep, PTL DEF Spec

-----------------------------------------------------------------------------
(* Who is told what.  A line says of a probe what a reply to its packet     *)
(* said; between this engine and this daemon one probe is on its way at a   *)
(* time, and an id is used once.                                            *)

\* What a daemon writes, of this build or of another.
Answers ==
    [type : {"ready"}, id : Nat, dropped : BOOLEAN]
    \cup [type : {"result"}, id : Nat, state : PortStates]
    \cup [type : {"host_result"}, id : Nat, state : HostStates]
    \cup [type : {"refused"}, id : Nat,
          reason : {"out_of_session_scope", "session_budget_exhausted"}]
    \cup [type : {"fatal", "garbage"}, id : Nat]

OwnEngine == Asks("client") /\ Serves("ours")

\* The lives of a client that was handed to a run.
Engaged == {"ready", "dropping", "releasing", "joining", "reaping", "dropped"}

Peers ==
    /\ process \in {"starting", "running", "ok", "failed", "no_privilege", "killed"}
    /\ roles \in [engine : {"client", "stranger"}, daemon : {"ours", "other"}]
    /\ inOpen \in BOOLEAN /\ outOpen \in BOOLEAN /\ signalled \in BOOLEAN /\ sender \in BOOLEAN
    /\ strays \in Nat

\* Only a client asks, and it awaits a probe only while it serves a run.
Calls ==
    /\ client \in ClientStates /\ (Asks("client") <=> client # "none")
    /\ call \in Jobs \cup {Nothing} /\ (call # Nothing => client = "ready")
    /\ worker \in [at : {"recv", "done"}, job : {Nothing}] \cup [at : {"reading"}, job : Jobs]
    /\ Asks("stranger") => inbox = Nothing /\ worker.at = "recv"

\* What waits to be read was written.
Spoken == spoken \subseteq Answers /\ toEngine \in Seq(spoken)

Wiring == Peers /\ Calls /\ Spoken

\* A counter names its packet, the one awaited drew the last, and a reply
\* carries what the packet it answers carried.
Numbered ==
    /\ \A p, q \in sent : p.counter = q.counter => p = q
    /\ handling # Nothing => handling.packet \in sent /\ handling.packet.counter = prober.counter
    /\ \A reply \in said : \E packet \in sent :
          /\ reply.id = packet.id /\ reply.work = packet.work
          /\ reply.counter = packet.counter /\ reply.what \in RepliesTo(packet.work)

Evidence(line) ==
    /\ line.type = "result" /\ line.state = "open"      => Witness(line, "syn_ack")
    /\ line.type = "result" /\ line.state = "closed"    => Witness(line, "rst")
    /\ line.type = "host_result" /\ line.state = "up"   => Witness(line, "echo_reply")
    /\ line.type = "host_result" /\ line.state = "down" => Witness(line, "echo_unreachable")

Witnessed == Serves("ours") => \A line \in spoken : Evidence(line)

Refusal(id) == \E line \in spoken : line.type = "refused" /\ line.id = id
OnWire(id)  == \E p \in sent : p.id = id

Backed(t) ==
    /\ t.answer \in PortStates => t.work.kind = "probe" /\ Result(t, t.answer) \in spoken
    /\ t.answer \in HostStates => t.work.kind = "icmp_probe" /\ HostResult(t, t.answer) \in spoken
    /\ OwnEngine /\ t.answer = "refused" => Refusal(t.id)

ToldBacked == /\ Asks("stranger") => told = {}
              /\ \A t \in told : t.id \in Nat /\ Backed(t)

Idle == toDaemon = <<>> /\ handling = Nothing /\ toEngine = <<>>

\* Where the probe is that the worker carries: on the way to the daemon,
\* awaited, on the way back, or lost with the daemon.
InFlight(job) ==
    \/ toDaemon = <<WorkLine(job)>> /\ handling = Nothing /\ toEngine = <<>>
    \/ toDaemon = <<>> /\ handling # Nothing /\ handling.packet.id = job.id /\ toEngine = <<>>
    \/ /\ toDaemon = <<>> /\ handling = Nothing
       /\ \/ toEngine = <<>>
          \/ \E line \in spoken : /\ toEngine = <<line>>
                                  /\ line.type = "refused" => line.id = job.id

Pipeline == OwnEngine =>
    /\ toDaemon = <<>> \/ \E line \in Lines : toDaemon = <<line>>
    /\ client = "handshake" => /\ handling = Nothing
                               /\ toDaemon \in {<<>>, <<InitLine(Manifest)>>}
                               /\ \/ toEngine = <<>>
                                  \/ toDaemon = <<>> /\ Tail(toEngine) = <<>>
    /\ client \in Engaged /\ worker.at = "recv" => Idle
    /\ worker.at = "reading" => client \in Engaged /\ InFlight(worker.job)
    /\ inbox # Nothing => client \in Engaged /\ worker.at = "recv"
    /\ client = "ready" /\ call = Nothing => inbox = Nothing /\ worker.at # "reading"

\* The first id that no line, packet or refusal bears yet.
Fresh == IF inbox # Nothing THEN inbox.id ELSE nextId

OncePerId == OwnEngine =>
    /\ inbox # Nothing => inbox.id < nextId
    /\ \A id \in Nat : Refusal(id) \/ OnWire(id) => id < Fresh /\ ~(Refusal(id) /\ OnWire(id))
    /\ \A line \in Lines : toDaemon = <<line>> /\ line.type = "work" =>
          line.id < Fresh /\ ~Refusal(line.id) /\ ~OnWire(line.id)

AInv == EInv /\ Wiring /\ Numbered /\ Witnessed /\ ToldBacked /\ Pipeline /\ OncePerId

LEMMA SameResidue ==
    ASSUME NEW a \in Nat, NEW b \in Nat, a <= b, b < a + Span,
           discriminator(a) = discriminator(b)
    PROVE  a = b
<1> DEFINE p == a \div Span
           q == b \div Span
<1>1. /\ a = Span * p + (a % Span) /\ b = Span * q + (b % Span)
      /\ p \in Nat /\ q \in Nat /\ a % Span \in Nat /\ b % Span \in Nat
      /\ a % Span = b % Span /\ Span \in Nat /\ Span > 0
  BY DEF discriminator
<1> HIDE DEF p, q
<1>2. Span * q - Span * p < Span /\ 0 <= Span * q - Span * p
  BY <1>1
<1>3. p = q
  <2>1. CASE q < p
    <3>1. Span * (p - q) >= Span /\ Span * (p - q) = Span * p - Span * q
      BY <1>1, <2>1
    <3> QED BY <1>1, <1>2, <3>1
  <2>2. CASE q > p
    <3>1. Span * (q - p) >= Span /\ Span * (q - p) = Span * q - Span * p
      BY <1>1, <2>2
    <3> QED BY <1>1, <1>2, <3>1
  <2> QED BY <1>1, <2>1, <2>2
<1> QED BY <1>1, <1>3

\* A reply that ends the wait answers the very packet that is awaited.
LEMMA OwnReply ==
    ASSUME EInv, Numbered, NEW reply \in said, Poll(reply)
    PROVE  /\ handling.packet \in sent /\ reply.id = handling.packet.id
           /\ reply.work = handling.packet.work
           /\ reply.what \in RepliesTo(handling.packet.work)
<1>1. /\ handling.kind = "await" /\ handling # Nothing
      /\ reply.counter + Span > prober.counter
      /\ discriminator(reply.counter) = discriminator(handling.packet.counter)
  BY DEF Poll, Awaiting, matches, Nothing
<1>2. handling.packet \in sent /\ handling.packet.counter = prober.counter
  BY <1>1 DEF Numbered
<1>3. PICK packet \in sent :
        /\ reply.id = packet.id /\ reply.work = packet.work
        /\ reply.counter = packet.counter /\ reply.what \in RepliesTo(packet.work)
  BY DEF Numbered
<1>4. /\ packet.counter \in Nat /\ prober.counter \in Nat /\ packet.counter <= prober.counter
  BY <1>3 DEF EInv, Types, Paid, Packets, Ledger
<1>5. packet.counter = prober.counter
  BY <1>1, <1>2, <1>3, <1>4, SameResidue
<1>6. packet = handling.packet
  BY <1>2, <1>5 DEF Numbered
<1> QED BY <1>2, <1>3, <1>6

\* What the daemon writes in a step, and that a reply stands behind it.
Speaks(line) ==
    /\ spoken' = spoken \cup {line} /\ toEngine' = Append(toEngine, line)
    /\ line \in Answers /\ Evidence(line)

LEMMA WriteSpeaks ==
    ASSUME NEW line \in Answers, Evidence(line), Write(line)
    PROVE  Speaks(line) \/ UNCHANGED <<spoken, toEngine>>
BY DEF Write, Speaks

LEMMA ResponseIs ==
    ASSUME NEW p, p.id \in Nat, p.work \in Works,
           NEW st, st \in IF p.work.kind = "probe" THEN PortStates ELSE HostStates
    PROVE  /\ Response(p, st) \in Answers /\ Response(p, st).id = p.id
           /\ Response(p, st).type = IF p.work.kind = "probe" THEN "result" ELSE "host_result"
           /\ Response(p, st).state = st
BY DEF Response, Result, HostResult, Answers, Works

Silent == UNCHANGED <<spoken, toEngine>>

LEMMA DaemonSpeaks ==
    ASSUME EInv, Numbered, DaemonStep, Daemonic
    PROVE  Silent \/ \E line \in Answers : Speaks(line)
<1> USE DEF Silent
<1>1. CASE StartUp \/ Shutdown \/ EndOfInput \/ Emit
  BY <1>1 DEF StartUp, Shutdown, EndOfInput, Emit, pipeVars
<1>2. CASE OpenSession
  <2>1. Ready(TRUE) \in Answers /\ Evidence(Ready(TRUE))
    BY DEF Ready, Answers, Evidence
  <2> QED BY <1>2, <2>1, WriteSpeaks DEF OpenSession
<1>3. CASE Terminate
  <2>1. Fatal \in Answers /\ Evidence(Fatal)
    BY DEF Fatal, Answers, Evidence
  <2> QED BY <1>3, <2>1 DEF Terminate, Speaks
<1>4. CASE Refuse
  <2>1. Line.id \in Nat /\ Write(Refused(Line, admit(Line.work))) /\ admit(Line.work) # "admitted"
    BY <1>4, Reads, LineKinds DEF Refuse, Working, Reading, Daemonic, EInv
  <2>2. admit(Line.work) \in {"out_of_session_scope", "session_budget_exhausted"}
    BY <2>1 DEF admit
  <2>3. Refused(Line, admit(Line.work)) \in Answers
    BY <2>1, <2>2 DEF Refused, Answers
  <2>4. Evidence(Refused(Line, admit(Line.work)))
    BY DEF Refused, Evidence
  <2> QED BY <2>1, <2>3, <2>4, WriteSpeaks
<1>5. CASE NotEmitted
  <2> DEFINE line == Response(Line, Unemitted(Line.work))
  <2>1. Write(line) /\ Line.work \in Works /\ Line.id \in Nat
    BY <1>5, Admitted DEF NotEmitted, Daemonic
  <2>2. /\ line \in Answers /\ line.state = Unemitted(Line.work)
        /\ line.type = IF Line.work.kind = "probe" THEN "result" ELSE "host_result"
    BY <2>1, ResponseIs DEF Unemitted, PortStates, HostStates
  <2> HIDE DEF line
  <2>3. Evidence(line)
    BY <2>2 DEF Evidence, Unemitted
  <2> QED BY <2>1, <2>2, <2>3, WriteSpeaks
<1>6. CASE Deadline
  <2> DEFINE p == handling.packet
             line == Response(p, Silence(p.work))
  <2>1. Write(line) /\ p.work \in Works /\ p.id \in Nat
    BY <1>6 DEF Deadline, Answer, Awaiting, EInv, Types, Packets, Nothing
  <2>2. /\ line \in Answers /\ line.state = Silence(p.work)
        /\ line.type = IF p.work.kind = "probe" THEN "result" ELSE "host_result"
    BY <2>1, ResponseIs DEF Silence, PortStates, HostStates
  <2> HIDE DEF line
  <2>3. Evidence(line)
    BY <2>2 DEF Evidence, Silence
  <2> QED BY <2>1, <2>2, <2>3, WriteSpeaks
<1>7. ASSUME NEW reply \in said, Poll(reply)
      PROVE  Silent \/ \E line \in Answers : Speaks(line)
  <2> DEFINE p == handling.packet
             line == Response(p, classify(reply.what))
  <2>1. /\ Write(line) /\ reply.id = p.id /\ reply.work = p.work
        /\ reply.what \in RepliesTo(p.work) /\ p.work \in Works /\ p.id \in Nat
    BY <1>7, OwnReply DEF Poll, Answer, EInv, Types, Packets
  <2>2. /\ reply.what \in IF p.work.kind = "probe" THEN {"syn_ack", "rst", "tcp_unreachable"}
                          ELSE {"echo_reply", "echo_unreachable"}
        /\ classify(reply.what) = "open" => reply.what = "syn_ack"
        /\ classify(reply.what) = "closed" => reply.what = "rst"
        /\ classify(reply.what) = "up" => reply.what = "echo_reply"
        /\ classify(reply.what) = "down" => reply.what = "echo_unreachable"
        /\ classify(reply.what) \in IF p.work.kind = "probe" THEN PortStates ELSE HostStates
    BY <2>1 DEF RepliesTo, classify, PortStates, HostStates
  <2>3. /\ line \in Answers /\ line.state = classify(reply.what) /\ line.id = p.id
    BY <2>1, <2>2, ResponseIs
  <2> HIDE DEF line, p
  <2>4. \A what : reply.what = what => Witness(line, what)
    BY <2>1, <2>3 DEF Witness
  <2>5. Evidence(line)
    BY <2>2, <2>3, <2>4 DEF Evidence
  <2> QED BY <2>1, <2>3, <2>5, WriteSpeaks
<1> QED BY <1>1, <1>2, <1>3, <1>4, <1>5, <1>6, <1>7 DEF DaemonStep

-----------------------------------------------------------------------------
LEMMA NumberedFrame ==
    ASSUME Numbered, UNCHANGED <<sent, handling, prober, said>> PROVE Numbered'
BY DEF Numbered

LEMMA NumberedKept == ASSUME EInv, Numbered, Next PROVE Numbered'
<1>1. CASE Daemon /\ Emit
  <2> DEFINE packet == [id |-> Line.id, work |-> Line.work, counter |-> Charged.counter]
  <2>1. /\ sent' = sent \cup {packet} /\ handling' = [kind |-> "await", packet |-> packet]
        /\ prober' = [Charged EXCEPT !.emitted = @ + 1] /\ said' = said
    BY <1>1 DEF Emit, Took
  <2>2. packet.counter = prober.counter + 1 /\ prober'.counter = prober.counter + 1
    BY <2>1, ChargedIs, EmittedOne DEF EInv, Types
  <2>3. \A p \in sent : p.counter \in Nat /\ prober.counter \in Nat /\ p.counter <= prober.counter
    BY DEF EInv, Types, Paid, Packets, Ledger
  <2> HIDE DEF packet
  <2>4. \A p, q \in sent' : p.counter = q.counter => p = q
    BY <2>1, <2>2, <2>3 DEF Numbered
  <2>5. handling'.packet \in sent' /\ handling'.packet.counter = prober'.counter
    BY <2>1, <2>2
  <2>6. \A reply \in said' : \E p \in sent' :
          /\ reply.id = p.id /\ reply.work = p.work
          /\ reply.counter = p.counter /\ reply.what \in RepliesTo(p.work)
    BY <2>1 DEF Numbered
  <2> QED BY <2>4, <2>5, <2>6 DEF Numbered
<1>2. CASE Daemon /\ DaemonStep /\ ~Emit
  <2>1. /\ UNCHANGED <<sent, said>>
        /\ handling' = Nothing \/ UNCHANGED <<handling, prober>>
    <3>1. CASE NotEmitted
      BY <3>1 DEF NotEmitted, Working, Reading, Took
    <3>2. CASE Deadline \/ \E reply \in said : Poll(reply)
      BY <3>2 DEF Deadline, Poll, Answer
    <3>3. CASE StartUp \/ OpenSession \/ Terminate \/ Shutdown \/ EndOfInput \/ Refuse
      BY <3>3 DEF StartUp, OpenSession, Terminate, Shutdown, EndOfInput, Refuse, Took
    <3> QED BY <1>2, <3>1, <3>2, <3>3 DEF DaemonStep
  <2> QED BY <2>1 DEF Numbered
<1>3. CASE Network
  <2>1. PICK p \in sent : \E what \in RepliesTo(p.work) :
          said' = said \cup {[id |-> p.id, work |-> p.work, counter |-> p.counter, what |-> what]}
    BY <1>3 DEF Network, NetworkReplies
  <2>2. UNCHANGED <<sent, handling, prober>>
    BY <1>3 DEF Network, NetworkReplies, daemonVars
  <2> QED BY <2>1, <2>2 DEF Numbered
<1>4. CASE ~Daemon /\ ~Network
  <2>1. UNCHANGED <<sent, handling, prober, said>>
    <3> USE DEF daemonVars
    <3>1. CASE Killed \/ Dies \/ Start \/ Worker \/ Drop \/ RunEnds \/ EngineDies \/ OtherReads
      BY <3>1 DEF Killed, Crash, Dies, Start, Greeted, GreetedByEof, Unavailable, Worker,
                  WorkerTakes, WorkerReads, WorkerReadsEof, WorkerEnds, Drop, DropKills,
                  DropReleases, DropJoins, DropReaps, RunEnds, EngineDies, OtherReads
    <3>2. CASE \/ \E work \in Works : Probe(work)
               \/ \E line \in StrayLines : OtherWrites(line)
               \/ \E line \in StrangerLines : StrangerWrites(line)
               \/ StrangerCloses
      BY <3>2 DEF Probe, OtherWrites, StrangerWrites, StrangerCloses
    <3> QED BY <1>4, <3>1, <3>2 DEF Next
  <2> QED BY <2>1, NumberedFrame
<1> QED BY <1>1, <1>2, <1>3, <1>4 DEF Daemon

-----------------------------------------------------------------------------
\* Who speaks: this daemon with evidence, another build with what it likes.
LEMMA Voices ==
    ASSUME EInv, Numbered, Next
    PROVE  /\ said \subseteq said' /\ roles' = roles
           /\ \/ UNCHANGED spoken /\ (toEngine' = toEngine \/ (toEngine # <<>> /\ toEngine' = Tail(toEngine)))
              \/ Serves("ours") /\ \E line \in Answers : Speaks(line)
              \/ /\ Serves("other")
                 /\ \E line \in Answers : /\ spoken' = spoken \cup {line}
                                          /\ toEngine' = Append(toEngine, line)
<1> USE DEF daemonVars, pipeVars
<1>1. CASE Daemon
  <2>1. said' = said
    <3>1. CASE OpenSession \/ Terminate \/ Shutdown \/ Refuse \/ NotEmitted \/ Emit
      BY <3>1 DEF OpenSession, Terminate, Shutdown, Refuse, NotEmitted, Emit, Took
    <3>2. CASE StartUp \/ EndOfInput \/ Deadline \/ \E reply \in said : Poll(reply)
      BY <3>2 DEF StartUp, EndOfInput, Deadline, Poll, Answer
    <3> QED BY <1>1, <3>1, <3>2 DEF Daemon, DaemonStep
  <2> QED BY <1>1, <2>1, DaemonSpeaks DEF Daemon, Daemonic, Silent
<1>2. CASE \E line \in StrayLines : OtherWrites(line)
  <2>1. PICK line \in StrayLines : OtherWrites(line)
    BY <1>2
  <2>2. line \in Answers
    <3> USE DEF Answers, Ready, Fatal, Result, HostResult, Refused, PortStates, HostStates
    <3>1. CASE line \in {Ready(TRUE), Ready(FALSE), Fatal, [type |-> "garbage", id |-> 0]}
      <4>1. Ready(TRUE) \in Answers
        OBVIOUS
      <4>2. Ready(FALSE) \in Answers
        OBVIOUS
      <4>3. Fatal \in Answers /\ [type |-> "garbage", id |-> 0] \in Answers
        OBVIOUS
      <4> QED BY <3>1, <4>1, <4>2, <4>3
    <3>2. ASSUME NEW i \in 1..MaxId,
                 line \in {Result([id |-> i], "open"), HostResult([id |-> i], "up"),
                           Refused([id |-> i], "out_of_session_scope")}
          PROVE  line \in Answers
      BY <3>2
    <3> QED BY <2>1, <3>1, <3>2 DEF StrayLines
  <2> QED BY <2>1, <2>2 DEF OtherWrites, Write
<1>3. CASE Network \/ Killed \/ Dies \/ WorkerTakes \/ WorkerReads \/ WorkerReadsEof \/ WorkerEnds
  BY <1>3 DEF Network, NetworkReplies, Killed, Crash, Dies, WorkerTakes, WorkerReads,
              WorkerReadsEof, WorkerEnds
<1>4. CASE Start \/ Drop \/ RunEnds \/ EngineDies \/ OtherReads
  BY <1>4 DEF Start, Greeted, GreetedByEof, Unavailable, Drop, DropKills, DropReleases,
              DropJoins, DropReaps, RunEnds, EngineDies, OtherReads
<1>5. CASE \/ \E work \in Works : Probe(work)
           \/ \E line \in StrangerLines : StrangerWrites(line)
           \/ StrangerCloses
  BY <1>5 DEF Probe, StrangerWrites, StrangerCloses
<1> QED BY <1>1, <1>2, <1>3, <1>4, <1>5 DEF Next, Worker

LEMMA SeqGrows == ASSUME NEW S, NEW T, S \subseteq T PROVE Seq(S) \subseteq Seq(T)
OBVIOUS

LEMMA SpokenKept == ASSUME EInv, Numbered, Spoken, Next PROVE Spoken'
<1>1. CASE UNCHANGED spoken /\ (toEngine' = toEngine \/ (toEngine # <<>> /\ toEngine' = Tail(toEngine)))
  BY <1>1, HeadTailProperties DEF Spoken
<1>2. ASSUME NEW line \in Answers, spoken' = spoken \cup {line}, toEngine' = Append(toEngine, line)
      PROVE  Spoken'
  <2>1. toEngine \in Seq(spoken')
    BY <1>2, SeqGrows DEF Spoken
  <2> QED BY <1>2, <2>1, AppendProperties DEF Spoken
<1> QED BY <1>1, <1>2, Voices DEF Speaks

LEMMA WitnessedKept == ASSUME EInv, Numbered, Witnessed, Next PROVE Witnessed'
<1> SUFFICES ASSUME Serves("ours"), NEW line \in spoken' PROVE Evidence(line)'
  BY Voices DEF Witnessed, Serves
<1>1. Evidence(line)
  BY Voices DEF Witnessed, Speaks, Serves
<1>2. said \subseteq said'
  BY Voices
<1> QED BY <1>1, <1>2 DEF Evidence, Witness

LEMMA PeersKept == ASSUME Peers, Next PROVE Peers'
<1> USE DEF Peers, daemonVars, pipeVars, clientVars
<1>1. CASE Daemon /\ (OpenSession \/ Terminate \/ Shutdown \/ Refuse \/ NotEmitted \/ Emit)
  BY <1>1 DEF Daemon, OpenSession, Terminate, Shutdown, Refuse, NotEmitted, Emit, Took, Write
<1>2. CASE Daemon /\ (StartUp \/ EndOfInput \/ Deadline \/ \E reply \in said : Poll(reply))
  BY <1>2 DEF Daemon, StartUp, EndOfInput, Deadline, Poll, Answer, Write
<1>3. CASE Network \/ Killed \/ Dies \/ Worker
  BY <1>3 DEF Network, NetworkReplies, Killed, Crash, Dies, Worker, WorkerTakes, WorkerReads,
              WorkerReadsEof, WorkerEnds, WorkerReturns
<1>4. CASE Start \/ Drop \/ RunEnds \/ EngineDies \/ OtherReads
  BY <1>4 DEF Start, Greeted, GreetedByEof, Unavailable, Drop, DropKills, DropReleases,
              DropJoins, DropReaps, RunEnds, EngineDies, OtherReads
<1>5. CASE \/ \E work \in Works : Probe(work)
           \/ \E line \in StrangerLines : StrangerWrites(line)
           \/ \E line \in StrayLines : OtherWrites(line)
  <2>1. /\ UNCHANGED <<roles, inOpen, outOpen, signalled, sender>>
        /\ process' = process \/ process' = "failed"
        /\ strays' = strays \/ strays' = strays + 1
    BY <1>5 DEF Probe, StrangerWrites, OtherWrites, Write
  <2> QED BY <2>1
<1>6. CASE StrangerCloses
  BY <1>6 DEF StrangerCloses
<1> QED BY <1>1, <1>2, <1>3, <1>4, <1>5, <1>6 DEF Next, Daemon, DaemonStep

LEMMA CallsKept == ASSUME EInv, Peers, Calls, Next PROVE Calls'
<1> USE DEF Calls, ClientStates, Asks, daemonVars, pipeVars, clientVars
<1>1. roles' = roles /\ (roles.engine = "client" \/ roles.engine = "stranger")
      /\ inbox \in Jobs \cup {Nothing}
  <2>1. roles' = roles
    BY DEF Next, Daemon, Network, NetworkReplies, Killed, Crash, Dies, Start, Greeted,
           GreetedByEof, Unavailable, Worker, WorkerTakes, WorkerReads, WorkerReadsEof,
           WorkerEnds, Drop, DropKills, DropReleases, DropJoins, DropReaps, RunEnds,
           EngineDies, Probe, OtherWrites, OtherReads, StrangerWrites, StrangerCloses
  <2> QED BY <2>1 DEF Peers, EInv, Types
<1>2. CASE Daemon \/ Network \/ Killed \/ Dies \/ OtherReads
  <2>1. UNCHANGED <<client, call, worker, inbox>>
    BY <1>2 DEF Daemon, Network, Killed, Dies, OtherReads
  <2> QED BY <1>1, <2>1
<1>3. CASE Start \/ Drop \/ RunEnds
  <2>1. /\ \/ client # "none" /\ client' \in ClientStates \ {"none", "ready"}
           \/ client = "handshake" /\ client' = "ready"
        /\ UNCHANGED <<worker, inbox>>
        /\ (client = "ready" /\ call' = Nothing) \/ (client # "ready" /\ call' = call)
    BY <1>3 DEF Start, Greeted, GreetedByEof, Unavailable, Drop, DropKills, DropReleases,
                DropJoins, DropReaps, RunEnds
  <2> QED BY <1>1, <2>1
<1>7. CASE EngineDies
  BY <1>1, <1>7 DEF EngineDies
<1>4. ASSUME NEW work \in Works, Probe(work) PROVE Calls'
  <2>1. nextId \in Nat
    BY DEF EInv, Types
  <2>2. [kind |-> "job", id |-> nextId, work |-> work] \in Jobs
    BY <2>1 DEF Jobs
  <2> QED BY <1>1, <1>4, <2>2 DEF Probe
<1>5. CASE \/ \E line \in StrayLines : OtherWrites(line)
           \/ \E line \in StrangerLines : StrangerWrites(line)
           \/ StrangerCloses
  BY <1>1, <1>5 DEF StrangerWrites, StrangerCloses, OtherWrites
<1>6. CASE Worker
  BY <1>1, <1>6 DEF Worker, WorkerTakes, WorkerReads, WorkerReadsEof, WorkerEnds,
                    WorkerReturns, Deliver
<1> QED BY <1>2, <1>3, <1>4, <1>5, <1>6, <1>7 DEF Next

-----------------------------------------------------------------------------
Telling(job, answer) == [id |-> job.id, work |-> job.work, answer |-> answer]

LEMMA ToldFrame ==
    ASSUME ToldBacked, spoken \subseteq spoken', roles' = roles, told' = told
    PROVE  ToldBacked'
<1>1. ASSUME NEW t \in told PROVE t.id \in Nat /\ Backed(t)'
  BY DEF ToldBacked, Backed, Refusal, OwnEngine, Asks, Serves
<1> QED BY <1>1 DEF ToldBacked, Asks

LEMMA ToldOne ==
    ASSUME ToldBacked, spoken \subseteq spoken', roles' = roles, ~Asks("stranger"),
           NEW new, new.id \in Nat, Backed(new), told' = told \cup {new}
    PROVE  ToldBacked'
<1>1. ASSUME NEW t \in told \cup {new} PROVE t.id \in Nat /\ Backed(t)'
  BY DEF ToldBacked, Backed, Refusal, OwnEngine, Asks, Serves
<1> QED BY <1>1 DEF ToldBacked, Asks

\* Nothing is claimed of a probe that is lost.
LEMMA GoneBacked == ASSUME NEW job \in Jobs PROVE Backed(Telling(job, "gone"))
BY DEF Backed, Telling, PortStates, HostStates

LEMMA DeliverBacks ==
    ASSUME ToldBacked, spoken \subseteq spoken', roles' = roles, Asks("client"),
           NEW job \in Jobs, NEW answer, Deliver(job, answer),
           answer # "wrong_kind" => Backed(Telling(job, answer))
    PROVE  ToldBacked'
<1>1. ~Asks("stranger")
  BY DEF Asks
<1>2. CASE told' = told
  BY <1>1, <1>2, ToldFrame
<1>3. ASSUME NEW a, told' = told \cup {Telling(job, a)}, Backed(Telling(job, a)) PROVE ToldBacked'
  <2>1. Telling(job, a).id \in Nat
    BY DEF Telling, Jobs
  <2> QED BY <1>1, <1>3, <2>1, ToldOne
<1>4. \/ told' = told
      \/ answer = "wrong_kind" /\ told' = told \cup {Telling(job, "gone")}
      \/ answer # "wrong_kind" /\ told' = told \cup {Telling(job, answer)}
  BY DEF Deliver, Told, Telling
<1> QED BY <1>2, <1>3, <1>4, GoneBacked

\* A line that is read for a job backs what the job's caller is told.
LEMMA UnderstoodBacked ==
    ASSUME Spoken, Pipeline, NEW job \in Jobs, worker = [at |-> "reading", job |-> job],
           toEngine # <<>>, Understood(Head(toEngine), job) # "wrong_kind"
    PROVE  Backed(Telling(job, Understood(Head(toEngine), job)))
<1> DEFINE line == Head(toEngine)
<1>1. line \in spoken /\ line \in Answers
  BY HeadTailProperties DEF Spoken
<1>2. job.id \in Nat /\ job.work.kind \in {"probe", "icmp_probe"}
  BY DEF Jobs, Works
<1>3. OwnEngine /\ line.type = "refused" => line.id = job.id
  BY DEF Pipeline, InFlight
<1> HIDE DEF line
<1>4. CASE line.type = "result" /\ line.id = job.id
  <2>1. /\ job.work.kind = "probe" /\ Understood(line, job) = line.state
        /\ line = [type |-> "result", id |-> job.id, state |-> line.state]
        /\ line.state \in PortStates
    BY <1>1, <1>2, <1>4 DEF Understood, Answers, line
  <2> QED BY <1>1, <2>1 DEF Backed, Telling, Result, PortStates, HostStates, line
<1>5. CASE line.type = "host_result" /\ line.id = job.id
  <2>1. /\ job.work.kind = "icmp_probe" /\ Understood(line, job) = line.state
        /\ line = [type |-> "host_result", id |-> job.id, state |-> line.state]
        /\ line.state \in HostStates
    BY <1>1, <1>2, <1>5 DEF Understood, Answers, line
  <2> QED BY <1>1, <2>1 DEF Backed, Telling, HostResult, PortStates, HostStates, line
<1>6. CASE line.type = "refused"
  <2>1. Understood(line, job) = "refused"
    BY <1>6 DEF Understood
  <2>2. OwnEngine => Refusal(job.id)
    BY <1>1, <1>3, <1>6 DEF Refusal
  <2> QED BY <2>1, <2>2 DEF Backed, Telling, PortStates, HostStates, line
<1>7. CASE /\ line.type # "refused"
           /\ line.type \in {"result", "host_result"} => line.id # job.id
  <2>1. CASE line.type \in {"result", "host_result"}
    <3>1. Understood(line, job) = "gone"
      BY <1>7, <2>1 DEF Understood
    <3> QED BY <3>1, GoneBacked DEF line
  <2>2. CASE line.type \notin {"result", "host_result"}
    <3>1. Understood(line, job) = "gone"
      BY <1>7, <2>2 DEF Understood
    <3> QED BY <3>1, GoneBacked DEF line
  <2> QED BY <2>1, <2>2
<1> QED BY <1>4, <1>5, <1>6, <1>7

LEMMA ToldKept == ASSUME EInv, Wiring, Numbered, Pipeline, ToldBacked, Next PROVE ToldBacked'
<1> USE DEF daemonVars, clientVars
<1>1. spoken \subseteq spoken' /\ roles' = roles
  BY Voices DEF Speaks
<1>2. CASE told' = told
  BY <1>1, <1>2, ToldFrame
<1>3. ASSUME NEW work \in Works, Probe(work) PROVE ToldBacked'
  <2> DEFINE job == [kind |-> "job", id |-> nextId, work |-> work]
  <2>1. job \in Jobs /\ Telling(job, "gone").id \in Nat /\ ~Asks("stranger")
    BY <1>3 DEF Jobs, Telling, EInv, Types, Probe, Wiring, Calls, Asks
  <2>2. told' = told \/ told' = told \cup {Telling(job, "gone")}
    BY <1>3 DEF Probe, Told, Telling
  <2> HIDE DEF job
  <2>3. Backed(Telling(job, "gone"))
    BY <2>1, GoneBacked
  <2> QED BY <1>1, <1>2, <2>1, <2>2, <2>3, ToldOne
<1>4. CASE WorkerTakes
  <2>1. inbox \in Jobs /\ Asks("client")
    BY <1>4 DEF WorkerTakes, EInv, Types
  <2>2. told' = told \/ Deliver(inbox, "gone")
    BY <1>4 DEF WorkerTakes
  <2> QED BY <1>1, <1>2, <2>1, <2>2, DeliverBacks, GoneBacked
<1>5. CASE WorkerReads \/ WorkerReadsEof
  <2>1. /\ worker.at = "reading" /\ worker.job \in Jobs /\ Asks("client")
        /\ worker = [at |-> "reading", job |-> worker.job]
    BY <1>5 DEF WorkerReads, WorkerReadsEof, Wiring, Calls, Peers, Asks
  <2>2. CASE WorkerReadsEof
    BY <1>1, <2>1, <2>2, DeliverBacks, GoneBacked DEF WorkerReadsEof
  <2>3. CASE WorkerReads
    <3>1. toEngine # <<>> /\ Deliver(worker.job, Understood(Head(toEngine), worker.job))
      BY <2>3 DEF WorkerReads
    <3>2. Understood(Head(toEngine), worker.job) # "wrong_kind" =>
            Backed(Telling(worker.job, Understood(Head(toEngine), worker.job)))
      BY <2>1, <3>1, UnderstoodBacked DEF Wiring
    <3> QED BY <1>1, <2>1, <3>1, <3>2, DeliverBacks
  <2> QED BY <1>5, <2>2, <2>3
<1>6. CASE WorkerEnds \/ Daemon \/ Network \/ Killed \/ Dies \/ OtherReads
  BY <1>2, <1>6 DEF WorkerEnds, Daemon, Network, Killed, Dies, OtherReads
<1>7. CASE Start \/ Drop \/ RunEnds \/ EngineDies
  BY <1>2, <1>7 DEF Start, Greeted, GreetedByEof, Unavailable, Drop, DropKills, DropReleases,
                    DropJoins, DropReaps, RunEnds, EngineDies
<1>8. CASE \/ \E line \in StrayLines : OtherWrites(line)
           \/ \E line \in StrangerLines : StrangerWrites(line)
           \/ StrangerCloses
  BY <1>2, <1>8 DEF OtherWrites, StrangerWrites, StrangerCloses
<1> QED BY <1>3, <1>4, <1>5, <1>6, <1>7, <1>8 DEF Next, Worker

-----------------------------------------------------------------------------
LEMMA Singles ==
    ASSUME NEW x
    PROVE  /\ <<x>> # <<>> /\ Head(<<x>>) = x /\ Tail(<<x>>) = <<>>
           /\ Append(<<>>, x) = <<x>>
           /\ \A y : <<x>> = <<y>> => x = y
OBVIOUS

\* What a step of the daemon does to a probe on its way through it.
Taken    == /\ toDaemon # <<>> /\ toDaemon' = Tail(toDaemon) /\ handling = Nothing
Says(lines) == toEngine' = toEngine \/ \E line \in lines : toEngine' = Append(toEngine, line)

Moves ==
    \/ UNCHANGED <<toDaemon, handling, toEngine>>
    \/ /\ Taken /\ Line.type = "work" /\ UNCHANGED toEngine
       /\ handling' # Nothing /\ handling'.packet.id = Line.id
    \/ /\ Taken /\ handling' = Nothing
       /\ Says({line \in spoken' : line.type = "refused" =>
                                     Line.type = "work" /\ line.id = Line.id})
    \/ /\ handling # Nothing /\ handling' = Nothing /\ UNCHANGED toDaemon
       /\ Says({line \in spoken' : line.type # "refused"})

LEMMA WriteSays ==
    ASSUME NEW line, Write(line), NEW lines, line \in spoken' => line \in lines
    PROVE  Says(lines)
BY DEF Write, Says

LEMMA DaemonMoves == ASSUME DaemonStep, Types PROVE Moves
<1>1. CASE StartUp \/ EndOfInput
  BY <1>1 DEF StartUp, EndOfInput, pipeVars, Moves
<1>2. CASE Emit
  <2>1. /\ toDaemon # <<>> /\ toDaemon' = Tail(toDaemon) /\ handling = Nothing
        /\ Line.type = "work" /\ UNCHANGED toEngine
        /\ handling'.kind = "await" /\ handling'.packet.id = Line.id
    BY <1>2 DEF Emit, Working, Reading, Took
  <2>2. handling' # Nothing
    BY <2>1 DEF Nothing
  <2> QED BY <2>1, <2>2 DEF Moves, Taken
<1>3. CASE OpenSession \/ Terminate \/ Shutdown \/ Refuse \/ NotEmitted
  <2> DEFINE lines == {line \in spoken' : line.type = "refused" =>
                                     Line.type = "work" /\ line.id = Line.id}
  <2>1. Taken /\ handling' = Nothing
    BY <1>3 DEF OpenSession, Terminate, Shutdown, Refuse, NotEmitted, Working, Reading, Took, Taken
  <2>2. CASE OpenSession
    <3>1. Write(Ready(TRUE)) /\ Ready(TRUE).type # "refused"
      BY <2>2 DEF OpenSession, Ready
    <3> QED BY <2>1, <3>1, WriteSays DEF Moves
  <2>3. CASE Shutdown
    BY <2>1, <2>3 DEF Shutdown, Moves, Says
  <2>4. CASE Terminate
    <3>1. /\ Fatal.type # "refused"
          /\ \/ Fatal \in spoken' /\ toEngine' = Append(toEngine, Fatal)
             \/ toEngine' = toEngine
      BY <2>4 DEF Terminate, Fatal
    <3> QED BY <2>1, <3>1 DEF Moves, Says
  <2>5. CASE Refuse
    <3>1. Write(Refused(Line, admit(Line.work))) /\ Line.type = "work"
      BY <2>5 DEF Refuse, Working
    <3>2. Refused(Line, admit(Line.work)).id = Line.id
      BY DEF Refused
    <3> QED BY <2>1, <3>1, <3>2, WriteSays DEF Moves
  <2>6. CASE NotEmitted
    <3> DEFINE line == Response(Line, Unemitted(Line.work))
    <3>1. Write(line) /\ line.type # "refused"
      BY <2>6 DEF NotEmitted, Response, Result, HostResult
    <3> QED BY <2>1, <3>1, WriteSays DEF Moves
  <2> QED BY <1>3, <2>2, <2>3, <2>4, <2>5, <2>6
<1>4. CASE Deadline \/ \E reply \in said : Poll(reply)
  <2>1. PICK st : Answer(st) /\ handling.kind = "await"
    BY <1>4 DEF Deadline, Poll, Awaiting
  <2> DEFINE line == Response(handling.packet, st)
  <2>2. /\ Write(line) /\ line.type # "refused"
        /\ handling # Nothing /\ handling' = Nothing /\ UNCHANGED toDaemon
    BY <2>1 DEF Answer, Response, Result, HostResult, Nothing
  <2> QED BY <2>2, WriteSays DEF Moves
<1> QED BY <1>1, <1>2, <1>3, <1>4 DEF DaemonStep

LEMMA InFlightKept ==
    ASSUME Moves, spoken \subseteq spoken', NEW job \in Jobs, InFlight(job)
    PROVE  InFlight(job)'
<1>1. CASE UNCHANGED <<toDaemon, handling, toEngine>>
  BY <1>1 DEF InFlight
<1>2. CASE toDaemon = <<WorkLine(job)>> /\ handling = Nothing /\ toEngine = <<>>
  <2>1. Line = WorkLine(job) /\ Line.id = job.id /\ Tail(toDaemon) = <<>>
    BY <1>2, Singles DEF Line, WorkLine
  <2>2. CASE /\ Taken /\ UNCHANGED toEngine
             /\ handling' # Nothing /\ handling'.packet.id = Line.id
    BY <1>2, <2>1, <2>2 DEF InFlight, Taken
  <2>3. CASE /\ Taken /\ handling' = Nothing
             /\ Says({line \in spoken' : line.type = "refused" =>
                                     Line.type = "work" /\ line.id = Line.id})
    <3>1. toDaemon' = <<>>
      BY <2>1, <2>3 DEF Taken
    <3>2. CASE toEngine' = toEngine
      BY <1>2, <2>3, <3>1, <3>2 DEF InFlight
    <3>3. CASE toEngine' # toEngine
      <4>1. PICK line \in spoken' : /\ line.type = "refused" => line.id = Line.id
                                    /\ toEngine' = Append(toEngine, line)
        BY <2>3, <3>3 DEF Says
      <4>2. toEngine' = <<line>>
        BY <1>2, <4>1, Singles
      <4> QED BY <2>1, <2>3, <3>1, <4>1, <4>2 DEF InFlight
    <3> QED BY <3>2, <3>3
  <2> QED BY <1>1, <1>2, <2>2, <2>3 DEF Moves
<1>3. CASE /\ toDaemon = <<>> /\ handling # Nothing
           /\ handling.packet.id = job.id /\ toEngine = <<>>
  <2>1. CASE /\ handling' = Nothing /\ UNCHANGED toDaemon
             /\ Says({line \in spoken' : line.type # "refused"})
    <3>1. CASE toEngine' = toEngine
      BY <1>3, <2>1, <3>1 DEF InFlight
    <3>2. CASE toEngine' # toEngine
      <4>1. PICK line \in spoken' : line.type # "refused" /\ toEngine' = Append(toEngine, line)
        BY <2>1, <3>2 DEF Says
      <4>2. toEngine' = <<line>>
        BY <1>3, <4>1, Singles
      <4> QED BY <1>3, <2>1, <4>1, <4>2 DEF InFlight
    <3> QED BY <3>1, <3>2
  <2> QED BY <1>1, <1>3, <2>1 DEF Moves, Taken
<1>4. CASE toDaemon = <<>> /\ handling = Nothing
  BY <1>1, <1>4 DEF Moves, Taken
<1> QED BY <1>2, <1>3, <1>4 DEF InFlight

LEMMA PipelineFrame ==
    ASSUME Pipeline, UNCHANGED <<roles, client, worker, inbox, call, toDaemon, handling, toEngine>>,
           spoken \subseteq spoken'
    PROVE  Pipeline'
BY DEF Pipeline, OwnEngine, Asks, Serves, Idle, InFlight

LEMMA DaemonKeepsPipeline ==
    ASSUME EInv, Wiring, Numbered, Pipeline, DaemonStep, Daemonic PROVE Pipeline'
<1> SUFFICES ASSUME OwnEngine PROVE Pipeline'
  BY DEF Pipeline, OwnEngine, Asks, Serves, Daemonic
<1>1. /\ Moves /\ UNCHANGED <<roles, client, worker, inbox, call>>
      /\ spoken \subseteq spoken'
  BY DaemonMoves, DaemonSpeaks DEF EInv, Daemonic, clientVars, Silent, Speaks
<1>2. toDaemon' = toDaemon \/ (toDaemon # <<>> /\ toDaemon' = Tail(toDaemon))
  BY <1>1 DEF Moves, Taken
<1>3. toDaemon' = <<>> \/ \E line \in Lines : toDaemon' = <<line>>
  BY <1>2, Singles DEF Pipeline
<1>4. CASE client = "handshake"
  <2>1. /\ handling = Nothing /\ toDaemon \in {<<>>, <<InitLine(Manifest)>>}
        /\ toEngine = <<>> \/ (toDaemon = <<>> /\ Tail(toEngine) = <<>>)
        /\ client \notin Engaged /\ worker.at # "reading" /\ inbox = Nothing
    BY <1>4 DEF Pipeline, Engaged
  <2>2. CASE UNCHANGED <<toDaemon, handling, toEngine>>
    BY <1>1, <2>2, PipelineFrame
  <2>3. CASE Taken
    <3>1. toDaemon' = <<>> /\ Line = InitLine(Manifest) /\ toEngine = <<>>
      BY <2>1, <2>3, Singles DEF Taken, Line
    <3>2. Line.type # "work"
      BY <3>1 DEF InitLine
    <3>3. handling' = Nothing /\ Says(spoken')
      BY <1>1, <2>1, <2>3, <3>2 DEF Moves, Taken, Says
    <3>4. toEngine' = <<>> \/ Tail(toEngine') = <<>>
      BY <3>1, <3>3, Singles DEF Says
    <3> QED BY <1>1, <1>4, <2>1, <3>1, <3>3, <3>4 DEF Pipeline, Engaged
  <2> QED BY <1>1, <2>1, <2>2, <2>3 DEF Moves
<1>5. CASE client # "handshake"
  <2>1. client \in Engaged /\ worker.at = "recv" => Idle'
    BY <1>1 DEF Pipeline, Idle, Moves, Taken
  <2>2. worker.at = "reading" => InFlight(worker.job)'
    <3> SUFFICES ASSUME worker.at = "reading" PROVE InFlight(worker.job)'
      OBVIOUS
    <3>1. worker.job \in Jobs /\ InFlight(worker.job)
      BY DEF Pipeline, Wiring, Calls
    <3>2. PICK job \in Jobs : job = worker.job
      BY <3>1
    <3>3. InFlight(job)'
      BY <1>1, <3>1, <3>2, InFlightKept
    <3> QED BY <1>1, <3>2, <3>3 DEF InFlight
  <2>3. /\ worker.at = "reading" => client \in Engaged
        /\ inbox # Nothing => client \in Engaged /\ worker.at = "recv"
        /\ client = "ready" /\ call = Nothing => inbox = Nothing /\ worker.at # "reading"
    BY DEF Pipeline
  <2>4. worker.at = "reading" => InFlight(worker.job)' /\ worker'.job = worker.job
    BY <1>1, <2>2
  <2> QED BY <1>1, <1>3, <1>5, <2>1, <2>3, <2>4 DEF Pipeline, InFlight
<1> QED BY <1>4, <1>5

LEMMA WorkerKeepsPipeline ==
    ASSUME EInv, Wiring, Pipeline, Worker, spoken' = spoken PROVE Pipeline'
<1> SUFFICES ASSUME OwnEngine, roles' = roles PROVE Pipeline'
  BY DEF Pipeline, OwnEngine, Asks, Serves, Worker, WorkerTakes, WorkerReads, WorkerReadsEof,
         WorkerEnds
<1>1. CASE WorkerTakes
  <2>1. /\ inbox # Nothing /\ inbox \in Jobs /\ client \in Engaged /\ Idle
        /\ client # "handshake" /\ ~(client = "ready" /\ call = Nothing)
        /\ inbox' = Nothing /\ UNCHANGED <<client, handling, toEngine>>
    BY <1>1 DEF WorkerTakes, Pipeline, EInv, Types, Engaged, daemonVars
  <2>2. CASE alive
    <3>1. /\ toDaemon' = <<WorkLine(inbox)>> /\ worker' = [at |-> "reading", job |-> inbox]
          /\ call' = call
      BY <1>1, <2>1, <2>2, Singles DEF WorkerTakes, Idle
    <3>2. WorkLine(inbox) \in Lines
      BY <2>1 DEF WorkLine, Lines, Jobs
    <3>3. InFlight(worker.job)'
      BY <2>1, <3>1 DEF InFlight, Idle
    <3> QED BY <2>1, <3>1, <3>2, <3>3 DEF Pipeline
  <2>3. CASE ~alive
    <3>1. worker'.at = "done" /\ toDaemon' = toDaemon
      BY <1>1, <2>3 DEF WorkerTakes, WorkerReturns
    <3> QED BY <2>1, <3>1 DEF Pipeline
  <2> QED BY <2>2, <2>3
<1>2. CASE WorkerReads
  <2>1. /\ client \in Engaged /\ client # "handshake" /\ toEngine # <<>>
        /\ toEngine' = Tail(toEngine) /\ inbox = Nothing /\ InFlight(worker.job)
        /\ worker'.at \in {"recv", "done"}
        /\ UNCHANGED <<client, inbox, handling, toDaemon>>
    BY <1>2 DEF WorkerReads, WorkerReturns, Pipeline, Engaged, daemonVars
  <2>2. toDaemon = <<>> /\ handling = Nothing /\ toEngine' = <<>>
    BY <2>1, Singles DEF InFlight
  <2>3. Idle'
    BY <2>1, <2>2 DEF Idle
  <2> QED BY <2>1, <2>2, <2>3 DEF Pipeline
<1>3. CASE WorkerReadsEof \/ WorkerEnds
  <2>1. /\ worker'.at = "done" /\ inbox = Nothing
        /\ UNCHANGED <<client, inbox, handling, toDaemon, toEngine>>
    BY <1>3 DEF WorkerReadsEof, WorkerEnds, WorkerReturns, Pipeline, daemonVars
  <2> QED BY <2>1 DEF Pipeline
<1> QED BY <1>1, <1>2, <1>3 DEF Worker

LEMMA PipelineKept == ASSUME EInv, Wiring, Numbered, Pipeline, Next PROVE Pipeline'
<1> USE DEF daemonVars, pipeVars, clientVars
<1>1. spoken \subseteq spoken' /\ roles' = roles
  BY Voices DEF Speaks
<1>2. CASE UNCHANGED <<roles, client, worker, inbox, call, toDaemon, handling, toEngine>>
  BY <1>1, <1>2, PipelineFrame
<1>3. CASE Network \/ Killed \/ Dies
  BY <1>2, <1>3 DEF Network, NetworkReplies, Killed, Crash, Dies
<1>4. CASE Worker
  BY <1>4, WorkerKeepsPipeline DEF Worker, WorkerTakes, WorkerReads, WorkerReadsEof, WorkerEnds
<1>5. CASE Daemon
  BY <1>5, DaemonKeepsPipeline DEF Daemon, Daemonic
<1>6. CASE OtherReads \/ StrangerCloses \/ (\E line \in StrayLines : OtherWrites(line))
           \/ (\E line \in StrangerLines : StrangerWrites(line))
  <2>1. ~OwnEngine
    BY <1>6 DEF OtherReads, StrangerCloses, OtherWrites, StrangerWrites, OwnEngine, Asks, Serves
  <2> QED BY <1>1, <2>1 DEF Pipeline, OwnEngine, Asks, Serves
<1>7. ASSUME OwnEngine, Greeted \/ GreetedByEof \/ Unavailable PROVE Pipeline'
  <2>1. /\ client \in {"handshake", "failing"} /\ client \notin Engaged
        /\ inbox = Nothing /\ worker.at # "reading"
        /\ UNCHANGED <<worker, inbox, call, toDaemon, handling>>
    BY <1>7 DEF Greeted, GreetedByEof, Unavailable, Pipeline, Engaged
  <2>2. CASE GreetedByEof \/ Unavailable
    <3>1. client' \in {"failing", "unavailable"} /\ toEngine' = toEngine
      BY <2>2 DEF GreetedByEof, Unavailable
    <3> QED BY <1>7, <2>1, <3>1 DEF Pipeline, Engaged
  <2>3. CASE Greeted
    <3>1. /\ client = "handshake" /\ toEngine # <<>> /\ toEngine' = Tail(toEngine)
          /\ client' \in {"ready", "failing"}
      BY <2>3 DEF Greeted
    <3>2. toDaemon = <<>> /\ handling = Nothing /\ toEngine' = <<>>
      BY <1>7, <3>1 DEF Pipeline
    <3> QED BY <1>7, <2>1, <3>1, <3>2 DEF Pipeline, Idle
  <2> QED BY <1>7, <2>2, <2>3
<1>8. ASSUME OwnEngine, Drop \/ RunEnds \/ EngineDies PROVE Pipeline'
  <2>1. /\ UNCHANGED <<toDaemon, handling, toEngine>>
        /\ \/ /\ UNCHANGED <<worker, inbox>> /\ client \in Engaged
              /\ client' \in Engaged \ {"ready"}
           \/ client' = "dead" /\ worker'.at = "done" /\ inbox' = Nothing
    BY <1>8 DEF Drop, DropKills, DropReleases, DropJoins, DropReaps, RunEnds, EngineDies, Engaged
  <2> QED BY <1>1, <1>8, <2>1 DEF Pipeline, Engaged, Idle, InFlight
<1>9. ASSUME OwnEngine, NEW work \in Works, Probe(work) PROVE Pipeline'
  <2> DEFINE job == [kind |-> "job", id |-> nextId, work |-> work]
  <2>1. /\ client = "ready" /\ call = Nothing /\ inbox = Nothing /\ worker.at # "reading"
        /\ UNCHANGED <<client, worker, toDaemon, handling, toEngine>>
    BY <1>9 DEF Probe, Pipeline
  <2>2. \/ worker.at = "done" /\ UNCHANGED <<call, inbox>>
        \/ worker.at = "recv" /\ call' = job /\ inbox' = job
    BY <1>9, <2>1 DEF Probe, Wiring, Calls
  <2>3. job # Nothing
    BY DEF Nothing
  <2> HIDE DEF job
  <2> QED BY <1>9, <2>1, <2>2, <2>3 DEF Pipeline, Engaged, Idle
<1> QED BY <1>1, <1>3, <1>4, <1>5, <1>6, <1>7, <1>8, <1>9
        DEF Next, Start, Pipeline, OwnEngine, Asks, Serves

-----------------------------------------------------------------------------
LEMMA OnceFrame ==
    ASSUME OncePerId, UNCHANGED <<roles, sent, inbox, nextId>>,
           toDaemon' = toDaemon \/ toDaemon' = <<>>,
           \A id \in Nat : Refusal(id)' => Refusal(id)
    PROVE  OncePerId'
<1>1. \A id : OnWire(id)' = OnWire(id)
  BY DEF OnWire
<1>2. Fresh' = Fresh
  BY DEF Fresh
<1>3. OwnEngine' = OwnEngine
  BY DEF OwnEngine, Asks, Serves
<1>4. \A line \in Lines : line.id \in Nat
  BY DEF Lines
<1> QED BY <1>1, <1>2, <1>3, <1>4 DEF OncePerId

\* Where the daemon's next line is the only one, reading it empties the pipe.
LEMMA TakesTheOne ==
    ASSUME OwnEngine, Pipeline, toDaemon # <<>>
    PROVE  Line \in Lines /\ toDaemon = <<Line>> /\ Tail(toDaemon) = <<>>
BY Singles DEF Pipeline, Line

\* Only Refuse writes a refusal.
LEMMA OnlyRefuseRefuses ==
    ASSUME DaemonStep, ~Refuse
    PROVE  \A id : Refusal(id)' => Refusal(id)
<1> USE DEF Refusal
<1>1. CASE StartUp \/ EndOfInput \/ Shutdown \/ Emit
  BY <1>1 DEF StartUp, EndOfInput, Shutdown, Emit
<1>2. ASSUME NEW line, line.type # "refused", spoken' \subseteq spoken \cup {line}
      PROVE  \A id : Refusal(id)' => Refusal(id)
  BY <1>2
<1>3. CASE OpenSession
  BY <1>2, <1>3 DEF OpenSession, Write, Ready
<1>4. CASE Terminate
  BY <1>2, <1>4 DEF Terminate, Fatal
<1>5. CASE NotEmitted
  BY <1>2, <1>5 DEF NotEmitted, Write, Response, Result, HostResult
<1>6. CASE Deadline \/ \E reply \in said : Poll(reply)
  <2>1. PICK st : Write(Response(handling.packet, st))
    BY <1>6 DEF Deadline, Poll, Answer
  <2> QED BY <1>2, <2>1 DEF Write, Response, Result, HostResult
<1> QED BY <1>1, <1>3, <1>4, <1>5, <1>6 DEF DaemonStep

LEMMA DaemonKeepsOnce ==
    ASSUME EInv, Pipeline, OncePerId, DaemonStep, Daemonic PROVE OncePerId'
<1> SUFFICES ASSUME OwnEngine PROVE OncePerId'
  BY DEF OncePerId, OwnEngine, Asks, Serves, Daemonic
<1>1. UNCHANGED <<roles, inbox, nextId>>
  BY DEF Daemonic, clientVars
<1>2. CASE ~Refuse /\ ~Emit
  <2>1. sent' = sent
    BY <1>2 DEF DaemonStep, StartUp, OpenSession, Terminate, Shutdown, EndOfInput,
                NotEmitted, Deadline, Poll, Answer
  <2>2. toDaemon' = toDaemon \/ (toDaemon # <<>> /\ toDaemon' = Tail(toDaemon))
    BY DaemonMoves DEF Moves, Taken, EInv
  <2> QED BY <1>1, <1>2, <2>1, <2>2, TakesTheOne, OnlyRefuseRefuses, OnceFrame
<1>3. CASE Refuse \/ Emit
  <2>1. toDaemon # <<>> /\ toDaemon' = Tail(toDaemon) /\ Line.type = "work"
    BY <1>3 DEF Refuse, Emit, Working, Reading, Took
  <2>2. toDaemon = <<Line>> /\ toDaemon' = <<>> /\ Line \in Lines
    BY <2>1, TakesTheOne
  <2>3. Line.id < Fresh /\ ~Refusal(Line.id) /\ ~OnWire(Line.id)
    BY <2>1, <2>2 DEF OncePerId
  <2>4. Fresh' = Fresh
    BY <1>1 DEF Fresh
  <2>5. CASE Refuse
    <3>1. sent' = sent /\ \A id : Refusal(id)' => Refusal(id) \/ id = Line.id
      BY <2>5 DEF Refuse, Write, Refused, Refusal
    <3>2. \A id : OnWire(id)' = OnWire(id)
      BY <3>1 DEF OnWire
    <3> QED BY <1>1, <2>2, <2>3, <2>4, <3>1, <3>2, Singles DEF OncePerId
  <2>6. CASE Emit
    <3>1. \A id : Refusal(id)' = Refusal(id)
      BY <2>6 DEF Emit, Refusal
    <3>2. \A id : OnWire(id)' => OnWire(id) \/ id = Line.id
      BY <2>6 DEF Emit, OnWire
    <3> QED BY <1>1, <2>2, <2>3, <2>4, <3>1, <3>2, Singles DEF OncePerId
  <2> QED BY <1>3, <2>5, <2>6
<1> QED BY <1>2, <1>3

LEMMA OnceKept ==
    ASSUME EInv, Wiring, Numbered, Pipeline, OncePerId, Next PROVE OncePerId'
<1> USE DEF daemonVars, pipeVars, clientVars
<1>1. roles' = roles /\ OwnEngine' = OwnEngine
  BY Voices DEF OwnEngine, Asks, Serves
<1> SUFFICES ASSUME OwnEngine PROVE OncePerId'
  BY <1>1 DEF OncePerId
<1>2. CASE UNCHANGED <<roles, sent, inbox, nextId, toDaemon, spoken>>
  BY <1>2, OnceFrame DEF Refusal
<1>3. CASE Daemon
  BY <1>3, DaemonKeepsOnce DEF Daemon, Daemonic
<1>4. CASE Network \/ Killed \/ Dies \/ Start \/ Drop \/ RunEnds
  BY <1>2, <1>4 DEF Network, NetworkReplies, Killed, Crash, Dies, Start, Greeted, GreetedByEof,
                    Unavailable, Drop, DropKills, DropReleases, DropJoins, DropReaps, RunEnds
<1>5. CASE WorkerReads \/ WorkerReadsEof \/ WorkerEnds
  BY <1>2, <1>5 DEF WorkerReads, WorkerReadsEof, WorkerEnds
<1>6. CASE OtherReads \/ StrangerCloses \/ (\E line \in StrayLines : OtherWrites(line))
           \/ (\E line \in StrangerLines : StrangerWrites(line))
  BY <1>6 DEF OtherReads, StrangerCloses, OtherWrites, StrangerWrites, OwnEngine, Asks, Serves
<1>7. nextId \in Nat /\ (inbox = Nothing \/ (inbox \in Jobs /\ inbox # Nothing /\ inbox.id \in Nat))
  BY DEF EInv, Types, Jobs, Nothing
<1>8. ASSUME UNCHANGED <<sent, spoken>>, nextId' \in Nat, Fresh' \in Nat, Fresh \in Nat,
             Fresh <= Fresh', inbox' # Nothing => inbox'.id < nextId',
             toDaemon' = toDaemon \/
               \E line \in Lines : /\ toDaemon' = <<line>> /\ line.id < Fresh'
                                   /\ ~Refusal(line.id) /\ ~OnWire(line.id)
      PROVE  OncePerId'
  <2>1. \A id : Refusal(id)' = Refusal(id) /\ OnWire(id)' = OnWire(id)
    BY <1>8 DEF Refusal, OnWire
  <2>2. \A line \in Lines : line.id \in Nat
    BY DEF Lines
  <2>3. \A id \in Nat : id < Fresh => id < Fresh'
    BY <1>8
  <2>4. ASSUME NEW line \in Lines, toDaemon' = <<line>>, line.type = "work"
        PROVE  line.id < Fresh' /\ ~Refusal(line.id) /\ ~OnWire(line.id)
    <3>1. CASE toDaemon' = toDaemon
      BY <2>2, <2>3, <2>4, <3>1 DEF OncePerId
    <3>2. CASE toDaemon' # toDaemon
      BY <1>8, <2>4, <3>2, Singles
    <3> QED BY <3>1, <3>2
  <2> QED BY <1>1, <1>8, <2>1, <2>3, <2>4 DEF OncePerId
<1>9. CASE EngineDies
  <2>1. inbox' = Nothing /\ UNCHANGED <<sent, spoken, nextId, toDaemon>>
    BY <1>9 DEF EngineDies
  <2>2. Fresh' = nextId /\ Fresh <= nextId /\ Fresh \in Nat
    BY <1>7, <2>1 DEF Fresh, OncePerId
  <2> QED BY <1>7, <1>8, <2>1, <2>2
<1>10. CASE WorkerTakes
  <2>1. /\ inbox # Nothing /\ inbox' = Nothing /\ UNCHANGED <<sent, spoken, nextId>>
        /\ inbox \in Jobs /\ Idle
    BY <1>7, <1>10 DEF WorkerTakes, Pipeline
  <2>2. /\ Fresh = inbox.id /\ inbox.id < nextId /\ Fresh' = nextId
        /\ ~Refusal(inbox.id) /\ ~OnWire(inbox.id)
    BY <1>7, <2>1 DEF Fresh, OncePerId
  <2>3. WorkLine(inbox) \in Lines /\ WorkLine(inbox).id = inbox.id
    BY <2>1 DEF WorkLine, Lines, Jobs
  <2>4. toDaemon' = toDaemon \/ toDaemon' = <<WorkLine(inbox)>>
    BY <1>10, <2>1, Singles DEF WorkerTakes, Idle
  <2> QED BY <1>7, <1>8, <2>1, <2>2, <2>3, <2>4
<1>11. ASSUME NEW work \in Works, Probe(work) PROVE OncePerId'
  <2> DEFINE job == [kind |-> "job", id |-> nextId, work |-> work]
  <2>1. /\ inbox = Nothing /\ nextId' = nextId + 1 /\ UNCHANGED <<sent, spoken, toDaemon>>
        /\ inbox' = Nothing \/ inbox' = job
    BY <1>11 DEF Probe, Pipeline
  <2>2. job # Nothing /\ job.id = nextId
    BY DEF Nothing
  <2> HIDE DEF job
  <2>3. Fresh = nextId /\ Fresh' \in {nextId, nextId + 1}
    BY <2>1, <2>2 DEF Fresh
  <2>4. /\ nextId' \in Nat /\ Fresh' \in Nat /\ Fresh \in Nat /\ Fresh <= Fresh'
        /\ inbox' # Nothing => inbox'.id < nextId'
    BY <1>7, <2>1, <2>2, <2>3
  <2> QED BY <1>8, <2>1, <2>4
<1> QED BY <1>3, <1>4, <1>5, <1>6, <1>9, <1>10, <1>11 DEF Next, Worker

-----------------------------------------------------------------------------
LEMMA AnswersInit == Init => AInv
<1> SUFFICES ASSUME Init PROVE AInv
  OBVIOUS
<1>1. /\ sent = {} /\ handling = Nothing /\ said = {} /\ spoken = {} /\ told = {}
      /\ toEngine = <<>> /\ inbox = Nothing /\ call = Nothing /\ nextId = 1 /\ strays = 0
      /\ worker = [at |-> "recv", job |-> Nothing] /\ process = "starting"
      /\ client = IF roles.engine = "client" THEN "handshake" ELSE "none"
      /\ toDaemon = IF roles.engine = "client" THEN <<InitLine(Manifest)>> ELSE <<>>
      /\ inOpen = TRUE /\ outOpen = TRUE /\ signalled = FALSE /\ sender = TRUE
      /\ roles \in [engine : {"client", "stranger"}, daemon : {"ours", "other"}]
  BY DEF Init, SessionInit
<1>2. Wiring
  <2>1. Peers
    BY <1>1 DEF Peers
  <2>2. Calls
    BY <1>1 DEF Calls, Asks, ClientStates
  <2>3. Spoken
    BY <1>1 DEF Spoken
  <2> QED BY <2>1, <2>2, <2>3 DEF Wiring
<1>3. Numbered /\ Witnessed /\ ToldBacked
  BY <1>1 DEF Numbered, Witnessed, ToldBacked
<1>4. InitLine(Manifest) \in Lines /\ InitLine(Manifest).type # "work"
  BY DEF InitLine, Lines
<1>5. Pipeline
  BY <1>1, <1>4 DEF Pipeline, Engaged, OwnEngine, Asks
<1>6. OncePerId
  <2>1. \A id : ~Refusal(id) /\ ~OnWire(id)
    BY <1>1 DEF Refusal, OnWire
  <2>2. OwnEngine => toDaemon = <<InitLine(Manifest)>>
    BY <1>1 DEF OwnEngine, Asks
  <2> QED BY <1>1, <1>4, <2>1, <2>2, Singles DEF OncePerId
<1> QED BY <1>2, <1>3, <1>5, <1>6, EmissionInit DEF AInv

LEMMA AnswersStep == AInv /\ [Next]_vars => AInv'
<1> SUFFICES ASSUME AInv, [Next]_vars PROVE AInv'
  OBVIOUS
<1> USE DEF AInv
<1>1. EInv'
  BY EmissionStep
<1>2. CASE Next
  <2>1. Wiring'
    BY <1>2, PeersKept, CallsKept, SpokenKept DEF Wiring
  <2>2. Numbered' /\ Witnessed'
    BY <1>2, NumberedKept, WitnessedKept
  <2>3. ToldBacked' /\ Pipeline' /\ OncePerId'
    BY <1>2, ToldKept, PipelineKept, OnceKept
  <2> QED BY <1>1, <2>1, <2>2, <2>3
<1>3. CASE UNCHANGED vars
  <2> USE <1>3 DEF vars, daemonVars, pipeVars, clientVars
  <2>1. Wiring'
    BY DEF Wiring, Peers, Calls, Spoken, Asks
  <2>2. Numbered'
    BY NumberedFrame
  <2>3. Witnessed'
    BY DEF Witnessed, Serves, Evidence, Witness
  <2>4. ToldBacked'
    BY ToldFrame
  <2>5. Pipeline'
    BY PipelineFrame
  <2>6. OncePerId'
    BY OnceFrame DEF Refusal
  <2> QED BY <1>1, <2>1, <2>2, <2>3, <2>4, <2>5, <2>6
<1> QED BY <1>2, <1>3

\* Client, worker, daemon and pipe stay in their types whoever holds either
\* end; the probe awaited was put on the wire; and a call is outstanding only
\* while the client still serves its run.
THEOREM ClientTypesHold == Spec => []TypeOK
<1>1. AInv => TypeOK
  <2> SUFFICES ASSUME AInv PROVE TypeOK
    OBVIOUS
  <2>1. /\ session \in {"awaiting_init", "running", "ended", "fatal"}
        /\ scope \in Scope /\ opened \in Scope /\ nextId \in Nat
        /\ prober \in [probes : Nat, counter : Nat, emitted : Nat]
    BY DEF AInv, EInv, Types, Fixed, Ledger
  <2>2. process \in {"starting", "running", "ok", "failed", "no_privilege", "killed"}
        /\ {inOpen, outOpen, signalled, sender} \subseteq BOOLEAN /\ strays \in Nat
    BY DEF AInv, Wiring, Peers
  <2>3. client \in ClientStates /\ worker.at \in {"recv", "reading", "done"}
        /\ (call # Nothing => client = "ready")
    BY DEF AInv, Wiring, Calls
  <2>4. handling # Nothing => handling.packet \in sent
    BY DEF AInv, Numbered
  <2> QED BY <2>1, <2>2, <2>3, <2>4 DEF TypeOK
<1> QED BY <1>1, AnswersInit, AnswersStep, PTL DEF Spec

\* However late, in whatever order and with whatever ports replies come back,
\* a run is told of a probe only what a line written for that probe said; this
\* daemon wrote open, closed, up or down only on a reply to the packet it sent
\* for that probe; and it sent none for a probe it refused.
THEOREM AnswersBelongToTheirProbe == Spec => []AnswersAreTheirOwn
<1>1. AInv => AnswersAreTheirOwn
  <2> SUFFICES ASSUME AInv, NEW t \in told
               PROVE  /\ t.answer \in PortStates =>
                           t.work.kind = "probe" /\ Result(t, t.answer) \in spoken
                      /\ t.answer \in HostStates =>
                           t.work.kind = "icmp_probe" /\ HostResult(t, t.answer) \in spoken
                      /\ Serves("ours") =>
                           /\ t.answer = "open"   => Witness(t, "syn_ack")
                           /\ t.answer = "closed" => Witness(t, "rst")
                           /\ t.answer = "up"     => Witness(t, "echo_reply")
                           /\ t.answer = "down"   => Witness(t, "echo_unreachable")
                           /\ t.answer = "refused" => \A packet \in sent : packet.id # t.id
    BY DEF AnswersAreTheirOwn
  <2>1. t.id \in Nat /\ Backed(t) /\ Asks("client")
    BY DEF AInv, ToldBacked, Wiring, Peers, Asks
  <2>2. ASSUME Serves("ours"), t.answer \in {"open", "closed"} PROVE Evidence(Result(t, t.answer))
    BY <2>1, <2>2 DEF Backed, AInv, Witnessed, PortStates
  <2>3. ASSUME Serves("ours"), t.answer \in {"up", "down"} PROVE Evidence(HostResult(t, t.answer))
    BY <2>1, <2>3 DEF Backed, AInv, Witnessed, HostStates
  <2>4. ASSUME Serves("ours")
        PROVE  /\ t.answer = "open"   => Witness(t, "syn_ack")
               /\ t.answer = "closed" => Witness(t, "rst")
               /\ t.answer = "up"     => Witness(t, "echo_reply")
               /\ t.answer = "down"   => Witness(t, "echo_unreachable")
    BY <2>2, <2>3, <2>4 DEF Evidence, Result, HostResult, Witness
  <2>5. ASSUME Serves("ours"), t.answer = "refused" PROVE \A packet \in sent : packet.id # t.id
    <3>1. OwnEngine /\ Refusal(t.id)
      BY <2>1, <2>5 DEF OwnEngine, Backed
    <3>2. ~OnWire(t.id)
      BY <2>1, <3>1 DEF AInv, OncePerId
    <3> QED BY <3>2 DEF OnWire
  <2> QED BY <2>1, <2>4, <2>5 DEF Backed
<1> QED BY <1>1, AnswersInit, AnswersStep, PTL DEF Spec
=============================================================================
