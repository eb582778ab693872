------------------------------ MODULE Approval ------------------------------
(***************************************************************************)
(* scan.start of one MCP server process: the manifest decides, then the    *)
(* threshold, then a human, and only then is a scan recorded (server.rs    *)
(* start, approval.rs, tools/scan.rs admit and begin).                     *)
(*                                                                         *)
(* Calls are handled concurrently.  Asking a human ends the first call     *)
(* with a sealed token; the retry carries the token and the answer, so     *)
(* everything it claims is checked against the seal, the clock and the     *)
(* nonces already redeemed.  The manifest file may be edited between the   *)
(* two, and the process restarted: its key, its nonce counter and its set  *)
(* of redeemed nonces live in memory, the scans in the store.              *)
(*                                                                         *)
(* A seal is external (rmcp's RequestStateCodec): a token opens under the  *)
(* key, principal and arguments it was sealed for, strictly before its     *)
(* expiry.  start_or_reuse is the atomic promise TaskStore implements.     *)
(***************************************************************************)
EXTENDS ScanPlan

CONSTANTS
    Handlers,       \* calls handled at a time
    Principals,     \* who callers say they are
    Requests,       \* calls that may be made,
    Arguments,      \* and the argument object of each
    Manifests,      \* states the manifest file may be in,
    Document,       \* and the manifest each loads
    Threshold,      \* addresses a scan may have without asking
    Ttl,            \* how long a token can be redeemed
    MaxClock,       \* bound: the clock
    MaxIssued,      \* bound: tokens sealed
    MaxBoots        \* bound: processes

ASSUME ApprovalAssumption ==
    /\ \A m \in Manifests : Loads(Document[m])
    /\ \A r \in Requests : /\ Arguments[r].targets \in Seq(TargetSpecs) \ {<<>>}
                           /\ Arguments[r].ports \in Seq(PortSpecs) \ {<<>>}
    /\ Threshold \in Nat
    /\ Ttl \in Nat \ {0}
    /\ MaxClock \in Nat /\ MaxIssued \in Nat /\ MaxBoots \in Nat

VARIABLES
    clock,          \* wall-clock time
    manifest,       \* what the manifest file holds
    boot,           \* which process is running; its signing key is its own
    counter,        \* the next nonce
    redeemed,       \* nonces redeemed, and when each may be forgotten
    tokens,         \* every token sealed and handed out
    call,           \* what each handler is doing
    scans,          \* the store: scans recorded, with what they were recorded on
    spent,          \* history: tokens consume let through,
    respent         \* and those it let through more than once

vars == <<clock, manifest, boot, counter, redeemed, tokens, call, scans, spent, respent>>
gate == <<counter, redeemed, tokens, spent, respent>>

NoToken == [nonce |-> 0, boot |-> 0]

\* What a call was planned from: its arguments and the manifest it read.
Plannable == {r \in Requests : Builds(Arguments[r])} \X Manifests
Plan(x)   == build(Arguments[x[1]], Document[x[2]])

\* The pairs with one ScanPlan::hash.
SameHash == {y \in Plannable \X Plannable : Plan(y[1]) = Plan(y[2])}

\* AuthorizedScan::authorize, at every moment; a denied or unplannable request
\* leaves no trace.
Authorized == {a \in Plannable \X (0..MaxClock) : evaluate(Plan(a[1]), Document[a[1][2]], a[2])}

\* requires_approval: the plans with more addresses than the threshold.
Wide == {x \in Plannable : Cardinality(Plan(x).targets) > Threshold}

Idle == [at |-> "idle"]

Init ==
    /\ clock = 0
    /\ manifest \in Manifests
    /\ boot = 1
    /\ counter = 1
    /\ redeemed = {}
    /\ tokens = {}
    /\ call = [h \in Handlers |-> Idle]
    /\ scans = {}
    /\ spent = {}
    /\ respent = {}

Goto(h, at) == call' = [call EXCEPT ![h].at = at]

\* The call answers; whatever the answer is, the handler is free again.
Return(h) == call' = [call EXCEPT ![h] = Idle]

-----------------------------------------------------------------------------
\* admit: the manifest is read anew for every call, and a request it does not
\* authorize ends there.  A client may present any token that was handed out;
\* at or below the threshold it is not looked at.
Admit(h) ==
    /\ call[h] = Idle
    /\ \E p \in Principals, r \in Requests :
         LET plan == <<r, manifest>>
         IN  /\ <<plan, clock>> \in Authorized
             /\ \E t \in {NoToken} \cup (IF plan \in Wide THEN tokens ELSE {}) :
                  call' = [call EXCEPT ![h] =
                             [at |-> IF plan \in Wide THEN "gate" ELSE "begin",
                              principal |-> p, request |-> r, plan |-> plan,
                              token |-> t, now |-> 0, approved |-> FALSE]]
    /\ UNCHANGED <<clock, manifest, boot, gate, scans>>

\* 3a: nobody has been asked.  The token binds who and what was asked.
Challenge(h) ==
    /\ call[h].at = "gate" /\ call[h].token = NoToken
    /\ Cardinality(tokens) < MaxIssued
    /\ counter' = counter + 1
    /\ tokens' = tokens \cup
         {[nonce |-> counter, boot |-> boot, principal |-> call[h].principal,
           request |-> call[h].request, plan |-> call[h].plan, expires |-> clock + Ttl]}
    /\ Return(h)
    /\ UNCHANGED <<clock, manifest, boot, redeemed, scans, spent, respent>>

\* A client that cannot be asked is refused with -32021.
MissingCapability(h) ==
    /\ call[h].at = "gate" /\ call[h].token = NoToken
    /\ Return(h)
    /\ UNCHANGED <<clock, manifest, boot, gate, scans>>

\* Mutant of Opens: the key outlives the process.
OpensAnyBoot(t, c) ==
    t.principal = c.principal /\ t.request = c.request /\ clock < t.expires

\* Mutant of Opens: the token is not bound to the arguments.
OpensAnyArguments(t, c) ==
    t.boot = boot /\ t.principal = c.principal /\ clock < t.expires

\* open_json_with: this process's key, this principal, these arguments.
Opens(t, c) ==
    /\ t.boot = boot
    /\ t.principal = c.principal
    /\ t.request = c.request
    /\ clock < t.expires

Open(h) ==
    /\ call[h].at = "gate" /\ call[h].token # NoToken
    /\ IF Opens(call[h].token, call[h]) THEN Goto(h, "opened") ELSE Return(h)
    /\ UNCHANGED <<clock, manifest, boot, gate, scans>>

\* consume reads the clock once more, before it has the mutex; time may have
\* passed since the token was opened, and may pass before the mutex is taken.
ReadClock(h) ==
    /\ call[h].at = "opened"
    /\ call' = [call EXCEPT ![h].at = "consume", ![h].now = clock]
    /\ UNCHANGED <<clock, manifest, boot, gate, scans>>

\* Mutant of forget_at: a nonce is forgotten when its token was half way.
ForgetEarly(now) == now + (Ttl \div 2)

forget_at(now) == now + Ttl

\* Mutant of Granted: the plan the human saw is not compared.
GrantedAnyPlan(c, approved) == approved

\* The rest of redeem: the plan the human was shown, and a yes.
Granted(c, approved) == <<c.token.plan, c.plan>> \in SameHash /\ approved

\* What the nonce set holds once the call has the mutex: not what may be
\* forgotten by the time it read.
Live(c) == {e \in redeemed : e.forget > c.now}

\* insert: an entry of the nonce is replaced, so a refused replay makes the
\* nonce be remembered longer.
Remember(c) ==
    redeemed' = {e \in Live(c) : e.nonce # c.token.nonce} \cup
                  {[nonce |-> c.token.nonce, forget |-> forget_at(c.now)]}

\* consume: under the mutex, a nonce that is still there is refused before
\* the answer, which may be anything, is read.
Consume(h) ==
    /\ call[h].at = "consume"
    /\ Remember(call[h])
    /\ IF \E e \in Live(call[h]) : e.nonce = call[h].token.nonce
       THEN Return(h) /\ UNCHANGED <<spent, respent>>
       ELSE /\ spent' = spent \cup {call[h].token}
            /\ respent' = respent \cup ({call[h].token} \cap spent)
            /\ \E approved \in BOOLEAN :
                 IF Granted(call[h], approved)
                 THEN call' = [call EXCEPT ![h].at = "begin", ![h].approved = approved]
                 ELSE Return(h)
    /\ UNCHANGED <<clock, manifest, boot, counter, tokens, scans>>

Key(c) == Arguments[c.request].key

\* begin: start_or_reuse, atomically.  A key that is taken starts nothing,
\* whether it is reused or refused, and the approval is spent all the same.
Begin(h) ==
    /\ call[h].at = "begin"
    /\ LET c == call[h]
       IN  scans' = IF \E s \in scans : Key(s) = Key(c) THEN scans
                    ELSE scans \cup {[request |-> c.request, principal |-> c.principal,
                                      plan |-> c.plan, token |-> c.token,
                                      approved |-> c.approved, boot |-> boot]}
    /\ Return(h)
    /\ UNCHANGED <<clock, manifest, boot, gate>>

-----------------------------------------------------------------------------
\* Time passes, between any two steps of a call as well.
Tick ==
    /\ clock < MaxClock
    /\ clock' = clock + 1
    /\ UNCHANGED <<manifest, boot, gate, call, scans>>

EditManifest ==
    /\ manifest' \in Manifests \ {manifest}
    /\ UNCHANGED <<clock, boot, gate, call, scans>>

\* The process dies with its calls; the next one has a fresh key.
Restart ==
    /\ boot < MaxBoots
    /\ boot' = boot + 1
    /\ counter' = 1
    /\ redeemed' = {}
    /\ call' = [h \in Handlers |-> Idle]
    /\ UNCHANGED <<clock, manifest, tokens, scans, spent, respent>>

Handle(h) ==
    \/ Admit(h) \/ Challenge(h) \/ MissingCapability(h) \/ Open(h)
    \/ ReadClock(h) \/ Consume(h) \/ Begin(h)

Next == (\E h \in Handlers : Handle(h)) \/ Tick \/ EditManifest \/ Restart

Spec == Init /\ [][Next]_vars

-----------------------------------------------------------------------------
(* Properties.                                                             *)

Token == [nonce : Nat \ {0}, boot : Nat \ {0}, principal : Principals, request : Requests,
          plan : Plannable, expires : Nat]

Active == [at : {"gate", "opened", "consume", "begin"}, principal : Principals,
           request : Requests, plan : Plannable, token : tokens \cup {NoToken},
           now : 0..clock, approved : BOOLEAN]

\* Every variable has its type; a nonce is only ever one this process drew.
TypeOK ==
    /\ clock \in Nat /\ manifest \in Manifests /\ boot \in Nat \ {0}
    /\ counter \in Nat \ {0}
    /\ redeemed \subseteq [nonce : 1..(counter - 1), forget : Nat]
    /\ tokens \subseteq Token
    /\ call \in [Handlers -> {Idle} \cup Active]
    /\ respent \subseteq spent /\ spent \subseteq tokens

\* While it can be redeemed at all, an approval is redeemed at most once: not
\* by two retries at a time, not after its nonce was forgotten, not by the
\* process that follows.  Only a call that opened the token before it expired
\* and reached the nonce set after can redeem it again (respent is then not
\* empty), which the doc of redeem, "has not been redeemed before", leaves out.
OneUseBeforeExpiry == \A t \in respent : t.expires <= clock

\* A wide scan is recorded on an approval: this process asked this caller
\* about these arguments and this very plan, the answer was yes, and no other
\* scan was started on it.
WideScansApproved ==
    /\ \A s \in scans : s.plan \in Wide =>
         /\ s.token \in tokens /\ s.token.boot = s.boot /\ s.approved
         /\ s.token.principal = s.principal /\ s.token.request = s.request
         /\ <<s.token.plan, s.plan>> \in SameHash
         /\ s.token \in spent
    /\ \A s, t \in scans :
         s.plan \in Wide /\ t.plan \in Wide /\ s.token = t.token => s = t

\* A plan that may be carried out under a manifest: its units are the product
\* of its addresses and ports, each once, none outside what the manifest
\* allows, no more addresses than the cap, within the manifest's ceiling.
Lawful == {x \in Plannable :
    LET plan == Plan(x)
        read == Document[x[2]]
    IN  /\ units(plan) = [target : plan.targets, port : plan.ports]
        /\ \A u \in units(plan) : allows(read, u.target) /\ u.port \in Ports
        /\ Cardinality(plan.targets) \in 1..MAX_TARGETS
        /\ \A b \in DOMAIN plan.budgets : plan.budgets[b] <= read.ceiling[b]}

\* However the caller spelled it and whatever the manifest file says by now,
\* what is recorded is lawful under the manifest its call read.
RecordedPlansLawful == \A s \in scans : s.plan \in Lawful
=============================================================================
