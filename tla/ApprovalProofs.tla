--------------------------- MODULE ApprovalProofs ---------------------------
(***************************************************************************)
(* What is proved of Approval for any number of calls, tokens, restarts    *)
(* and manifests: an approval is redeemed once before it expires, a wide   *)
(* scan is recorded on one of its own, and every plan is lawful.  The last *)
(* rests on what ScanPlan's operators compute: expansion never yields more *)
(* than the pre-count, and unit numbers the product of a plan's lists.     *)
(***************************************************************************)
EXTENDS Approval, FiniteSetTheorems, TLAPS

\* A nonce names one token of its process, and no token lives longer than
\* Ttl from now.
Nonces ==
    /\ \A t \in tokens : /\ t.boot <= boot
                         /\ t.boot = boot => t.nonce < counter
                         /\ t.expires <= clock + Ttl
    /\ \A s, t \in tokens : s.boot = t.boot /\ s.nonce = t.nonce => s = t

\* The token of a call was sealed by this process, for this very call.
Issued(c) ==
    /\ c.token \in tokens /\ c.token.boot = boot
    /\ c.token.principal = c.principal /\ c.token.request = c.request

\* What consume is given was opened, and sealed before consume read the clock.
Opened ==
    \A h \in Handlers :
      /\ call[h].at \in {"opened", "consume"} => Issued(call[h])
      /\ call[h].at = "consume" => call[h].token.expires <= call[h].now + Ttl

\* A spent token that could still open is remembered until it cannot.
Remembered ==
    \A t \in spent : t.boot = boot /\ clock < t.expires =>
        \E e \in redeemed : e.nonce = t.nonce /\ t.expires <= e.forget

OnceInv == TypeOK /\ Nonces /\ Opened /\ Remembered /\ OneUseBeforeExpiry

\* A wide call gets past the gate on an approval consume let through for it.
Approved ==
    \A h \in Handlers : call[h].at = "begin" /\ call[h].plan \in Wide =>
        /\ call[h].token \in spent /\ call[h].token.boot = boot /\ call[h].approved
        /\ call[h].token.principal = call[h].principal
        /\ call[h].token.request = call[h].request
        /\ <<call[h].token.plan, call[h].plan>> \in SameHash

\* start_or_reuse records one scan for a key.
KeyedOnce == \A s, t \in scans : Key(s) = Key(t) => s = t

WideInv == OnceInv /\ Approved /\ KeyedOnce /\ WideScansApproved

USE ApprovalAssumption, PlanAssumption DEF ApprovalAssumption, PlanAssumption

-----------------------------------------------------------------------------
LEMMA OnceInit == Init => OnceInv
<1> SUFFICES ASSUME Init PROVE OnceInv
  OBVIOUS
<1>1. TypeOK
  BY DEF Init, TypeOK, Idle
<1>2. Nonces /\ Opened /\ Remembered /\ OneUseBeforeExpiry
  BY DEF Init, Nonces, Opened, Remembered, OneUseBeforeExpiry, Idle
<1> QED BY <1>1, <1>2 DEF OnceInv

\* A call that is doing something has every field.
LEMMA Busy ==
    ASSUME TypeOK, NEW h \in Handlers, call[h].at # "idle"
    PROVE  call[h] \in Active
BY DEF TypeOK, Idle

\* A step that only moves one call, and past no opened token, keeps OnceInv.
LEMMA MoveKeepsOnce ==
    ASSUME OnceInv, NEW h \in Handlers, NEW c \in {Idle} \cup Active, c.at \notin {"opened", "consume"},
           call' = [call EXCEPT ![h] = c],
           UNCHANGED <<clock, manifest, boot, gate>>
    PROVE  OnceInv'
<1> USE DEF OnceInv, gate
<1>1. Active' = Active
  BY DEF Active
<1>2. TypeOK'
  BY <1>1 DEF TypeOK
<1>3. Opened'
  <2>1. \A g \in Handlers : call'[g].at \in {"opened", "consume"} => call'[g] = call[g]
    BY DEF TypeOK
  <2> QED BY <2>1 DEF Opened, Issued
<1>4. Nonces' /\ Remembered' /\ OneUseBeforeExpiry'
  BY DEF Nonces, Remembered, OneUseBeforeExpiry
<1> QED BY <1>2, <1>3, <1>4

\* What admit lets in, and where it sends it.
LEMMA Admitted ==
    ASSUME TypeOK, NEW h \in Handlers, Admit(h)
    PROVE  \E c \in Active :
             /\ call' = [call EXCEPT ![h] = c]
             /\ c.at = IF c.plan \in Wide THEN "gate" ELSE "begin"
<1> DEFINE to(p, r, t) ==
      [at |-> IF <<r, manifest>> \in Wide THEN "gate" ELSE "begin",
       principal |-> p, request |-> r, plan |-> <<r, manifest>>,
       token |-> t, now |-> 0, approved |-> FALSE]
<1>1. PICK p \in Principals, r \in Requests :
        /\ <<<<r, manifest>>, clock>> \in Authorized
        /\ \E t \in {NoToken} \cup (IF <<r, manifest>> \in Wide THEN tokens ELSE {}) :
             call' = [call EXCEPT ![h] = to(p, r, t)]
  BY DEF Admit
<1>2. PICK t \in {NoToken} \cup tokens : call' = [call EXCEPT ![h] = to(p, r, t)]
  BY <1>1
<1>3. <<r, manifest>> \in Plannable
  BY <1>1 DEF Authorized
<1>4. to(p, r, t) \in Active
  BY <1>3 DEF Active, TypeOK
<1>5. to(p, r, t).at = IF to(p, r, t).plan \in Wide THEN "gate" ELSE "begin"
  OBVIOUS
<1> HIDE DEF to
<1> QED BY <1>2, <1>4, <1>5

LEMMA AdmitOnce == ASSUME OnceInv, NEW h \in Handlers, Admit(h) PROVE OnceInv'
<1>1. PICK c \in Active : /\ call' = [call EXCEPT ![h] = c]
                          /\ c.at = IF c.plan \in Wide THEN "gate" ELSE "begin"
  BY Admitted DEF OnceInv
<1>2. UNCHANGED <<clock, manifest, boot, gate>>
  BY DEF Admit
<1> QED BY <1>1, <1>2, MoveKeepsOnce

LEMMA ChallengeOnce == ASSUME OnceInv, NEW h \in Handlers, Challenge(h) PROVE OnceInv'
<1> USE DEF OnceInv
<1> DEFINE new == [nonce |-> counter, boot |-> boot, principal |-> call[h].principal,
                   request |-> call[h].request, plan |-> call[h].plan, expires |-> clock + Ttl]
<1>1. /\ counter' = counter + 1 /\ tokens' = tokens \cup {new}
      /\ UNCHANGED <<clock, manifest, boot, redeemed, scans, spent, respent>>
      /\ call' = [call EXCEPT ![h] = Idle]
  BY DEF Challenge, Return
<1>2. call[h] \in Active
  BY Busy DEF Challenge
<1>3. new \in Token
  BY <1>2 DEF TypeOK, Token, Active
<1>4. Active \subseteq Active'
  BY <1>1 DEF Active
<1>5. TypeOK'
  BY <1>1, <1>3, <1>4 DEF TypeOK
<1>6. Nonces'
  <2>1. \A t \in tokens : t \in Token /\ t.expires <= clock + Ttl /\ t.boot <= boot
    BY DEF Nonces, TypeOK
  <2>2. \A t \in tokens : t.boot = boot => t.nonce < counter
    BY DEF Nonces
  <2>3. new.nonce = counter /\ new.boot = boot /\ new.expires = clock + Ttl
    OBVIOUS
  <2>4. counter \in Nat /\ boot \in Nat /\ clock \in Nat
    BY DEF TypeOK
  <2>5. \A t \in tokens' : /\ t.boot <= boot' /\ t.expires <= clock' + Ttl
                           /\ t.boot = boot' => t.nonce < counter'
    BY <1>1, <2>1, <2>2, <2>3, <2>4 DEF Token
  <2>6. \A s, t \in tokens' : s.boot = t.boot /\ s.nonce = t.nonce => s = t
    BY <1>1, <2>1, <2>2, <2>3, <2>4 DEF Nonces, Token
  <2> QED BY <2>5, <2>6 DEF Nonces
<1>7. Opened'
  <2>1. \A g \in Handlers : call'[g].at \in {"opened", "consume"} => call'[g] = call[g]
    BY <1>1 DEF TypeOK, Idle
  <2> QED BY <1>1, <2>1 DEF Opened, Issued
<1>8. Remembered' /\ OneUseBeforeExpiry'
  BY <1>1 DEF Remembered, OneUseBeforeExpiry
<1> QED BY <1>5, <1>6, <1>7, <1>8

LEMMA MissingOnce == ASSUME OnceInv, NEW h \in Handlers, MissingCapability(h) PROVE OnceInv'
<1>1. Idle.at \notin {"opened", "consume"} /\ call' = [call EXCEPT ![h] = Idle]
  BY DEF MissingCapability, Return, Idle
<1>2. UNCHANGED <<clock, manifest, boot, gate>>
  BY DEF MissingCapability
<1> QED BY <1>1, <1>2, MoveKeepsOnce

LEMMA OpenOnce == ASSUME OnceInv, NEW h \in Handlers, Open(h) PROVE OnceInv'
<1> USE DEF OnceInv
<1>1. UNCHANGED <<clock, manifest, boot, gate>>
  BY DEF Open
<1>2. call[h] \in Active /\ call[h].token \in tokens
  BY Busy DEF Open, Active
<1>3. CASE ~Opens(call[h].token, call[h])
  <2>1. Idle.at \notin {"opened", "consume"} /\ call' = [call EXCEPT ![h] = Idle]
    BY <1>3 DEF Open, Return, Idle
  <2> QED BY <2>1, <1>1, MoveKeepsOnce
<1>4. CASE Opens(call[h].token, call[h])
  <2>1. call' = [call EXCEPT ![h].at = "opened"]
    BY <1>4 DEF Open, Goto
  <2>2. TypeOK'
    BY <1>1, <1>2, <2>1 DEF TypeOK, Active, gate
  <2>3. Opened'
    BY <1>1, <1>2, <1>4, <2>1 DEF Opened, Opens, Issued, TypeOK, Active, gate
  <2>4. Nonces' /\ Remembered' /\ OneUseBeforeExpiry'
    BY <1>1 DEF gate, Nonces, Remembered, OneUseBeforeExpiry
  <2> QED BY <2>2, <2>3, <2>4
<1> QED BY <1>3, <1>4

LEMMA ReadClockOnce == ASSUME OnceInv, NEW h \in Handlers, ReadClock(h) PROVE OnceInv'
<1> USE DEF OnceInv
<1>1. /\ UNCHANGED <<clock, manifest, boot, gate>> /\ call[h].at = "opened"
      /\ call' = [call EXCEPT ![h].at = "consume", ![h].now = clock]
  BY DEF ReadClock
<1>2. /\ call[h] \in Active /\ Issued(call[h]) /\ clock \in Nat
      /\ call[h].token.expires <= clock + Ttl
  BY <1>1, Busy DEF Opened, Issued, Nonces, TypeOK
<1>3. /\ call'[h].at = "consume" /\ call'[h].now = clock
      /\ call'[h].token = call[h].token /\ call'[h].principal = call[h].principal
      /\ call'[h].request = call[h].request
      /\ \A g \in Handlers : g # h => call'[g] = call[g]
  BY <1>1, <1>2 DEF TypeOK, Active
<1>4. TypeOK'
  <2>1. Active' = Active
    BY <1>1 DEF Active, gate
  <2>2. [call[h] EXCEPT !.at = "consume", !.now = clock] \in Active
    <3>1. clock \in 0..clock
      BY <1>2
    <3> DEFINE times == 0..clock
    <3>2. /\ clock \in times
          /\ call[h] \in [at : {"gate", "opened", "consume", "begin"},
                           principal : Principals, request : Requests, plan : Plannable,
                           token : tokens \cup {NoToken}, now : times, approved : BOOLEAN]
      BY <1>2, <3>1 DEF Active
    <3> HIDE DEF times
    <3>3. [call[h] EXCEPT !.at = "consume", !.now = clock]
            \in [at : {"gate", "opened", "consume", "begin"},
                principal : Principals, request : Requests, plan : Plannable,
                token : tokens \cup {NoToken}, now : times, approved : BOOLEAN]
      BY <3>2
    <3> QED BY <3>3 DEF Active, times
  <2>3. call' = [call EXCEPT ![h] = [call[h] EXCEPT !.at = "consume", !.now = clock]]
    BY <1>1, <1>2 DEF TypeOK
  <2>4. call' \in [Handlers -> {Idle} \cup Active]
    BY <2>2, <2>3 DEF TypeOK
  <2> QED BY <1>1, <2>1, <2>4 DEF TypeOK, gate
<1>5. Opened'
  <2>1. UNCHANGED <<boot, tokens>>
    BY <1>1 DEF gate
  <2>2. Issued(call[h])'
    BY <1>2, <1>3, <2>1 DEF Issued
  <2>3. call'[h].token.expires <= call'[h].now + Ttl
    BY <1>2, <1>3
  <2>4. ASSUME NEW g \in Handlers, g # h
        PROVE  /\ call'[g].at \in {"opened", "consume"} => Issued(call[g])'
               /\ call'[g].at = "consume" => call'[g].token.expires <= call'[g].now + Ttl
    BY <1>3, <2>1, <2>4 DEF Opened, Issued
  <2> QED BY <2>2, <2>3, <2>4 DEF Opened
<1>6. Nonces' /\ Remembered' /\ OneUseBeforeExpiry'
  BY <1>1 DEF gate, Nonces, Remembered, OneUseBeforeExpiry
<1> QED BY <1>4, <1>5, <1>6

\* The heart of it: a spent token consume lets through again has expired, for
\* had it not, its nonce would still be remembered.
LEMMA ConsumedLate ==
    ASSUME OnceInv, NEW h \in Handlers, Consume(h), call[h].token \in spent,
           ~\E e \in Live(call[h]) : e.nonce = call[h].token.nonce
    PROVE  call[h].token.expires <= clock
<1>1. call[h] \in Active /\ call[h].at = "consume" /\ call[h].token.boot = boot
  BY Busy DEF OnceInv, Opened, Issued, Consume
<1>2. /\ call[h].token \in Token /\ call[h].token.expires \in Nat
      /\ clock \in Nat /\ call[h].now \in Nat /\ call[h].now <= clock
  BY <1>1 DEF OnceInv, TypeOK, Active, Token
<1> SUFFICES ASSUME clock < call[h].token.expires PROVE FALSE
  BY <1>2
<1>3. PICK e \in redeemed : e.nonce = call[h].token.nonce /\ call[h].token.expires <= e.forget
  BY <1>1 DEF OnceInv, Remembered
<1>4. e.forget \in Nat
  BY DEF OnceInv, TypeOK
<1>5. e.forget > call[h].now
  BY <1>2, <1>3, <1>4
<1> QED BY <1>3, <1>5 DEF Live

LEMMA ConsumeOnce == ASSUME OnceInv, NEW h \in Handlers, Consume(h) PROVE OnceInv'
<1> USE DEF OnceInv
<1> DEFINE entry == [nonce |-> call[h].token.nonce, forget |-> call[h].now + Ttl]
<1>1. /\ UNCHANGED <<clock, manifest, boot, counter, tokens, scans>>
      /\ redeemed' = {e \in Live(call[h]) : e.nonce # call[h].token.nonce} \cup {entry}
      /\ \/ call' = [call EXCEPT ![h] = Idle] /\ UNCHANGED <<spent, respent>>
         \/ /\ ~\E e \in Live(call[h]) : e.nonce = call[h].token.nonce
            /\ spent' = spent \cup {call[h].token}
            /\ respent' = respent \cup ({call[h].token} \cap spent)
            /\ \/ \E a \in BOOLEAN :
                    call' = [call EXCEPT ![h].at = "begin", ![h].approved = a]
               \/ call' = [call EXCEPT ![h] = Idle]
  BY DEF Consume, Return, Remember, forget_at
<1>2. /\ call[h] \in Active /\ call[h].at = "consume" /\ Issued(call[h])
      /\ call[h].token.expires <= call[h].now + Ttl
  BY Busy DEF Consume, Opened
<1>3. /\ call[h].token \in tokens /\ call[h].token.boot = boot
      /\ call[h].token \in Token /\ call[h].token.nonce < counter
      /\ call[h].now \in Nat /\ call[h].now <= clock /\ clock \in Nat
  BY <1>2 DEF Issued, Nonces, TypeOK, Active
<1>4. entry \in [nonce : 1..(counter - 1), forget : Nat]
  BY <1>3 DEF TypeOK, Token
<1>5. Active' = Active /\ Idle.at # "consume" /\ Idle.at # "opened"
  BY <1>1 DEF Active, Idle
<1>6. /\ call' \in [Handlers -> {Idle} \cup Active]
      /\ \A g \in Handlers : call'[g].at \in {"opened", "consume"} => call'[g] = call[g]
  <2>1. CASE call' = [call EXCEPT ![h] = Idle]
    BY <2>1, <1>5 DEF TypeOK
  <2>2. CASE \E a \in BOOLEAN : call' = [call EXCEPT ![h].at = "begin", ![h].approved = a]
    <3>1. PICK a \in BOOLEAN : call' = [call EXCEPT ![h].at = "begin", ![h].approved = a]
      BY <2>2
    <3>2. [call[h] EXCEPT !.at = "begin", !.approved = a] \in Active
      BY <1>2 DEF Active
    <3>3. call' = [call EXCEPT ![h] = [call[h] EXCEPT !.at = "begin", !.approved = a]]
      BY <3>1, <1>2 DEF TypeOK
    <3>4. [call[h] EXCEPT !.at = "begin", !.approved = a].at = "begin"
      BY <1>2 DEF Active
    <3> QED BY <3>2, <3>3, <3>4 DEF TypeOK
  <2> QED BY <1>1, <2>1, <2>2
<1>7. OneUseBeforeExpiry'
  BY <1>1, ConsumedLate DEF OneUseBeforeExpiry
<1>8. TypeOK'
  <2>1. redeemed' \subseteq [nonce : 1..(counter' - 1), forget : Nat]
    BY <1>1, <1>4 DEF TypeOK, Live
  <2>2. respent' \subseteq spent' /\ spent' \subseteq tokens'
    BY <1>1, <1>3 DEF TypeOK
  <2> QED BY <1>1, <1>5, <1>6, <2>1, <2>2 DEF TypeOK
<1>9. Opened'
  BY <1>1, <1>6 DEF Opened, Issued
<1>10. Remembered'
  <2> SUFFICES ASSUME NEW t \in spent', t.boot = boot, clock < t.expires
               PROVE  \E e \in redeemed' : e.nonce = t.nonce /\ t.expires <= e.forget
    BY <1>1 DEF Remembered
  <2>1. CASE t = call[h].token
    <3>1. entry \in redeemed'
      BY <1>1
    <3> QED BY <1>2, <2>1, <3>1
  <2>2. CASE t # call[h].token
    <3>1. t \in spent /\ t \in tokens /\ t \in Token
      BY <1>1, <2>2 DEF TypeOK
    <3>2. t.nonce # call[h].token.nonce
      BY <1>3, <2>2, <3>1 DEF Nonces
    <3>3. PICK e \in redeemed : e.nonce = t.nonce /\ t.expires <= e.forget
      BY <3>1 DEF Remembered
    <3>4. t.expires \in Nat /\ e.forget \in Nat
      BY <3>1 DEF TypeOK, Token
    <3>5. e \in Live(call[h])
      BY <1>3, <3>3, <3>4 DEF Live
    <3> QED BY <1>1, <3>2, <3>3, <3>5
  <2> QED BY <2>1, <2>2
<1>11. Nonces'
  BY <1>1 DEF Nonces
<1> QED BY <1>7, <1>8, <1>9, <1>10, <1>11

LEMMA BeginOnce == ASSUME OnceInv, NEW h \in Handlers, Begin(h) PROVE OnceInv'
<1>1. Idle.at \notin {"opened", "consume"} /\ call' = [call EXCEPT ![h] = Idle]
  BY DEF Begin, Return, Idle
<1>2. UNCHANGED <<clock, manifest, boot, gate>>
  BY DEF Begin
<1> QED BY <1>1, <1>2, MoveKeepsOnce

LEMMA TickOnce == ASSUME OnceInv, Tick PROVE OnceInv'
<1> USE DEF OnceInv
<1>1. /\ clock' = clock + 1 /\ UNCHANGED <<manifest, boot, gate, call, scans>>
      /\ clock \in Nat /\ \A t \in tokens : t.expires \in Nat
  BY DEF Tick, TypeOK, Token
<1>2. TypeOK'
  <2>1. Active \subseteq Active'
    BY <1>1 DEF Active, gate
  <2> QED BY <1>1, <2>1 DEF TypeOK, gate
<1>3. Nonces'
  BY <1>1 DEF Nonces, gate
<1>4. Opened'
  BY <1>1 DEF Opened, Issued, gate
<1>5. Remembered' /\ OneUseBeforeExpiry'
  BY <1>1 DEF Remembered, OneUseBeforeExpiry, gate, TypeOK
<1> QED BY <1>2, <1>3, <1>4, <1>5

LEMMA EditOnce == ASSUME OnceInv, EditManifest PROVE OnceInv'
<1>1. manifest' \in Manifests /\ UNCHANGED <<clock, boot, gate, call, scans>>
  BY DEF EditManifest
<1> QED BY <1>1 DEF OnceInv, TypeOK, Active, gate, Nonces, Opened, Issued, Remembered, OneUseBeforeExpiry

\* No token of an earlier process opens for this one.
LEMMA RestartOnce == ASSUME OnceInv, Restart PROVE OnceInv'
<1> USE DEF OnceInv
<1>1. /\ boot' = boot + 1 /\ counter' = 1 /\ redeemed' = {}
      /\ call' = [h \in Handlers |-> Idle]
      /\ UNCHANGED <<clock, manifest, tokens, scans, spent, respent>>
  BY DEF Restart
<1>2. /\ boot \in Nat /\ \A t \in tokens : t.boot \in Nat /\ t.boot <= boot
      /\ spent \subseteq tokens
  BY DEF TypeOK, Token, Nonces
<1>3. TypeOK'
  BY <1>1, <1>2 DEF TypeOK, Active
<1>4. Nonces'
  BY <1>1, <1>2 DEF Nonces
<1>5. Opened' /\ Remembered' /\ OneUseBeforeExpiry'
  BY <1>1, <1>2 DEF Opened, Remembered, OneUseBeforeExpiry, Idle
<1> QED BY <1>3, <1>4, <1>5

LEMMA OnceStep == OnceInv /\ [Next]_vars => OnceInv'
<1> SUFFICES ASSUME OnceInv, [Next]_vars PROVE OnceInv'
  OBVIOUS
<1>1. ASSUME NEW h \in Handlers, Handle(h) PROVE OnceInv'
  BY <1>1, AdmitOnce, ChallengeOnce, MissingOnce, OpenOnce, ReadClockOnce,
     ConsumeOnce, BeginOnce DEF Handle
<1>2. CASE UNCHANGED vars
  BY <1>2 DEF vars, OnceInv, TypeOK, Active, Nonces, Opened, Issued, Remembered,
                  OneUseBeforeExpiry
<1> QED BY <1>1, <1>2, TickOnce, EditOnce, RestartOnce DEF Next

-----------------------------------------------------------------------------
\* Every variable of the approval gate has its type, however many calls,
\* tokens and processes there are.
THEOREM Typed == Spec => []TypeOK
<1>1. OnceInv => TypeOK
  BY DEF OnceInv
<1> QED BY <1>1, OnceInit, OnceStep, PTL DEF Spec

\* Until it expires, consume lets no approval through twice, however late the
\* mutex is had and whatever was forgotten meanwhile: each redemption is
\* remembered until its token no longer opens, and a new process has a new key.
THEOREM RedeemedOnce == Spec => []OneUseBeforeExpiry
<1>1. OnceInv => OneUseBeforeExpiry
  BY DEF OnceInv
<1> QED BY <1>1, OnceInit, OnceStep, PTL DEF Spec

-----------------------------------------------------------------------------
\* The calls on the far side of the gate that needed to pass it.
Holds(h) == call[h].at = "begin" /\ call[h].plan \in Wide

\* Whatever changes but them, the scans and the approvals let through, keeps
\* what is said of them.
LEMMA NoNewHolder ==
    ASSUME WideInv, UNCHANGED <<scans, spent>>, tokens \subseteq tokens',
           \A h \in Handlers : Holds(h)' => Holds(h) /\ call'[h] = call[h] /\ boot' = boot
    PROVE  Approved' /\ KeyedOnce' /\ WideScansApproved'
<1>1. Approved'
  BY DEF WideInv, Approved, Holds
<1>2. KeyedOnce'
  BY DEF WideInv, KeyedOnce, Key
<1>3. WideScansApproved'
  BY DEF WideInv, WideScansApproved
<1> QED BY <1>1, <1>2, <1>3

LEMMA AdmitWide == ASSUME WideInv, NEW h \in Handlers, Admit(h)
                   PROVE  Approved' /\ KeyedOnce' /\ WideScansApproved'
<1>1. PICK c \in Active : /\ call' = [call EXCEPT ![h] = c]
                          /\ c.at = IF c.plan \in Wide THEN "gate" ELSE "begin"
  BY Admitted DEF WideInv, OnceInv
<1>2. \A g \in Handlers : Holds(g)' => g # h /\ call'[g] = call[g]
  BY <1>1 DEF Holds, WideInv, OnceInv, TypeOK
<1>3. UNCHANGED <<boot, tokens, spent, scans>>
  BY DEF Admit, gate
<1> QED BY <1>2, <1>3, NoNewHolder DEF Holds

\* A call that ends holds nothing.
LEMMA ReturnHolds == ASSUME TypeOK, NEW h \in Handlers, Return(h)
                     PROVE  \A g \in Handlers : Holds(g)' => g # h /\ call'[g] = call[g] /\ Holds(g)
BY DEF Return, Holds, TypeOK, Idle

LEMMA OpenWide == ASSUME WideInv, NEW h \in Handlers, Open(h)
                  PROVE  Approved' /\ KeyedOnce' /\ WideScansApproved'
<1>1. UNCHANGED <<boot, tokens, spent, scans>> /\ TypeOK
  BY DEF Open, gate, WideInv, OnceInv
<1>2. call[h] \in Active
  BY <1>1, Busy DEF Open
<1>3. \A g \in Handlers : Holds(g)' => call'[g] = call[g] /\ Holds(g)
  <2>1. CASE Return(h)
    BY <1>1, <2>1, ReturnHolds
  <2>2. CASE call' = [call EXCEPT ![h].at = "opened"]
    <3>1. call'[h].at = "opened" /\ \A g \in Handlers : g # h => call'[g] = call[g]
      BY <1>1, <1>2, <2>2 DEF TypeOK, Active
    <3> QED BY <3>1 DEF Holds
  <2> QED BY <2>1, <2>2 DEF Open, Goto
<1> QED BY <1>1, <1>3, NoNewHolder

LEMMA ReadClockWide == ASSUME WideInv, NEW h \in Handlers, ReadClock(h)
                       PROVE  Approved' /\ KeyedOnce' /\ WideScansApproved'
<1>1. UNCHANGED <<boot, tokens, spent, scans>> /\ TypeOK
  BY DEF ReadClock, gate, WideInv, OnceInv
<1>2. call[h] \in Active
  BY <1>1, Busy DEF ReadClock
<1>3. call'[h].at = "consume" /\ \A g \in Handlers : g # h => call'[g] = call[g]
  BY <1>1, <1>2 DEF ReadClock, TypeOK, Active
<1>4. \A g \in Handlers : Holds(g)' => call'[g] = call[g] /\ Holds(g)
  BY <1>3 DEF Holds
<1> QED BY <1>1, <1>4, NoNewHolder

LEMMA ConsumeWide == ASSUME WideInv, NEW h \in Handlers, Consume(h)
                     PROVE  Approved' /\ KeyedOnce' /\ WideScansApproved'
<1> USE DEF WideInv, OnceInv
<1>1. /\ UNCHANGED <<boot, tokens, scans>> /\ spent \subseteq spent'
      /\ call[h].at = "consume"
  BY DEF Consume
<1>2. call[h] \in Active /\ Issued(call[h])
  BY <1>1, Busy DEF Opened
<1>3. CASE Return(h)
  <2>1. \A g \in Handlers : Holds(g)' => call'[g] = call[g] /\ Holds(g)
    BY <1>3, ReturnHolds
  <2>2. Approved'
    BY <1>1, <2>1 DEF Approved, Holds
  <2>3. KeyedOnce'
    BY <1>1 DEF KeyedOnce, Key
  <2>4. WideScansApproved'
    BY <1>1 DEF WideScansApproved
  <2> QED BY <2>2, <2>3, <2>4
<1>4. CASE ~Return(h)
  <2>1. PICK approved \in BOOLEAN :
          /\ Granted(call[h], approved)
          /\ call' = [call EXCEPT ![h].at = "begin", ![h].approved = approved]
          /\ spent' = spent \cup {call[h].token}
    BY <1>4 DEF Consume
  <2>3. /\ call'[h].at = "begin" /\ call'[h].approved = approved
        /\ call'[h].token = call[h].token /\ call'[h].plan = call[h].plan
        /\ call'[h].principal = call[h].principal /\ call'[h].request = call[h].request
        /\ \A g \in Handlers : g # h => call'[g] = call[g]
    BY <2>1, <1>2 DEF TypeOK, Active
  <2>4. Approved'
    <3> DEFINE Stands(g) ==
          /\ call[g].token \in spent /\ call[g].token.boot = boot /\ call[g].approved
          /\ call[g].token.principal = call[g].principal
          /\ call[g].token.request = call[g].request
          /\ <<call[g].token.plan, call[g].plan>> \in SameHash
    <3>1. <<call[h].token.plan, call[h].plan>> \in SameHash /\ approved
      BY <2>1 DEF Granted
    <3>2. Stands(h)'
      <4>1. call'[h].token \in spent' /\ call'[h].token.boot = boot'
        BY <1>1, <1>2, <2>1, <2>3 DEF Issued
      <4>2. call'[h].approved
        BY <2>3, <3>1
      <4>3. /\ call'[h].token.principal = call'[h].principal
            /\ call'[h].token.request = call'[h].request
            /\ <<call'[h].token.plan, call'[h].plan>> \in SameHash
        BY <1>2, <2>3, <3>1 DEF Issued
      <4> QED BY <4>1, <4>2, <4>3
    <3>3. ASSUME NEW g \in Handlers, g # h, Holds(g)' PROVE Stands(g)'
      BY <1>1, <2>3, <3>3 DEF Approved, Holds
    <3> QED BY <3>2, <3>3 DEF Approved, Holds
  <2>5. KeyedOnce'
    BY <1>1 DEF KeyedOnce, Key
  <2>6. WideScansApproved'
    BY <1>1 DEF WideScansApproved
  <2> QED BY <2>4, <2>5, <2>6
<1> QED BY <1>3, <1>4

LEMMA BeginWide == ASSUME WideInv, NEW h \in Handlers, Begin(h)
                   PROVE  Approved' /\ KeyedOnce' /\ WideScansApproved'
<1> USE DEF WideInv, OnceInv
<1> DEFINE c == call[h]
           new == [request |-> c.request, principal |-> c.principal, plan |-> c.plan,
                   token |-> c.token, approved |-> c.approved, boot |-> boot]
<1>1. /\ c.at = "begin" /\ Return(h)
      /\ \/ scans' = scans
         \/ scans' = scans \cup {new} /\ ~\E s \in scans : Key(s) = Key(c)
      /\ UNCHANGED <<boot, tokens, spent>>
  BY DEF Begin, gate
<1>2. \A g \in Handlers : Holds(g)' => g # h /\ call'[g] = call[g] /\ Holds(g)
  BY <1>1, ReturnHolds
<1>3. CASE scans' = scans
  BY <1>1, <1>2, <1>3, NoNewHolder DEF Holds
<1>4. CASE scans' = scans \cup {new} /\ ~\E s \in scans : Key(s) = Key(c)
  <2>1. Approved'
    BY <1>1, <1>2 DEF Approved, Holds
  <2>2. KeyedOnce'
    <3>1. \A s \in scans : Key(s) # Key(new)
      BY <1>4 DEF Key
    <3>2. \A s, t \in scans' : Key(s) = Key(t) => s = t
      <4> HIDE DEF new
      <4> QED BY <1>4, <3>1 DEF KeyedOnce
    <3> QED BY <3>2 DEF KeyedOnce, Key
  <2>3. \A s, t \in scans' : s.request = t.request => s = t
    BY <2>2 DEF KeyedOnce, Key
  <2>4. new.plan \in Wide =>
          /\ new.token \in tokens /\ new.token.boot = new.boot /\ new.approved
          /\ new.token.principal = new.principal /\ new.token.request = new.request
          /\ <<new.token.plan, new.plan>> \in SameHash /\ new.token \in spent
    BY <1>1 DEF Approved, TypeOK
  <2> HIDE DEF new
  <2>5. \A s \in scans' : s.plan \in Wide => s.token.request = s.request
    BY <1>4, <2>4 DEF WideScansApproved
  <2>6. WideScansApproved'
    BY <1>1, <1>4, <2>3, <2>4, <2>5 DEF WideScansApproved
  <2> QED BY <2>1, <2>2, <2>6
<1> QED BY <1>1, <1>3, <1>4

LEMMA WideStep == WideInv /\ [Next]_vars => WideInv'
<1> SUFFICES ASSUME WideInv, [Next]_vars PROVE WideInv'
  OBVIOUS
<1>1. OnceInv'
  BY OnceStep DEF WideInv
<1>2. ASSUME NEW h \in Handlers, Challenge(h) \/ MissingCapability(h)
      PROVE  Approved' /\ KeyedOnce' /\ WideScansApproved'
  <2>1. Return(h) /\ UNCHANGED <<boot, spent, scans>> /\ tokens \subseteq tokens'
    BY <1>2 DEF Challenge, MissingCapability, gate
  <2>2. \A g \in Handlers : Holds(g)' => call'[g] = call[g] /\ Holds(g)
    BY <2>1, ReturnHolds DEF WideInv, OnceInv
  <2> QED BY <2>1, <2>2, NoNewHolder
<1>3. CASE Tick \/ EditManifest \/ UNCHANGED vars
  <2>1. UNCHANGED <<boot, tokens, spent, scans, call>>
    BY <1>3 DEF Tick, EditManifest, vars, gate
  <2> QED BY <1>1, <2>1, NoNewHolder DEF Holds, WideInv
<1>4. CASE Restart
  <2>1. UNCHANGED <<tokens, spent, scans>> /\ \A h \in Handlers : ~Holds(h)'
    BY <1>4 DEF Restart, Holds, Idle
  <2> QED BY <1>1, <2>1, NoNewHolder DEF WideInv
<1>5. ASSUME NEW h \in Handlers, Handle(h)
      PROVE  Approved' /\ KeyedOnce' /\ WideScansApproved'
  BY <1>2, <1>5, AdmitWide, OpenWide, ReadClockWide, ConsumeWide, BeginWide DEF Handle
<1> QED BY <1>1, <1>3, <1>4, <1>5 DEF Next, WideInv

\* Every wide scan in the store stands on an approval of its own: given in
\* this process, to this caller, for these arguments and this plan, and yes.
THEOREM WideScansStandOnApproval == Spec => []WideScansApproved
<1>1. Init => WideInv
  BY OnceInit DEF Init, WideInv, Approved, KeyedOnce, WideScansApproved, Idle
<1>2. WideInv => WideScansApproved
  BY DEF WideInv
<1> QED BY <1>1, <1>2, WideStep, PTL DEF Spec

-----------------------------------------------------------------------------
(* What a plan computes from a request: expansion, its pre-count, the port   *)
(* selection and the numbering of the units.                                 *)

\* Induction over the numbers, for a set instead of a formula.
LEMMA SetInduction ==
   ASSUME NEW S, 0 \in S, \A n \in Nat : n \in S => n + 1 \in S
   PROVE  Nat \subseteq S
<1> SUFFICES ASSUME Nat \ S # {} PROVE FALSE
  OBVIOUS
<1>1. Nat \ S \subseteq Nat
  OBVIOUS
<1> DEFINE R == OpToRel(<, Nat)
<1>2. PICK x \in Nat \ S : \A y \in Nat \ S : ~(<<y, x>> \in R)
  <2> HIDE DEF R
  <2>1. IsWellFoundedOn(R, Nat)
    BY NatLessThanWellFounded DEF R
  <2> QED BY <1>1, <2>1, WFMin
<1>3. \A y \in Nat : y < x => <<y, x>> \in R
  BY DEF OpToRel
<1>4. x \in Nat /\ x # 0 /\ x - 1 \in Nat /\ x - 1 < x
  OBVIOUS
<1>5. x - 1 \in S
  BY <1>2, <1>3, <1>4
<1> QED BY <1>4, <1>5

\* 1 << n, unfolded.
LEMMA Doubles ==
    power2 = [n \in 0..AddressBits |-> IF n = 0 THEN 1 ELSE 2 * power2[n - 1]]
<1> DEFINE To(m, f) == f = [n \in 0..m |-> IF n = 0 THEN 1 ELSE 2 * f[n - 1]]
           S == {m \in Nat : \E f : To(m, f)}
<1>1. 0 \in S
  <2>1. To(0, [n \in 0..0 |-> 1])
    OBVIOUS
  <2> QED BY <2>1
<1>2. ASSUME NEW m \in Nat, m \in S PROVE m + 1 \in S
  <2>1. PICK f : To(m, f)
    BY <1>2
  <2> DEFINE g == [n \in 0..(m + 1) |-> IF n = 0 THEN 1 ELSE 2 * f[n - 1]]
  <2>2. \A n \in 0..m : g[n] = f[n]
    BY <2>1
  <2>3. ASSUME NEW n \in 0..(m + 1)
        PROVE  g[n] = IF n = 0 THEN 1 ELSE 2 * g[n - 1]
    <3>1. CASE n = 0
      BY <3>1
    <3>2. CASE n # 0
      <4>1. n - 1 \in 0..m
        BY <3>2
      <4>2. g[n - 1] = f[n - 1]
        BY <2>2, <4>1
      <4>3. g[n] = 2 * f[n - 1]
        BY <3>2
      <4> QED BY <3>2, <4>2, <4>3
    <3> QED BY <3>1, <3>2
  <2>4. To(m + 1, g)
    <3>1. g = [n \in 0..(m + 1) |-> g[n]]
      OBVIOUS
    <3> HIDE DEF g
    <3> QED BY <2>3, <3>1
  <2>5. \E h : To(m + 1, h)
    <3> HIDE DEF g, To
    <3> QED BY <2>4
  <2> HIDE DEF To
  <2> QED BY <2>5
<1>3. \E f : To(AddressBits, f)
  <2> HIDE DEF To
  <2>1. Nat \subseteq S
    <3> HIDE DEF S
    <3> QED BY <1>1, <1>2, SetInduction
  <2> QED BY <2>1
<1> QED BY <1>3 DEF power2

LEMMA PowerIsPositive ==
    ASSUME NEW n \in 0..AddressBits
    PROVE  power2[n] \in Nat /\ power2[n] >= 1 /\ (n >= 2 => power2[n] >= 4)
<1> DEFINE Good(k) == power2[k] \in Nat /\ power2[k] >= 1
                      /\ (k >= 1 => power2[k] >= 2) /\ (k >= 2 => power2[k] >= 4)
           S == {k \in Nat : k <= AddressBits => Good(k)}
<1>1. 0 \in S
  BY Doubles
<1>2. ASSUME NEW m \in Nat, m \in S PROVE m + 1 \in S
  <2> SUFFICES ASSUME m + 1 <= AddressBits PROVE Good(m + 1)
    OBVIOUS
  <2>1. Good(m)
    BY <1>2
  <2>2. power2[m + 1] = 2 * power2[m]
    BY Doubles
  <2> QED BY <2>1, <2>2
<1>3. Nat \subseteq S
  <2> HIDE DEF S
  <2> QED BY <1>1, <1>2, SetInduction
<1> QED BY <1>3

-----------------------------------------------------------------------------
LEMMA IntervalCounted ==
    ASSUME NEW a \in Int, NEW b \in Int, a <= b
    PROVE  IsFiniteSet(a..b) /\ a..b \subseteq Int /\ Cardinality(a..b) = b - a + 1
<1>1. ~(a > b)
  OBVIOUS
<1> QED BY <1>1, FS_Interval

\* What is counted without enumerating is what enumerating gives.
LEMMA HostsCounted ==
    ASSUME NEW spec \in TargetSpecs, ~Rejected(spec)
    PROVE  /\ IsFiniteSet(hosts_of(spec)) /\ hosts_of(spec) \subseteq Int
           /\ count_of(spec) \in Nat \ {0}
           /\ Cardinality(hosts_of(spec)) = count_of(spec)
<1>1. /\ power2[AddressBits] \in Nat /\ spec.from \in Int /\ spec.to \in Int
      /\ spec.prefix \in 0..AddressBits
  BY PowerIsPositive DEF TargetSpecs, Addresses
<1>2. CASE spec.kind # "net"
  <2>1. spec.from <= spec.to
    BY <1>1, <1>2 DEF TargetSpecs, Rejected
  <2>2. /\ hosts_of(spec) = spec.from..spec.to
        /\ count_of(spec) = spec.to - spec.from + 1
    BY <1>2 DEF hosts_of, count_of
  <2>3. spec.to - spec.from + 1 \in Nat \ {0}
    BY <1>1, <2>1
  <2> QED BY <1>1, <2>1, <2>2, <2>3, IntervalCounted
<1>3. CASE spec.kind = "net"
  <2>1. span(spec) \in Nat /\ span(spec) >= 1
        /\ (spec.prefix < AddressBits - 1 => span(spec) >= 4)
    BY <1>1, PowerIsPositive DEF span
  <2>2. spec.from % span(spec) \in Int
    BY <1>1, <2>1
  <2>3. network(spec) \in Int /\ broadcast(spec) \in Int
        /\ broadcast(spec) = network(spec) + span(spec) - 1
    BY <1>1, <2>1, <2>2 DEF network, broadcast
  <2>4. CASE spec.prefix < AddressBits - 1
    <3> DEFINE a == network(spec) + 1
               b == broadcast(spec) - 1
    <3>1. a \in Int /\ b \in Int /\ a <= b /\ b - a + 1 = span(spec) - 2
      BY <2>1, <2>3, <2>4
    <3>2. hosts_of(spec) = a..b /\ count_of(spec) = span(spec) - 2
      BY <1>3, <2>4 DEF hosts_of, usable_hosts, count_of
    <3>3. span(spec) - 2 \in Nat \ {0}
      BY <2>1, <2>4
    <3> HIDE DEF a, b
    <3> QED BY <3>1, <3>2, <3>3, IntervalCounted
  <2>5. CASE ~(spec.prefix < AddressBits - 1)
    <3> DEFINE a == network(spec)
               b == broadcast(spec)
    <3>1. a \in Int /\ b \in Int /\ a <= b /\ b - a + 1 = span(spec)
      BY <2>1, <2>3
    <3>2. hosts_of(spec) = a..b /\ count_of(spec) = span(spec)
      BY <1>3, <2>5 DEF hosts_of, usable_hosts, covers, count_of
    <3>3. span(spec) \in Nat \ {0}
      BY <2>1
    <3> HIDE DEF a, b
    <3> QED BY <3>1, <3>2, <3>3, IntervalCounted
  <2> QED BY <2>4, <2>5
<1> QED BY <1>2, <1>3

\* The running total of the pre-count, unfolded.
LEMMA Totals ==
    ASSUME NEW specs \in Seq(TargetSpecs)
    PROVE  \E f : /\ f = [n \in 0..Len(specs) |->
                            IF n = 0 THEN 0 ELSE f[n - 1] + count_of(specs[n])]
                  /\ projected(specs) = f[Len(specs)]
<1> DEFINE To(m, f) == f = [n \in 0..m |-> IF n = 0 THEN 0 ELSE f[n - 1] + count_of(specs[n])]
           S == {m \in Nat : \E f : To(m, f)}
<1>1. 0 \in S
  <2>1. To(0, [n \in 0..0 |-> 0])
    OBVIOUS
  <2> QED BY <2>1
<1>2. ASSUME NEW m \in Nat, m \in S PROVE m + 1 \in S
  <2>1. PICK f : To(m, f)
    BY <1>2
  <2> DEFINE g == [n \in 0..(m + 1) |-> IF n = 0 THEN 0 ELSE f[n - 1] + count_of(specs[n])]
  <2>2. \A n \in 0..m : g[n] = f[n]
    BY <2>1
  <2>3. ASSUME NEW n \in 0..(m + 1)
        PROVE  g[n] = IF n = 0 THEN 0 ELSE g[n - 1] + count_of(specs[n])
    <3>1. CASE n = 0
      BY <3>1
    <3>2. CASE n # 0
      <4>1. n - 1 \in 0..m
        BY <3>2
      <4>2. g[n - 1] = f[n - 1]
        BY <2>2, <4>1
      <4>3. g[n] = f[n - 1] + count_of(specs[n])
        BY <3>2
      <4> QED BY <3>2, <4>2, <4>3
    <3> QED BY <3>1, <3>2
  <2>4. To(m + 1, g)
    <3>1. g = [n \in 0..(m + 1) |-> g[n]]
      OBVIOUS
    <3> HIDE DEF g
    <3> QED BY <2>3, <3>1
  <2>5. \E h : To(m + 1, h)
    <3> HIDE DEF g, To
    <3> QED BY <2>4
  <2> HIDE DEF To
  <2> QED BY <2>5
<1>3. \E f : To(Len(specs), f)
  <2> HIDE DEF To
  <2>1. Nat \subseteq S
    <3> HIDE DEF S
    <3> QED BY <1>1, <1>2, SetInduction
  <2> QED BY <2>1
<1> QED BY <1>3 DEF projected

\* Overlapping specs make the pre-count too high, never too low.
THEOREM ExpansionWithinCount ==
    ASSUME NEW specs \in Seq(TargetSpecs), specs # <<>>,
           \A i \in 1..Len(specs) : ~Rejected(specs[i])
    PROVE  LET T == expand_targets(specs)
           IN  /\ IsFiniteSet(T) /\ T \subseteq Int
               /\ projected(specs) \in Nat /\ Cardinality(T) \in 1..projected(specs)
<1>1. PICK f : /\ f = [n \in 0..Len(specs) |->
                         IF n = 0 THEN 0 ELSE f[n - 1] + count_of(specs[n])]
               /\ projected(specs) = f[Len(specs)]
  BY Totals
<1>2. ASSUME NEW i \in 1..Len(specs)
      PROVE  /\ specs[i] \in TargetSpecs
             /\ IsFiniteSet(hosts_of(specs[i])) /\ hosts_of(specs[i]) \subseteq Int
             /\ count_of(specs[i]) \in Nat \ {0}
             /\ Cardinality(hosts_of(specs[i])) = count_of(specs[i])
  BY HostsCounted
<1> DEFINE upto(n) == UNION {hosts_of(specs[i]) : i \in 1..n}
           Good(n) == /\ IsFiniteSet(upto(n)) /\ upto(n) \subseteq Int
                      /\ f[n] \in Nat /\ Cardinality(upto(n)) <= f[n]
           S == {n \in Nat : n <= Len(specs) => Good(n)}
<1>3. 0 \in S
  <2>1. upto(0) = {}
    OBVIOUS
  <2>2. f[0] = 0
    BY <1>1
  <2>3. Good(0)
    <3>1. IsFiniteSet(upto(0)) /\ Cardinality(upto(0)) = 0
      BY <2>1, FS_EmptySet
    <3>2. upto(0) \subseteq Int
      BY <2>1
    <3>3. f[0] \in Nat /\ Cardinality(upto(0)) <= f[0]
      BY <2>2, <3>1
    <3> QED BY <3>1, <3>2, <3>3
  <2> QED BY <2>3
<1>4. ASSUME NEW n \in Nat, n \in S PROVE n + 1 \in S
  <2> SUFFICES ASSUME n + 1 <= Len(specs) PROVE Good(n + 1)
    OBVIOUS
  <2>1. Good(n)
    BY <1>4
  <2> DEFINE A == upto(n)
             B == hosts_of(specs[n + 1])
  <2>2. n + 1 \in 1..Len(specs)
    OBVIOUS
  <2>3. /\ IsFiniteSet(B) /\ B \subseteq Int /\ Cardinality(B) = count_of(specs[n + 1])
        /\ count_of(specs[n + 1]) \in Nat
    BY <1>2, <2>2
  <2>4. upto(n + 1) = A \cup B
    <3>1. 1..(n + 1) = 1..n \cup {n + 1}
      OBVIOUS
    <3> QED BY <3>1
  <2>5. f[n + 1] = f[n] + count_of(specs[n + 1])
    BY <1>1, <2>2
  <2>6. IsFiniteSet(A) /\ A \subseteq Int /\ f[n] \in Nat /\ Cardinality(A) <= f[n]
    BY <2>1
  <2> HIDE DEF A, B, upto
  <2>7. /\ IsFiniteSet(A \cup B)
        /\ Cardinality(A \cup B) = Cardinality(A) + Cardinality(B) - Cardinality(A \cap B)
    BY <2>3, <2>6, FS_Union
  <2>8. IsFiniteSet(A \cap B)
    BY <2>3, <2>6, FS_Intersection
  <2>9. Cardinality(A) \in Nat /\ Cardinality(B) \in Nat /\ Cardinality(A \cap B) \in Nat
    BY <2>3, <2>6, <2>8, FS_CardinalityType
  <2>10. Cardinality(A \cup B) <= f[n] + count_of(specs[n + 1])
    BY <2>3, <2>6, <2>7, <2>9
  <2>11. f[n] + count_of(specs[n + 1]) \in Nat
    BY <2>3, <2>6
  <2> QED BY <2>3, <2>4, <2>5, <2>6, <2>7, <2>10, <2>11
<1>5. Good(Len(specs))
  <2> HIDE DEF Good
  <2>1. Nat \subseteq S
    <3> HIDE DEF S
    <3> QED BY <1>3, <1>4, SetInduction
  <2> QED BY <2>1
<1>6. expand_targets(specs) = upto(Len(specs))
  BY DEF expand_targets, Elements
<1>7. upto(Len(specs)) # {}
  <2>1. 1 \in 1..Len(specs)
    OBVIOUS
  <2>2. hosts_of(specs[1]) # {}
    BY <1>2, <2>1, FS_EmptySet
  <2> QED BY <2>1, <2>2
<1> HIDE DEF upto
<1>8. Cardinality(upto(Len(specs))) \in Nat \ {0}
  BY <1>5, <1>7, FS_EmptySet, FS_CardinalityType
<1> QED BY <1>1, <1>5, <1>6, <1>8

-----------------------------------------------------------------------------
\* A finite set of numbers is numbered by rank: the k-th is there for every k
\* below its size, and it is the only one of that rank.
LEMMA RankRises ==
    ASSUME NEW S, IsFiniteSet(S), S \subseteq Int, NEW x \in S, NEW y \in S, x < y
    PROVE  Rank(S, x) < Rank(S, y)
<1> DEFINE A == {z \in S : z < x}
           B == {z \in S : z < y}
<1>1. A \cup {x} \subseteq B /\ x \notin A /\ A \subseteq S /\ B \subseteq S
  <2>1. ASSUME NEW z \in S, z < x PROVE z < y
    BY <2>1
  <2>2. A \subseteq B
    BY <2>1
  <2>3. x \in B /\ x \notin A
    OBVIOUS
  <2> QED BY <2>2, <2>3
<1>2. Rank(S, x) = Cardinality(A) /\ Rank(S, y) = Cardinality(B)
  BY DEF Rank
<1> HIDE DEF A, B
<1>3. IsFiniteSet(A) /\ IsFiniteSet(B)
  BY <1>1, FS_Subset
<1>4. Cardinality(A \cup {x}) = Cardinality(A) + 1
  BY <1>1, <1>3, FS_AddElement
<1>5. Cardinality(A \cup {x}) <= Cardinality(B)
  BY <1>1, <1>3, FS_Subset
<1>6. Cardinality(A) \in Nat /\ Cardinality(B) \in Nat
  BY <1>3, FS_CardinalityType
<1> QED BY <1>2, <1>4, <1>5, <1>6

LEMMA RankInRange ==
    ASSUME NEW S, IsFiniteSet(S), S \subseteq Int, NEW x \in S
    PROVE  Cardinality(S) \in Nat \ {0} /\ Rank(S, x) \in 0..(Cardinality(S) - 1)
<1> DEFINE A == {z \in S : z < x}
<1>1. A \subseteq S \ {x}
  OBVIOUS
<1>2. Rank(S, x) = Cardinality(A)
  BY DEF Rank
<1> HIDE DEF A
<1>3. IsFiniteSet(S \ {x}) /\ Cardinality(S \ {x}) = Cardinality(S) - 1
  BY FS_RemoveElement
<1>4. IsFiniteSet(A) /\ Cardinality(A) <= Cardinality(S \ {x})
  BY <1>1, <1>3, FS_Subset
<1>5. Cardinality(A) \in Nat /\ Cardinality(S) \in Nat /\ Cardinality(S \ {x}) \in Nat
  BY <1>3, <1>4, FS_CardinalityType
<1> QED BY <1>2, <1>3, <1>4, <1>5

LEMMA SameRank ==
    ASSUME NEW S, IsFiniteSet(S), S \subseteq Int, NEW x \in S, NEW y \in S,
           Rank(S, x) = Rank(S, y)
    PROVE  x = y
<1>1. Rank(S, x) \in Int /\ Rank(S, y) \in Int
  <2>1. Cardinality(S) \in Int
    BY FS_CardinalityType
  <2>2. /\ Rank(S, x) \in 0..(Cardinality(S) - 1)
        /\ Rank(S, y) \in 0..(Cardinality(S) - 1)
    BY RankInRange
  <2> QED BY <2>1, <2>2
<1>2. ~(x < y)
  <2> SUFFICES ASSUME x < y PROVE FALSE
    OBVIOUS
  <2>1. Rank(S, x) < Rank(S, y)
    BY RankRises
  <2> QED BY <1>1, <2>1
<1>3. ~(y < x)
  <2> SUFFICES ASSUME y < x PROVE FALSE
    OBVIOUS
  <2>1. Rank(S, y) < Rank(S, x)
    BY RankRises
  <2> QED BY <1>1, <2>1
<1> QED BY <1>2, <1>3

LEMMA NthIsThere ==
    ASSUME NEW S, IsFiniteSet(S), S \subseteq Int, NEW k \in 0..(Cardinality(S) - 1)
    PROVE  Nth(S, k) \in S /\ Rank(S, Nth(S, k)) = k
<1>1. Cardinality(S) \in Nat
  BY FS_CardinalityType
<1> DEFINE T == 0..(Cardinality(S) - 1)
           f == [x \in S |-> Rank(S, x)]
<1>2. IsFiniteSet(T) /\ Cardinality(T) = Cardinality(S)
  <2>1. 0 <= Cardinality(S) - 1 /\ Cardinality(S) - 1 \in Int
    BY <1>1
  <2> QED BY <1>1, <2>1, IntervalCounted
<1>3. f \in [S -> T]
  BY RankInRange
<1>4. ASSUME NEW x \in S, NEW y \in S, f[x] = f[y] PROVE x = y
  <2>1. Rank(S, x) = Rank(S, y)
    BY <1>4
  <2> QED BY <2>1, SameRank
<1>5. f \in Injection(S, T)
  <2> HIDE DEF f, T
  <2> QED BY <1>3, <1>4 DEF Injection, IsInjective
<1>6. f \in Surjection(S, T)
  <2> HIDE DEF f, T
  <2> QED BY <1>2, <1>5, FS_Injection
<1>7. \E x \in S : Rank(S, x) = k
  <2>1. PICK x \in S : f[x] = k
    BY <1>6 DEF Surjection
  <2> QED BY <2>1
<1> QED BY <1>7 DEF Nth

LEMMA NthOfRank ==
    ASSUME NEW S, IsFiniteSet(S), S \subseteq Int, NEW x \in S
    PROVE  Nth(S, Rank(S, x)) = x
<1>1. Rank(S, x) \in 0..(Cardinality(S) - 1)
  BY RankInRange
<1>2. Nth(S, Rank(S, x)) \in S /\ Rank(S, Nth(S, Rank(S, x))) = Rank(S, x)
  BY <1>1, NthIsThere
<1> QED BY <1>2, SameRank

-----------------------------------------------------------------------------
\* Division, as far as the numbering needs it.
LEMMA Divides ==
    ASSUME NEW n \in Nat \ {0}, NEW m \in Nat, NEW i \in 0..((n * m) - 1)
    PROVE  i % n \in 0..(n - 1) /\ i \div n \in 0..(m - 1)
<1>1. n * m \in Nat
  OBVIOUS
<1>2. /\ i \in Nat /\ i % n \in 0..(n - 1) /\ i \div n \in Int
      /\ i = (n * (i \div n)) + (i % n)
  BY <1>1
<1> DEFINE q == i \div n
<1>3. q \in Int /\ n * q <= i /\ i < n * (q + 1)
  BY <1>2
<1> HIDE DEF q
<1>4. q >= 0
  <2> SUFFICES ASSUME q + 1 <= 0 PROVE FALSE
    BY <1>3
  <2>1. n * (q + 1) <= 0
    BY <1>3
  <2> QED BY <1>2, <1>3, <2>1
<1>5. q <= m - 1
  <2> SUFFICES ASSUME q >= m PROVE FALSE
    BY <1>3
  <2>1. n * q >= n * m
    BY <1>3
  <2>2. i <= (n * m) - 1
    OBVIOUS
  <2> QED BY <1>1, <1>2, <1>3, <2>1, <2>2
<1> QED BY <1>2, <1>3, <1>4, <1>5 DEF q

LEMMA Composes ==
    ASSUME NEW n \in Nat \ {0}, NEW m \in Nat,
           NEW r \in 0..(n - 1), NEW q \in 0..(m - 1)
    PROVE  LET i == (n * q) + r
           IN  i \in 0..((n * m) - 1) /\ i % n = r /\ i \div n = q
<1> DEFINE i == (n * q) + r
<1>1. n * q \in Nat /\ n * m \in Nat /\ i \in Nat
  OBVIOUS
<1>2. n * (q + 1) <= n * m
  OBVIOUS
<1>3. n * (q + 1) = (n * q) + n
  OBVIOUS
<1>4. i \in 0..((n * m) - 1)
  BY <1>1, <1>2, <1>3
<1>5. i % n = r /\ i \div n = q
  OBVIOUS
<1> QED BY <1>4, <1>5

\* ScanPlan::unit numbers the product of a plan's lists, whatever is in them:
\* every pair is the unit of an index below len, and of one only.
THEOREM UnitsNumberTheProduct ==
    ASSUME NEW plan, IsFiniteSet(plan.targets), plan.targets \subseteq Int,
           plan.targets # {}, IsFiniteSet(plan.ports), plan.ports \subseteq Int
    PROVE  /\ units(plan) = [target : plan.targets, port : plan.ports]
           /\ \A i, j \in 0..(len(plan) - 1) : unit(plan, i) = unit(plan, j) => i = j
<1> DEFINE n == Cardinality(plan.targets)
           m == Cardinality(plan.ports)
<1>1. n \in Nat \ {0} /\ m \in Nat
  BY FS_CardinalityType, FS_EmptySet
<1>2. ASSUME NEW i \in 0..((n * m) - 1)
      PROVE  /\ unit(plan, i).target \in plan.targets /\ unit(plan, i).port \in plan.ports
             /\ Rank(plan.targets, unit(plan, i).target) = i % n
             /\ Rank(plan.ports, unit(plan, i).port) = i \div n
             /\ unit(plan, i) \in [target : plan.targets, port : plan.ports]
  <2>1. i % n \in 0..(n - 1) /\ i \div n \in 0..(m - 1)
    <3> HIDE DEF n, m
    <3> QED BY <1>1, Divides
  <2> DEFINE r == i % n
             q == i \div n
  <2>2. /\ unit(plan, i) = [target |-> Nth(plan.targets, r), port |-> Nth(plan.ports, q)]
        /\ r \in 0..(n - 1) /\ q \in 0..(m - 1)
    BY <2>1 DEF unit
  <2> HIDE DEF r, q
  <2>3. /\ Nth(plan.targets, r) \in plan.targets /\ Rank(plan.targets, Nth(plan.targets, r)) = r
        /\ Nth(plan.ports, q) \in plan.ports /\ Rank(plan.ports, Nth(plan.ports, q)) = q
    BY <2>2, NthIsThere
  <2> QED BY <2>2, <2>3 DEF r, q
<1>3. ASSUME NEW t \in plan.targets, NEW p \in plan.ports
      PROVE  \E i \in 0..((n * m) - 1) : unit(plan, i) = [target |-> t, port |-> p]
  <2> DEFINE r == Rank(plan.targets, t)
             q == Rank(plan.ports, p)
             i == (n * q) + r
  <2>1. r \in 0..(n - 1) /\ q \in 0..(m - 1)
    BY RankInRange
  <2>2. Nth(plan.targets, r) = t /\ Nth(plan.ports, q) = p
    BY NthOfRank
  <2>3. i \in 0..((n * m) - 1) /\ i % n = r /\ i \div n = q
    <3> HIDE DEF n, m, r, q
    <3> QED BY <1>1, <2>1, Composes
  <2>4. unit(plan, i) = [target |-> t, port |-> p]
    <3> HIDE DEF r, q, i
    <3> QED BY <2>2, <2>3 DEF unit
  <2> HIDE DEF i
  <2> QED BY <2>3, <2>4
<1>4. /\ units(plan) = {unit(plan, i) : i \in 0..((n * m) - 1)}
      /\ len(plan) = n * m
  BY DEF units, len
<1> HIDE DEF n, m
<1>5. ASSUME NEW u \in [target : plan.targets, port : plan.ports] PROVE u \in units(plan)
  <2>1. u = [target |-> u.target, port |-> u.port]
    OBVIOUS
  <2>2. PICK i \in 0..((n * m) - 1) : unit(plan, i) = [target |-> u.target, port |-> u.port]
    BY <1>3
  <2> QED BY <1>4, <2>1, <2>2
<1>6. ASSUME NEW u \in units(plan) PROVE u \in [target : plan.targets, port : plan.ports]
  BY <1>2, <1>4
<1>7. ASSUME NEW i \in 0..((n * m) - 1), NEW j \in 0..((n * m) - 1),
             unit(plan, i) = unit(plan, j)
      PROVE  i = j
  <2>1. i % n = j % n /\ i \div n = j \div n
    BY <1>2, <1>7
  <2>2. n * m \in Nat
    BY <1>1
  <2>3. /\ i = (n * (i \div n)) + (i % n)
        /\ j = (n * (j \div n)) + (j % n)
    BY <1>1, <2>2
  <2> QED BY <2>1, <2>3
<1> QED BY <1>4, <1>5, <1>6, <1>7

-----------------------------------------------------------------------------
\* What resolves is a set of ports.
LEMMA PortsAreScannable ==
    ASSUME NEW specs \in Seq(PortSpecs), PortsResolve(specs)
    PROVE  /\ IsFiniteSet(resolve_ports(specs))
           /\ resolve_ports(specs) \subseteq Int /\ resolve_ports(specs) \subseteq Ports
<1>1. ASSUME NEW spec \in Elements(specs)
      PROVE  spec.from \in 1..MaxPort /\ spec.to \in 1..MaxPort
  <2>1. spec \in PortSpecs
    BY DEF Elements
  <2>2. spec.from \in 0..MaxPort /\ spec.to \in 0..MaxPort
    BY <2>1 DEF PortSpecs
  <2>3. spec.from # 0 /\ spec.from <= spec.to
    BY DEF PortsResolve
  <2> QED BY <2>2, <2>3
<1>2. resolve_ports(specs) \subseteq Ports /\ Ports \subseteq Int
  BY <1>1 DEF resolve_ports, Ports
<1>3. IsFiniteSet(Ports)
  <2>1. 1 \in Int /\ MaxPort \in Int
    OBVIOUS
  <2> QED BY <2>1, FS_Interval DEF Ports
<1> QED BY <1>2, <1>3, FS_Subset

-----------------------------------------------------------------------------
\* Plans a manifest authorized at some moment of the run.
Licit == {x \in Plannable : \E now \in 0..MaxClock : <<x, now>> \in Authorized}

\* What any call goes on with, and what is recorded, was authorized.
PlansInv ==
    /\ OnceInv
    /\ \A h \in Handlers : call[h].at # "idle" => call[h].plan \in Licit
    /\ \A s \in scans : s.plan \in Licit

\* Authorizing every address is what makes a plan lawful, unit by unit.
LEMMA LicitIsLawful == Licit \subseteq Lawful
<1> SUFFICES ASSUME NEW x \in Licit PROVE x \in Lawful
  OBVIOUS
<1> DEFINE request == Arguments[x[1]]
           read == Document[x[2]]
           plan == Plan(x)
<1>1. PICK now \in 0..MaxClock : <<x, now>> \in Authorized
  BY DEF Licit
<1>2. /\ x \in Plannable /\ x[1] \in Requests /\ Builds(request)
      /\ evaluate(plan, read, now)
  BY <1>1 DEF Authorized, Plannable, Licit
<1>3. /\ plan.targets = expand_targets(request.targets)
      /\ plan.ports = resolve_ports(request.ports)
      /\ plan.budgets = fill(request.budgets, read.ceiling)
  BY DEF Plan, build
<1>4. /\ request.targets \in Seq(TargetSpecs) /\ request.targets # <<>>
      /\ request.ports \in Seq(PortSpecs)
  BY <1>2
<1>5. /\ \A i \in 1..Len(request.targets) : ~Rejected(request.targets[i])
      /\ projected(request.targets) <= MAX_TARGETS
  BY <1>2, <1>4 DEF Builds, Expands, Elements
<1>6. /\ IsFiniteSet(plan.targets) /\ plan.targets \subseteq Int
      /\ projected(request.targets) \in Nat
      /\ Cardinality(plan.targets) \in 1..projected(request.targets)
  <2> HIDE DEF plan, request
  <2> QED BY <1>3, <1>4, <1>5, ExpansionWithinCount
<1>7. IsFiniteSet(plan.ports) /\ plan.ports \subseteq Int /\ plan.ports \subseteq Ports
  <2>1. PortsResolve(request.ports)
    BY <1>2 DEF Builds
  <2> HIDE DEF plan, request
  <2> QED BY <1>3, <1>4, <2>1, PortsAreScannable
<1> HIDE DEF plan
<1>8. plan.targets # {}
  BY <1>6, FS_EmptySet
<1>9. units(plan) = [target : plan.targets, port : plan.ports]
  BY <1>6, <1>7, <1>8, UnitsNumberTheProduct
<1>10. \A u \in units(plan) : allows(read, u.target) /\ u.port \in Ports
  BY <1>2, <1>7, <1>9 DEF evaluate
<1>11. Cardinality(plan.targets) \in 1..MAX_TARGETS
  BY <1>5, <1>6
<1>12. \A b \in DOMAIN plan.budgets : plan.budgets[b] <= read.ceiling[b]
  BY <1>2, <1>3 DEF evaluate, fill
<1> QED BY <1>2, <1>9, <1>10, <1>11, <1>12 DEF Lawful, plan

\* A step that starts or keeps only calls with licit plans, and records none.
LEMMA AdmitPlans ==
    ASSUME PlansInv, NEW h \in Handlers, Admit(h)
    PROVE  /\ \A g \in Handlers : call'[g].at # "idle" => call'[g].plan \in Licit
           /\ \A s \in scans' : s.plan \in Licit
<1>1. PICK c : call' = [call EXCEPT ![h] = c] /\ c.plan \in Licit
  <2> DEFINE to(p, r, t) ==
        [at |-> IF <<r, manifest>> \in Wide THEN "gate" ELSE "begin",
         principal |-> p, request |-> r, plan |-> <<r, manifest>>,
         token |-> t, now |-> 0, approved |-> FALSE]
  <2>1. PICK p \in Principals, r \in Requests :
          /\ <<<<r, manifest>>, clock>> \in Authorized
          /\ \E t \in {NoToken} \cup (IF <<r, manifest>> \in Wide THEN tokens ELSE {}) :
               call' = [call EXCEPT ![h] = to(p, r, t)]
    BY DEF Admit
  <2>2. PICK t : call' = [call EXCEPT ![h] = to(p, r, t)]
    BY <2>1
  <2>3. to(p, r, t).plan = <<r, manifest>>
    OBVIOUS
  <2>4. <<r, manifest>> \in Licit
    <3>1. \A a \in Authorized : a[1] \in Plannable /\ a[2] \in 0..MaxClock
      BY DEF Authorized
    <3>2. <<r, manifest>> \in Plannable /\ clock \in 0..MaxClock
      BY <2>1, <3>1
    <3> QED BY <2>1, <3>2 DEF Licit
  <2> HIDE DEF to
  <2> QED BY <2>2, <2>3, <2>4
<1>2. call \in [Handlers -> {Idle} \cup Active] /\ UNCHANGED scans
  BY DEF Admit, PlansInv, OnceInv, TypeOK
<1> QED BY <1>1, <1>2 DEF PlansInv

\* Every other step of a call keeps its plan or ends it; begin records it.
LEMMA HandlePlans ==
    ASSUME PlansInv, NEW h \in Handlers, Handle(h), ~Admit(h)
    PROVE  /\ \A g \in Handlers : call'[g].at # "idle" => call'[g].plan \in Licit
           /\ \A s \in scans' : s.plan \in Licit
<1>1. call \in [Handlers -> {Idle} \cup Active]
  BY DEF PlansInv, OnceInv, TypeOK
<1>2. call[h].at # "idle" /\ call[h] \in Active /\ call[h].plan \in Licit
  <2>1. call[h].at # "idle"
    BY DEF Handle, Challenge, MissingCapability, Open, ReadClock, Consume, Begin
  <2> QED BY <1>1, <2>1 DEF PlansInv, Idle
<1>3. \/ call' = [call EXCEPT ![h] = Idle]
      \/ call' = [call EXCEPT ![h].at = "opened"]
      \/ call' = [call EXCEPT ![h].at = "consume", ![h].now = clock]
      \/ \E a \in BOOLEAN : call' = [call EXCEPT ![h].at = "begin", ![h].approved = a]
  BY DEF Handle, Challenge, MissingCapability, Open, ReadClock, Consume, Begin, Return, Goto
<1>4. \A g \in Handlers : \/ call'[g] = call[g]
                          \/ call'[g] = Idle
                          \/ g = h /\ call'[g].plan = call[h].plan
  BY <1>1, <1>2, <1>3 DEF Active
<1>5. \A s \in scans' : s \in scans \/ s.plan = call[h].plan
  BY DEF Handle, Challenge, MissingCapability, Open, ReadClock, Consume, Begin
<1> QED BY <1>2, <1>4, <1>5 DEF PlansInv, Idle

LEMMA PlansStep == PlansInv /\ [Next]_vars => PlansInv'
<1> SUFFICES ASSUME PlansInv, [Next]_vars PROVE PlansInv'
  OBVIOUS
<1>1. OnceInv'
  BY OnceStep DEF PlansInv
<1>2. ASSUME NEW h \in Handlers, Handle(h) PROVE PlansInv'
  BY <1>1, <1>2, AdmitPlans, HandlePlans DEF PlansInv
<1>3. CASE Tick \/ EditManifest \/ UNCHANGED vars
  BY <1>1, <1>3 DEF Tick, EditManifest, vars, PlansInv
<1>4. CASE Restart
  BY <1>1, <1>4 DEF Restart, PlansInv, Idle
<1> QED BY <1>2, <1>3, <1>4 DEF Next

\* Every recorded scan's units are the product of its addresses and ports, and
\* none lies outside what the manifest its call read allows, however the
\* request was spelled and whatever became of the file since.
THEOREM RecordedPlansAreLawful == Spec => []RecordedPlansLawful
<1>1. Init => PlansInv
  BY OnceInit DEF Init, PlansInv, Idle
<1>2. PlansInv => RecordedPlansLawful
  BY LicitIsLawful DEF PlansInv, RecordedPlansLawful
<1> QED BY <1>1, <1>2, PlansStep, PTL DEF Spec
=============================================================================
