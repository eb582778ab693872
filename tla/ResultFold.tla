----------------------------- MODULE ResultFold -----------------------------
(***************************************************************************)
(* bathy-query's two pure functions: fold_events, which turns an event log *)
(* into what it says about each endpoint, and diff, which classifies what  *)
(* changed between two folds and refuses to where silence proves nothing.  *)
(*                                                                         *)
(* Every value an event carries is a number, so that events compare as the *)
(* code's TieKey does; 0 stands for None or for a field another kind has.  *)
(***************************************************************************)
EXTENDS Naturals, Sequences, FiniteSets, SequencesExt

\* What a service.observed concluded, and the probe and rule that did.
NoObservation == [service |-> 0, product |-> 0, version |-> 0, confidence |-> 0, rule |-> 0]

\* EventBody: at is the endpoint, what the plan, the host, the counters or
\* the reason.
Body(kind) == [kind |-> kind, at |-> 0, state |-> 0, seen |-> NoObservation,
               refs |-> <<>>, what |-> 0]
Started(plan)           == [Body("started") EXCEPT !.what = plan]
Host(host)              == [Body("host") EXCEPT !.what = host]
PortState(e, st, refs)  == [Body("port") EXCEPT !.at = e, !.state = st, !.refs = refs]
Service(e, seen, refs)  == [Body("service") EXCEPT !.at = e, !.seen = seen, !.refs = refs]
Progress                == Body("progress")
Denied(reason)          == [Body("denied") EXCEPT !.what = reason]
Completed(counters)     == [Body("completed") EXCEPT !.what = counters]
Failed(reason)          == [Body("failed") EXCEPT !.what = reason]

TerminalKinds == {"denied", "completed", "failed"}

Observation == [service : Nat, product : Nat, version : Nat, confidence : Nat, rule : Nat]
EventBody ==
    [kind : {"started", "host", "port", "service", "progress"} \cup TerminalKinds,
     at : Nat, state : Nat, seen : Observation, refs : Seq(Nat), what : Nat]
Event == [sequence : Nat, body : EventBody]

-----------------------------------------------------------------------------
(* The order events are folded in.                                         *)

KindRank == [started |-> 0, host |-> 1, port |-> 2, service |-> 3, progress |-> 4,
             denied |-> 5, completed |-> 6, failed |-> 7]

\* Every field the fold reads, and no other.
tie_key(event) ==
    LET b == event.body
    IN  <<KindRank[b.kind], b.at, b.state, b.seen.service, b.seen.product, b.seen.version,
          b.seen.confidence, b.seen.rule, b.what>> \o b.refs

\* Ord on tuples and slices.
Less(s, t) ==
    \E n \in 1..Len(t) :
      /\ \A i \in 1..(n - 1) : i <= Len(s) /\ s[i] = t[i]
      /\ Len(s) < n \/ s[n] < t[n]

\* Mutant of Precedes: equal sequence numbers keep the caller's order.
PrecedesBySequence(a, b) == a.sequence < b.sequence

Precedes(a, b) ==
    \/ a.sequence < b.sequence
    \/ a.sequence = b.sequence /\ Less(tie_key(a), tie_key(b))

\* total_order: an insertion sort is stable, as the code's is.
Insert(sorted, event) ==
    LET after == Cardinality({i \in DOMAIN sorted : ~Precedes(event, sorted[i])})
    IN  SubSeq(sorted, 1, after) \o <<event>> \o SubSeq(sorted, after + 1, Len(sorted))

total_order(events) == FoldLeft(Insert, <<>>, events)

-----------------------------------------------------------------------------
(* ScanFold.                                                               *)

NoEndpoint == [state |-> 0, seen |-> NoObservation, refs |-> <<>>]
EmptyFold  == [endpoints |-> <<>>, hosts_up |-> {}, terminal |-> Progress, plan_hash |-> 0]

\* EndpointState::cite, for each reference in turn.
cite(refs, digest) == IF digest \in ToSet(refs) THEN refs ELSE Append(refs, digest)

Entry(fold, e) == IF e \in DOMAIN fold.endpoints THEN fold.endpoints[e] ELSE NoEndpoint

Put(fold, e, entry) ==
    [fold EXCEPT !.endpoints = [x \in DOMAIN fold.endpoints \cup {e} |->
                                  IF x = e THEN entry ELSE fold.endpoints[x]]]

\* Mutant of Cited: the latest event's references replace the earlier ones.
CitedLast(refs, more) == more

Cited(refs, more) == FoldLeft(cite, refs, more)

\* The loop body of fold_events.
Apply(fold, event) ==
    LET b == event.body
        entry == Entry(fold, b.at)
        refs == Cited(entry.refs, b.refs)
    IN  CASE b.kind = "progress" -> fold
          [] b.kind = "started"  -> [fold EXCEPT !.plan_hash = b.what]
          [] b.kind = "host"     -> [fold EXCEPT !.hosts_up = @ \cup {b.what}]
          [] b.kind = "port"     -> Put(fold, b.at, [entry EXCEPT !.state = b.state, !.refs = refs])
          [] b.kind = "service"  -> Put(fold, b.at, [entry EXCEPT !.seen = b.seen, !.refs = refs])
          [] b.kind \in TerminalKinds -> [fold EXCEPT !.terminal = b]

fold_events(events) == FoldLeft(Apply, EmptyFold, total_order(events))

-----------------------------------------------------------------------------
(* diff.                                                                   *)

completed(fold) == fold.terminal.kind = "completed"

\* Mutant of comparability: two completed scans are always comparable.
ComparableIfCompleted(before, after) ==
    IF completed(before) /\ completed(after) THEN "evidence" ELSE "scan_incomplete"

\* Whether an endpoint's absence from one fold is evidence, and if not why.
comparability(before, after) ==
    IF ~completed(before) \/ ~completed(after) THEN "scan_incomplete"
    ELSE IF before.plan_hash = 0 \/ before.plan_hash # after.plan_hash
         THEN "coverage_differs" ELSE "evidence"

\* The first difference in the order ChangeKind declares, or "unchanged".
classify(b, a) ==
    IF b.state # a.state THEN "state_changed"
    ELSE IF b.seen.service # a.seen.service THEN "service_changed"
    ELSE IF b.seen.product # a.seen.product THEN "product_changed"
    ELSE IF b.seen.version # a.seen.version THEN "version_changed"
    ELSE IF b.seen.confidence # a.seen.confidence THEN "confidence_only"
    ELSE "unchanged"

\* What diff says of one endpoint of the union of the two folds.
Verdict(before, after, e) ==
    IF e \in DOMAIN before.endpoints \cap DOMAIN after.endpoints
    THEN classify(before.endpoints[e], after.endpoints[e])
    ELSE IF comparability(before, after) # "evidence" THEN "undetermined"
    ELSE IF e \in DOMAIN before.endpoints THEN "disappeared" ELSE "appeared"

Either(before, after) == DOMAIN before.endpoints \cup DOMAIN after.endpoints

diff(before, after) ==
    LET ruled == [e \in Either(before, after) |-> Verdict(before, after, e)]
    IN  [changes      |-> [e \in {x \in DOMAIN ruled :
                                    ruled[x] \notin {"unchanged", "undetermined"}} |-> ruled[e]],
         unchanged    |-> Cardinality({e \in DOMAIN ruled : ruled[e] = "unchanged"}),
         undetermined |-> {e \in DOMAIN ruled : ruled[e] = "undetermined"},
         undecidable  |-> comparability(before, after)]

\* retain_substantive, the default of result.diff.
retain_substantive(d) ==
    [d EXCEPT !.changes = [e \in {x \in DOMAIN d.changes : d.changes[x] # "confidence_only"}
                             |-> d.changes[e]]]
=============================================================================
