---------------------------- MODULE ResultsProofs ----------------------------
(***************************************************************************)
(* What result.query, result.diff and evidence.get say is so, for any      *)
(* plans, captures, logs, earlier scans and any number of writers.  First  *)
(* the two pure functions: a fold is a recursion over the sorted events,   *)
(* the sort has one outcome whatever order it is given, and a log as it    *)
(* was written is in order already; so a fold is what the events say one   *)
(* after the other, and a diff classifies each endpoint of two folds once. *)
(* Then the store: a capture that a log cites was put, whole and durably,  *)
(* before it was cited.  Then what the steps of Results keep of both.      *)
(***************************************************************************)
EXTENDS Results, TLAPS, FiniteSetTheorems, FunctionTheorems, SequenceTheorems

\* Induction over the numbers, for a set instead of a formula.
LEMMA SetInduction ==
   ASSUME NEW S, 0 \in S, \A n \in Nat : n \in S => n + 1 \in S
   PROVE  Nat \subseteq S
<1> SUFFICES ASSUME Nat \ S # {} PROVE FALSE
  OBVIOUS
<1>1. Nat \ S \subseteq Nat
  OBVIOUS
<1> DEFINE R == OpToRel(<, Nat)
<1>2. PICK x \in Nat \ S : \A y \in Nat \ S : ~(<<y, x>> \in R)
  <2> HIDE DEF R
  <2>1. IsWellFoundedOn(R, Nat)
    BY NatLessThanWellFounded DEF R
  <2> QED BY <1>1, <2>1, WFMin
<1>3. \A y \in Nat : y < x => <<y, x>> \in R
  BY DEF OpToRel
<1>4. x \in Nat /\ x # 0 /\ x - 1 \in Nat /\ x - 1 < x
  OBVIOUS
<1>5. x - 1 \in S
  BY <1>2, <1>3, <1>4
<1> QED BY <1>4, <1>5

-----------------------------------------------------------------------------
(* What a fold over a sequence comes to, one element after the other.  The *)
(* three operators ResultFold folds with are told apart by a name, so that *)
(* this is said once.                                                      *)

Folder(op, result, item) ==
    CASE op = "apply"  -> Apply(result, item)
      [] op = "insert" -> Insert(result, item)
      [] op = "cite"   -> cite(result, item)

\* f[m] is what the first m elements of s give.
Folds(op, base, s, n, f) ==
    /\ DOMAIN f = 0..n /\ f[0] = base
    /\ \A m \in 1..n : f[m] = Folder(op, f[m - 1], s[m])

LEMMA MaxOfUpTo == ASSUME NEW m \in Nat \ {0} PROVE Max(1..m) = m
<1>1. m \in 1..m /\ \A y \in 1..m : m >= y
  OBVIOUS
<1>2. \A x \in 1..m : (\A y \in 1..m : x >= y) => x = m
  BY <1>1
<1> QED BY <1>1, <1>2 DEF Max

LEMMA MaxOfLast ==
    ASSUME NEW m \in Nat, NEW t \in SUBSET (1..(m + 1)), m + 1 \in t
    PROVE  Max(t) = m + 1
<1>1. \A y \in t : m + 1 >= y
  OBVIOUS
<1>2. \A x \in t : (\A y \in t : x >= y) => x = m + 1
  <2> SUFFICES ASSUME NEW x \in t, \A y \in t : x >= y PROVE x = m + 1
    OBVIOUS
  <2>1. x \in 1..(m + 1) /\ x >= m + 1
    OBVIOUS
  <2> QED BY <2>1
<1> QED BY <1>1, <1>2 DEF Max

\* The recursion MapThenFoldSet is made of, which has a solution.
Recursion(op, base, s, n, g) ==
    g = [t \in SUBSET (1..n) |->
           IF t = {} THEN base ELSE Folder(op, g[t \ {Max(t)}], s[Max(t)])]

LEMMA FoldExists ==
    ASSUME NEW op, NEW base, NEW s, NEW n \in Nat
    PROVE  \E g : Recursion(op, base, s, n, g)
<1> DEFINE Value(g, t) == IF t = {} THEN base ELSE Folder(op, g[t \ {Max(t)}], s[Max(t)])
           To(m, g) == g = [t \in SUBSET (1..m) |-> Value(g, t)]
           S == {m \in Nat : \E g : To(m, g)}
<1>1. 0 \in S
  <2> DEFINE g == [t \in SUBSET (1..0) |-> base]
  <2>1. \A t \in SUBSET (1..0) : t = {}
    OBVIOUS
  <2>2. To(0, g)
    BY <2>1
  <2> HIDE DEF g, To
  <2> QED BY <2>2
<1>2. ASSUME NEW m \in Nat, m \in S PROVE m + 1 \in S
  <2>1. PICK g : To(m, g)
    BY <1>2
  <2> DEFINE h == [t \in SUBSET (1..(m + 1)) |-> Value(g, t)]
  <2>2. \A t \in SUBSET (1..m) : h[t] = g[t]
    <3>1. SUBSET (1..m) \subseteq SUBSET (1..(m + 1))
      OBVIOUS
    <3> QED BY <2>1, <3>1
  <2>3. ASSUME NEW t \in SUBSET (1..(m + 1)), t # {}
        PROVE  t \ {Max(t)} \in SUBSET (1..m)
    <3>1. CASE m + 1 \in t
      <4>1. Max(t) = m + 1
        BY <3>1, MaxOfLast
      <4>2. t \ {m + 1} \in SUBSET (1..m)
        OBVIOUS
      <4> QED BY <4>1, <4>2
    <3>2. CASE m + 1 \notin t
      <4>1. t \in SUBSET (1..m)
        BY <3>2
      <4> QED BY <4>1
    <3> QED BY <3>1, <3>2
  <2>4. \A t \in SUBSET (1..(m + 1)) : Value(g, t) = Value(h, t)
    <3> HIDE DEF h
    <3> QED BY <2>2, <2>3
  <2>5. To(m + 1, h)
    <3>1. h = [t \in SUBSET (1..(m + 1)) |-> Value(g, t)]
      OBVIOUS
    <3> HIDE DEF h, Value
    <3> QED BY <2>4, <3>1
  <2> HIDE DEF h, To
  <2> QED BY <2>5
<1>3. \E g : To(n, g)
  <2> HIDE DEF To
  <2>1. Nat \subseteq S
    <3> HIDE DEF S
    <3> QED BY <1>1, <1>2, SetInduction
  <2> QED BY <2>1
<1> QED BY <1>3 DEF Recursion

LEMMA FoldUnfolds ==
    ASSUME NEW op \in {"apply", "insert", "cite"}, NEW base, NEW s, NEW n \in Nat,
           DOMAIN s = 1..n
    PROVE  \E f : /\ Folds(op, base, s, n, f)
                  /\ op = "apply" => FoldLeft(Apply, base, s) = f[n]
                  /\ op = "insert" => FoldLeft(Insert, base, s) = f[n]
                  /\ op = "cite" => FoldLeft(cite, base, s) = f[n]
<1> DEFINE Is(g) == Recursion(op, base, s, n, g)
<1>1. \E g : Is(g)
  BY FoldExists
<1>2. ASSUME op = "apply" PROVE \E g : Is(g) /\ FoldLeft(Apply, base, s) = g[1..n]
  BY <1>1, <1>2 DEF FoldLeft, MapThenFoldSet, Folder, Recursion
<1>3. ASSUME op = "insert" PROVE \E g : Is(g) /\ FoldLeft(Insert, base, s) = g[1..n]
  BY <1>1, <1>3 DEF FoldLeft, MapThenFoldSet, Folder, Recursion
<1>4. ASSUME op = "cite" PROVE \E g : Is(g) /\ FoldLeft(cite, base, s) = g[1..n]
  BY <1>1, <1>4 DEF FoldLeft, MapThenFoldSet, Folder, Recursion
<1>5. PICK g : /\ Is(g)
               /\ op = "apply" => FoldLeft(Apply, base, s) = g[1..n]
               /\ op = "insert" => FoldLeft(Insert, base, s) = g[1..n]
               /\ op = "cite" => FoldLeft(cite, base, s) = g[1..n]
  <2> HIDE DEF Is
  <2> QED BY <1>2, <1>3, <1>4
<1> DEFINE f == [m \in 0..n |-> g[1..m]]
<1>6. f[0] = base
  <2>1. 1..0 = {} /\ {} \in SUBSET (1..n)
    OBVIOUS
  <2> QED BY <1>5, <2>1 DEF Recursion
<1>7. ASSUME NEW m \in 1..n PROVE f[m] = Folder(op, f[m - 1], s[m])
  <2>1. 1..m \in SUBSET (1..n) /\ 1..m # {} /\ (1..m) \ {m} = 1..(m - 1)
    OBVIOUS
  <2>2. Max(1..m) = m
    BY MaxOfUpTo
  <2>3. g[1..m] = Folder(op, g[1..(m - 1)], s[m])
    BY <1>5, <2>1, <2>2 DEF Recursion
  <2> QED BY <2>3
<1>8. DOMAIN f = 0..n /\ f[n] = g[1..n]
  OBVIOUS
<1> HIDE DEF f, Is
<1> QED BY <1>5, <1>6, <1>7, <1>8 DEF Folds

-----------------------------------------------------------------------------
(* One element at a time.                                                  *)

\* Insert puts an event after those it does not precede.
Place(s, e) == Cardinality({i \in DOMAIN s : ~Precedes(e, s[i])})

LEMMA InsertShape ==
    ASSUME NEW X, NEW s \in Seq(X), NEW e \in X
    PROVE  /\ Place(s, e) \in 0..Len(s)
           /\ Insert(s, e) \in Seq(X) /\ Len(Insert(s, e)) = Len(s) + 1
           /\ \A i \in 1..Place(s, e) : Insert(s, e)[i] = s[i]
           /\ Insert(s, e)[Place(s, e) + 1] = e
           /\ \A i \in (Place(s, e) + 2)..(Len(s) + 1) : Insert(s, e)[i] = s[i - 1]
<1> DEFINE A == {i \in DOMAIN s : ~Precedes(e, s[i])}
           a == Cardinality(A)
           n == Len(s)
<1>1. n \in Nat /\ DOMAIN s = 1..n
  OBVIOUS
<1>2. IsFiniteSet(1..n) /\ Cardinality(1..n) = n
  <2>1. 1 \in Int /\ n \in Int /\ (1 > n => n = 0)
    BY <1>1
  <2> HIDE DEF n
  <2>2. IsFiniteSet(1..n) /\ Cardinality(1..n) = IF 1 > n THEN 0 ELSE n - 1 + 1
    BY <2>1, FS_Interval
  <2> QED BY <2>1, <2>2
<1>3. a \in 0..n
  <2>1. A \in SUBSET (1..n)
    BY <1>1
  <2> HIDE DEF A, n
  <2>2. IsFiniteSet(A) /\ Cardinality(A) <= n
    BY <1>2, <2>1, FS_Subset
  <2>3. Cardinality(A) \in Nat
    BY <2>2, FS_CardinalityType
  <2> QED BY <1>1, <2>2, <2>3
<1> DEFINE L == SubSeq(s, 1, a)
           R == SubSeq(s, a + 1, n)
<1>4. Insert(s, e) = (L \o <<e>>) \o R
  BY DEF Insert
<1> HIDE DEF a
<1>5. L \in Seq(X) /\ Len(L) = a /\ \A i \in 1..a : L[i] = s[i]
  <2>1. 1 \in 1..(n + 1) /\ a \in 0..n
    BY <1>1, <1>3
  <2> QED BY <1>1, <1>3, <2>1, SubSeqProperties
<1>6. R \in Seq(X) /\ Len(R) = n - a /\ \A i \in 1..(n - a) : R[i] = s[a + i]
  <2> DEFINE b == a + 1
  <2>1. b \in 1..(n + 1) /\ n \in (b - 1)..n /\ n - b + 1 = n - a
    BY <1>1, <1>3
  <2>2. \A i \in 1..(n - a) : b + i - 1 = a + i
    BY <1>1, <1>3
  <2> HIDE DEF b
  <2>3. /\ SubSeq(s, b, n) \in Seq(X) /\ Len(SubSeq(s, b, n)) = n - b + 1
        /\ \A i \in 1..(n - b + 1) : SubSeq(s, b, n)[i] = s[b + i - 1]
    BY <1>1, <2>1, SubSeqProperties
  <2> QED BY <2>1, <2>2, <2>3 DEF b
<1> HIDE DEF L, R
<1> DEFINE t == (L \o <<e>>) \o R
<1>7. /\ L \o <<e>> \in Seq(X) /\ Len(L \o <<e>>) = a + 1
      /\ \A i \in 1..a : (L \o <<e>>)[i] = s[i]
      /\ (L \o <<e>>)[a + 1] = e
  BY <1>3, <1>5
<1>8. /\ t \in Seq(X) /\ Len(t) = n + 1
      /\ \A i \in 1..(a + 1) : t[i] = (L \o <<e>>)[i]
      /\ \A i \in (a + 2)..(n + 1) : t[i] = s[i - 1]
  <2> DEFINE M == L \o <<e>>
  <2>1. M \in Seq(X) /\ Len(M) = a + 1
    BY <1>7
  <2> HIDE DEF M
  <2>2. /\ M \o R \in Seq(X) /\ Len(M \o R) = n + 1
        /\ \A i \in 1..(a + 1) : (M \o R)[i] = M[i]
    <3>1. /\ M \o R \in Seq(X) /\ Len(M \o R) = Len(M) + Len(R)
          /\ \A i \in 1..(Len(M) + Len(R)) :
               (M \o R)[i] = IF i <= Len(M) THEN M[i] ELSE R[i - Len(M)]
      BY <1>6, <2>1, ConcatProperties
    <3>2. Len(M) + Len(R) = n + 1
      BY <1>1, <1>3, <1>6, <2>1
    <3>3. ASSUME NEW i \in 1..(a + 1) PROVE (M \o R)[i] = M[i]
      <4>1. i \in 1..(n + 1) /\ i <= Len(M)
        BY <1>1, <1>3, <2>1
      <4> QED BY <3>1, <3>2, <4>1
    <3> QED BY <3>1, <3>2, <3>3
  <2>3. ASSUME NEW i \in (a + 2)..(n + 1) PROVE (M \o R)[i] = s[i - 1]
    <3>1. i - (a + 1) \in 1..(n - a) /\ a + (i - (a + 1)) = i - 1 /\ i <= Len(M) + Len(R)
      BY <1>1, <1>3, <1>6, <2>1
    <3>2. (M \o R)[i] = R[i - (a + 1)]
      <4>1. i \in 1..(Len(M) + Len(R)) /\ ~(i <= Len(M))
        BY <1>1, <1>3, <1>6, <2>1
      <4>2. (M \o R)[i] = R[i - Len(M)]
        BY <1>6, <2>1, <4>1, ConcatProperties
      <4> QED BY <2>1, <4>2
    <3> QED BY <1>6, <3>1, <3>2
  <2> QED BY <2>2, <2>3 DEF M
<1> HIDE DEF t, n
<1>9. /\ \A i \in 1..a : t[i] = s[i]
      /\ t[a + 1] = e
  <2>1. a \in Nat /\ a + 1 \in 1..(a + 1) /\ \A i \in 1..a : i \in 1..(a + 1)
    BY <1>1, <1>3
  <2>2. t[a + 1] = (L \o <<e>>)[a + 1]
    BY <1>8, <2>1
  <2>3. \A i \in 1..a : t[i] = (L \o <<e>>)[i]
    BY <1>8, <2>1
  <2> QED BY <1>7, <2>2, <2>3
<1>10. Insert(s, e) = t /\ Place(s, e) = a
  BY <1>4 DEF t, a, Place
<1> QED BY <1>3, <1>8, <1>9, <1>10 DEF n

\* Sorting keeps the events and how many there are.
LEMMA OrderHolds ==
    ASSUME NEW X, NEW events \in Seq(X)
    PROVE  total_order(events) \in Seq(X) /\ Len(total_order(events)) = Len(events)
<1> DEFINE n == Len(events)
<1>1. n \in Nat /\ DOMAIN events = 1..n
  OBVIOUS
<1>2. PICK f : Folds("insert", <<>>, events, n, f) /\ total_order(events) = f[n]
  BY <1>1, FoldUnfolds DEF total_order
<1> DEFINE Good(m) == f[m] \in Seq(X) /\ Len(f[m]) = m
           S == {m \in Nat : m <= n => Good(m)}
<1>3. 0 \in S
  <2>1. f[0] = <<>>
    BY <1>2 DEF Folds
  <2>2. f[0] \in Seq(X) /\ Len(f[0]) = 0
    BY <2>1, EmptySeq
  <2> QED BY <2>2
<1>4. ASSUME NEW m \in Nat, m \in S PROVE m + 1 \in S
  <2> SUFFICES ASSUME m + 1 <= n PROVE Good(m + 1)
    OBVIOUS
  <2>1. f[m] \in Seq(X) /\ Len(f[m]) = m /\ m + 1 \in 1..n /\ events[m + 1] \in X
    BY <1>1, <1>4
  <2>2. f[m + 1] = Insert(f[m], events[m + 1])
    BY <1>2, <2>1 DEF Folds, Folder
  <2>3. \A t \in Seq(X), e \in X : Insert(t, e) \in Seq(X) /\ Len(Insert(t, e)) = Len(t) + 1
    BY InsertShape
  <2> QED BY <2>1, <2>2, <2>3
<1>5. Nat \subseteq S
  <2> HIDE DEF S
  <2> QED BY <1>3, <1>4, SetInduction
<1> QED BY <1>1, <1>2, <1>5

\* Citing again adds nothing; citing anew adds one at the end.
LEMMA CitedHolds ==
    ASSUME NEW D, NEW refs \in Seq(D), NEW more \in Seq(D)
    PROVE  Cited(refs, more) \in Seq(D)
<1> DEFINE n == Len(more)
<1>1. n \in Nat /\ DOMAIN more = 1..n
  OBVIOUS
<1>2. PICK f : Folds("cite", refs, more, n, f) /\ Cited(refs, more) = f[n]
  BY <1>1, FoldUnfolds DEF Cited
<1> DEFINE S == {m \in Nat : m <= n => f[m] \in Seq(D)}
<1>3. 0 \in S
  BY <1>2 DEF Folds
<1>4. ASSUME NEW m \in Nat, m \in S PROVE m + 1 \in S
  <2> SUFFICES ASSUME m + 1 <= n PROVE f[m + 1] \in Seq(D)
    OBVIOUS
  <2>1. f[m] \in Seq(D) /\ m + 1 \in 1..n /\ more[m + 1] \in D
    BY <1>1, <1>4
  <2>2. f[m + 1] = cite(f[m], more[m + 1])
    BY <1>2, <2>1 DEF Folds, Folder
  <2> QED BY <2>1, <2>2 DEF cite
<1>5. Nat \subseteq S
  <2> HIDE DEF S
  <2> QED BY <1>3, <1>4, SetInduction
<1> QED BY <1>1, <1>2, <1>5

-----------------------------------------------------------------------------
(* What a fold is, and what each kind of event does to it.                 *)

Endpoint == [state : Nat, seen : Observation, refs : Seq(Nat)]

IsFold(f) ==
    /\ f = [endpoints |-> f.endpoints, hosts_up |-> f.hosts_up,
            terminal |-> f.terminal, plan_hash |-> f.plan_hash]
    /\ IsFiniteSet(DOMAIN f.endpoints) /\ f.endpoints \in [DOMAIN f.endpoints -> Endpoint]

LEMMA EmptyIsFold == IsFold(EmptyFold) /\ DOMAIN EmptyFold.endpoints = {}
<1>1. DOMAIN EmptyFold.endpoints = {} /\ EmptyFold.endpoints = <<>>
  BY DEF EmptyFold
<1>2. IsFiniteSet({})
  BY FS_EmptySet
<1>3. <<>> \in [{} -> Endpoint]
  OBVIOUS
<1> QED BY <1>1, <1>2, <1>3 DEF IsFold, EmptyFold

LEMMA EntryType ==
    ASSUME NEW f, IsFold(f), NEW e PROVE Entry(f, e) \in Endpoint
<1>1. NoEndpoint \in Endpoint
  BY DEF NoEndpoint, NoObservation, Endpoint, Observation
<1> QED BY <1>1 DEF Entry, IsFold

LEMMA EventFields ==
    ASSUME NEW event \in Event
    PROVE  LET b == event.body
           IN  /\ event.sequence \in Nat /\ b.at \in Nat /\ b.state \in Nat
               /\ b.seen \in Observation /\ b.refs \in Seq(Nat) /\ b.what \in Nat
               /\ b.kind \in {"started", "host", "port", "service", "progress",
                              "denied", "completed", "failed"}
BY DEF Event, EventBody, TerminalKinds

\* The events that speak of an endpoint change its entry and nothing else.
LEMMA ApplyToEndpoint ==
    ASSUME NEW f, IsFold(f), NEW event \in Event, event.body.kind \in {"port", "service"}
    PROVE  LET b == event.body
               g == Apply(f, event)
               old == Entry(f, b.at)
           IN  /\ IsFold(g)
               /\ DOMAIN g.endpoints = DOMAIN f.endpoints \cup {b.at}
               /\ \A x \in DOMAIN f.endpoints \ {b.at} : g.endpoints[x] = f.endpoints[x]
               /\ g.endpoints[b.at].state = IF b.kind = "port" THEN b.state ELSE old.state
               /\ g.endpoints[b.at].seen = IF b.kind = "service" THEN b.seen ELSE old.seen
               /\ g.endpoints[b.at].refs = Cited(old.refs, b.refs)
               /\ g.hosts_up = f.hosts_up /\ g.terminal = f.terminal
               /\ g.plan_hash = f.plan_hash
<1> DEFINE b == event.body
           g == Apply(f, event)
           old == Entry(f, b.at)
           refs == Cited(old.refs, b.refs)
           new == IF b.kind = "port" THEN [old EXCEPT !.state = b.state, !.refs = refs]
                                     ELSE [old EXCEPT !.seen = b.seen, !.refs = refs]
<1>1. /\ b.at \in Nat /\ b.state \in Nat /\ b.seen \in Observation /\ b.refs \in Seq(Nat)
      /\ b.kind = "port" \/ b.kind = "service"
  BY EventFields
<1>2. old \in Endpoint
  BY EntryType
<1>3. g = Put(f, b.at, new)
  <2>1. CASE b.kind = "port"
    BY <2>1 DEF Apply, TerminalKinds
  <2>2. CASE b.kind = "service"
    BY <2>2 DEF Apply, TerminalKinds
  <2> QED BY <1>1, <2>1, <2>2
<1> HIDE DEF g, old, b
<1>4. refs \in Seq(Nat)
  <2>1. old.refs \in Seq(Nat)
    BY <1>2 DEF Endpoint
  <2> QED BY <1>1, <2>1, CitedHolds
<1> HIDE DEF refs
<1>5. /\ new \in Endpoint
      /\ new.state = IF b.kind = "port" THEN b.state ELSE old.state
      /\ new.seen = IF b.kind = "service" THEN b.seen ELSE old.seen
      /\ new.refs = refs
  <2>1. CASE b.kind = "port"
    <3>1. new = [old EXCEPT !.state = b.state, !.refs = refs]
      BY <2>1
    <3> QED BY <1>1, <1>2, <1>4, <2>1, <3>1 DEF Endpoint
  <2>2. CASE b.kind = "service"
    <3>1. new = [old EXCEPT !.seen = b.seen, !.refs = refs]
      BY <2>2
    <3> QED BY <1>1, <1>2, <1>4, <2>2, <3>1 DEF Endpoint
  <2> QED BY <1>1, <2>1, <2>2
<1> HIDE DEF new
<1> DEFINE eps == [x \in DOMAIN f.endpoints \cup {b.at} |-> IF x = b.at THEN new ELSE f.endpoints[x]]
<1>6. g = [endpoints |-> eps, hosts_up |-> f.hosts_up, terminal |-> f.terminal,
           plan_hash |-> f.plan_hash]
  <2>1. g = [f EXCEPT !.endpoints = eps]
    BY <1>3 DEF Put
  <2> HIDE DEF eps
  <2> QED BY <2>1 DEF IsFold
<1>7. IsFiniteSet(DOMAIN f.endpoints \cup {b.at})
  BY FS_AddElement DEF IsFold
<1>8. DOMAIN eps = DOMAIN f.endpoints \cup {b.at} /\ eps \in [DOMAIN eps -> Endpoint]
  BY <1>5 DEF IsFold
<1>9. eps[b.at] = new /\ \A x \in DOMAIN f.endpoints \ {b.at} : eps[x] = f.endpoints[x]
  OBVIOUS
<1> HIDE DEF eps
<1>10. IsFold(g)
  BY <1>6, <1>7, <1>8 DEF IsFold
<1> QED BY <1>5, <1>6, <1>8, <1>9, <1>10 DEF g, old, b, refs

\* The others leave every endpoint as it is.
LEMMA ApplyElsewhere ==
    ASSUME NEW f, IsFold(f), NEW event \in Event, event.body.kind \notin {"port", "service"}
    PROVE  LET b == event.body
               g == Apply(f, event)
           IN  /\ IsFold(g) /\ g.endpoints = f.endpoints
               /\ g.hosts_up = IF b.kind = "host" THEN f.hosts_up \cup {b.what} ELSE f.hosts_up
               /\ g.terminal = IF b.kind \in TerminalKinds THEN b ELSE f.terminal
               /\ g.plan_hash = IF b.kind = "started" THEN b.what ELSE f.plan_hash
<1> DEFINE b == event.body
<1>1. b.kind \in {"started", "host", "progress", "denied", "completed", "failed"}
  BY EventFields
<1>2. CASE b.kind = "started"
  <2>1. Apply(f, event) = [f EXCEPT !.plan_hash = b.what]
    BY <1>2 DEF Apply, TerminalKinds
  <2> HIDE DEF b
  <2> QED BY <1>2, <2>1 DEF IsFold, TerminalKinds, b
<1>3. CASE b.kind = "host"
  <2>1. Apply(f, event) = [f EXCEPT !.hosts_up = f.hosts_up \cup {b.what}]
    BY <1>3 DEF Apply, TerminalKinds
  <2> QED BY <1>3, <2>1 DEF IsFold, TerminalKinds
<1>4. CASE b.kind = "progress"
  <2>1. Apply(f, event) = f
    BY <1>4 DEF Apply, TerminalKinds
  <2> QED BY <1>4, <2>1 DEF TerminalKinds
<1>5. CASE b.kind \in TerminalKinds
  <2>1. Apply(f, event) = [f EXCEPT !.terminal = b]
    BY <1>5 DEF Apply, TerminalKinds
  <2> QED BY <1>5, <2>1 DEF IsFold, TerminalKinds
<1> QED BY <1>1, <1>2, <1>3, <1>4, <1>5 DEF TerminalKinds

LEMMA ApplyIsFold ==
    ASSUME NEW f, IsFold(f), NEW event \in Event PROVE IsFold(Apply(f, event))
<1>1. CASE event.body.kind \in {"port", "service"}
  BY <1>1, ApplyToEndpoint
<1>2. CASE event.body.kind \notin {"port", "service"}
  BY <1>2, ApplyElsewhere
<1> QED BY <1>1, <1>2

-----------------------------------------------------------------------------
(* The whole of fold_events.                                               *)

\* The fold of a sequence already in order.
LEMMA FoldIsFold ==
    ASSUME NEW n \in Nat, NEW s \in Seq(Event), n = Len(s),
           NEW f, Folds("apply", EmptyFold, s, n, f)
    PROVE  \A m \in 0..n : IsFold(f[m])
<1> DEFINE S == {m \in Nat : m <= n => IsFold(f[m])}
<1>1. 0 \in S
  BY EmptyIsFold DEF Folds
<1>2. ASSUME NEW m \in Nat, m \in S PROVE m + 1 \in S
  <2> SUFFICES ASSUME m + 1 <= n PROVE IsFold(f[m + 1])
    OBVIOUS
  <2>1. IsFold(f[m]) /\ m + 1 \in 1..n /\ s[m + 1] \in Event
    BY <1>2
  <2>2. f[m + 1] = Apply(f[m], s[m + 1])
    BY <2>1 DEF Folds, Folder
  <2> HIDE DEF S
  <2>3. IsFold(Apply(f[m], s[m + 1]))
    BY <2>1, ApplyIsFold
  <2> QED BY <2>2, <2>3
<1>3. Nat \subseteq S
  <2> HIDE DEF S
  <2> QED BY <1>1, <1>2, SetInduction
<1> QED BY <1>3

\* A fold gives out no digest that none of its events cites.
LEMMA FoldCitesEvents ==
    ASSUME NEW D, NEW events \in Seq(Event),
           \A i \in DOMAIN events : events[i].body.refs \in Seq(D)
    PROVE  LET f == fold_events(events)
           IN  /\ IsFold(f)
               /\ \A e \in DOMAIN f.endpoints : f.endpoints[e].refs \in Seq(D)
<1> DEFINE X == {x \in Event : x.body.refs \in Seq(D)}
           s == total_order(events)
           n == Len(s)
<1>1. s \in Seq(X)
  <2>1. events \in Seq(X)
    BY IsASeq
  <2> HIDE DEF X
  <2> QED BY <2>1, OrderHolds
<1>2. s \in Seq(Event) /\ n \in Nat /\ DOMAIN s = 1..n /\ \A m \in 1..n : s[m] \in X
  BY <1>1
<1> HIDE DEF s
<1>3. PICK f : Folds("apply", EmptyFold, s, n, f) /\ fold_events(events) = f[n]
  BY <1>2, FoldUnfolds DEF fold_events, s
<1> HIDE DEF n
<1>4. \A m \in 0..n : IsFold(f[m])
  BY <1>2, <1>3, FoldIsFold DEF n
<1> DEFINE Good(m) == \A e \in DOMAIN f[m].endpoints : f[m].endpoints[e].refs \in Seq(D)
           S == {m \in Nat : m <= n => Good(m)}
<1>5. 0 \in S
  BY <1>3, EmptyIsFold DEF Folds
<1>6. ASSUME NEW m \in Nat, m \in S PROVE m + 1 \in S
  <2> SUFFICES ASSUME m + 1 <= n PROVE Good(m + 1)
    OBVIOUS
  <2> DEFINE event == s[m + 1]
             b == event.body
             old == Entry(f[m], b.at)
  <2>1. IsFold(f[m]) /\ m + 1 \in 1..n /\ event \in Event /\ b.refs \in Seq(D) /\ Good(m)
    BY <1>2, <1>4, <1>6
  <2>2. f[m + 1] = Apply(f[m], event)
    BY <1>3, <2>1 DEF Folds, Folder
  <2> HIDE DEF event
  <2>3. CASE b.kind \in {"port", "service"}
    <3>1. old.refs \in Seq(D)
      BY <2>1, EmptySeq DEF Entry, NoEndpoint
    <3> HIDE DEF old
    <3>2. Cited(old.refs, b.refs) \in Seq(D)
      BY <2>1, <3>1, CitedHolds
    <3>3. /\ DOMAIN f[m + 1].endpoints = DOMAIN f[m].endpoints \cup {b.at}
          /\ \A x \in DOMAIN f[m].endpoints \ {b.at} :
               f[m + 1].endpoints[x] = f[m].endpoints[x]
          /\ f[m + 1].endpoints[b.at].refs = Cited(old.refs, b.refs)
      BY <2>1, <2>2, <2>3, ApplyToEndpoint DEF old
    <3> QED BY <2>1, <3>2, <3>3
  <2>4. CASE b.kind \notin {"port", "service"}
    <3>1. Apply(f[m], event).endpoints = f[m].endpoints
      <4> DEFINE g == f[m]
      <4>1. IsFold(g)
        BY <2>1
      <4> HIDE DEF g
      <4>2. Apply(g, event).endpoints = g.endpoints
        BY <2>1, <2>4, <4>1, ApplyElsewhere
      <4> QED BY <4>2 DEF g
    <3> QED BY <2>1, <2>2, <3>1
  <2> QED BY <2>3, <2>4
<1>7. Nat \subseteq S
  <2> HIDE DEF S
  <2> QED BY <1>5, <1>6, SetInduction
<1> QED BY <1>2, <1>3, <1>4, <1>7

-----------------------------------------------------------------------------
(* total_order: on events, Precedes is a strict total order, so that a log *)
(* has one sorted form, however it is handed over.                         *)

LEMMA LeastNumber ==
    ASSUME NEW T, T \subseteq Nat, NEW x \in T
    PROVE  \E n \in T : \A m \in T : n <= m
<1> SUFFICES ASSUME \A n \in T : \E m \in T : m < n PROVE FALSE
  OBVIOUS
<1> DEFINE S == {n \in Nat : \A m \in T : n <= m}
<1>1. 0 \in S
  OBVIOUS
<1>2. ASSUME NEW n \in Nat, n \in S PROVE n + 1 \in S
  <2> SUFFICES ASSUME NEW m \in T PROVE n + 1 <= m
    OBVIOUS
  <2>1. m \in Nat /\ n <= m
    BY <1>2
  <2>2. n # m
    <3> SUFFICES ASSUME n = m PROVE FALSE
      OBVIOUS
    <3>1. PICK k \in T : k < m
      OBVIOUS
    <3>2. n <= k /\ k \in Nat
      BY <1>2
    <3> QED BY <3>1, <3>2
  <2> QED BY <2>1, <2>2
<1>3. Nat \subseteq S
  <2> HIDE DEF S
  <2> QED BY <1>1, <1>2, SetInduction
<1>4. x + 1 \in Nat /\ x \in Nat
  OBVIOUS
<1>5. x + 1 <= x
  BY <1>3, <1>4
<1> QED BY <1>4, <1>5

LEMMA LessIrreflexive == ASSUME NEW s \in Seq(Nat) PROVE ~Less(s, s)
BY DEF Less

LEMMA LessTransitive ==
    ASSUME NEW s \in Seq(Nat), NEW t \in Seq(Nat), NEW u \in Seq(Nat), Less(s, t), Less(t, u)
    PROVE  Less(s, u)
<1>1. PICK m \in 1..Len(t) : /\ \A i \in 1..(m - 1) : i <= Len(s) /\ s[i] = t[i]
                             /\ Len(s) < m \/ s[m] < t[m]
  BY DEF Less
<1>2. PICK n \in 1..Len(u) : /\ \A i \in 1..(n - 1) : i <= Len(t) /\ t[i] = u[i]
                             /\ Len(t) < n \/ t[n] < u[n]
  BY DEF Less
<1>3. /\ Len(s) \in Nat /\ Len(t) \in Nat /\ Len(u) \in Nat
      /\ \A i \in 1..Len(s) : s[i] \in Nat
      /\ \A i \in 1..Len(t) : t[i] \in Nat
      /\ \A i \in 1..Len(u) : u[i] \in Nat
  OBVIOUS
<1>4. CASE m < n
  <2>1. m \in 1..Len(u) /\ t[m] = u[m]
    BY <1>2, <1>3, <1>4
  <2>2. \A i \in 1..(m - 1) : i <= Len(s) /\ s[i] = u[i]
    BY <1>1, <1>2, <1>3, <1>4
  <2> QED BY <1>1, <2>1, <2>2 DEF Less
<1>5. CASE n < m
  <2>1. n <= Len(s) /\ s[n] = t[n] /\ n <= Len(t) /\ t[n] < u[n]
    BY <1>1, <1>2, <1>3, <1>5
  <2>2. \A i \in 1..(n - 1) : i <= Len(s) /\ s[i] = u[i]
    BY <1>1, <1>2, <1>3, <1>5
  <2>3. s[n] < u[n]
    BY <2>1
  <2> QED BY <2>2, <2>3 DEF Less
<1>6. CASE m = n
  <2>1. t[n] < u[n] /\ n \in 1..Len(t)
    BY <1>1, <1>2, <1>3, <1>6
  <2>2. \A i \in 1..(n - 1) : i <= Len(s) /\ s[i] = u[i]
    BY <1>1, <1>2, <1>3, <1>6
  <2>3. Len(s) < n \/ s[n] < u[n]
    <3>1. CASE Len(s) < n
      BY <3>1
    <3>2. CASE ~(Len(s) < n)
      <4>1. s[n] < t[n] /\ s[n] \in Nat /\ t[n] \in Nat /\ u[n] \in Nat
        BY <1>1, <1>3, <1>6, <2>1, <3>2
      <4>2. \A x, y, z \in Nat : x < y /\ y < z => x < z
        OBVIOUS
      <4>3. s[n] < u[n]
        BY <2>1, <4>1, <4>2
      <4> QED BY <4>3
    <3> QED BY <3>1, <3>2
  <2> QED BY <2>2, <2>3 DEF Less
<1>7. m \in Int /\ n \in Int
  OBVIOUS
<1> QED BY <1>4, <1>5, <1>6, <1>7

LEMMA LessTotal ==
    ASSUME NEW s \in Seq(Nat), NEW t \in Seq(Nat), s # t
    PROVE  Less(s, t) \/ Less(t, s)
<1> DEFINE T == {n \in Nat \ {0} : n > Len(s) \/ n > Len(t) \/ s[n] # t[n]}
<1>1. /\ Len(s) \in Nat /\ Len(t) \in Nat
      /\ \A i \in 1..Len(s) : s[i] \in Nat
      /\ \A i \in 1..Len(t) : t[i] \in Nat
  OBVIOUS
<1>2. Len(s) + 1 \in T
  BY <1>1
<1>3. PICK n \in T : \A m \in T : n <= m
  <2>1. T \subseteq Nat
    OBVIOUS
  <2> HIDE DEF T
  <2> QED BY <1>2, <2>1, LeastNumber
<1>4. n \in Nat \ {0} /\ \A i \in 1..(n - 1) : i <= Len(s) /\ i <= Len(t) /\ s[i] = t[i]
  <2>1. n \in Nat \ {0}
    OBVIOUS
  <2>2. ASSUME NEW i \in 1..(n - 1) PROVE i <= Len(s) /\ i <= Len(t) /\ s[i] = t[i]
    <3>1. i \in Nat \ {0} /\ ~(n <= i)
      BY <2>1
    <3>2. i \notin T
      BY <1>3, <3>1
    <3> QED BY <1>1, <3>1, <3>2
  <2> QED BY <2>1, <2>2
<1>5. CASE n <= Len(s) /\ n <= Len(t)
  <2>1. s[n] # t[n] /\ s[n] \in Nat /\ t[n] \in Nat
    BY <1>1, <1>4, <1>5
  <2>2. n \in 1..Len(s) /\ n \in 1..Len(t)
    BY <1>1, <1>4, <1>5
  <2>3. s[n] < t[n] \/ t[n] < s[n]
    BY <2>1
  <2> QED BY <1>4, <2>2, <2>3 DEF Less
<1>6. CASE n > Len(s) /\ n <= Len(t)
  BY <1>1, <1>4, <1>6 DEF Less
<1>7. CASE n <= Len(s) /\ n > Len(t)
  BY <1>1, <1>4, <1>7 DEF Less
<1>8. CASE n > Len(s) /\ n > Len(t)
  <2>1. Len(s) = Len(t)
    <3>1. Len(s) + 1 \in T /\ Len(t) + 1 \in T
      BY <1>1
    <3>2. n <= Len(s) + 1 /\ n <= Len(t) + 1
      BY <1>3, <3>1
    <3> QED BY <1>1, <1>4, <1>8, <3>2
  <2>2. \A i \in 1..Len(s) : s[i] = t[i]
    <3>1. ASSUME NEW i \in 1..Len(s) PROVE i \in 1..(n - 1)
      BY <1>1, <1>4, <1>8
    <3> QED BY <1>4, <3>1
  <2>3. s = t
    BY <2>1, <2>2, SeqEqual
  <2> QED BY <2>3
<1> QED BY <1>1, <1>4, <1>5, <1>6, <1>7, <1>8

\* The fields of a tie_key that every event has.
KeyHead(b) == <<KindRank[b.kind], b.at, b.state, b.seen.service, b.seen.product, b.seen.version,
                b.seen.confidence, b.seen.rule, b.what>>

LEMMA RankOfKind ==
    /\ \A k \in {"started", "host", "port", "service", "progress", "denied", "completed", "failed"} :
         KindRank[k] \in Nat
    /\ \A j, k \in {"started", "host", "port", "service", "progress", "denied", "completed", "failed"} :
         KindRank[j] = KindRank[k] => j = k
BY DEF KindRank

LEMMA KeyType ==
    ASSUME NEW event \in Event
    PROVE  /\ KeyHead(event.body) \in Seq(Nat) /\ Len(KeyHead(event.body)) = 9
           /\ tie_key(event) = KeyHead(event.body) \o event.body.refs
           /\ tie_key(event) \in Seq(Nat)
<1> DEFINE b == event.body
<1>1. /\ b.at \in Nat /\ b.state \in Nat /\ b.seen \in Observation
      /\ b.refs \in Seq(Nat) /\ b.what \in Nat /\ KindRank[b.kind] \in Nat
  BY EventFields, RankOfKind
<1>2. /\ b.seen.service \in Nat /\ b.seen.product \in Nat /\ b.seen.version \in Nat
      /\ b.seen.confidence \in Nat /\ b.seen.rule \in Nat
  BY <1>1 DEF Observation
<1>3. tie_key(event) = KeyHead(b) \o b.refs
  BY DEF tie_key, KeyHead
<1> HIDE DEF b
<1>4. KeyHead(b) \in Seq(Nat) /\ Len(KeyHead(b)) = 9
  BY <1>1, <1>2 DEF KeyHead
<1> QED BY <1>1, <1>3, <1>4 DEF b

\* A key is whole: two keys agree only where every field the fold reads does.
LEMMA KeyWhole ==
    ASSUME NEW h \in Seq(Nat), NEW g \in Seq(Nat), Len(h) = Len(g),
           NEW r \in Seq(Nat), NEW t \in Seq(Nat), h \o r = g \o t
    PROVE  h = g /\ r = t
<1>1. /\ Len(h) \in Nat /\ Len(r) \in Nat /\ Len(t) \in Nat
      /\ DOMAIN h = 1..Len(h) /\ DOMAIN g = 1..Len(h)
      /\ DOMAIN r = 1..Len(r) /\ DOMAIN t = 1..Len(t)
  OBVIOUS
<1>2. /\ Len(h \o r) = Len(h) + Len(r)
      /\ \A i \in 1..(Len(h) + Len(r)) : (h \o r)[i] = IF i <= Len(h) THEN h[i] ELSE r[i - Len(h)]
  BY ConcatProperties
<1>3. /\ Len(g \o t) = Len(g) + Len(t)
      /\ \A i \in 1..(Len(g) + Len(t)) : (g \o t)[i] = IF i <= Len(g) THEN g[i] ELSE t[i - Len(g)]
  BY ConcatProperties
<1>4. Len(r) = Len(t)
  <2>1. Len(h) + Len(r) = Len(h) + Len(t)
    BY <1>2, <1>3
  <2>2. \A a, b, c \in Nat : a + b = a + c => b = c
    OBVIOUS
  <2> QED BY <1>1, <2>1, <2>2
<1>5. \A i \in 1..Len(h) : h[i] = g[i]
  <2> SUFFICES ASSUME NEW i \in 1..Len(h) PROVE h[i] = g[i]
    OBVIOUS
  <2>1. i \in 1..(Len(h) + Len(r)) /\ i <= Len(h)
    BY <1>1
  <2> QED BY <1>2, <1>3, <1>4, <2>1
<1>6. \A i \in 1..Len(r) : r[i] = t[i]
  <2> SUFFICES ASSUME NEW i \in 1..Len(r) PROVE r[i] = t[i]
    OBVIOUS
  <2> DEFINE j == Len(h) + i
  <2>1. j \in 1..(Len(h) + Len(r)) /\ ~(j <= Len(h)) /\ j - Len(h) = i
    BY <1>1
  <2> HIDE DEF j
  <2>2. (h \o r)[j] = r[i]
    BY <1>2, <2>1
  <2>3. (g \o t)[j] = t[i]
    BY <1>3, <1>4, <2>1
  <2> QED BY <2>2, <2>3
<1>7. h = g
  BY <1>1, <1>5, SeqEqual
<1>8. r = t
  BY <1>1, <1>4, <1>6, SeqEqual
<1> QED BY <1>7, <1>8

LEMMA SameKey ==
    ASSUME NEW x \in Event, NEW y \in Event, x.sequence = y.sequence, tie_key(x) = tie_key(y)
    PROVE  x = y
<1> DEFINE b == x.body
           c == y.body
<1>1. KeyHead(b) = KeyHead(c) /\ b.refs = c.refs
  <2>1. b.refs \in Seq(Nat) /\ c.refs \in Seq(Nat)
    BY EventFields
  <2>2. /\ KeyHead(b) \in Seq(Nat) /\ KeyHead(c) \in Seq(Nat)
        /\ Len(KeyHead(b)) = Len(KeyHead(c))
        /\ KeyHead(b) \o b.refs = KeyHead(c) \o c.refs
    BY KeyType
  <2> HIDE DEF b, c
  <2> QED BY <2>1, <2>2, KeyWhole
<1>2. /\ KindRank[b.kind] = KindRank[c.kind] /\ b.at = c.at /\ b.state = c.state
      /\ b.seen.service = c.seen.service /\ b.seen.product = c.seen.product
      /\ b.seen.version = c.seen.version /\ b.seen.confidence = c.seen.confidence
      /\ b.seen.rule = c.seen.rule /\ b.what = c.what
  <2>1. KeyHead(b) = KeyHead(c)
    BY <1>1
  <2> HIDE DEF b, c
  <2> QED BY <2>1 DEF KeyHead
<1>3. b.kind = c.kind
  BY <1>2, EventFields, RankOfKind
<1>4. b.seen = c.seen
  <2>1. b.seen \in Observation /\ c.seen \in Observation
    BY EventFields
  <2> QED BY <1>2, <2>1 DEF Observation
<1>5. b = c
  BY <1>1, <1>2, <1>3, <1>4 DEF Event, EventBody
<1> QED BY <1>5 DEF Event, EventBody

LEMMA PrecedesIrreflexive == \A x \in Event : ~Precedes(x, x)
<1> SUFFICES ASSUME NEW x \in Event PROVE ~Precedes(x, x)
  OBVIOUS
<1>1. x.sequence \in Nat /\ tie_key(x) \in Seq(Nat)
  BY EventFields, KeyType
<1>2. ~Less(tie_key(x), tie_key(x))
  BY <1>1, LessIrreflexive
<1> QED BY <1>1, <1>2 DEF Precedes

LEMMA PrecedesTransitive ==
    \A x, y, z \in Event : Precedes(x, y) /\ Precedes(y, z) => Precedes(x, z)
<1> SUFFICES ASSUME NEW x \in Event, NEW y \in Event, NEW z \in Event,
                    Precedes(x, y), Precedes(y, z)
             PROVE  Precedes(x, z)
  OBVIOUS
<1>1. x.sequence \in Nat /\ y.sequence \in Nat /\ z.sequence \in Nat
  BY EventFields
<1>2. tie_key(x) \in Seq(Nat) /\ tie_key(y) \in Seq(Nat) /\ tie_key(z) \in Seq(Nat)
  BY KeyType
<1>3. Less(tie_key(x), tie_key(y)) /\ Less(tie_key(y), tie_key(z)) => Less(tie_key(x), tie_key(z))
  BY <1>2, LessTransitive
<1> QED BY <1>1, <1>3 DEF Precedes

LEMMA PrecedesTotal == \A x, y \in Event : x = y \/ Precedes(x, y) \/ Precedes(y, x)
<1> SUFFICES ASSUME NEW x \in Event, NEW y \in Event, x # y
             PROVE  Precedes(x, y) \/ Precedes(y, x)
  OBVIOUS
<1>1. x.sequence \in Nat /\ y.sequence \in Nat
  BY EventFields
<1>2. tie_key(x) \in Seq(Nat) /\ tie_key(y) \in Seq(Nat)
  BY KeyType
<1>3. x.sequence = y.sequence => Less(tie_key(x), tie_key(y)) \/ Less(tie_key(y), tie_key(x))
  BY <1>2, SameKey, LessTotal
<1> QED BY <1>1, <1>3 DEF Precedes

-----------------------------------------------------------------------------
(* Insertion sorts: the outcome is in order and holds the events it was    *)
(* given, and only one sequence does.                                      *)

InOrder(s) == \A i, j \in DOMAIN s : i < j => ~Precedes(s[j], s[i])

\* The first m of s that come before e.
Ahead(s, m, e) == {i \in 1..m : Precedes(s[i], e)}

LEMMA UpToFinite == ASSUME NEW m \in Nat PROVE IsFiniteSet(1..m) /\ Cardinality(1..m) = m
<1>1. 1 \in Int /\ m \in Int /\ (1 > m => m = 0)
  OBVIOUS
<1>2. IsFiniteSet(1..m) /\ Cardinality(1..m) = IF 1 > m THEN 0 ELSE m - 1 + 1
  BY <1>1, FS_Interval
<1> QED BY <1>1, <1>2

LEMMA PartFinite ==
    ASSUME NEW m \in Nat, NEW A \in SUBSET (1..m)
    PROVE  IsFiniteSet(A) /\ Cardinality(A) \in 0..m
<1>1. IsFiniteSet(A) /\ Cardinality(A) <= m
  <2> DEFINE U == 1..m
  <2>1. IsFiniteSet(U) /\ Cardinality(U) = m /\ A \in SUBSET U
    BY UpToFinite
  <2> HIDE DEF U
  <2> QED BY <2>1, FS_Subset
<1>2. Cardinality(A) \in Nat
  BY <1>1, FS_CardinalityType
<1> QED BY <1>1, <1>2

LEMMA SameSize ==
    ASSUME NEW S, NEW T, IsFiniteSet(S), NEW g \in [S -> T],
           \A a, b \in S : g[a] = g[b] => a = b,
           \A t \in T : \E a \in S : g[a] = t
    PROVE  Cardinality(T) = Cardinality(S)
<1>1. g \in Bijection(S, T)
  BY Fun_IsBij
<1>2. ExistsBijection(S, T)
  BY <1>1 DEF ExistsBijection
<1> QED BY <1>2, FS_Bijection

\* A set of positions that holds all the earlier ones with each is a prefix.
LEMMA PrefixSet ==
    ASSUME NEW n \in Nat, NEW A \in SUBSET (1..n),
           \A i, j \in 1..n : i < j /\ j \in A => i \in A
    PROVE  A = 1..Cardinality(A)
<1> DEFINE T == {i \in Nat \ {0} : i \notin A}
<1>1. n + 1 \in T /\ T \subseteq Nat
  OBVIOUS
<1>2. PICK k \in T : \A m \in T : k <= m
  <2> HIDE DEF T
  <2> QED BY <1>1, LeastNumber
<1>3. k \in Nat \ {0} /\ k \notin A /\ k - 1 \in Nat
  OBVIOUS
<1>4. k <= n + 1
  BY <1>1, <1>2
<1>5. ASSUME NEW i \in 1..(k - 1) PROVE i \in A
  <2>1. i \in Nat \ {0} /\ ~(k <= i)
    BY <1>3
  <2> QED BY <1>2, <2>1
<1>6. ASSUME NEW i \in A PROVE i \in 1..(k - 1)
  <2>1. i \in 1..n /\ i # k
    BY <1>3
  <2>2. ~(k < i)
    <3> SUFFICES ASSUME k < i PROVE FALSE
      OBVIOUS
    <3>1. k \in 1..n
      BY <1>3, <2>1
    <3> QED BY <1>3, <2>1, <3>1
  <2> QED BY <1>3, <2>1, <2>2
<1>7. A = 1..(k - 1)
  BY <1>5, <1>6
<1>8. Cardinality(A) = k - 1
  BY <1>3, <1>7, UpToFinite
<1> QED BY <1>7, <1>8

\* Insert into a sorted sequence leaves it sorted and counts the event where
\* it belongs.
LEMMA InsertSorts ==
    ASSUME NEW s \in Seq(Event), InOrder(s), NEW e \in Event
    PROVE  /\ InOrder(Insert(s, e))
           /\ \A x \in Event :
                Cardinality(Ahead(Insert(s, e), Len(s) + 1, x)) =
                  Cardinality(Ahead(s, Len(s), x)) + (IF Precedes(e, x) THEN 1 ELSE 0)
<1> DEFINE n == Len(s)
           A == {i \in DOMAIN s : ~Precedes(e, s[i])}
           a == Cardinality(A)
           t == Insert(s, e)
<1>1. n \in Nat /\ DOMAIN s = 1..n /\ \A i \in 1..n : s[i] \in Event
  OBVIOUS
<1>2. /\ a \in 0..n /\ t \in Seq(Event) /\ Len(t) = n + 1
      /\ \A i \in 1..a : t[i] = s[i]
      /\ t[a + 1] = e
      /\ \A i \in (a + 2)..(n + 1) : t[i] = s[i - 1]
  <2>1. a = Place(s, e)
    BY DEF Place
  <2> HIDE DEF a
  <2>2. s \in Seq(Event) /\ e \in Event
    OBVIOUS
  <2>3. Place(s, e) \in 0..Len(s)
    BY <2>2, InsertShape
  <2>4. Insert(s, e) \in Seq(Event) /\ Len(Insert(s, e)) = Len(s) + 1
    BY <2>2, InsertShape
  <2>5. \A i \in 1..Place(s, e) : Insert(s, e)[i] = s[i]
    BY <2>2, InsertShape
  <2>6. Insert(s, e)[Place(s, e) + 1] = e
    BY <2>2, InsertShape
  <2>7. \A i \in (Place(s, e) + 2)..(Len(s) + 1) : Insert(s, e)[i] = s[i - 1]
    BY <2>2, InsertShape
  <2> QED BY <2>1, <2>3, <2>4, <2>5, <2>6, <2>7
<1> HIDE DEF n, t
<1>3. A = 1..a
  <2>1. A \in SUBSET (1..n)
    BY <1>1
  <2>2. ASSUME NEW i \in 1..n, NEW j \in 1..n, i < j, j \in A PROVE i \in A
    <3> SUFFICES ASSUME Precedes(e, s[i]) PROVE FALSE
      BY <1>1
    <3>1. ~Precedes(s[j], s[i]) /\ ~Precedes(e, s[j]) /\ s[i] \in Event /\ s[j] \in Event
      BY <1>1, <2>2 DEF InOrder
    <3>2. s[i] = s[j] \/ Precedes(s[i], s[j])
      BY <3>1, PrecedesTotal
    <3> QED BY <3>1, <3>2, PrecedesTransitive
  <2> HIDE DEF A
  <2> QED BY <1>1, <2>1, <2>2, PrefixSet
<1>4. /\ \A i \in 1..a : ~Precedes(e, s[i])
      /\ \A i \in (a + 1)..n : Precedes(e, s[i])
  <2>1. \A i \in 1..n : i \in 1..a <=> ~Precedes(e, s[i])
    BY <1>1, <1>3
  <2> HIDE DEF A, a
  <2> QED BY <1>1, <1>2, <2>1
<1> HIDE DEF a
<1>5. InOrder(t)
  <2> SUFFICES ASSUME NEW i \in 1..(n + 1), NEW j \in 1..(n + 1), i < j
               PROVE  ~Precedes(t[j], t[i])
    BY <1>1, <1>2 DEF InOrder
  <2>1. CASE i \in 1..a /\ j \in 1..a
    BY <1>1, <1>2, <2>1 DEF InOrder
  <2>2. CASE i \in 1..a /\ j = a + 1
    BY <1>2, <1>4, <2>2
  <2>3. CASE i \in 1..a /\ j \in (a + 2)..(n + 1)
    <3>1. j - 1 \in 1..n /\ i \in 1..n /\ i < j - 1 /\ t[j] = s[j - 1] /\ t[i] = s[i]
      BY <1>1, <1>2, <2>3
    <3> QED BY <1>1, <3>1 DEF InOrder
  <2>4. CASE i = a + 1 /\ j \in (a + 2)..(n + 1)
    <3>1. j - 1 \in (a + 1)..n /\ j - 1 \in 1..n /\ t[j] = s[j - 1] /\ t[i] = e
      BY <1>1, <1>2, <2>4
    <3>2. Precedes(e, s[j - 1]) /\ s[j - 1] \in Event
      BY <1>1, <1>4, <3>1
    <3> QED BY <3>1, <3>2, PrecedesTransitive, PrecedesIrreflexive
  <2>5. CASE i \in (a + 2)..(n + 1)
    <3>1. /\ j - 1 \in 1..n /\ i - 1 \in 1..n /\ i - 1 < j - 1
          /\ t[j] = s[j - 1] /\ t[i] = s[i - 1]
      BY <1>1, <1>2, <2>5
    <3> QED BY <1>1, <3>1 DEF InOrder
  <2> QED BY <1>1, <1>2, <2>1, <2>2, <2>3, <2>4, <2>5
<1>6. ASSUME NEW x \in Event
      PROVE  Cardinality(Ahead(t, n + 1, x)) =
               Cardinality(Ahead(s, n, x)) + (IF Precedes(e, x) THEN 1 ELSE 0)
  <2> DEFINE N == Ahead(t, n + 1, x)
             M == N \ {a + 1}
             O == Ahead(s, n, x)
             g == [i \in O |-> IF i <= a THEN i ELSE i + 1]
  <2>1. O \in SUBSET (1..n) /\ N \in SUBSET (1..(n + 1)) /\ n + 1 \in Nat
    BY <1>1 DEF Ahead
  <2>2. IsFiniteSet(O) /\ Cardinality(O) \in Nat /\ IsFiniteSet(N) /\ Cardinality(N) \in Nat
    BY <1>1, <2>1, PartFinite
  <2>3. a + 1 \in N <=> Precedes(e, x)
    BY <1>1, <1>2 DEF Ahead
  <2>4. \A i \in 1..n : i \in O <=> (IF i <= a THEN i ELSE i + 1) \in M
    <3> SUFFICES ASSUME NEW i \in 1..n
                 PROVE  i \in O <=> (IF i <= a THEN i ELSE i + 1) \in M
      OBVIOUS
    <3>1. CASE i <= a
      <4>1. t[i] = s[i] /\ i \in 1..(n + 1) /\ i # a + 1
        BY <1>1, <1>2, <3>1
      <4> QED BY <3>1, <4>1 DEF Ahead
    <3>2. CASE ~(i <= a)
      <4>1. i + 1 \in (a + 2)..(n + 1) /\ (i + 1) - 1 = i /\ i + 1 # a + 1 /\ i + 1 \in 1..(n + 1)
        BY <1>1, <1>2, <3>2
      <4>2. t[i + 1] = s[i]
        BY <1>2, <4>1
      <4> QED BY <3>2, <4>1, <4>2 DEF Ahead
    <3> QED BY <3>1, <3>2
  <2> HIDE DEF N, O
  <2>5. g \in [O -> M] /\ \A i, j \in O : g[i] = g[j] => i = j
    <3>1. g \in [O -> M]
      BY <2>1, <2>4
    <3>2. ASSUME NEW i \in O, NEW j \in O, g[i] = g[j] PROVE i = j
      <4>1. i \in 1..n /\ j \in 1..n
        BY <2>1
      <4> QED BY <1>1, <1>2, <3>2, <4>1
    <3> QED BY <3>1, <3>2
  <2>6. ASSUME NEW m \in M PROVE \E i \in O : g[i] = m
    <3>1. m \in 1..(n + 1) /\ m # a + 1
      BY <2>1
    <3>2. CASE m <= a
      <4>1. m \in 1..n
        BY <1>1, <1>2, <3>1, <3>2
      <4>2. m \in O
        BY <2>4, <3>2, <4>1
      <4> QED BY <3>2, <4>2
    <3>3. CASE ~(m <= a)
      <4> DEFINE i == m - 1
      <4>1. i \in 1..n /\ ~(i <= a) /\ i + 1 = m
        BY <1>1, <1>2, <3>1, <3>3
      <4> HIDE DEF i
      <4>2. i \in O
        BY <2>4, <4>1
      <4> QED BY <4>1, <4>2
    <3> QED BY <3>2, <3>3
  <2> HIDE DEF g, M
  <2>7. Cardinality(M) = Cardinality(O)
    BY <2>2, <2>5, <2>6, SameSize
  <2>8. Cardinality(M) = IF a + 1 \in N THEN Cardinality(N) - 1 ELSE Cardinality(N)
    BY <2>2, FS_RemoveElement DEF M
  <2>9. Cardinality(N) = Cardinality(O) + (IF Precedes(e, x) THEN 1 ELSE 0)
    BY <2>2, <2>3, <2>7, <2>8
  <2> QED BY <2>9 DEF N, O
<1> QED BY <1>5, <1>6 DEF t, n

\* The sort leaves its events in order, and none gained or lost.
LEMMA Sorts ==
    ASSUME NEW events \in Seq(Event)
    PROVE  /\ InOrder(total_order(events))
           /\ \A x \in Event :
                Cardinality(Ahead(total_order(events), Len(events), x)) =
                  Cardinality(Ahead(events, Len(events), x))
<1> DEFINE n == Len(events)
<1>1. n \in Nat /\ DOMAIN events = 1..n /\ \A i \in 1..n : events[i] \in Event
  OBVIOUS
<1> HIDE DEF n
<1>2. PICK f : Folds("insert", <<>>, events, n, f) /\ total_order(events) = f[n]
  BY <1>1, FoldUnfolds DEF total_order
<1> DEFINE Count(s, m, x) == Cardinality(Ahead(s, m, x))
           Good(m) == /\ f[m] \in Seq(Event) /\ Len(f[m]) = m /\ InOrder(f[m])
                      /\ \A x \in Event : Count(f[m], m, x) = Count(events, m, x)
           S == {m \in Nat : m <= n => Good(m)}
<1>3. 0 \in S
  <2>1. f[0] = <<>>
    BY <1>2 DEF Folds
  <2>2. f[0] \in Seq(Event) /\ Len(f[0]) = 0
    BY <2>1, EmptySeq
  <2>3. InOrder(f[0])
    BY <2>1 DEF InOrder
  <2>4. \A x : Ahead(f[0], 0, x) = {} /\ Ahead(events, 0, x) = {}
    BY DEF Ahead
  <2> QED BY <2>2, <2>3, <2>4
<1>4. ASSUME NEW m \in Nat, m \in S PROVE m + 1 \in S
  <2> SUFFICES ASSUME m + 1 <= n PROVE Good(m + 1)
    OBVIOUS
  <2> DEFINE e == events[m + 1]
             s == f[m]
  <2>1. Good(m)
    BY <1>1, <1>4
  <2>2. m + 1 \in 1..n /\ e \in Event
    BY <1>1
  <2>3. f[m + 1] = Insert(s, e)
    BY <1>2, <2>2 DEF Folds, Folder
  <2> HIDE DEF e, s
  <2>4. s \in Seq(Event) /\ Len(s) = m /\ InOrder(s)
    BY <2>1 DEF s
  <2>5. Insert(s, e) \in Seq(Event) /\ Len(Insert(s, e)) = m + 1
    BY <2>2, <2>4, InsertShape
  <2>6. /\ InOrder(Insert(s, e))
        /\ \A x \in Event :
             Count(Insert(s, e), m + 1, x) = Count(s, m, x) + (IF Precedes(e, x) THEN 1 ELSE 0)
    BY <2>2, <2>4, InsertSorts
  <2>7. ASSUME NEW x \in Event
        PROVE  Count(events, m + 1, x) = Count(events, m, x) + (IF Precedes(e, x) THEN 1 ELSE 0)
    <3> DEFINE B == Ahead(events, m, x)
    <3>1. B \in SUBSET (1..m) /\ m + 1 \notin B
      BY DEF Ahead
    <3>2. Ahead(events, m + 1, x) = IF Precedes(e, x) THEN B \cup {m + 1} ELSE B
      <4>1. 1..(m + 1) = 1..m \cup {m + 1}
        OBVIOUS
      <4>2. CASE Precedes(e, x)
        BY <4>1, <4>2 DEF Ahead, e
      <4>3. CASE ~Precedes(e, x)
        BY <4>1, <4>3 DEF Ahead, e
      <4> QED BY <4>2, <4>3
    <3> HIDE DEF B
    <3>3. IsFiniteSet(B) /\ Cardinality(B) \in Nat
      BY <3>1, PartFinite
    <3>4. Cardinality(B \cup {m + 1}) = Cardinality(B) + 1
      BY <3>1, <3>3, FS_AddElement
    <3>5. Cardinality(Ahead(events, m + 1, x)) =
            Cardinality(B) + (IF Precedes(e, x) THEN 1 ELSE 0)
      BY <3>2, <3>3, <3>4
    <3> QED BY <3>5 DEF B
  <2>8. \A x \in Event : Count(f[m + 1], m + 1, x) = Count(events, m + 1, x)
    <3>1. \A x \in Event : Count(s, m, x) = Count(events, m, x)
      BY <2>1 DEF s
    <3> HIDE DEF Count
    <3> QED BY <2>3, <2>6, <2>7, <3>1
  <2> HIDE DEF Count
  <2> QED BY <2>3, <2>5, <2>6, <2>8
<1>5. Nat \subseteq S
  <2> HIDE DEF S
  <2> QED BY <1>3, <1>4, SetInduction
<1> HIDE DEF Count
<1>6. Good(n)
  <2> HIDE DEF Good
  <2> QED BY <1>1, <1>5
<1> QED BY <1>2, <1>6 DEF n, Count

\* In a sorted sequence the events before x are the first ones.
LEMMA AheadFirst ==
    ASSUME NEW s \in Seq(Event), InOrder(s), NEW x \in Event
    PROVE  Ahead(s, Len(s), x) = 1..Cardinality(Ahead(s, Len(s), x))
<1> DEFINE n == Len(s)
           A == Ahead(s, n, x)
<1>1. n \in Nat /\ DOMAIN s = 1..n /\ \A i \in 1..n : s[i] \in Event
  OBVIOUS
<1>2. A \in SUBSET (1..n)
  BY DEF Ahead
<1>3. ASSUME NEW i \in 1..n, NEW j \in 1..n, i < j, j \in A PROVE i \in A
  <2>1. ~Precedes(s[j], s[i]) /\ Precedes(s[j], x) /\ s[i] \in Event /\ s[j] \in Event
    BY <1>1, <1>3 DEF InOrder, Ahead
  <2>2. s[i] = s[j] \/ Precedes(s[i], s[j])
    BY <2>1, PrecedesTotal
  <2>3. Precedes(s[i], x)
    BY <2>1, <2>2, PrecedesTransitive
  <2> QED BY <2>3 DEF Ahead
<1> HIDE DEF A, n
<1>4. A = 1..Cardinality(A)
  BY <1>1, <1>2, <1>3, PrefixSet
<1> QED BY <1>4 DEF A, n

\* A sorted sequence is the only one with its events.
LEMMA SortedOnce ==
    ASSUME NEW s \in Seq(Event), NEW t \in Seq(Event), Len(s) = Len(t), InOrder(s), InOrder(t),
           \A x \in Event : Cardinality(Ahead(s, Len(s), x)) = Cardinality(Ahead(t, Len(s), x))
    PROVE  s = t
<1> DEFINE n == Len(s)
<1>1. /\ n \in Nat /\ DOMAIN s = 1..n /\ DOMAIN t = 1..n
      /\ \A i \in 1..n : s[i] \in Event /\ t[i] \in Event
  OBVIOUS
<1>2. \A x \in Event : Ahead(s, n, x) = Ahead(t, n, x)
  BY AheadFirst
<1>3. \A x \in Event, i \in 1..n : Precedes(s[i], x) <=> Precedes(t[i], x)
  <2> SUFFICES ASSUME NEW x \in Event, NEW i \in 1..n
               PROVE  Precedes(s[i], x) <=> Precedes(t[i], x)
    OBVIOUS
  <2>1. Ahead(s, n, x) = Ahead(t, n, x)
    BY <1>2
  <2> HIDE DEF n
  <2> QED BY <2>1 DEF Ahead
<1>4. \A i \in 1..n : s[i] = t[i]
  BY <1>1, <1>3, PrecedesIrreflexive, PrecedesTotal
<1> QED BY <1>1, <1>4, SeqEqual

IsPermutation(p, n) ==
    /\ p \in [1..n -> 1..n]
    /\ \A i, j \in 1..n : p[i] = p[j] => i = j
    /\ \A k \in 1..n : \E i \in 1..n : p[i] = k

\* A permutation that undoes itself.
LEMMA Involution ==
    ASSUME NEW n, NEW p \in [1..n -> 1..n], \A i \in 1..n : p[p[i]] = i
    PROVE  IsPermutation(p, n)
<1>1. \A i, j \in 1..n : p[i] = p[j] => i = j
  OBVIOUS
<1>2. ASSUME NEW k \in 1..n PROVE \E i \in 1..n : p[i] = k
  <2>1. p[k] \in 1..n /\ p[p[k]] = k
    OBVIOUS
  <2> QED BY <2>1
<1> QED BY <1>1, <1>2 DEF IsPermutation

\* The order events are handed over in does not matter to total_order.
LEMMA OrderOfArrival ==
    ASSUME NEW events \in Seq(Event), NEW p, IsPermutation(p, Len(events))
    PROVE  LET handed == [i \in DOMAIN events |-> events[p[i]]]
           IN  handed \in Seq(Event) /\ total_order(handed) = total_order(events)
<1> DEFINE n == Len(events)
           handed == [i \in DOMAIN events |-> events[p[i]]]
<1>1. /\ n \in Nat /\ DOMAIN events = 1..n /\ \A i \in 1..n : events[i] \in Event
      /\ p \in [1..n -> 1..n] /\ \A i, j \in 1..n : p[i] = p[j] => i = j
  BY DEF IsPermutation
<1>2. /\ handed \in Seq(Event) /\ Len(handed) = n
      /\ \A i \in 1..n : handed[i] = events[p[i]]
  <2>1. handed = [i \in 1..n |-> events[p[i]]]
    BY <1>1
  <2>2. \A i \in 1..n : events[p[i]] \in Event
    BY <1>1
  <2> HIDE DEF n, handed
  <2> QED BY <1>1, <2>1, <2>2, IsASeq, LenProperties
<1> HIDE DEF n, handed
<1>3. ASSUME NEW x \in Event
      PROVE  Cardinality(Ahead(handed, n, x)) = Cardinality(Ahead(events, n, x))
  <2> DEFINE A == Ahead(handed, n, x)
             B == Ahead(events, n, x)
             g == [i \in A |-> p[i]]
  <2>1. A \in SUBSET (1..n) /\ B \in SUBSET (1..n)
    BY DEF Ahead
  <2>2. \A i \in 1..n : i \in A <=> p[i] \in B
    BY <1>1, <1>2 DEF Ahead
  <2> HIDE DEF A, B
  <2>3. IsFiniteSet(A)
    BY <1>1, <2>1, PartFinite
  <2>4. g \in [A -> B]
    BY <2>1, <2>2
  <2>5. \A i, j \in A : g[i] = g[j] => i = j
    BY <1>1, <2>1
  <2>6. \A b \in B : \E i \in A : g[i] = b
    <3> SUFFICES ASSUME NEW b \in B PROVE \E i \in A : g[i] = b
      OBVIOUS
    <3>1. b \in 1..n
      BY <2>1
    <3>2. PICK i \in 1..n : p[i] = b
      BY <3>1 DEF IsPermutation, n
    <3>3. i \in A
      BY <2>2, <3>2
    <3> QED BY <3>2, <3>3
  <2> HIDE DEF g
  <2>7. Cardinality(B) = Cardinality(A)
    BY <2>3, <2>4, <2>5, <2>6, SameSize
  <2> QED BY <2>7 DEF A, B
<1> DEFINE s == total_order(handed)
           t == total_order(events)
<1>4. s \in Seq(Event) /\ t \in Seq(Event) /\ Len(s) = n /\ Len(t) = n
  BY <1>2, OrderHolds DEF n
<1>5. InOrder(s) /\ InOrder(t)
  BY <1>2, Sorts
<1>6. \A x \in Event : Cardinality(Ahead(s, n, x)) = Cardinality(Ahead(t, n, x))
  <2>1. \A x \in Event : Cardinality(Ahead(s, n, x)) = Cardinality(Ahead(handed, n, x))
    BY <1>2, Sorts
  <2>2. \A x \in Event : Cardinality(Ahead(t, n, x)) = Cardinality(Ahead(events, n, x))
    BY Sorts DEF n
  <2> QED BY <1>3, <2>1, <2>2
<1> HIDE DEF s, t
<1>7. s = t
  BY <1>4, <1>5, <1>6, SortedOnce
<1> QED BY <1>2, <1>7 DEF s, t, n, handed

\* fold_events is a function of which events it is given, and not of the order
\* they arrive in: any permutation of them, events of equal number included,
\* folds to the same (the tie key of total_order reads every field the fold does).
THEOREM FoldForgetsArrival ==
    ASSUME NEW events \in Seq(Event), NEW p, IsPermutation(p, Len(events))
    PROVE  fold_events([i \in DOMAIN events |-> events[p[i]]]) = fold_events(events)
<1> DEFINE handed == [i \in DOMAIN events |-> events[p[i]]]
<1>1. total_order(handed) = total_order(events)
  BY OrderOfArrival
<1> HIDE DEF handed
<1>2. fold_events(handed) = fold_events(events)
  BY <1>1 DEF fold_events
<1> QED BY <1>2 DEF handed

\* A log whose events are numbered one after the other is in order already.
LEMMA NumberedInOrder ==
    ASSUME NEW events \in Seq(Event), \A i \in DOMAIN events : events[i].sequence = i
    PROVE  total_order(events) = events
<1> DEFINE t == total_order(events)
<1>1. InOrder(events)
  <2> SUFFICES ASSUME NEW i \in DOMAIN events, NEW j \in DOMAIN events, i < j
               PROVE  ~Precedes(events[j], events[i])
    BY DEF InOrder
  <2>1. events[i].sequence = i /\ events[j].sequence = j /\ i \in Nat /\ j \in Nat
    OBVIOUS
  <2> QED BY <2>1 DEF Precedes
<1>2. t \in Seq(Event) /\ Len(t) = Len(events) /\ InOrder(t)
  BY OrderHolds, Sorts
<1>3. \A x \in Event : Cardinality(Ahead(events, Len(events), x)) =
                         Cardinality(Ahead(t, Len(events), x))
  BY Sorts
<1> HIDE DEF t
<1>4. events = t
  BY <1>1, <1>2, <1>3, SortedOnce
<1> QED BY <1>4 DEF t

-----------------------------------------------------------------------------
(* What a fold believes of a log as it was written.                        *)

Distinct(refs) == \A j, k \in DOMAIN refs : refs[j] = refs[k] => j = k

\* Every reference is in the list once.
LEMMA CitesOnce ==
    ASSUME NEW D, NEW refs \in Seq(D), NEW more \in Seq(D), Distinct(refs)
    PROVE  /\ Cited(refs, more) \in Seq(D) /\ Distinct(Cited(refs, more))
           /\ ToSet(Cited(refs, more)) = ToSet(refs) \cup ToSet(more)
<1> DEFINE n == Len(more)
           First(m) == {more[i] : i \in 1..m}
<1>1. n \in Nat /\ DOMAIN more = 1..n
  OBVIOUS
<1>2. PICK f : Folds("cite", refs, more, n, f) /\ Cited(refs, more) = f[n]
  BY <1>1, FoldUnfolds DEF Cited
<1> DEFINE Good(m) == /\ f[m] \in Seq(D) /\ Distinct(f[m])
                      /\ ToSet(f[m]) = ToSet(refs) \cup First(m)
           S == {m \in Nat : m <= n => Good(m)}
<1>3. 0 \in S
  <2>1. f[0] = refs /\ First(0) = {}
    BY <1>2 DEF Folds
  <2> QED BY <2>1
<1>4. ASSUME NEW m \in Nat, m \in S PROVE m + 1 \in S
  <2> SUFFICES ASSUME m + 1 <= n PROVE Good(m + 1)
    OBVIOUS
  <2> DEFINE s == f[m]
             d == more[m + 1]
  <2>1. Good(m) /\ m + 1 \in 1..n /\ d \in D
    BY <1>1, <1>4
  <2>2. f[m + 1] = cite(s, d)
    BY <1>2, <2>1 DEF Folds, Folder
  <2>3. First(m + 1) = First(m) \cup {d}
    <3>1. 1..(m + 1) = 1..m \cup {m + 1}
      OBVIOUS
    <3> QED BY <3>1
  <2>4. s \in Seq(D) /\ Distinct(s) /\ ToSet(s) = ToSet(refs) \cup First(m)
    BY <2>1
  <2> HIDE DEF s, d, First
  <2>5. CASE d \in ToSet(s)
    <3>1. f[m + 1] = s
      BY <2>2, <2>5 DEF cite
    <3>2. ToSet(s) = ToSet(refs) \cup First(m + 1)
      BY <2>3, <2>4, <2>5
    <3> QED BY <2>4, <3>1, <3>2
  <2>6. CASE d \notin ToSet(s)
    <3> DEFINE t == Append(s, d)
    <3>1. f[m + 1] = t
      BY <2>2, <2>6 DEF cite
    <3>2. /\ t \in Seq(D) /\ Len(s) \in Nat
          /\ DOMAIN s = 1..Len(s) /\ DOMAIN t = 1..(Len(s) + 1)
          /\ \A i \in 1..Len(s) : t[i] = s[i]
          /\ t[Len(s) + 1] = d
      BY <2>1, <2>4, AppendProperties
    <3> HIDE DEF t
    <3>3. \A i \in 1..Len(s) : s[i] # d
      BY <2>6, <3>2 DEF ToSet
    <3>4. Distinct(t)
      <4> SUFFICES ASSUME NEW j \in 1..(Len(s) + 1), NEW k \in 1..(Len(s) + 1), t[j] = t[k]
                   PROVE  j = k
        BY <3>2 DEF Distinct
      <4>1. CASE j \in 1..Len(s) /\ k \in 1..Len(s)
        BY <2>4, <3>2, <4>1 DEF Distinct
      <4>2. CASE j = Len(s) + 1 /\ k = Len(s) + 1
        BY <4>2
      <4>3. CASE j \in 1..Len(s) /\ k = Len(s) + 1
        BY <3>2, <3>3, <4>3
      <4>4. CASE j = Len(s) + 1 /\ k \in 1..Len(s)
        BY <3>2, <3>3, <4>4
      <4> QED BY <3>2, <4>1, <4>2, <4>3, <4>4
    <3>5. ToSet(t) = ToSet(s) \cup {d}
      <4>1. \A x : x \in ToSet(t) <=> \E i \in 1..(Len(s) + 1) : t[i] = x
        BY <3>2 DEF ToSet
      <4>2. \A x : x \in ToSet(s) <=> \E i \in 1..Len(s) : s[i] = x
        BY <3>2 DEF ToSet
      <4>3. \A i \in 1..(Len(s) + 1) : i \in 1..Len(s) \/ i = Len(s) + 1
        BY <3>2
      <4>4. \A i \in 1..Len(s) : i \in 1..(Len(s) + 1)
        BY <3>2
      <4>5. Len(s) + 1 \in 1..(Len(s) + 1)
        BY <3>2
      <4>6. ASSUME NEW x \in ToSet(t) PROVE x \in ToSet(s) \cup {d}
        BY <3>2, <4>1, <4>2, <4>3
      <4>7. ASSUME NEW x \in ToSet(s) \cup {d} PROVE x \in ToSet(t)
        BY <3>2, <4>1, <4>2, <4>4, <4>5
      <4> QED BY <4>6, <4>7
    <3>6. ToSet(t) = ToSet(refs) \cup First(m + 1)
      BY <2>3, <2>4, <3>5
    <3> QED BY <3>1, <3>2, <3>4, <3>6
  <2> QED BY <2>5, <2>6
<1>5. Nat \subseteq S
  <2> HIDE DEF S
  <2> QED BY <1>3, <1>4, SetInduction
<1>6. First(n) = ToSet(more)
  BY <1>1 DEF ToSet
<1>7. Good(n)
  <2> HIDE DEF Good
  <2> QED BY <1>1, <1>5
<1> QED BY <1>2, <1>6, <1>7

-----------------------------------------------------------------------------
(* What the first m events of a log say of an endpoint.                    *)

Told(l, m, e, kind) == {i \in 1..m : l[i].body.kind = kind /\ l[i].body.at = e}
Mentions(l, m, e, d) == \E i \in 1..m : l[i].body.at = e /\ d \in ToSet(l[i].body.refs)

IsLast(S, i) == i \in S /\ \A j \in S : j <= i

Says(l, m, e, entry) ==
    /\ \/ Told(l, m, e, "port") = {} /\ entry.state = 0
       \/ \E i \in Told(l, m, e, "port") :
            IsLast(Told(l, m, e, "port"), i) /\ entry.state = l[i].body.state
    /\ \/ Told(l, m, e, "service") = {} /\ entry.seen = NoObservation
       \/ \E i \in Told(l, m, e, "service") :
            IsLast(Told(l, m, e, "service"), i) /\ entry.seen = l[i].body.seen
    /\ entry.refs \in Seq(Nat) /\ Distinct(entry.refs)
    /\ \A d : d \in ToSet(entry.refs) <=> Mentions(l, m, e, d)

\* What a fold of the first m events is.
Believes(l, m, g) ==
    /\ IsFold(g)
    /\ DOMAIN g.endpoints = {l[i].body.at : i \in 1..m} \ {0}
    /\ \A e \in Nat \ {0} : Says(l, m, e, Entry(g, e))
    /\ g.hosts_up = {l[i].body.what : i \in {j \in 1..m : l[j].body.kind = "host"}}
    /\ g.terminal.kind = "completed" => \E i \in 1..m : l[i].body.kind = "completed"
    /\ g.plan_hash = IF m # 0 /\ l[1].body.kind = "started" THEN l[1].body.what ELSE 0

LEMMA ToldSame ==
    ASSUME NEW l, NEW m \in Nat, NEW e, NEW kind,
           ~(l[m + 1].body.kind = kind /\ l[m + 1].body.at = e)
    PROVE  Told(l, m + 1, e, kind) = Told(l, m, e, kind)
<1>1. 1..(m + 1) = 1..m \cup {m + 1}
  OBVIOUS
<1> QED BY <1>1 DEF Told

LEMMA MentionsGrows ==
    ASSUME NEW l, NEW m \in Nat, NEW e, NEW d
    PROVE  Mentions(l, m + 1, e, d) <=>
             Mentions(l, m, e, d) \/ (l[m + 1].body.at = e /\ d \in ToSet(l[m + 1].body.refs))
<1>1. 1..(m + 1) = 1..m \cup {m + 1}
  OBVIOUS
<1> QED BY <1>1 DEF Mentions

\* An event about another endpoint changes nothing of what is said of this one.
LEMMA SaysStill ==
    ASSUME NEW l, NEW m \in Nat, NEW e, NEW entry, l[m + 1].body.at # e, Says(l, m, e, entry)
    PROVE  Says(l, m + 1, e, entry)
<1>1. Told(l, m + 1, e, "port") = Told(l, m, e, "port")
  BY ToldSame
<1>2. Told(l, m + 1, e, "service") = Told(l, m, e, "service")
  BY ToldSame
<1>3. \A d : Mentions(l, m + 1, e, d) <=> Mentions(l, m, e, d)
  BY MentionsGrows
<1> QED BY <1>1, <1>2, <1>3 DEF Says

\* An event about it is the last of its kind.
LEMMA SaysAnew ==
    ASSUME NEW l, NEW m \in Nat, NEW e, NEW old, NEW new, Says(l, m, e, old),
           l[m + 1].body.at = e, l[m + 1].body.kind \in {"port", "service"},
           l[m + 1].body.refs \in Seq(Nat),
           new.state = IF l[m + 1].body.kind = "port" THEN l[m + 1].body.state ELSE old.state,
           new.seen = IF l[m + 1].body.kind = "service" THEN l[m + 1].body.seen ELSE old.seen,
           new.refs = Cited(old.refs, l[m + 1].body.refs)
    PROVE  Says(l, m + 1, e, new)
<1> DEFINE b == l[m + 1].body
           P == Told(l, m, e, "port")
           Q == Told(l, m, e, "service")
<1>0. 1..(m + 1) = 1..m \cup {m + 1}
  OBVIOUS
<1>1. \A i \in P \cup Q : i \in 1..m
  BY DEF Told
<1>2. \A S : (\A i \in S : i \in 1..m) => IsLast(S \cup {m + 1}, m + 1)
  BY DEF IsLast
<1>3. \/ Told(l, m + 1, e, "port") = {} /\ new.state = 0
      \/ \E i \in Told(l, m + 1, e, "port") :
           IsLast(Told(l, m + 1, e, "port"), i) /\ new.state = l[i].body.state
  <2>1. CASE b.kind = "port"
    <3>1. Told(l, m + 1, e, "port") = P \cup {m + 1}
      BY <1>0, <2>1 DEF Told
    <3>2. IsLast(P \cup {m + 1}, m + 1) /\ new.state = b.state
      BY <1>1, <1>2, <2>1
    <3> QED BY <3>1, <3>2
  <2>2. CASE b.kind # "port"
    <3>1. Told(l, m + 1, e, "port") = P
      BY <2>2, ToldSame
    <3>2. new.state = old.state
      BY <2>2
    <3> QED BY <3>1, <3>2 DEF Says
  <2> QED BY <2>1, <2>2
<1>4. \/ Told(l, m + 1, e, "service") = {} /\ new.seen = NoObservation
      \/ \E i \in Told(l, m + 1, e, "service") :
           IsLast(Told(l, m + 1, e, "service"), i) /\ new.seen = l[i].body.seen
  <2>1. CASE b.kind = "service"
    <3>1. Told(l, m + 1, e, "service") = Q \cup {m + 1}
      BY <1>0, <2>1 DEF Told
    <3>2. IsLast(Q \cup {m + 1}, m + 1) /\ new.seen = b.seen
      BY <1>1, <1>2, <2>1
    <3> QED BY <3>1, <3>2
  <2>2. CASE b.kind # "service"
    <3>1. Told(l, m + 1, e, "service") = Q
      BY <2>2, ToldSame
    <3>2. new.seen = old.seen
      BY <2>2
    <3> QED BY <3>1, <3>2 DEF Says
  <2> QED BY <2>1, <2>2
<1>5. old.refs \in Seq(Nat) /\ Distinct(old.refs)
  BY DEF Says
<1>6. /\ new.refs \in Seq(Nat) /\ Distinct(new.refs)
      /\ ToSet(new.refs) = ToSet(old.refs) \cup ToSet(b.refs)
  BY <1>5, CitesOnce
<1>7. \A d : d \in ToSet(new.refs) <=> Mentions(l, m + 1, e, d)
  <2> TAKE d
  <2>1. d \in ToSet(old.refs) <=> Mentions(l, m, e, d)
    BY DEF Says
  <2>2. Mentions(l, m + 1, e, d) <=> Mentions(l, m, e, d) \/ d \in ToSet(b.refs)
    BY MentionsGrows
  <2> QED BY <1>6, <2>1, <2>2
<1> QED BY <1>3, <1>4, <1>6, <1>7 DEF Says

LEMMA BelievesNothing == ASSUME NEW l PROVE Believes(l, 0, EmptyFold)
<1>1. IsFold(EmptyFold) /\ DOMAIN EmptyFold.endpoints = {}
  BY EmptyIsFold
<1>2. /\ EmptyFold.hosts_up = {} /\ EmptyFold.terminal = Progress /\ EmptyFold.plan_hash = 0
  BY DEF EmptyFold
<1>3. Progress.kind = "progress"
  BY DEF Progress, Body
<1>4. \A e : Entry(EmptyFold, e) = NoEndpoint
  BY <1>1 DEF Entry
<1>5. ASSUME NEW e PROVE Says(l, 0, e, NoEndpoint)
  <2>1. \A kind : Told(l, 0, e, kind) = {}
    BY DEF Told
  <2>2. \A d : ~Mentions(l, 0, e, d)
    BY DEF Mentions
  <2>3. /\ NoEndpoint.state = 0 /\ NoEndpoint.seen = NoObservation /\ NoEndpoint.refs = <<>>
    BY DEF NoEndpoint
  <2>4. NoEndpoint.refs \in Seq(Nat) /\ ToSet(NoEndpoint.refs) = {} /\ Distinct(NoEndpoint.refs)
    BY <2>3, EmptySeq DEF ToSet, Distinct
  <2> QED BY <2>1, <2>2, <2>3, <2>4 DEF Says
<1>6. /\ {l[i].body.at : i \in 1..0} = {}
      /\ {l[i].body.what : i \in {j \in 1..0 : l[j].body.kind = "host"}} = {}
  OBVIOUS
<1> QED BY <1>1, <1>2, <1>3, <1>4, <1>5, <1>6 DEF Believes

LEMMA WrittenEvent ==
    ASSUME NEW l, AsWritten(l), NEW i \in 1..Len(l)
    PROVE  LET b == l[i].body
           IN  /\ l[i] \in Event /\ l[i].sequence = i
               /\ i = 1 => b.kind \in {"started", "denied"}
               /\ b.kind = "started" => i = 1
               /\ b.at # 0 <=> b.kind \in {"port", "service"}
BY DEF AsWritten

\* One more event of a log as written.
LEMMA BelievesMore ==
    ASSUME NEW l, AsWritten(l), NEW m \in Nat, m + 1 \in 1..Len(l), NEW g, Believes(l, m, g)
    PROVE  Believes(l, m + 1, Apply(g, l[m + 1]))
<1> DEFINE event == l[m + 1]
           b == event.body
           h == Apply(g, event)
           old == Entry(g, b.at)
<1>1. /\ event \in Event
      /\ m + 1 = 1 => b.kind \in {"started", "denied"}
      /\ b.kind = "started" => m + 1 = 1
      /\ b.at # 0 <=> b.kind \in {"port", "service"}
  BY WrittenEvent
<1>2. /\ b.at \in Nat /\ b.refs \in Seq(Nat)
      /\ b.kind \in {"started", "host", "port", "service", "progress",
                     "denied", "completed", "failed"}
  BY <1>1, EventFields
<1>3. /\ IsFold(g)
      /\ DOMAIN g.endpoints = {l[i].body.at : i \in 1..m} \ {0}
      /\ \A e \in Nat \ {0} : Says(l, m, e, Entry(g, e))
      /\ g.hosts_up = {l[i].body.what : i \in {j \in 1..m : l[j].body.kind = "host"}}
      /\ g.terminal.kind = "completed" => \E i \in 1..m : l[i].body.kind = "completed"
      /\ g.plan_hash = IF m # 0 /\ l[1].body.kind = "started" THEN l[1].body.what ELSE 0
  BY DEF Believes
<1>4. 1..(m + 1) = 1..m \cup {m + 1}
  OBVIOUS
<1>5. {l[i].body.at : i \in 1..(m + 1)} = {l[i].body.at : i \in 1..m} \cup {b.at}
  BY <1>4
<1>6. {j \in 1..(m + 1) : l[j].body.kind = "host"} =
        IF b.kind = "host" THEN {j \in 1..m : l[j].body.kind = "host"} \cup {m + 1}
                           ELSE {j \in 1..m : l[j].body.kind = "host"}
  <2>1. CASE b.kind = "host"
    BY <1>4, <2>1
  <2>2. CASE b.kind # "host"
    BY <1>4, <2>2
  <2> QED BY <2>1, <2>2
<1>7. CASE b.kind \in {"port", "service"}
  <2>1. /\ IsFold(h)
        /\ DOMAIN h.endpoints = DOMAIN g.endpoints \cup {b.at}
        /\ \A x \in DOMAIN g.endpoints \ {b.at} : h.endpoints[x] = g.endpoints[x]
        /\ h.endpoints[b.at].state = IF b.kind = "port" THEN b.state ELSE old.state
        /\ h.endpoints[b.at].seen = IF b.kind = "service" THEN b.seen ELSE old.seen
        /\ h.endpoints[b.at].refs = Cited(old.refs, b.refs)
        /\ h.hosts_up = g.hosts_up /\ h.terminal = g.terminal
        /\ h.plan_hash = g.plan_hash
    <3>1. IsFold(g) /\ event \in Event /\ event.body.kind \in {"port", "service"}
      BY <1>1, <1>3, <1>7
    <3> HIDE DEF event
    <3> QED BY <3>1, ApplyToEndpoint
  <2> HIDE DEF h
  <2>2. b.at # 0 /\ m # 0
    BY <1>1, <1>7
  <2>3. DOMAIN h.endpoints = {l[i].body.at : i \in 1..(m + 1)} \ {0}
    BY <1>3, <1>5, <2>1, <2>2
  <2>4. ASSUME NEW e \in Nat \ {0} PROVE Says(l, m + 1, e, Entry(h, e))
    <3>1. Says(l, m, e, Entry(g, e))
      BY <1>3
    <3>2. CASE e = b.at
      <4>1. Entry(h, e) = h.endpoints[e]
        BY <2>1, <3>2 DEF Entry
      <4> DEFINE new == Entry(h, e)
                 was == Entry(g, e)
      <4>2. /\ new.state = IF b.kind = "port" THEN b.state ELSE was.state
            /\ new.seen = IF b.kind = "service" THEN b.seen ELSE was.seen
            /\ new.refs = Cited(was.refs, b.refs)
        BY <2>1, <3>2, <4>1
      <4>3. Says(l, m, e, was)
        BY <3>1
      <4> HIDE DEF new, was
      <4>4. Says(l, m + 1, e, new)
        BY <1>2, <1>7, <3>2, <4>2, <4>3, SaysAnew
      <4> QED BY <4>4 DEF new
    <3>3. CASE e # b.at
      <4>1. Entry(h, e) = Entry(g, e)
        BY <2>1, <3>3 DEF Entry
      <4> QED BY <3>1, <3>3, <4>1, SaysStill
    <3> QED BY <3>2, <3>3
  <2>5. b.kind # "host" /\ b.kind # "completed" /\ b.kind # "started"
    BY <1>7
  <2>6. h.hosts_up = {l[i].body.what : i \in {j \in 1..(m + 1) : l[j].body.kind = "host"}}
    BY <1>3, <1>6, <2>1, <2>5
  <2>7. h.terminal.kind = "completed" => \E i \in 1..(m + 1) : l[i].body.kind = "completed"
    BY <1>3, <1>4, <2>1
  <2>8. h.plan_hash =
          IF m + 1 # 0 /\ l[1].body.kind = "started" THEN l[1].body.what ELSE 0
    BY <1>3, <2>1, <2>2
  <2> QED BY <2>1, <2>3, <2>4, <2>6, <2>7, <2>8 DEF Believes, h
<1>8. CASE b.kind \notin {"port", "service"}
  <2>1. /\ IsFold(h) /\ h.endpoints = g.endpoints
        /\ h.hosts_up = IF b.kind = "host" THEN g.hosts_up \cup {b.what} ELSE g.hosts_up
        /\ h.terminal = IF b.kind \in TerminalKinds THEN b ELSE g.terminal
        /\ h.plan_hash = IF b.kind = "started" THEN b.what ELSE g.plan_hash
    <3>1. IsFold(g) /\ event \in Event /\ event.body.kind \notin {"port", "service"}
      BY <1>1, <1>3, <1>8
    <3> HIDE DEF event
    <3> QED BY <3>1, ApplyElsewhere
  <2> HIDE DEF h
  <2>2. b.at = 0
    BY <1>1, <1>8
  <2>3. DOMAIN h.endpoints = {l[i].body.at : i \in 1..(m + 1)} \ {0}
    BY <1>3, <1>5, <2>1, <2>2
  <2>4. ASSUME NEW e \in Nat \ {0} PROVE Says(l, m + 1, e, Entry(h, e))
    <3>1. Entry(h, e) = Entry(g, e) /\ Says(l, m, e, Entry(g, e))
      BY <1>3, <2>1 DEF Entry
    <3>2. l[m + 1].body.at # e
      BY <2>2
    <3> QED BY <3>1, <3>2, SaysStill
  <2>5. h.hosts_up = {l[i].body.what : i \in {j \in 1..(m + 1) : l[j].body.kind = "host"}}
    <3> DEFINE H == {j \in 1..m : l[j].body.kind = "host"}
    <3>1. {l[i].body.what : i \in H \cup {m + 1}} = {l[i].body.what : i \in H} \cup {b.what}
      OBVIOUS
    <3>2. CASE b.kind = "host"
      BY <1>3, <1>6, <2>1, <3>1, <3>2
    <3>3. CASE b.kind # "host"
      BY <1>3, <1>6, <2>1, <3>3
    <3> QED BY <3>2, <3>3
  <2>6. h.terminal.kind = "completed" => \E i \in 1..(m + 1) : l[i].body.kind = "completed"
    BY <1>3, <1>4, <2>1
  <2>7. h.plan_hash =
          IF m + 1 # 0 /\ l[1].body.kind = "started" THEN l[1].body.what ELSE 0
    <3>1. CASE m = 0
      BY <1>3, <2>1, <3>1
    <3>2. CASE m # 0
      BY <1>1, <1>3, <2>1, <3>2
    <3> QED BY <3>1, <3>2
  <2> QED BY <2>1, <2>3, <2>4, <2>5, <2>6, <2>7 DEF Believes, h
<1> QED BY <1>7, <1>8

\* And so of the whole log.
LEMMA FoldBelieves ==
    ASSUME NEW l, AsWritten(l)
    PROVE  Believes(l, Len(l), fold_events(l))
<1> DEFINE n == Len(l)
<1>1. l \in Seq(Event) /\ n \in Nat /\ DOMAIN l = 1..n
  BY DEF AsWritten
<1>2. total_order(l) = l
  BY <1>1, NumberedInOrder DEF AsWritten
<1>3. PICK f : Folds("apply", EmptyFold, l, n, f) /\ fold_events(l) = f[n]
  BY <1>1, <1>2, FoldUnfolds DEF fold_events
<1> DEFINE S == {m \in Nat : m <= n => Believes(l, m, f[m])}
<1>4. 0 \in S
  BY <1>3, BelievesNothing DEF Folds
<1>5. ASSUME NEW m \in Nat, m \in S PROVE m + 1 \in S
  <2> SUFFICES ASSUME m + 1 <= n PROVE Believes(l, m + 1, f[m + 1])
    OBVIOUS
  <2>1. Believes(l, m, f[m]) /\ m + 1 \in 1..n
    BY <1>1, <1>5
  <2>2. f[m + 1] = Apply(f[m], l[m + 1])
    BY <1>3, <2>1 DEF Folds, Folder
  <2> QED BY <2>1, <2>2, BelievesMore
<1>6. Nat \subseteq S
  <2> HIDE DEF S
  <2> QED BY <1>4, <1>5, SetInduction
<1> QED BY <1>1, <1>3, <1>6

\* A scan that completed has an entry for each endpoint of its plan, and for
\* no other.
LEMMA CompletedCovers ==
    ASSUME NEW l, AsWritten(l), completed(fold_events(l))
    PROVE  /\ fold_events(l).plan_hash \in DOMAIN Plans
           /\ DOMAIN fold_events(l).endpoints = Plans[fold_events(l).plan_hash]
<1> DEFINE n == Len(l)
           f == fold_events(l)
           p == l[1].body.what
<1>1. l \in Seq(Event) /\ n \in Nat /\ DOMAIN l = 1..n
  BY DEF AsWritten
<1>2. /\ DOMAIN f.endpoints = {l[i].body.at : i \in 1..n} \ {0}
      /\ \E i \in 1..n : l[i].body.kind = "completed"
      /\ f.plan_hash = IF n # 0 /\ l[1].body.kind = "started" THEN l[1].body.what ELSE 0
  BY FoldBelieves DEF Believes, completed
<1>3. PICK i \in 1..n : l[i].body.kind = "completed"
  BY <1>2
<1>4. /\ i = 1 => l[i].body.kind \in {"started", "denied"}
      /\ \A e \in Plans[p] : \E j \in DOMAIN l : l[j].body.kind = "port" /\ l[j].body.at = e
  BY <1>1, <1>3 DEF AsWritten
<1>5. 1 \in 1..n /\ n # 1
  BY <1>1, <1>3, <1>4
<1>6. l[1].body.kind = "started"
  <2>1. l[1].body.kind \in {"started", "denied"}
    BY <1>1, <1>5 DEF AsWritten
  <2>2. l[1].body.kind \in TerminalKinds => 1 = Len(l)
    BY <1>1, <1>5 DEF AsWritten
  <2> QED BY <1>5, <2>1, <2>2 DEF TerminalKinds
<1>7. p \in DOMAIN Plans /\ f.plan_hash = p
  BY <1>1, <1>2, <1>5, <1>6 DEF AsWritten
<1>8. Plans[p] \in SUBSET (Nat \ {0})
  BY <1>7, ResultsAssumption
<1> HIDE DEF f
<1>9. ASSUME NEW e \in DOMAIN f.endpoints PROVE e \in Plans[p]
  <2>1. PICK j \in 1..n : l[j].body.at = e /\ e # 0
    BY <1>2
  <2> QED BY <1>1, <2>1 DEF AsWritten
<1>10. ASSUME NEW e \in Plans[p] PROVE e \in DOMAIN f.endpoints
  <2>1. PICK j \in 1..n : l[j].body.at = e
    BY <1>1, <1>4
  <2> QED BY <1>2, <1>8, <2>1
<1> QED BY <1>7, <1>9, <1>10 DEF f

-----------------------------------------------------------------------------
(* What diff makes of two folds.                                           *)

\* Silence is judged alike both ways round, and so is everything else.
LEMMA Mirror ==
    ASSUME NEW f, NEW g, NEW e \in Either(f, g)
    PROVE  /\ Verdict(g, f, e) = Turned(Verdict(f, g, e))
           /\ Verdict(f, g, e) \in {"unchanged", "undetermined", "appeared", "disappeared",
                "state_changed", "service_changed", "product_changed", "version_changed",
                "confidence_only"}
<1>1. comparability(f, g) = comparability(g, f)
  BY DEF comparability
<1>2. CASE e \in DOMAIN f.endpoints /\ e \in DOMAIN g.endpoints
  <2> DEFINE x == f.endpoints[e]
             y == g.endpoints[e]
  <2>1. classify(x, y) = classify(y, x)
    BY DEF classify
  <2>2. classify(x, y) \in {"unchanged", "state_changed", "service_changed",
          "product_changed", "version_changed", "confidence_only"}
    BY DEF classify
  <2>3. Verdict(f, g, e) = classify(x, y) /\ Verdict(g, f, e) = classify(y, x)
    BY <1>2 DEF Verdict
  <2>4. Turned(classify(x, y)) = classify(x, y)
    BY <2>2 DEF Turned, Opposite
  <2> QED BY <2>1, <2>2, <2>3, <2>4
<1>3. CASE e \in DOMAIN f.endpoints /\ e \notin DOMAIN g.endpoints
  BY <1>1, <1>3 DEF Verdict, Turned, Opposite
<1>4. CASE e \notin DOMAIN f.endpoints /\ e \in DOMAIN g.endpoints
  BY <1>1, <1>4 DEF Verdict, Turned, Opposite
<1> QED BY <1>2, <1>3, <1>4 DEF Either

LEMMA SelfUnchanged ==
    ASSUME NEW f PROVE diff(f, f).changes = <<>>
<1>1. \A e \in Either(f, f) : Verdict(f, f, e) = "unchanged"
  BY DEF Either, Verdict, classify
<1> DEFINE ruled == [e \in Either(f, f) |-> Verdict(f, f, e)]
           C == {e \in DOMAIN ruled : ruled[e] \notin {"unchanged", "undetermined"}}
<1>2. diff(f, f).changes = [e \in C |-> ruled[e]]
  BY DEF diff
<1>3. C = {}
  BY <1>1
<1> HIDE DEF C
<1> QED BY <1>2, <1>3

Judged(f, g, kind) == {e \in Either(f, g) : Verdict(f, g, e) = kind}
Changed(f, g) == {e \in Either(f, g) : Verdict(f, g, e) \notin {"unchanged", "undetermined"}}

LEMMA DiffShape ==
    ASSUME NEW f, NEW g
    PROVE  /\ diff(f, g).changes = [e \in Changed(f, g) |-> Verdict(f, g, e)]
           /\ diff(f, g).unchanged = Cardinality(Judged(f, g, "unchanged"))
           /\ diff(f, g).undetermined = Judged(f, g, "undetermined")
<1> DEFINE U == Either(f, g)
           ruled == [e \in U |-> Verdict(f, g, e)]
           C == Changed(f, g)
<1>1. /\ {e \in DOMAIN ruled : ruled[e] \notin {"unchanged", "undetermined"}} = C
      /\ {e \in DOMAIN ruled : ruled[e] = "unchanged"} = Judged(f, g, "unchanged")
      /\ {e \in DOMAIN ruled : ruled[e] = "undetermined"} = Judged(f, g, "undetermined")
      /\ \A e \in C : ruled[e] = Verdict(f, g, e)
  BY DEF Changed, Judged
<1>2. [e \in C |-> ruled[e]] = [e \in C |-> Verdict(f, g, e)]
  BY <1>1
<1> QED BY <1>1, <1>2 DEF diff

LEMMA Disjoint ==
    ASSUME NEW A, NEW B, IsFiniteSet(A), IsFiniteSet(B), A \cap B = {}
    PROVE  /\ IsFiniteSet(A \cup B)
           /\ Cardinality(A \cup B) = Cardinality(A) + Cardinality(B)
           /\ Cardinality(A) \in Nat /\ Cardinality(B) \in Nat
<1>1. Cardinality(A) \in Nat /\ Cardinality(B) \in Nat
  BY FS_CardinalityType
<1>2. Cardinality(A \cap B) = 0
  BY FS_EmptySet
<1>3. /\ IsFiniteSet(A \cup B)
      /\ Cardinality(A \cup B) = Cardinality(A) + Cardinality(B) - Cardinality(A \cap B)
  BY FS_Union
<1> QED BY <1>1, <1>2, <1>3

\* Each endpoint is counted in one place.
LEMMA CountedOnce ==
    ASSUME NEW f, NEW g, IsFold(f), IsFold(g)
    PROVE  Cardinality(DOMAIN diff(f, g).changes) + diff(f, g).unchanged
             + Cardinality(diff(f, g).undetermined) = Cardinality(Either(f, g))
<1> DEFINE U == Either(f, g)
           C == Changed(f, g)
           N == Judged(f, g, "unchanged")
           M == Judged(f, g, "undetermined")
<1>1. /\ DOMAIN diff(f, g).changes = C
      /\ diff(f, g).unchanged = Cardinality(N) /\ diff(f, g).undetermined = M
  <2>1. diff(f, g).changes = [e \in C |-> Verdict(f, g, e)]
    BY DiffShape
  <2>2. diff(f, g).unchanged = Cardinality(N)
    BY DiffShape
  <2>3. diff(f, g).undetermined = M
    BY DiffShape
  <2> QED BY <2>1, <2>2, <2>3
<1>2. IsFiniteSet(U)
  BY FS_Union DEF IsFold, Either
<1>3. /\ C \in SUBSET U /\ N \in SUBSET U /\ M \in SUBSET U
      /\ C \cap N = {} /\ (C \cup N) \cap M = {} /\ (C \cup N) \cup M = U
  BY DEF Changed, Judged
<1> HIDE DEF U, C, N, M
<1>4. IsFiniteSet(C) /\ IsFiniteSet(N) /\ IsFiniteSet(M)
  BY <1>2, <1>3, FS_Subset
<1>5. /\ IsFiniteSet(C \cup N) /\ Cardinality(C \cup N) = Cardinality(C) + Cardinality(N)
      /\ Cardinality(C) \in Nat /\ Cardinality(N) \in Nat
  BY <1>3, <1>4, Disjoint
<1>6. Cardinality(U) = Cardinality(C \cup N) + Cardinality(M)
  BY <1>3, <1>4, <1>5, Disjoint
<1>7. Cardinality(C) + Cardinality(N) + Cardinality(M) = Cardinality(U)
  BY <1>5, <1>6
<1> QED BY <1>1, <1>7 DEF U

LEMMA TurnedRound ==
    ASSUME NEW f, NEW g
    PROVE  /\ diff(g, f).changes =
                [e \in DOMAIN diff(f, g).changes |-> Turned(diff(f, g).changes[e])]
           /\ diff(g, f).undetermined = diff(f, g).undetermined
<1> DEFINE C == Changed(f, g)
           D == Changed(g, f)
<1>1. Either(g, f) = Either(f, g)
  BY DEF Either
<1>2. \A e \in Either(f, g) :
        /\ Verdict(g, f, e) = Turned(Verdict(f, g, e))
        /\ Verdict(g, f, e) = "unchanged" <=> Verdict(f, g, e) = "unchanged"
        /\ Verdict(g, f, e) = "undetermined" <=> Verdict(f, g, e) = "undetermined"
  BY Mirror DEF Turned, Opposite
<1>3. C = D /\ Judged(g, f, "undetermined") = Judged(f, g, "undetermined")
  BY <1>1, <1>2 DEF Changed, Judged
<1>4. C \subseteq Either(f, g)
  BY DEF Changed
<1> HIDE DEF C, D
<1>5. diff(f, g).changes = [e \in C |-> Verdict(f, g, e)]
  BY DiffShape DEF C
<1>6. diff(g, f).changes = [e \in D |-> Verdict(g, f, e)]
  BY DiffShape DEF D
<1>7. [e \in D |-> Verdict(g, f, e)] = [e \in C |-> Turned(Verdict(f, g, e))]
  BY <1>2, <1>3, <1>4
<1>8. [e \in DOMAIN diff(f, g).changes |-> Turned(diff(f, g).changes[e])] =
        [e \in C |-> Turned(Verdict(f, g, e))]
  BY <1>5
<1>9. diff(g, f).undetermined = Judged(g, f, "undetermined")
  BY DiffShape
<1>10. diff(f, g).undetermined = Judged(f, g, "undetermined")
  BY DiffShape
<1> QED BY <1>3, <1>6, <1>7, <1>8, <1>9, <1>10

\* Silence counts as a change only where both scans completed the same plan.
LEMMA SilenceIsEvidence ==
    ASSUME NEW f, NEW g, NEW e \in DOMAIN diff(f, g).changes,
           diff(f, g).changes[e] \in DOMAIN Opposite
    PROVE  /\ completed(f) /\ completed(g)
           /\ f.plan_hash = g.plan_hash /\ g.plan_hash # 0
           /\ e \in DOMAIN f.endpoints <=> e \notin DOMAIN g.endpoints
<1>1. e \in Either(f, g) /\ diff(f, g).changes[e] = Verdict(f, g, e)
  <2>1. diff(f, g).changes = [x \in Changed(f, g) |-> Verdict(f, g, x)]
    BY DiffShape
  <2>2. e \in Changed(f, g)
    BY <2>1
  <2> QED BY <2>1, <2>2 DEF Changed
<1>2. Verdict(f, g, e) = "appeared" \/ Verdict(f, g, e) = "disappeared"
  BY <1>1 DEF Opposite
<1>3. ~(e \in DOMAIN f.endpoints /\ e \in DOMAIN g.endpoints)
  BY <1>2 DEF Verdict, classify
<1>4. comparability(f, g) = "evidence"
  BY <1>2, <1>3 DEF Verdict
<1> QED BY <1>1, <1>3, <1>4 DEF comparability, Either

LEMMA LogIsFold ==
    ASSUME NEW l \in Seq(Event) PROVE IsFold(fold_events(l))
<1>1. \A i \in DOMAIN l : l[i].body.refs \in Seq(Nat)
  BY EventFields
<1> QED BY <1>1, FoldCitesEvents

-----------------------------------------------------------------------------
(* A log stays as written while its run appends to it.                     *)

Numbered(body) == [sequence |-> Len(log) + 1, body |-> body]

LEMMA BodyFields ==
    ASSUME NEW b \in EventBody
    PROVE  /\ b.at \in Nat /\ b.state \in Nat
           /\ b.seen \in Observation /\ b.refs \in Seq(Nat) /\ b.what \in Nat
           /\ b.kind \in {"started", "host", "port", "service", "progress",
                          "denied", "completed", "failed"}
BY DEF EventBody, TerminalKinds

LEMMA EmptyBody ==
    ASSUME NEW k \in {"started", "host", "port", "service", "progress",
                      "denied", "completed", "failed"}
    PROVE  /\ Body(k) \in EventBody /\ Body(k).kind = k /\ Body(k).at = 0 /\ Body(k).what = 0
           /\ Body(k).refs = <<>>
<1>1. NoObservation \in Observation
  BY DEF NoObservation, Observation
<1>2. <<>> \in Seq(Nat)
  BY EmptySeq
<1> QED BY <1>1, <1>2 DEF Body, EventBody, TerminalKinds

\* What each constructor makes.
LEMMA MadePlain ==
    ASSUME NEW n \in Nat
    PROVE  /\ Started(n) \in EventBody /\ Started(n).kind = "started" /\ Started(n).at = 0
           /\ Started(n).what = n /\ Started(n).refs = <<>>
           /\ Host(n) \in EventBody /\ Host(n).kind = "host" /\ Host(n).at = 0
           /\ Host(n).refs = <<>>
           /\ Denied(n) \in EventBody /\ Denied(n).kind = "denied" /\ Denied(n).at = 0
           /\ Denied(n).refs = <<>>
           /\ Completed(n) \in EventBody /\ Completed(n).kind = "completed"
           /\ Completed(n).at = 0 /\ Completed(n).refs = <<>>
           /\ Failed(n) \in EventBody /\ Failed(n).kind = "failed" /\ Failed(n).at = 0
           /\ Failed(n).refs = <<>>
           /\ Progress \in EventBody /\ Progress.kind = "progress" /\ Progress.at = 0
           /\ Progress.refs = <<>>
<1>1. /\ Body("started") \in EventBody /\ Body("host") \in EventBody
      /\ Body("denied") \in EventBody /\ Body("completed") \in EventBody
      /\ Body("failed") \in EventBody /\ Body("progress") \in EventBody
  BY EmptyBody
<1>2. ASSUME NEW b \in EventBody
      PROVE  /\ [b EXCEPT !.what = n] \in EventBody
             /\ [b EXCEPT !.what = n].kind = b.kind /\ [b EXCEPT !.what = n].at = b.at
             /\ [b EXCEPT !.what = n].what = n /\ [b EXCEPT !.what = n].refs = b.refs
  BY DEF EventBody
<1>3. Started(n) \in EventBody /\ Started(n).kind = "started" /\ Started(n).at = 0
      /\ Started(n).what = n /\ Started(n).refs = <<>>
  BY <1>1, <1>2, EmptyBody DEF Started
<1>4. Host(n) \in EventBody /\ Host(n).kind = "host" /\ Host(n).at = 0 /\ Host(n).refs = <<>>
  BY <1>1, <1>2, EmptyBody DEF Host
<1>5. Denied(n) \in EventBody /\ Denied(n).kind = "denied" /\ Denied(n).at = 0
      /\ Denied(n).refs = <<>>
  BY <1>1, <1>2, EmptyBody DEF Denied
<1>6. Completed(n) \in EventBody /\ Completed(n).kind = "completed" /\ Completed(n).at = 0
      /\ Completed(n).refs = <<>>
  BY <1>1, <1>2, EmptyBody DEF Completed
<1>7. Failed(n) \in EventBody /\ Failed(n).kind = "failed" /\ Failed(n).at = 0
      /\ Failed(n).refs = <<>>
  BY <1>1, <1>2, EmptyBody DEF Failed
<1>8. Progress \in EventBody /\ Progress.kind = "progress" /\ Progress.at = 0
      /\ Progress.refs = <<>>
  BY <1>1, EmptyBody DEF Progress
<1> QED BY <1>3, <1>4, <1>5, <1>6, <1>7, <1>8

LEMMA MadePort ==
    ASSUME NEW e \in Nat, NEW st \in Nat
    PROVE  /\ PortState(e, st, <<>>) \in EventBody /\ PortState(e, st, <<>>).kind = "port"
           /\ PortState(e, st, <<>>).at = e /\ PortState(e, st, <<>>).refs = <<>>
<1> DEFINE b == Body("port")
           none == <<>>
<1>1. b \in EventBody /\ b.kind = "port" /\ none \in Seq(Nat)
  BY EmptyBody, EmptySeq
<1>2. PortState(e, st, <<>>) = [b EXCEPT !.at = e, !.state = st, !.refs = none]
  BY DEF PortState
<1> HIDE DEF b, none
<1>3. /\ PortState(e, st, <<>>) \in EventBody /\ PortState(e, st, <<>>).kind = "port"
      /\ PortState(e, st, <<>>).at = e /\ PortState(e, st, <<>>).refs = none
  BY <1>1, <1>2 DEF EventBody
<1> QED BY <1>3 DEF none

LEMMA MadeService ==
    ASSUME NEW e \in Nat, NEW seen \in Observation, NEW refs \in Seq(Nat)
    PROVE  /\ Service(e, seen, refs) \in EventBody /\ Service(e, seen, refs).kind = "service"
           /\ Service(e, seen, refs).at = e /\ Service(e, seen, refs).refs = refs
<1> DEFINE b == Body("service")
<1>1. b \in EventBody /\ b.kind = "service"
  BY EmptyBody
<1>2. Service(e, seen, refs) = [b EXCEPT !.at = e, !.seen = seen, !.refs = refs]
  BY DEF Service
<1> HIDE DEF b
<1> QED BY <1>1, <1>2 DEF EventBody

\* A log as written stays so when the run appends what it may.
LEMMA Grows ==
    ASSUME AsWritten(log), NEW body \in EventBody, ~Ended,
           log = <<>> => body.kind \in {"started", "denied"},
           body.kind = "started" => log = <<>> /\ body.what \in DOMAIN Plans,
           body.at # 0 <=> body.kind \in {"port", "service"},
           body.at # 0 => body.at \in Plans[log[1].body.what],
           body.kind = "completed" => Plans[log[1].body.what] \subseteq Probed
    PROVE  AsWritten(Append(log, Numbered(body)))
<1> DEFINE n == Len(log)
           event == Numbered(body)
           l == Append(log, event)
<1>1. log \in Seq(Event) /\ n \in Nat /\ DOMAIN log = 1..n
  BY DEF AsWritten
<1>2. event \in Event /\ event.sequence = n + 1 /\ event.body = body
  BY <1>1 DEF Event, Numbered
<1> HIDE DEF event
<1>3. /\ l \in Seq(Event) /\ Len(l) = n + 1 /\ DOMAIN l = 1..(n + 1)
      /\ \A i \in 1..n : l[i] = log[i]
      /\ l[n + 1] = event
  BY <1>1, <1>2, AppendProperties
<1>4. n = 0 <=> log = <<>>
  BY <1>1, EmptySeq
<1> HIDE DEF l
<1>5. n # 0 => l[1] = log[1]
  BY <1>1, <1>3
<1>6. ASSUME NEW i \in 1..n
      PROVE  LET b == l[i].body
             IN  /\ l[i].sequence = i
                 /\ i = 1 => b.kind \in {"started", "denied"}
                 /\ b.kind = "started" => i = 1 /\ b.what \in DOMAIN Plans
                 /\ b.at # 0 <=> b.kind \in {"port", "service"}
                 /\ b.at # 0 => b.at \in Plans[l[1].body.what]
                 /\ b.kind \notin TerminalKinds
  <2>1. l[i] = log[i] /\ l[1] = log[1] /\ i \in DOMAIN log
    BY <1>1, <1>3, <1>5
  <2>2. log[i].body.kind \notin TerminalKinds
    BY <2>1 DEF Ended
  <2> QED BY <2>1, <2>2 DEF AsWritten
<1>7. /\ l[n + 1].sequence = n + 1 /\ l[n + 1].body = body
      /\ n + 1 = 1 => body.kind \in {"started", "denied"}
      /\ body.kind = "started" => n + 1 = 1 /\ body.what \in DOMAIN Plans
      /\ body.at # 0 => body.at \in Plans[l[1].body.what]
  <2>1. body.at # 0 => n # 0
    <3>1. body.kind \in {"port", "service"} => log # <<>>
      OBVIOUS
    <3> QED BY <1>4, <3>1
  <2> QED BY <1>1, <1>2, <1>3, <1>4, <1>5, <2>1
<1>8. ASSUME body.kind = "completed", NEW e \in Plans[l[1].body.what]
      PROVE  \E j \in DOMAIN l : l[j].body.kind = "port" /\ l[j].body.at = e
  <2>1. n # 0
    BY <1>4, <1>8
  <2>2. e \in Probed
    BY <1>5, <1>8, <2>1
  <2>3. PICK j \in DOMAIN log : log[j].body.kind = "port" /\ log[j].body.at = e
    BY <2>2 DEF Probed, Bodies
  <2> QED BY <1>1, <1>3, <2>3
<1>9. ASSUME NEW i \in DOMAIN l
      PROVE  LET b == l[i].body
             IN  /\ l[i].sequence = i
                 /\ i = 1 => b.kind \in {"started", "denied"}
                 /\ b.kind = "started" => i = 1 /\ b.what \in DOMAIN Plans
                 /\ b.at # 0 <=> b.kind \in {"port", "service"}
                 /\ b.at # 0 => b.at \in Plans[l[1].body.what]
                 /\ b.kind \in TerminalKinds => i = Len(l)
                 /\ b.kind = "completed" =>
                      \A e \in Plans[l[1].body.what] :
                        \E j \in DOMAIN l : l[j].body.kind = "port" /\ l[j].body.at = e
  <2>1. i \in 1..n \/ i = n + 1
    BY <1>1, <1>3
  <2>2. CASE i \in 1..n
    <3>1. "completed" \in TerminalKinds
      BY DEF TerminalKinds
    <3> QED BY <1>6, <2>2, <3>1
  <2>3. CASE i = n + 1
    BY <1>3, <1>7, <1>8, <2>3
  <2> QED BY <2>1, <2>2, <2>3
<1>10. AsWritten(l)
  BY <1>3, <1>9 DEF AsWritten
<1> QED BY <1>10 DEF l, event

\* And when its tail is lost.
LEMMA Shrinks ==
    ASSUME NEW l, AsWritten(l), NEW n \in 0..Len(l)
    PROVE  AsWritten(SubSeq(l, 1, n))
<1> DEFINE m == SubSeq(l, 1, n)
<1>1. l \in Seq(Event) /\ Len(l) \in Nat /\ DOMAIN l = 1..Len(l)
  BY DEF AsWritten
<1>2. /\ m \in Seq(Event) /\ Len(m) = n /\ DOMAIN m = 1..n
      /\ \A i \in 1..n : m[i] = l[i]
  <2>1. m \in Seq(Event) /\ Len(m) = n
    BY <1>1, SubSeqProperties
  <2>2. \A i \in 1..n : m[i] = l[i]
    BY <1>1, SubSeqProperties
  <2> QED BY <2>1, <2>2
<1> HIDE DEF m
<1>3. ASSUME NEW i \in DOMAIN m
      PROVE  LET b == m[i].body
             IN  /\ m[i].sequence = i
                 /\ i = 1 => b.kind \in {"started", "denied"}
                 /\ b.kind = "started" => i = 1 /\ b.what \in DOMAIN Plans
                 /\ b.at # 0 <=> b.kind \in {"port", "service"}
                 /\ b.at # 0 => b.at \in Plans[m[1].body.what]
                 /\ b.kind \in TerminalKinds => i = Len(m)
                 /\ b.kind = "completed" =>
                      \A e \in Plans[m[1].body.what] :
                        \E j \in DOMAIN m : m[j].body.kind = "port" /\ m[j].body.at = e
  <2>1. /\ m[i] = l[i] /\ m[1] = l[1] /\ i \in DOMAIN l /\ i \in 1..n
    BY <1>1, <1>2
  <2>2. l[i].body.kind \in TerminalKinds => n = Len(l) /\ i = n
    <3>1. l[i].body.kind \in TerminalKinds => i = Len(l)
      BY <2>1 DEF AsWritten
    <3>2. \A a, b, c \in Nat : a <= b /\ b <= c /\ a = c => b = c
      OBVIOUS
    <3>3. i \in Nat /\ n \in Nat /\ i <= n /\ n <= Len(l)
      BY <1>1, <2>1
    <3> QED BY <1>1, <3>1, <3>2, <3>3
  <2>3. n = Len(l) => DOMAIN m = DOMAIN l /\ \A j \in DOMAIN l : m[j] = l[j]
    BY <1>1, <1>2
  <2>4. "completed" \in TerminalKinds
    BY DEF TerminalKinds
  <2>5. /\ m[i].sequence = i
        /\ i = 1 => m[i].body.kind \in {"started", "denied"}
        /\ m[i].body.kind = "started" => i = 1 /\ m[i].body.what \in DOMAIN Plans
        /\ m[i].body.at # 0 <=> m[i].body.kind \in {"port", "service"}
        /\ m[i].body.at # 0 => m[i].body.at \in Plans[m[1].body.what]
    BY <2>1 DEF AsWritten
  <2>6. m[i].body.kind = "completed" =>
          \A e \in Plans[m[1].body.what] :
            \E j \in DOMAIN m : m[j].body.kind = "port" /\ m[j].body.at = e
    BY <2>1, <2>2, <2>3, <2>4 DEF AsWritten
  <2> QED BY <1>2, <2>1, <2>2, <2>5, <2>6
<1> QED BY <1>2, <1>3 DEF AsWritten, m

-----------------------------------------------------------------------------
(* The store of captures, and the invariant.                               *)

File == [bytes : Bytes, synced : BOOLEAN]
ActivePut == [at : {"write", "sync", "rename", "sync_dir", "done"}, digest : Digests]

StoreTypes == /\ temp \in [Writers -> File]
              /\ blob \in [Digests -> File]
              /\ onDisk \in [Digests -> Bytes]
              /\ putting \in [Writers -> {NoPut} \cup ActivePut]

\* A blob's path never holds another capture's bytes nor, unless the disk
\* decayed, half of its own.
Whole == \A d \in Digests :
    /\ blob[d].bytes = d => blob[d].synced
    /\ blob[d].bytes \in {Absent, d} \/ (blob[d].bytes = Junk /\ d \in rotted)
    /\ onDisk[d] \in {Absent, d} \/ (onDisk[d] = Junk /\ d \in rotted)

\* The capture can be fetched, and could be after a power failure that leaves
\* its directory.
Kept(d) == d \notin rotted \cup swept => blob[d].bytes = d /\ onDisk[d] = d

\* What each step of a put relies on of the ones before it.
Progressing == \A w \in Writers :
    /\ putting[w].at = "sync" => temp[w].bytes = putting[w].digest
    /\ putting[w].at = "rename" => temp[w] = [bytes |-> putting[w].digest, synced |-> TRUE]
    /\ putting[w].at = "sync_dir" => blob[putting[w].digest].bytes # Absent
    /\ putting[w].at = "done" => Kept(putting[w].digest)

\* The observation in hand cites the capture being put, and may be logged next.
InHand == putting[scan] # NoPut =>
    /\ pending.refs = <<putting[scan].digest>>
    /\ ~edited /\ AsWritten(Append(log, Numbered(pending)))

Recorded == log \in Seq(Event) /\ (~edited => AsWritten(log))

RefsOf(body) == {body.refs[k] : k \in DOMAIN body.refs}
cited == UNION {RefsOf(log[i].body) : i \in DOMAIN log}

\* A reader of the log finds every capture it cites (evidence.get), unless the
\* disk decayed or a power failure took the directory; never another's bytes.
CitedServed == \A d \in cited :
    /\ d \in Digests
    /\ d \notin rotted \cup swept => get(d) = "found"
    /\ d \notin rotted => get(d) # "corrupt"

CitedKept == \A d \in cited : d \in Digests /\ Kept(d)

StoreInv == StoreTypes /\ Whole /\ Progressing
IInv == StoreInv /\ InHand /\ Recorded /\ CitedKept

LEMMA Digest == Digests \subseteq Bytes /\ \A d \in Digests : d # Absent /\ d # Junk
  BY StoreAssumption DEF Bytes, Absent, Junk

LEMMA SyncedFile ==
  ASSUME NEW f \in File
  PROVE  [f EXCEPT !.synced = TRUE] = [bytes |-> f.bytes, synced |-> TRUE]
<1> DEFINE g == [f EXCEPT !.synced = TRUE]
<1>1. g \in File /\ g.bytes = f.bytes /\ g.synced = TRUE
  BY DEF File
<1> HIDE DEF g
<1>2. g = [bytes |-> g.bytes, synced |-> g.synced]
  BY <1>1 DEF File
<1>3. g = [bytes |-> f.bytes, synced |-> TRUE]
  BY <1>1, <1>2
<1> QED BY <1>3 DEF g

LEMMA UnderWay ==
  ASSUME StoreInv, NEW w \in Writers
  PROVE  /\ putting[w] = NoPut \/ putting[w] \in ActivePut
         /\ putting[w].at # "none" => putting[w].digest \in Digests
         /\ putting[w].at = "done" => Kept(putting[w].digest)
  BY DEF StoreInv, StoreTypes, ActivePut, NoPut, Progressing

\* Taking one step further keeps the capture a put is for.
LEMMA StepsOn ==
  ASSUME StoreInv, NEW w \in Writers, NEW from \in {"write", "sync", "rename", "sync_dir"},
         NEW to \in {"sync", "rename", "sync_dir", "done"}, Step(w, from, to)
  PROVE  /\ putting[w].at = from
         /\ putting[w].digest \in Digests
         /\ putting' \in [Writers -> {NoPut} \cup ActivePut]
         /\ putting'[w].at = to /\ putting'[w].digest = putting[w].digest
         /\ \A v \in Writers \ {w} : putting'[v] = putting[v]
<1>1. putting[w].at = from /\ putting[w] \in ActivePut
  BY UnderWay DEF Step, NoPut
<1>2. putting' = [putting EXCEPT ![w] = [putting[w] EXCEPT !.at = to]]
  BY DEF Step, StoreInv, StoreTypes
<1>3. [putting[w] EXCEPT !.at = to] \in ActivePut
  BY <1>1 DEF ActivePut
<1> QED BY <1>1, <1>2, <1>3 DEF StoreInv, StoreTypes, ActivePut

\* A put, by itself, keeps what the store promises, and takes away nothing
\* that was kept.
StoreKept == StoreInv' /\ \A d \in Digests : Kept(d) => Kept(d)'

LEMMA CreateKeeps ==
  ASSUME StoreInv, NEW w \in Writers, NEW d \in Digests, PutCreate(w, d)
  PROVE  StoreKept /\ putting'[w].digest = d
<1> USE Digest DEF StoreInv, StoreTypes, ActivePut, File, tmp_path, NoPut
<1>1. StoreTypes'
  BY DEF PutCreate, Bytes
<1>2. Whole' /\ \A c \in Digests : Kept(c) => Kept(c)'
  BY DEF PutCreate, Whole, Kept
<1>3. Progressing'
  <2> SUFFICES ASSUME NEW v \in Writers PROVE Progressing!(v)'
    BY DEF Progressing
  <2> QED BY DEF PutCreate, Progressing, Kept
<1> QED BY <1>1, <1>2, <1>3 DEF StoreKept, PutCreate

LEMMA WriteKeeps ==
  ASSUME StoreInv, NEW w \in Writers, PutWrite(w) \/ PutSync(w)
  PROVE  StoreKept
<1> DEFINE d == putting[w].digest
<1>1. /\ d \in Digests /\ putting' \in [Writers -> {NoPut} \cup ActivePut]
      /\ putting'[w].digest = d
      /\ \A v \in Writers \ {w} : putting'[v] = putting[v]
      /\ putting'[w].at \in {"sync", "rename"}
  BY StepsOn DEF PutWrite, PutSync
<1>2. /\ temp' \in [Writers -> File]
      /\ \A v \in Writers \ {w} : temp'[v] = temp[v]
      /\ temp'[w].bytes = d
      /\ putting'[w].at = "rename" => temp'[w] = [bytes |-> d, synced |-> TRUE]
  <2>1. CASE PutWrite(w)
    <3>1. putting'[w].at = "sync"
      BY <2>1, StepsOn DEF PutWrite
    <3>2. temp' = [temp EXCEPT ![w] = [bytes |-> d, synced |-> FALSE]]
      BY <2>1 DEF PutWrite, tmp_path
    <3> QED BY <1>1, <3>1, <3>2, Digest DEF StoreInv, StoreTypes, File
  <2>2. CASE PutSync(w)
    <3>1. putting[w].at = "sync"
      BY <2>2, StepsOn DEF PutSync
    <3>2. temp[w] \in File /\ temp[w].bytes = d
      BY <3>1 DEF StoreInv, StoreTypes, Progressing
    <3>3. [temp[w] EXCEPT !.synced = TRUE] = [bytes |-> d, synced |-> TRUE]
      BY <3>2, SyncedFile
    <3>4. temp' = [temp EXCEPT ![w] = [temp[w] EXCEPT !.synced = TRUE]]
      BY <2>2 DEF PutSync, tmp_path, StoreInv, StoreTypes
    <3> QED BY <1>1, <3>3, <3>4, Digest DEF StoreInv, StoreTypes, File
  <2> QED BY <2>1, <2>2
<1>3. UNCHANGED <<blob, onDisk, rotted, swept>>
  BY DEF PutWrite, PutSync
<1> HIDE DEF d
<1>4. StoreTypes' /\ Whole' /\ \A c \in Digests : Kept(c) => Kept(c)'
  BY <1>1, <1>2, <1>3 DEF StoreInv, StoreTypes, Whole, Kept
<1>5. Progressing'
  BY <1>1, <1>2, <1>3 DEF StoreInv, Progressing, Kept
<1> QED BY <1>4, <1>5 DEF StoreKept, StoreInv

\* The file that is renamed is whole and synced, so what a power failure
\* leaves of it is the capture itself.
LEMMA RenameKeeps ==
  ASSUME StoreInv, NEW w \in Writers, PutRename(w)
  PROVE  StoreKept
<1> DEFINE d == putting[w].digest
<1>1. /\ d \in Digests /\ putting' \in [Writers -> {NoPut} \cup ActivePut]
      /\ putting[w].at = "rename"
      /\ putting'[w].at = "sync_dir" /\ putting'[w].digest = d
      /\ \A v \in Writers \ {w} : putting'[v] = putting[v]
  BY StepsOn DEF PutRename
<1>2. temp[w] = [bytes |-> d, synced |-> TRUE]
  BY <1>1 DEF StoreInv, Progressing
<1>3. Survives(temp[w]) = d
  BY <1>2 DEF Survives
<1>4. /\ blob' = [blob EXCEPT ![d] = [bytes |-> d, synced |-> TRUE]]
      /\ onDisk' = onDisk \/ onDisk' = [onDisk EXCEPT ![d] = d]
      /\ temp' = [temp EXCEPT ![w] = Nowhere]
      /\ rotted' = rotted /\ swept' = swept
  BY <1>2, <1>3 DEF PutRename, tmp_path
<1> HIDE DEF d
<1>5. StoreTypes'
  BY <1>1, <1>4, Digest DEF StoreInv, StoreTypes, File, Nowhere, Bytes
<1>6. Whole' /\ \A c \in Digests : Kept(c) => Kept(c)'
  <2> SUFFICES ASSUME NEW c \in Digests PROVE Whole!(c)' /\ (Kept(c) => Kept(c)')
    BY DEF Whole
  <2>1. blob'[c] = IF c = d THEN [bytes |-> d, synced |-> TRUE] ELSE blob[c]
    BY <1>1, <1>4 DEF StoreInv, StoreTypes
  <2>2. onDisk'[c] = onDisk[c] \/ (c = d /\ onDisk'[c] = c)
    BY <1>1, <1>4 DEF StoreInv, StoreTypes
  <2> QED BY <1>4, <2>1, <2>2 DEF StoreInv, Whole, Kept
<1>7. Progressing'
  <2> SUFFICES ASSUME NEW v \in Writers PROVE Progressing!(v)'
    BY DEF Progressing
  <2>1. CASE v = w
    <3>1. blob'[d].bytes # Absent
      BY <1>1, <1>4, Digest DEF StoreInv, StoreTypes
    <3> QED BY <1>1, <2>1, <3>1
  <2>2. CASE v # w
    <3>1. putting'[v] = putting[v] /\ temp'[v] = temp[v]
      BY <1>1, <1>4, <2>2 DEF StoreInv, StoreTypes
    <3>2. putting[v].at = "sync_dir" => blob'[putting[v].digest].bytes # Absent
      <4> SUFFICES ASSUME putting[v].at = "sync_dir"
                   PROVE  blob'[putting[v].digest].bytes # Absent
        OBVIOUS
      <4>1. putting[v].digest \in Digests /\ blob[putting[v].digest].bytes # Absent
        BY UnderWay DEF StoreInv, Progressing
      <4> QED BY <1>1, <1>4, <4>1, Digest DEF StoreInv, StoreTypes
    <3>3. putting[v].at = "done" =>
            \A c \in Digests : c = putting[v].digest => Kept(c)'
      BY <1>6, UnderWay
    <3> QED BY <3>1, <3>2, <3>3, UnderWay DEF StoreInv, Progressing, Kept
  <2> QED BY <2>1, <2>2
<1> QED BY <1>5, <1>6, <1>7 DEF StoreKept, StoreInv

\* Only with the directory synced does put return; then the capture is kept,
\* or it rotted in the meantime.
LEMMA SyncDirKeeps ==
  ASSUME StoreInv, NEW w \in Writers, PutSyncDir(w)
  PROVE  StoreKept
<1> DEFINE d == putting[w].digest
<1>1. /\ d \in Digests /\ putting' \in [Writers -> {NoPut} \cup ActivePut]
      /\ putting[w].at = "sync_dir"
      /\ putting'[w].at = "done" /\ putting'[w].digest = d
      /\ \A v \in Writers \ {w} : putting'[v] = putting[v]
  BY StepsOn DEF PutSyncDir
<1>2. blob[d].bytes # Absent
  BY <1>1 DEF StoreInv, Progressing
<1>3. /\ onDisk' = [onDisk EXCEPT ![d] = Survives(blob[d])]
      /\ rotted' = IF blob[d].bytes = d THEN rotted \ {d} ELSE rotted
      /\ temp' = temp /\ blob' = blob /\ swept' = swept \ {d}
  BY DEF PutSyncDir
<1> HIDE DEF d
<1>4. \/ blob[d].bytes = d /\ Survives(blob[d]) = d
      \/ blob[d].bytes = Junk /\ Survives(blob[d]) = Junk /\ d \in rotted
  BY <1>1, <1>2 DEF StoreInv, Whole, Survives
<1>5. StoreTypes'
  BY <1>1, <1>3, <1>4, Digest DEF StoreInv, StoreTypes, Bytes
<1>6. /\ Whole'
      /\ \A c \in Digests : Kept(c) => Kept(c)'
      /\ \A c \in Digests : c = d => Kept(c)'
  <2> SUFFICES ASSUME NEW c \in Digests
               PROVE  Whole!(c)' /\ (Kept(c) => Kept(c)') /\ (c = d => Kept(c)')
    BY DEF Whole
  <2>1. onDisk'[c] = IF c = d THEN Survives(blob[d]) ELSE onDisk[c]
    BY <1>1, <1>3 DEF StoreInv, StoreTypes
  <2> QED BY <1>3, <1>4, <2>1, Digest DEF StoreInv, Whole, Kept
<1>7. Progressing'
  <2> SUFFICES ASSUME NEW v \in Writers PROVE Progressing!(v)'
    BY DEF Progressing
  <2>1. CASE v = w
    BY <1>1, <1>6, <2>1 DEF Kept
  <2>2. CASE v # w
    <3>1. putting'[v] = putting[v]
      BY <1>1, <2>2
    <3>2. putting[v].at = "done" =>
            \A c \in Digests : c = putting[v].digest => Kept(c)'
      BY <1>6, UnderWay
    <3> QED BY <1>3, <3>1, <3>2, UnderWay DEF StoreInv, Progressing, Kept
  <2> QED BY <2>1, <2>2
<1> QED BY <1>5, <1>6, <1>7 DEF StoreKept, StoreInv

LEMMA RotKeeps ==
  ASSUME StoreInv, NEW d \in Digests, Rot(d)
  PROVE  StoreKept
<1> USE Digest DEF StoreInv, StoreTypes, Rot
<1>1. StoreTypes'
  BY DEF File, Bytes
<1>2. Whole' /\ \A c \in Digests : Kept(c) => Kept(c)'
  BY DEF Whole, Kept, File
<1>3. Progressing'
  <2> SUFFICES ASSUME NEW v \in Writers PROVE Progressing!(v)'
    BY DEF Progressing
  <2>1. putting[v].at = "done" => Kept(putting[v].digest)'
    BY <1>2 DEF ActivePut, NoPut, Progressing, Kept
  <2>2. putting[v].at = "sync_dir" => blob'[putting[v].digest].bytes # Absent
    BY DEF ActivePut, NoPut, Progressing, File, Absent, Junk
  <2> QED BY <2>1, <2>2 DEF Progressing
<1> QED BY <1>1, <1>2, <1>3 DEF StoreKept

\* A process that dies, or a writer that is done, leaves the others' puts.
LEMMA StopKeeps ==
  ASSUME StoreInv, NEW W \in SUBSET Writers, StopWriters(W),
         UNCHANGED <<temp, blob, onDisk, rotted, swept>>
  PROVE  StoreKept
<1> USE DEF StoreInv, StoreTypes, StopWriters
<1>1. StoreTypes' /\ Whole' /\ \A c \in Digests : Kept(c) => Kept(c)'
  BY DEF Whole, Kept
<1>2. Progressing'
  BY DEF Progressing, Kept, NoPut
<1> QED BY <1>1, <1>2 DEF StoreKept

\* What a power failure takes it takes whole, and counts as swept.
LEMMA PowerKeeps ==
  ASSUME StoreInv, PowerFails
  PROVE  StoreKept
<1>1. PICK kept \in SUBSET made :
        LET gone == {d \in Digests : Fanout[d] \notin kept}
        IN  /\ onDisk' = [d \in Digests |-> IF d \in gone THEN Absent ELSE onDisk[d]]
            /\ blob' = [d \in Digests |-> [bytes |-> onDisk'[d], synced |-> TRUE]]
            /\ temp' = [n \in Writers |-> Nowhere]
            /\ swept' = swept \cup {d \in gone : blob[d].bytes # Absent}
            /\ StopWriters(Writers)
            /\ UNCHANGED rotted
  BY DEF PowerFails
<1> DEFINE gone == {d \in Digests : Fanout[d] \notin kept}
<1>2. /\ \A d \in Digests : onDisk'[d] = IF d \in gone THEN Absent ELSE onDisk[d]
      /\ \A d \in Digests : blob'[d] = [bytes |-> onDisk'[d], synced |-> TRUE]
      /\ temp' = [n \in Writers |-> Nowhere]
      /\ swept' = swept \cup {d \in gone : blob[d].bytes # Absent}
      /\ putting' = [w \in Writers |-> NoPut]
      /\ rotted' = rotted
  BY <1>1 DEF StopWriters
<1>3. onDisk' \in [Digests -> Bytes]
  BY <1>1, Digest DEF StoreInv, StoreTypes, Bytes
<1>4. blob' \in [Digests -> File]
  BY <1>1, <1>3 DEF File
<1>5. StoreTypes'
  BY <1>2, <1>3, <1>4 DEF StoreTypes, File, Nowhere, Bytes
<1> HIDE DEF gone
<1>6. Whole' /\ \A c \in Digests : Kept(c) => Kept(c)'
  <2> SUFFICES ASSUME NEW c \in Digests PROVE Whole!(c)' /\ (Kept(c) => Kept(c)')
    BY DEF Whole
  <2>1. blob'[c].bytes = onDisk'[c] /\ blob'[c].synced
    <3>1. blob'[c] = [bytes |-> onDisk'[c], synced |-> TRUE]
      BY <1>2
    <3> QED BY <3>1
  <2>2. c # Absent
    BY Digest
  <2> QED BY <1>2, <2>1, <2>2 DEF StoreInv, Whole, Kept
<1>7. Progressing'
  BY <1>2 DEF Progressing, NoPut
<1> QED BY <1>5, <1>6, <1>7 DEF StoreKept, StoreInv

-----------------------------------------------------------------------------
(* The log.                                                                *)

LEMMA OneMore ==
  ASSUME NEW X, NEW y
  PROVE  UNION (X \cup {y}) = (UNION X) \cup y
<1>1. \A d : d \in UNION (X \cup {y}) <=> (\E x \in X \cup {y} : d \in x)
  OBVIOUS
<1>2. \A d : d \in (UNION X) \cup y <=> (\E x \in X : d \in x) \/ d \in y
  OBVIOUS
<1> QED BY <1>1, <1>2

LEMMA AppendCites ==
  ASSUME log \in Seq(Event), NEW event \in Event, log' = Append(log, event)
  PROVE  log' \in Seq(Event) /\ cited' = cited \cup RefsOf(event.body)
<1>1. /\ log' \in Seq(Event) /\ Len(log) \in Nat
      /\ DOMAIN log = 1..Len(log) /\ DOMAIN log' = 1..(Len(log) + 1)
      /\ \A i \in DOMAIN log : log'[i] = log[i]
      /\ log'[Len(log) + 1] = event
  BY AppendProperties
<1> DEFINE refs == {RefsOf(log[i].body) : i \in DOMAIN log}
<1>2. {RefsOf(log'[i].body) : i \in DOMAIN log'} = refs \cup {RefsOf(event.body)}
  BY <1>1
<1>3. cited' = UNION {RefsOf(log'[i].body) : i \in DOMAIN log'}
  BY DEF cited, RefsOf
<1>4. cited = UNION refs
  BY DEF cited
<1> DEFINE new == RefsOf(event.body)
<1> HIDE DEF refs, new
<1>5. UNION (refs \cup {new}) = (UNION refs) \cup new
  BY OneMore
<1>6. cited' = cited \cup new
  BY <1>2, <1>3, <1>4, <1>5 DEF new
<1> QED BY <1>1, <1>6 DEF new

LEMMA PrefixCites ==
  ASSUME log \in Seq(Event), NEW n \in 0..Len(log), log' = SubSeq(log, 1, n)
  PROVE  log' \in Seq(Event) /\ cited' \subseteq cited
<1>1. Len(log) \in Nat /\ DOMAIN log = 1..Len(log)
  OBVIOUS
<1>2. /\ log' \in Seq(Event) /\ DOMAIN log' = 1..n /\ n <= Len(log)
      /\ \A i \in 1..n : log'[i] = log[i]
  BY <1>1, SubSeqProperties
<1>3. cited' \subseteq cited
  BY <1>1, <1>2 DEF cited
<1> QED BY <1>2, <1>3

\* A log that says nothing new of captures is as good as the old one.
LEMMA SaysNoMore ==
  ASSUME IInv, StoreKept, cited' \subseteq cited
  PROVE  CitedKept'
  BY DEF IInv, StoreKept, CitedKept

-----------------------------------------------------------------------------
(* Each step of Next.                                                      *)

\* The plan is the one the log opens with.
LEMMA PlanIsFirst ==
  ASSUME AsWritten(log), log # <<>>, ~Ended
  PROVE  /\ log[1].body.kind = "started" /\ plan = log[1].body.what
         /\ plan \in DOMAIN Plans /\ Plans[plan] \subseteq Nat \ {0}
<1>1. log \in Seq(Event) /\ Len(log) \in Nat /\ DOMAIN log = 1..Len(log) /\ 1 \in DOMAIN log
  BY EmptySeq DEF AsWritten
<1>2. log[1].body.kind = "started" /\ log[1].body.what \in DOMAIN Plans
  <2>1. log[1].body.kind \in {"started", "denied"}
    BY <1>1 DEF AsWritten
  <2>2. log[1].body.kind \notin TerminalKinds
    BY <1>1 DEF Ended
  <2> QED BY <1>1, <2>1, <2>2 DEF AsWritten, TerminalKinds
<1>3. Bodies("started") = {1}
  BY <1>1, <1>2 DEF AsWritten, Bodies
<1>4. plan = log[1].body.what
  BY <1>3 DEF plan
<1>5. Plans[plan] \in SUBSET (Nat \ {0})
  BY <1>2, <1>4, ResultsAssumption
<1> QED BY <1>2, <1>4, <1>5

\* What a run appends keeps its log as written.
LEMMA RunWrites ==
  ASSUME Recorded, Begin \/ Note \/ ProbePort \/ End
  PROVE  \E body \in EventBody :
           AppendBody(body) /\ body.refs = <<>> /\ AsWritten(Append(log, Numbered(body)))
<1>1. AsWritten(log) /\ ~Ended
  BY DEF Begin, Note, ProbePort, End, Writing, Recorded
<1>2. DOMAIN Plans \subseteq Nat /\ States \subseteq Nat
  BY ResultsAssumption
<1>3. 0 \in Nat /\ 1 \in Nat /\ NoObservation \in Observation /\ <<>> \in Seq(Nat)
  BY EmptySeq DEF NoObservation, Observation
<1>4. CASE Begin
  <2>1. log = <<>>
    BY <1>4 DEF Begin
  <2>2. CASE \E p \in DOMAIN Plans : AppendBody(Started(p))
    <3>1. PICK p \in DOMAIN Plans : AppendBody(Started(p))
      BY <2>2
    <3>2. /\ Started(p) \in EventBody /\ Started(p).kind = "started" /\ Started(p).at = 0
          /\ Started(p).what = p /\ Started(p).refs = <<>>
      BY <1>2, <1>3, MadePlain
    <3>3. AsWritten(Append(log, Numbered(Started(p))))
      BY <1>1, <2>1, <3>2, Grows
    <3> QED BY <3>1, <3>2, <3>3
  <2>3. CASE AppendBody(Denied(1))
    <3>1. /\ Denied(1) \in EventBody /\ Denied(1).kind = "denied" /\ Denied(1).at = 0
          /\ Denied(1).refs = <<>>
      BY <1>3, MadePlain
    <3>2. AsWritten(Append(log, Numbered(Denied(1))))
      BY <1>1, <2>1, <3>1, Grows
    <3> QED BY <2>3, <3>1, <3>2
  <2> QED BY <1>4, <2>2, <2>3 DEF Begin
<1>5. CASE Note
  <2>1. log # <<>> /\ (AppendBody(Host(1)) \/ AppendBody(Progress))
    BY <1>5 DEF Note
  <2>2. /\ Host(1) \in EventBody /\ Host(1).kind = "host" /\ Host(1).at = 0
        /\ Host(1).refs = <<>>
        /\ Progress \in EventBody /\ Progress.kind = "progress" /\ Progress.at = 0
        /\ Progress.refs = <<>>
    BY <1>3, MadePlain
  <2>3. AsWritten(Append(log, Numbered(Host(1))))
    BY <1>1, <2>1, <2>2, Grows
  <2>4. AsWritten(Append(log, Numbered(Progress)))
    BY <1>1, <2>1, <2>2, Grows
  <2> QED BY <2>1, <2>2, <2>3, <2>4
<1>6. CASE ProbePort
  <2>1. log # <<>>
    BY <1>6 DEF ProbePort
  <2>2. PICK e \in Plans[plan], st \in States : AppendBody(PortState(e, st, <<>>))
    BY <1>6 DEF ProbePort
  <2>3. plan = log[1].body.what /\ e \in Nat \ {0}
    BY <1>1, <2>1, PlanIsFirst
  <2> DEFINE body == PortState(e, st, <<>>)
  <2>4. body \in EventBody /\ body.kind = "port" /\ body.at = e /\ body.refs = <<>>
    BY <1>2, <1>3, <2>3, MadePort
  <2> HIDE DEF body
  <2>5. AsWritten(Append(log, Numbered(body)))
    BY <1>1, <2>1, <2>3, <2>4, Grows
  <2> QED BY <2>2, <2>4, <2>5 DEF body
<1>7. CASE End
  <2>1. log # <<>>
    BY <1>7 DEF End
  <2>2. plan = log[1].body.what
    BY <1>1, <2>1, PlanIsFirst
  <2>3. /\ Completed(1) \in EventBody /\ Completed(1).kind = "completed"
        /\ Completed(1).at = 0 /\ Completed(1).refs = <<>>
        /\ Failed(1) \in EventBody /\ Failed(1).kind = "failed" /\ Failed(1).at = 0
        /\ Failed(1).refs = <<>>
        /\ Denied(1) \in EventBody /\ Denied(1).kind = "denied" /\ Denied(1).at = 0
        /\ Denied(1).refs = <<>>
    BY <1>3, MadePlain
  <2>4. Plans[plan] \subseteq Probed => AsWritten(Append(log, Numbered(Completed(1))))
    BY <1>1, <2>1, <2>2, <2>3, Grows
  <2>5. AsWritten(Append(log, Numbered(Failed(1))))
    BY <1>1, <2>1, <2>3, Grows
  <2>6. AsWritten(Append(log, Numbered(Denied(1))))
    BY <1>1, <2>1, <2>3, Grows
  <2> QED BY <1>7, <2>3, <2>4, <2>5, <2>6 DEF End
<1> QED BY <1>4, <1>5, <1>6, <1>7

\* What only the log is appended to, without a capture.
LEMMA LogKeeps ==
  ASSUME IInv, NEW event \in Event, log' = Append(log, event), event.body.refs = <<>>,
         UNCHANGED <<storeVars, pending>>, putting[scan] = NoPut,
         ~edited' => AsWritten(log')
  PROVE  IInv'
<1>1. StoreKept
  BY DEF IInv, StoreInv, StoreKept, StoreTypes, Whole, Progressing, Kept, storeVars
<1>2. RefsOf(event.body) = {}
  BY DEF RefsOf
<1>3. Recorded' /\ cited' \subseteq cited
  BY <1>2, AppendCites DEF IInv, Recorded
<1>4. InHand'
  BY DEF InHand, storeVars
<1> QED BY <1>1, <1>3, <1>4, SaysNoMore DEF StoreKept, IInv

LEMMA WritesKeep ==
  ASSUME IInv, Begin \/ Note \/ ProbePort \/ End
  PROVE  IInv'
<1>1. UNCHANGED <<storeVars, pending>> /\ putting[scan] = NoPut
  BY DEF Begin, Note, ProbePort, End, OnlyLog, Writing
<1>2. PICK body \in EventBody :
        AppendBody(body) /\ body.refs = <<>> /\ AsWritten(Append(log, Numbered(body)))
  BY RunWrites DEF IInv
<1>3. Numbered(body) \in Event /\ Numbered(body).body = body
  <2>1. Len(log) + 1 \in Nat
    BY DEF IInv, Recorded
  <2> QED BY <2>1 DEF Numbered, Event
<1>4. log' = Append(log, Numbered(body))
  BY <1>2 DEF AppendBody, Numbered
<1> QED BY <1>1, <1>2, <1>3, <1>4, LogKeeps

\* An edited log is a sequence of events still, and cites nothing new.
LEMMA SpliceKeeps == ASSUME IInv, Splice PROVE IInv'
<1>1. /\ UNCHANGED <<storeVars, pending>> /\ putting[scan] = NoPut
      /\ edited' = TRUE /\ Len(log) \in Nat
  BY DEF Splice, IInv, Recorded
<1>2. PICK e \in UNION {Plans[p] : p \in DOMAIN Plans}, st \in States :
        \E body \in {PortState(e, st, <<>>), Failed(1)} :
          log' = Append(log, [sequence |-> Len(log), body |-> body])
  BY DEF Splice
<1>3. e \in Nat /\ st \in Nat
  <2>1. \A p \in DOMAIN Plans : Plans[p] \in SUBSET (Nat \ {0})
    BY ResultsAssumption
  <2> QED BY <2>1, ResultsAssumption
<1>4. 1 \in Nat /\ NoObservation \in Observation /\ <<>> \in Seq(Nat)
  BY EmptySeq DEF NoObservation, Observation
<1>5. PICK body \in {PortState(e, st, <<>>), Failed(1)} :
        log' = Append(log, [sequence |-> Len(log), body |-> body])
  BY <1>2
<1>6. body \in EventBody /\ body.refs = <<>>
  BY <1>3, <1>4, <1>5, MadePort, MadePlain
<1> DEFINE event == [sequence |-> Len(log), body |-> body]
<1>7. event \in Event /\ event.body = body
  BY <1>1, <1>6 DEF Event
<1>8. log' = Append(log, event)
  BY <1>5
<1> HIDE DEF event
<1> QED BY <1>1, <1>6, <1>7, <1>8, LogKeeps

\* The log is left alone, and the observation in hand stays the one whose
\* capture is being put.
LEMMA StoreStep ==
  ASSUME IInv, StoreKept, InHand', UNCHANGED <<log, edited>>
  PROVE  IInv'
<1>1. Recorded' /\ cited' \subseteq cited
  BY DEF IInv, Recorded, AsWritten, cited, RefsOf
<1> QED BY <1>1, SaysNoMore DEF StoreKept, IInv

\* The capture is of an open port of this log, so the observation fits in it.
LEMMA CaptureKeeps == ASSUME IInv, Capture PROVE IInv'
<1>1. PICK e \in Probed, seen \in Seen, d \in Digests :
        pending' = Service(e, seen, <<d>>) /\ PutCreate(scan, d)
  BY DEF Capture
<1>2. scan \in Writers
  BY ResultsAssumption
<1>3. StoreKept /\ putting'[scan].digest = d
  BY <1>1, <1>2, CreateKeeps DEF IInv
<1>4. AsWritten(log) /\ ~Ended /\ ~edited
  BY DEF IInv, Capture, Writing, Recorded
<1>5. log # <<>> /\ e \in Plans[log[1].body.what]
  <2>1. PICK i \in DOMAIN log : log[i].body.kind = "port" /\ log[i].body.at = e
    BY DEF Probed, Bodies
  <2> QED BY <1>4, <2>1 DEF AsWritten
<1>6. e \in Nat \ {0}
  BY <1>4, <1>5, PlanIsFirst
<1> DEFINE body == Service(e, seen, <<d>>)
<1>7. /\ body \in EventBody /\ body.kind = "service" /\ body.at = e
      /\ body.refs = <<d>>
  <2>1. <<d>> \in Seq(Nat) /\ seen \in Observation /\ 0 \in Nat
    BY StoreAssumption, ResultsAssumption
  <2> QED BY <1>6, <2>1, MadeService
<1> HIDE DEF body
<1>8. AsWritten(Append(log, Numbered(body)))
  BY <1>4, <1>5, <1>6, <1>7, Grows
<1>9. pending' = body /\ log' = log /\ edited' = edited
  BY <1>1 DEF body, Capture
<1>10. InHand'
  <2>1. Append(log', Numbered(pending)') = Append(log, Numbered(body))
    BY <1>9 DEF Numbered
  <2>2. AsWritten(Append(log, Numbered(pending)))'
    BY <1>8, <1>9 DEF AsWritten, Numbered
  <2> QED BY <1>3, <1>4, <1>7, <1>9, <2>2 DEF InHand
<1> QED BY <1>3, <1>9, <1>10, StoreStep

\* The event is logged when put has returned, so what it cites is kept.
LEMMA CiteKeeps == ASSUME IInv, Cite PROVE IInv'
<1> DEFINE d == putting[scan].digest
<1>1. scan \in Writers /\ {scan} \in SUBSET Writers
  BY ResultsAssumption
<1>2. /\ d \in Digests /\ Kept(d) /\ RefsOf(pending) = {d}
      /\ AsWritten(Append(log, Numbered(pending)))
  <2>1. putting[scan].at = "done"
    BY DEF Cite, Returned
  <2>2. d \in Digests /\ Kept(d)
    BY <1>1, <2>1, UnderWay DEF IInv
  <2>3. pending.refs = <<d>> /\ AsWritten(Append(log, Numbered(pending)))
    BY <2>1 DEF IInv, InHand, NoPut
  <2> QED BY <2>2, <2>3 DEF RefsOf
<1>3. StoreKept
  BY <1>1, StopKeeps DEF IInv, Cite
<1>4. log' = Append(log, Numbered(pending)) /\ edited' = edited
  BY DEF Cite, AppendBody, Numbered
<1> HIDE DEF d
<1>5. AsWritten(log')
  BY <1>2, <1>4
<1>6. Numbered(pending) \in Event /\ Numbered(pending).body = pending
  <2> DEFINE event == Numbered(pending)
  <2>1. Append(log, event) \in Seq(Event) /\ log \in Seq(Event)
    BY <1>2 DEF AsWritten, IInv, Recorded
  <2> HIDE DEF event
  <2>2. /\ Append(log, event) = log' /\ log' \in Seq(Event) /\ Len(log') = Len(log) + 1
        /\ log'[Len(log) + 1] = event /\ Len(log) + 1 \in 1..Len(log')
    BY <1>4, <2>1 DEF event
  <2>3. event \in Event
    BY <2>2
  <2> QED BY <2>3 DEF event, Numbered
<1>7. Recorded' /\ cited' = cited \cup {d}
  <2>1. log \in Seq(Event)
    BY DEF IInv, Recorded
  <2>2. log' \in Seq(Event) /\ cited' = cited \cup RefsOf(pending)
    BY <1>4, <1>6, <2>1, AppendCites
  <2> QED BY <1>2, <1>5, <2>2 DEF Recorded
<1>8. \A c \in cited' : c \in Digests /\ Kept(c)
  BY <1>2, <1>7 DEF IInv, CitedKept
<1>9. CitedKept'
  BY <1>3, <1>8 DEF StoreKept, CitedKept
<1>10. InHand'
  BY <1>1 DEF Cite, StopWriters, InHand
<1> QED BY <1>3, <1>7, <1>9, <1>10 DEF StoreKept, IInv

LEMMA HandStays ==
  ASSUME InHand, UNCHANGED <<log, pending, edited>>,
         putting'[scan] = putting[scan] \/ (putting[scan] # NoPut
                                              /\ putting'[scan].digest = putting[scan].digest)
  PROVE  InHand'
<1> DEFINE l == Append(log, Numbered(pending))
<1>1. l' = l
  BY DEF Numbered
<1>2. AsWritten(l) => AsWritten(l)'
  <2> HIDE DEF l
  <2> QED BY <1>1
<1> QED BY <1>2 DEF InHand

LEMMA OtherKeeps == ASSUME IInv, OtherPuts \/ OtherDone PROVE IInv'
<1>1. /\ other \in Writers /\ scan \in Writers /\ other # scan
      /\ {other} \in SUBSET Writers
  BY ResultsAssumption
<1>2. StoreKept
  BY <1>1, CreateKeeps, StopKeeps DEF IInv, OtherPuts, OtherDone
<1>3. putting'[scan] = putting[scan] /\ UNCHANGED <<log, pending, edited>>
  BY <1>1 DEF OtherPuts, OtherDone, PutCreate, StopWriters, IInv, StoreInv, StoreTypes
<1>4. InHand'
  BY <1>3, HandStays DEF IInv
<1> QED BY <1>2, <1>3, <1>4, StoreStep

LEMMA PutKeeps == ASSUME IInv, NEW w \in Writers, PutStep(w) PROVE IInv'
<1>1. scan \in Writers
  BY ResultsAssumption
<1>2. StoreKept
  BY WriteKeeps, RenameKeeps, SyncDirKeeps DEF IInv, PutStep
<1>3. putting'[scan] = putting[scan] \/ (putting[scan].at # "none"
                                          /\ putting'[scan].digest = putting[scan].digest)
  BY <1>1, StepsOn DEF PutStep, PutWrite, PutSync, PutRename, PutSyncDir, IInv
<1>4. InHand'
  <2>1. putting[scan].at # "none" => putting[scan] # NoPut
    BY DEF NoPut
  <2> QED BY <1>3, <2>1, HandStays DEF IInv, PutStep
<1> QED BY <1>2, <1>4, StoreStep DEF PutStep

LEMMA FaultKeeps == ASSUME IInv, ProcessDies \/ MachineStops \/ Rots PROVE IInv'
<1>1. scan \in Writers /\ {scan} \in SUBSET Writers
  BY ResultsAssumption
<1>2. CASE ProcessDies
  <2>1. StoreKept
    BY <1>1, <1>2, StopKeeps DEF IInv, ProcessDies
  <2>2. InHand'
    BY <1>1, <1>2 DEF ProcessDies, StopWriters, InHand
  <2> QED BY <1>2, <2>1, <2>2, StoreStep DEF ProcessDies
<1>3. CASE Rots
  <2>1. StoreKept
    BY <1>3, RotKeeps DEF IInv, Rots
  <2>2. InHand'
    BY <1>3, HandStays DEF IInv, Rots, Rot
  <2> QED BY <1>3, <2>1, <2>2, StoreStep DEF Rots
<1>4. CASE MachineStops
  <2>1. StoreKept
    BY <1>4, PowerKeeps DEF IInv, MachineStops
  <2>2. InHand'
    BY <1>1, <1>4 DEF MachineStops, PowerFails, StopWriters, InHand
  <2>3. PICK n \in 0..Len(log) : log' = SubSeq(log, 1, n)
    BY <1>4 DEF MachineStops
  <2>4. cited' \subseteq cited
    BY <2>3, PrefixCites DEF IInv, Recorded
  <2>5. Recorded'
    <3>1. log' \in Seq(Event)
      BY <2>3, PrefixCites DEF IInv, Recorded
    <3>2. ~edited' => AsWritten(log')
      BY <1>4, <2>3, Shrinks DEF IInv, Recorded, MachineStops
    <3> QED BY <3>1, <3>2 DEF Recorded
  <2> QED BY <2>1, <2>2, <2>4, <2>5, SaysNoMore DEF StoreKept, IInv
<1> QED BY <1>2, <1>3, <1>4

LEMMA AtFirst == Init => IInv
<1> SUFFICES ASSUME Init PROVE IInv
  OBVIOUS
<1>1. StoreInv
  BY Digest DEF Init, StoreInit, StoreInv, StoreTypes, Whole, Progressing, File,
                Nowhere, NoPut, Bytes
<1>2. cited = {} /\ Recorded
  BY EmptySeq DEF Init, cited, Recorded, AsWritten
<1>3. InHand
  BY ResultsAssumption DEF Init, StoreInit, InHand
<1> QED BY <1>1, <1>2, <1>3 DEF IInv, CitedKept

LEMMA Preserved == IInv /\ [Next]_vars => IInv'
<1> SUFFICES ASSUME IInv, [Next]_vars PROVE IInv'
  OBVIOUS
<1>1. CASE UNCHANGED vars
  <2>1. StoreKept /\ UNCHANGED <<log, edited>>
    BY <1>1 DEF IInv, StoreInv, StoreKept, StoreTypes, Whole, Progressing, Kept, vars, storeVars
  <2>2. InHand'
    BY <1>1, HandStays DEF IInv, vars, storeVars
  <2> QED BY <2>1, <2>2, StoreStep
<1>2. CASE Next
  BY <1>2, WritesKeep, SpliceKeeps, CaptureKeeps, CiteKeeps, OtherKeeps, PutKeeps, FaultKeeps DEF Next
<1> QED BY <1>1, <1>2

-----------------------------------------------------------------------------
(* EvidenceServed.                                                         *)

LEMMA ReadsCited ==
    ASSUME IInv PROVE CitedServed
<1> SUFFICES ASSUME NEW d \in cited
             PROVE  /\ d \in Digests
                    /\ d \notin rotted \cup swept => get(d) = "found"
                    /\ d \notin rotted => get(d) # "corrupt"
  BY DEF CitedServed
<1>1. d \in Digests /\ Kept(d) /\ d # Absent
  BY Digest DEF IInv, CitedKept
<1>2. blob[d].bytes \in {Absent, d} \/ d \in rotted
  BY <1>1 DEF IInv, StoreInv, Whole
<1> QED BY <1>1, <1>2 DEF Kept, get

LEMMA ServesCited ==
    ASSUME IInv PROVE EvidenceServed
<1>1. log \in Seq(Event)
  BY DEF IInv, Recorded
<1>2. ASSUME NEW i \in DOMAIN log PROVE log[i].body.refs \in Seq(cited)
  <2>1. log[i].body.refs \in Seq(Nat)
    BY <1>1, EventFields
  <2>2. \A k \in 1..Len(log[i].body.refs) : log[i].body.refs[k] \in cited
    BY <2>1 DEF cited, RefsOf
  <2> DEFINE r == log[i].body.refs
  <2>3. r = [k \in 1..Len(r) |-> r[k]] /\ Len(r) \in Nat
    BY <2>1
  <2> HIDE DEF r
  <2>4. r \in Seq(cited)
    BY <2>2, <2>3, IsASeq DEF r
  <2> QED BY <2>4 DEF r
<1>3. \A e \in DOMAIN fold.endpoints : fold.endpoints[e].refs \in Seq(cited)
  <2> DEFINE D == cited
  <2>1. \A i \in DOMAIN log : log[i].body.refs \in Seq(D)
    BY <1>2
  <2> HIDE DEF D
  <2>2. \A e \in DOMAIN fold_events(log).endpoints : fold_events(log).endpoints[e].refs \in Seq(D)
    BY <1>1, <2>1, FoldCitesEvents
  <2> QED BY <2>2 DEF fold, D
<1>4. CitedServed
  BY ReadsCited
<1>5. ASSUME NEW e \in DOMAIN fold.endpoints, NEW k \in DOMAIN fold.endpoints[e].refs
      PROVE  fold.endpoints[e].refs[k] \in cited
  BY <1>3
<1>6. \A d \in HandedOut : d \in cited
  BY <1>5 DEF HandedOut, ToSet
<1> QED BY <1>4, <1>6 DEF CitedServed, EvidenceServed

-----------------------------------------------------------------------------
(* FoldIsBelief.                                                           *)

\* However two neighbours, or all events, change places.
LEMMA AnyOrder ==
    ASSUME log \in Seq(Event)
    PROVE  /\ \A i \in 1..(Len(log) - 1) :
                fold_events([log EXCEPT ![i] = log[i + 1], ![i + 1] = log[i]]) = fold
           /\ fold_events([i \in DOMAIN log |-> log[Len(log) + 1 - i]]) = fold
<1> DEFINE n == Len(log)
<1>1. n \in Nat /\ DOMAIN log = 1..n
  OBVIOUS
<1>2. ASSUME NEW i \in 1..(n - 1)
      PROVE  fold_events([log EXCEPT ![i] = log[i + 1], ![i + 1] = log[i]]) = fold
  <2> DEFINE p == [k \in 1..n |-> IF k = i THEN i + 1 ELSE IF k = i + 1 THEN i ELSE k]
             handed == [k \in DOMAIN log |-> log[p[k]]]
  <2>1. i \in 1..n /\ i + 1 \in 1..n /\ i # i + 1
    BY <1>1
  <2>2. IsPermutation(p, n)
    <3>1. p \in [1..n -> 1..n] /\ \A k \in 1..n : p[p[k]] = k
      BY <2>1
    <3> HIDE DEF p, n
    <3> QED BY <3>1, Involution
  <2>3. [log EXCEPT ![i] = log[i + 1], ![i + 1] = log[i]] = handed
    BY <1>1, <2>1
  <2> HIDE DEF p, n
  <2>4. fold_events(handed) = fold_events(log)
    BY <2>2, FoldForgetsArrival DEF n
  <2> HIDE DEF handed
  <2> QED BY <2>3, <2>4 DEF fold
<1>3. fold_events([i \in DOMAIN log |-> log[n + 1 - i]]) = fold
  <2> DEFINE p == [k \in 1..n |-> n + 1 - k]
             handed == [k \in DOMAIN log |-> log[p[k]]]
  <2>1. IsPermutation(p, n)
    <3>1. p \in [1..n -> 1..n] /\ \A k \in 1..n : p[p[k]] = k
      BY <1>1
    <3> HIDE DEF p, n
    <3> QED BY <3>1, Involution
  <2>2. [i \in DOMAIN log |-> log[n + 1 - i]] = handed
    BY <1>1
  <2> HIDE DEF p, n
  <2>3. fold_events(handed) = fold_events(log)
    BY <2>1, FoldForgetsArrival DEF n
  <2> HIDE DEF handed
  <2> QED BY <2>2, <2>3 DEF fold
<1> QED BY <1>2, <1>3

LEMMA LastIs ==
    ASSUME NEW S \in SUBSET Nat, NEW i \in S, IsLast(S, i) PROVE LastOf(S) = i
<1>1. \A j \in S : j <= i
  BY DEF IsLast
<1>2. \A j \in S : (\A k \in S : k <= j) => j = i
  <2> SUFFICES ASSUME NEW j \in S, \A k \in S : k <= j PROVE j = i
    OBVIOUS
  <2>1. i <= j /\ j <= i /\ i \in Nat /\ j \in Nat
    BY <1>1
  <2> QED BY <2>1
<1> QED BY <1>1, <1>2 DEF LastOf

\* Exactly once: cited, and once.
LEMMA OnceEach ==
    ASSUME NEW refs \in Seq(Nat), Distinct(refs), NEW d
    PROVE  d \in ToSet(refs) <=> Cardinality({k \in DOMAIN refs : refs[k] = d}) = 1
<1> DEFINE K == {k \in DOMAIN refs : refs[k] = d}
<1>1. CASE d \in ToSet(refs)
  <2>1. PICK k \in DOMAIN refs : refs[k] = d
    BY <1>1 DEF ToSet
  <2>2. K = {k}
    BY <2>1 DEF Distinct
  <2>3. Cardinality({k}) = 1
    BY FS_Singleton
  <2> QED BY <1>1, <2>2, <2>3
<1>2. CASE d \notin ToSet(refs)
  <2>1. K = {}
    BY <1>2 DEF ToSet
  <2>2. Cardinality({}) = 0
    BY FS_EmptySet
  <2> HIDE DEF K
  <2>3. Cardinality(K) = 0
    BY <2>1, <2>2
  <2>4. Cardinality(K) # 1
    BY <2>3
  <2> QED BY <1>2, <2>4 DEF K
<1> QED BY <1>1, <1>2

LEMMA BelievesLog ==
    ASSUME AsWritten(log), NEW e \in DOMAIN fold.endpoints PROVE Believed(e)
<1> DEFINE n == Len(log)
           entry == fold.endpoints[e]
           P == {i \in About(e) : log[i].body.kind = "port"}
           Q == {i \in About(e) : log[i].body.kind = "service"}
<1>1. log \in Seq(Event) /\ n \in Nat /\ DOMAIN log = 1..n
  BY DEF AsWritten
<1>2. /\ DOMAIN fold.endpoints = {log[i].body.at : i \in 1..n} \ {0}
      /\ \A x \in Nat \ {0} : Says(log, n, x, Entry(fold, x))
  BY FoldBelieves DEF Believes, fold
<1>3. e \in Nat \ {0}
  BY <1>1, <1>2, EventFields
<1>4. Says(log, n, e, entry)
  <2>1. Entry(fold, e) = entry
    BY DEF Entry
  <2> HIDE DEF entry
  <2> QED BY <1>2, <1>3, <2>1
<1>5. Told(log, n, e, "port") = P /\ Told(log, n, e, "service") = Q
  BY <1>1 DEF Told, About
<1>6. P \in SUBSET Nat /\ Q \in SUBSET Nat
  BY <1>1 DEF About
<1> HIDE DEF P, Q, entry
<1>7. entry.state = IF P = {} THEN 0 ELSE log[LastOf(P)].body.state
  <2>1. \/ P = {} /\ entry.state = 0
        \/ \E i \in P : IsLast(P, i) /\ entry.state = log[i].body.state
    BY <1>4, <1>5 DEF Says
  <2>2. CASE P = {}
    BY <2>1, <2>2
  <2>3. CASE P # {}
    BY <1>6, <2>1, <2>3, LastIs
  <2> QED BY <2>2, <2>3
<1>8. entry.seen = IF Q = {} THEN NoObservation ELSE log[LastOf(Q)].body.seen
  <2>1. \/ Q = {} /\ entry.seen = NoObservation
        \/ \E i \in Q : IsLast(Q, i) /\ entry.seen = log[i].body.seen
    BY <1>4, <1>5 DEF Says
  <2>2. CASE Q = {}
    BY <2>1, <2>2
  <2>3. CASE Q # {}
    BY <1>6, <2>1, <2>3, LastIs
  <2> QED BY <2>2, <2>3
<1>9. ASSUME NEW d
      PROVE  (\E i \in About(e) : \E k \in DOMAIN log[i].body.refs : log[i].body.refs[k] = d)
             <=> Cardinality({k \in DOMAIN entry.refs : entry.refs[k] = d}) = 1
  <2>1. entry.refs \in Seq(Nat) /\ Distinct(entry.refs)
    BY <1>4 DEF Says
  <2>2. d \in ToSet(entry.refs) <=> Mentions(log, n, e, d)
    BY <1>4 DEF Says
  <2>3. Mentions(log, n, e, d) <=>
          \E i \in About(e) : \E k \in DOMAIN log[i].body.refs : log[i].body.refs[k] = d
    BY <1>1 DEF Mentions, About, ToSet
  <2> QED BY <2>1, <2>2, <2>3, OnceEach
<1> QED BY <1>7, <1>8, <1>9 DEF Believed, P, Q, entry

LEMMA Belief == ASSUME IInv PROVE FoldIsBelief
<1>1. log \in Seq(Event) /\ (~edited => AsWritten(log))
  BY DEF IInv, Recorded
<1>2. ASSUME ~edited
      PROVE  /\ DOMAIN fold.endpoints = {log[i].body.at : i \in DOMAIN log} \ {0}
             /\ \A e \in DOMAIN fold.endpoints : Believed(e)
             /\ fold.hosts_up = {log[i].body.what : i \in Bodies("host")}
             /\ fold.terminal.kind = "completed" =>
                  Plans[fold.plan_hash] \subseteq DOMAIN fold.endpoints
  <2>1. AsWritten(log) /\ DOMAIN log = 1..Len(log)
    BY <1>1, <1>2
  <2>2. /\ DOMAIN fold.endpoints = {log[i].body.at : i \in DOMAIN log} \ {0}
        /\ fold.hosts_up = {log[i].body.what : i \in Bodies("host")}
    BY <2>1, FoldBelieves DEF Believes, fold, Bodies
  <2>3. fold.terminal.kind = "completed" => Plans[fold.plan_hash] \subseteq DOMAIN fold.endpoints
    BY <2>1, CompletedCovers DEF completed, fold
  <2> QED BY <2>1, <2>2, <2>3, BelievesLog
<1> QED BY <1>1, <1>2, AnyOrder DEF FoldIsBelief

-----------------------------------------------------------------------------
(* DiffInventsNothing.                                                     *)

LEMMA Invents == ASSUME IInv PROVE DiffInventsNothing
<1>1. log \in Seq(Event) /\ (~edited => AsWritten(log))
  BY DEF IInv, Recorded
<1>2. diff(fold, fold).changes = <<>>
  BY SelfUnchanged
<1>3. ASSUME NEW base \in Baselines
      PROVE  LET before == fold_events(base)
                 d == diff(before, fold)
                 back == diff(fold, before)
             IN  /\ Cardinality(DOMAIN d.changes) + d.unchanged + Cardinality(d.undetermined)
                      = Cardinality(Either(before, fold))
                 /\ back.changes = [e \in DOMAIN d.changes |-> Turned(d.changes[e])]
                 /\ back.undetermined = d.undetermined
                 /\ (\E e \in DOMAIN d.changes : d.changes[e] \in DOMAIN Opposite) =>
                      /\ completed(before) /\ completed(fold)
                      /\ before.plan_hash = fold.plan_hash /\ fold.plan_hash # 0
                      /\ edited
                 /\ DOMAIN retain_substantive(d).changes =
                      {e \in DOMAIN d.changes : d.changes[e] # "confidence_only"}
  <2> DEFINE before == fold_events(base)
             d == diff(before, fold)
  <2>1. AsWritten(base) /\ base \in Seq(Event)
    BY ResultsAssumption DEF AsWritten
  <2>2. IsFold(before) /\ IsFold(fold)
    BY <1>1, <2>1, LogIsFold DEF fold
  <2>3. completed(before) => DOMAIN before.endpoints = Plans[before.plan_hash]
    BY <2>1, CompletedCovers
  <2>4. completed(fold) /\ ~edited => DOMAIN fold.endpoints = Plans[fold.plan_hash]
    BY <1>1, CompletedCovers DEF fold
  <2> HIDE DEF before
  <2>5. Cardinality(DOMAIN d.changes) + d.unchanged + Cardinality(d.undetermined)
          = Cardinality(Either(before, fold))
    BY <2>2, CountedOnce
  <2>6. /\ diff(fold, before).changes = [e \in DOMAIN d.changes |-> Turned(d.changes[e])]
        /\ diff(fold, before).undetermined = d.undetermined
    BY TurnedRound
  <2>7. ASSUME NEW e \in DOMAIN d.changes, d.changes[e] \in DOMAIN Opposite
        PROVE  /\ completed(before) /\ completed(fold)
               /\ before.plan_hash = fold.plan_hash /\ fold.plan_hash # 0
               /\ edited
    <3>1. /\ completed(before) /\ completed(fold)
          /\ before.plan_hash = fold.plan_hash /\ fold.plan_hash # 0
          /\ e \in DOMAIN before.endpoints <=> e \notin DOMAIN fold.endpoints
      BY <2>7, SilenceIsEvidence
    <3>2. edited
      BY <2>3, <2>4, <3>1
    <3> QED BY <3>1, <3>2
  <2>8. DOMAIN retain_substantive(d).changes =
          {e \in DOMAIN d.changes : d.changes[e] # "confidence_only"}
    <3>1. d = [changes |-> d.changes, unchanged |-> d.unchanged,
               undetermined |-> d.undetermined, undecidable |-> d.undecidable]
      BY DEF diff
    <3> HIDE DEF d
    <3> QED BY <3>1 DEF retain_substantive
  <2> QED BY <2>5, <2>6, <2>7, <2>8 DEF before
<1> QED BY <1>2, <1>3 DEF DiffInventsNothing

-----------------------------------------------------------------------------
(* The theorems.                                                           *)

\* Every capture an event of the log cites can be fetched and is the one it
\* names, whatever writers, processes and power did (put returns after the
\* directory sync, and Scheduler logs the event after that).  It is gone only
\* with a directory no power failure had left before, whose entry put does not
\* sync, and it is corrupt only on a decaying disk.
THEOREM CapturesKept == Spec => []CitedServed
<1>1. IInv => CitedServed
  BY ReadsCited
<1> QED BY AtFirst, Preserved, <1>1, PTL DEF Spec

\* A digest a fold gives an agent is never dangling for another reason than
\* those two: it can be fetched and names its own bytes (fold_events cites only
\* what its events cite, and an event is logged after its put has returned).
THEOREM FoldsCiteWhatIsServed == Spec => []EvidenceServed
<1> QED BY AtFirst, Preserved, ServesCited, PTL DEF Spec

\* fold_events is a function of the events and not of the order it is handed
\* them in, and of a log no hand has touched it says, of each endpoint, the
\* last state and observation and each reference once (total_order, TieKey).
THEOREM FoldsAreBeliefs == Spec => []FoldIsBelief
<1> QED BY AtFirst, Preserved, Belief, PTL DEF Spec

\* diff of a scan with any earlier one counts each endpoint once, is mirrored
\* by the diff the other way round, and takes silence for a change only
\* between scans that completed the same plan (comparability).
THEOREM DiffsInventNothing == Spec => []DiffInventsNothing
<1> QED BY AtFirst, Preserved, Invents, PTL DEF Spec
=============================================================================
