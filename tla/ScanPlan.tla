------------------------------ MODULE ScanPlan ------------------------------
(***************************************************************************)
(* What a scan is asked to do, made concrete: bathy-plan expands target    *)
(* and port specifications into sorted, deduplicated lists and numbers     *)
(* their product, port by port; bathy-scope decides whether a manifest     *)
(* authorizes every address of it.                                         *)
(*                                                                         *)
(* Pure operators.  A BTreeSet and the sorted list made of it are a set,   *)
(* whose k-th smallest member is Nth; an address is a number of            *)
(* AddressBits bits; text that does not parse is a spec of kind "bad" or   *)
(* "v6".  A plan digest is injective, so a plan stands for its hash.       *)
(***************************************************************************)
EXTENDS Integers, Sequences, FiniteSets

CONSTANTS
    AddressBits,    \* 32 in the code
    MaxPort,        \* 65535 in the code
    Reserved,       \* addresses is_ordinary_unicast refuses
    MAX_TARGETS     \* how many addresses a plan may name

ASSUME PlanAssumption ==
    /\ AddressBits \in Nat /\ MaxPort \in Nat /\ MAX_TARGETS \in Nat

\* How many addresses n bits can tell apart: 1 << n.
power2[n \in 0..AddressBits] == IF n = 0 THEN 1 ELSE 2 * power2[n - 1]

Addresses == 0..(power2[AddressBits] - 1)
Ports     == 1..MaxPort

Elements(specs) == {specs[i] : i \in DOMAIN specs}

\* The k-th smallest member of a finite set of numbers, counting from 0.
Rank(S, x) == Cardinality({y \in S : y < x})
Nth(S, k)  == CHOOSE x \in S : Rank(S, x) = k

-----------------------------------------------------------------------------
(* targets.rs                                                              *)

Single(a)        == [kind |-> "single", from |-> a, to |-> a, prefix |-> AddressBits]
AddressRange(a, b) == [kind |-> "range", from |-> a, to |-> b, prefix |-> AddressBits]
Net(a, prefix)   == [kind |-> "net", from |-> a, to |-> a, prefix |-> prefix]
Unusable(kind)   == [kind |-> kind, from |-> 0, to |-> 0, prefix |-> 0]

\* What a caller can write: a single address is the range of itself.
TargetSpecs ==
    {spec \in [kind : {"single", "range", "net", "bad", "v6"},
               from : Addresses, to : Addresses, prefix : 0..AddressBits] :
        spec.kind = "single" => spec.to = spec.from}

\* A network keeps the host bits it was written with; only its span counts.
span(net)      == power2[AddressBits - net.prefix]
network(net)   == net.from - (net.from % span(net))
broadcast(net) == network(net) + span(net) - 1
covers(net)    == network(net)..broadcast(net)

\* usable_hosts: without network and broadcast, but for /31 and /32.
usable_hosts(net) ==
    IF net.prefix < AddressBits - 1 THEN (network(net) + 1)..(broadcast(net) - 1)
    ELSE covers(net)

\* classify's errors.
Rejected(spec) ==
    spec.kind \in {"bad", "v6"} \/ (spec.kind = "range" /\ spec.to < spec.from)

hosts_of(spec) == IF spec.kind = "net" THEN usable_hosts(spec) ELSE spec.from..spec.to

\* count_of: how many, without enumerating them.
count_of(spec) ==
    IF spec.kind # "net" THEN spec.to - spec.from + 1
    ELSE IF spec.prefix < AddressBits - 1 THEN span(spec) - 2 ELSE span(spec)

\* The pre-count pass: every spec on its own, overlap counted twice.
projected(specs) ==
    LET total[n \in 0..Len(specs)] ==
          IF n = 0 THEN 0 ELSE total[n - 1] + count_of(specs[n])
    IN  total[Len(specs)]

Expands(specs) ==
    /\ \A spec \in Elements(specs) : ~Rejected(spec)
    /\ projected(specs) <= MAX_TARGETS

expand_targets(specs) == UNION {hosts_of(spec) : spec \in Elements(specs)}

-----------------------------------------------------------------------------
(* ports.rs: an explicit selection of single ports and ranges.             *)

PortRange(a, b) == [from |-> a, to |-> b]
PortSpecs == [from : 0..MaxPort, to : 0..MaxPort]

PortsResolve(specs) ==
    \A spec \in Elements(specs) : spec.from # 0 /\ spec.from <= spec.to

resolve_ports(specs) == UNION {spec.from..spec.to : spec \in Elements(specs)}

-----------------------------------------------------------------------------
(* plan.rs                                                                 *)

\* ScanStartInput::into_request: what the caller leaves out is the ceiling's.
Unset == 0
fill(asked, ceiling) ==
    [b \in DOMAIN ceiling |-> IF asked[b] = Unset THEN ceiling[b] ELSE asked[b]]

\* What ScanPlan::build digests: never the idempotency key, and the expanded
\* lists in place of what the caller wrote.
build(request, manifest) ==
    [targets |-> expand_targets(request.targets),
     ports   |-> resolve_ports(request.ports),
     scope   |-> manifest.id,
     budgets |-> fill(request.budgets, manifest.ceiling),
     manner  |-> request.manner]

Builds(request) == Expands(request.targets) /\ PortsResolve(request.ports)

len(plan) == Cardinality(plan.targets) * Cardinality(plan.ports)

\* Port-major: consecutive units hit different hosts.
unit(plan, index) ==
    [target |-> Nth(plan.targets, index % Cardinality(plan.targets)),
     port   |-> Nth(plan.ports, index \div Cardinality(plan.targets))]

units(plan) == {unit(plan, index) : index \in 0..(len(plan) - 1)}

-----------------------------------------------------------------------------
(* manifest.rs and policy.rs                                               *)

\* ScopeManifest::load wants an IPv4 network to allow.
Loads(manifest) == \E net \in manifest.allowed : net.kind = "net"

contains(net, address) == net.kind = "net" /\ address \in covers(net)

is_expired(manifest, now) == now > manifest.not_after

\* Reserved ranges first, then deny, then allow.
allows(manifest, address) ==
    /\ address \notin Reserved
    /\ \A net \in manifest.denied : ~contains(net, address)
    /\ \E net \in manifest.allowed : contains(net, address)

\* Mutant of evaluate: the first address speaks for the rest.
EvaluateFirst(plan, manifest, now) ==
    /\ plan.scope = manifest.id
    /\ ~is_expired(manifest, now)
    /\ plan.targets # {} => allows(manifest, Nth(plan.targets, 0))
    /\ \A b \in DOMAIN manifest.ceiling : plan.budgets[b] <= manifest.ceiling[b]

\* No partial approval: one address out of scope refuses the scan.
evaluate(plan, manifest, now) ==
    /\ plan.scope = manifest.id
    /\ ~is_expired(manifest, now)
    /\ \A address \in plan.targets : allows(manifest, address)
    /\ \A b \in DOMAIN manifest.ceiling : plan.budgets[b] <= manifest.ceiling[b]
=============================================================================
