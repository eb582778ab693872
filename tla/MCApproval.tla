------------------------------ MODULE MCApproval ------------------------------
(* A small instance of Approval over addresses of four bits: two spellings   *)
(* of the same three addresses under two keys, two addresses, too many, and  *)
(* a manifest that is edited to deny an address and allow fewer packets.     *)
EXTENDS Approval, TLC

CONSTANTS wide, respelled, narrow, large, version6, broad, edited

symmetry == Permutations(Handlers)

request(key, targets, ports, packets) ==
    [key |-> key, targets |-> targets, ports |-> ports, manner |-> "inventory",
     budgets |-> [packets |-> packets, seconds |-> Unset, rate |-> Unset]]

Two == <<PortRange(1, 2)>>

MCRequests == {wide, respelled, narrow, large, version6}
MCArguments ==
    wide      :> request("k1", <<Net(7, 2), Single(9)>>, Two, Unset) @@
    respelled :> request("k2", <<Single(9), AddressRange(5, 6)>>,
                         <<PortRange(2, 2), PortRange(1, 1), PortRange(2, 2)>>, 5) @@
    narrow    :> request("k1", <<AddressRange(6, 7)>>, Two, Unset) @@
    large     :> request("k2", <<Net(0, 1)>>, Two, Unset) @@
    version6  :> request("k2", <<Single(8), Unusable("v6")>>, Two, Unset)

manifest_of(denied, packets, not_after) ==
    [id |-> "scope", not_after |-> not_after,
     allowed |-> {Net(4, 2), Single(9), Net(9, 4), Unusable("v6")},
     denied |-> denied, ceiling |-> [packets |-> packets, seconds |-> 3, rate |-> 4]]

MCManifests == {broad, edited}
MCDocument == broad  :> manifest_of({}, 5, 0) @@
              edited :> manifest_of({Net(7, 4)}, 4, 1)

-----------------------------------------------------------------------------
(* The pure operators against their definitions, over every specification    *)
(* of this width.                                                            *)

Specs == {Single(a) : a \in Addresses} \cup
         {AddressRange(a, b) : a \in Addresses, b \in Addresses} \cup
         {Net(a, prefix) : a \in Addresses, prefix \in 0..AddressBits}

\* count_of counts what expansion produces, and every CIDR keeps a host.
ASSUME CountsWhatExpands ==
    \A spec \in Specs : ~Rejected(spec) =>
      /\ count_of(spec) = Cardinality(hosts_of(spec))
      /\ hosts_of(spec) # {} /\ hosts_of(spec) \subseteq Addresses

\* The pre-count never lets more than the cap through, however specs overlap.
ASSUME CountsNoLess ==
    \A s, t \in Specs : ~Rejected(s) /\ ~Rejected(t) =>
      Cardinality(expand_targets(<<s, t>>)) <= projected(<<s, t>>)

\* Every index below len names another unit.
ASSUME UnitsNumberTheProduct ==
    \A targets \in SUBSET (1..4), ports \in SUBSET (1..3) :
      LET plan == [targets |-> targets, ports |-> ports]
      IN  /\ units(plan) = [target : targets, port : ports]
          /\ Cardinality(units(plan)) = len(plan)
===============================================================================
