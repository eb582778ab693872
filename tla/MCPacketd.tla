------------------------------ MODULE MCPacketd ------------------------------
(* A small instance of PacketdClient: an allowed, a denied, a reserved and  *)
(* an IPv6 target; a stranger that may widen the scope or leave it empty.   *)
EXTENDS PacketdClient

CONSTANTS host, denied, loopback, v6

MCTargets  == {host, denied, loopback, v6}
MCReserved == {loopback}
MCVersion6 == {v6}
MCManifest == [allowed |-> MCTargets, denied |-> {denied}, max |-> 2]
MCScopes   == {MCManifest, [allowed |-> MCTargets, denied |-> {}, max |-> 4],
               [allowed |-> {}, denied |-> {}, max |-> 4]}
=============================================================================
