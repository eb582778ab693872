------------------------------ MODULE MCResults ------------------------------
(* A small instance of Results: a plan of two endpoints and a narrower one,  *)
(* and earlier scans that completed, failed, were refused at once or in the  *)
(* middle, or never ran.                                                     *)
EXTENDS Results

Nginx(version, confidence) ==
    [service |-> 1, product |-> 1, version |-> version, confidence |-> confidence, rule |-> 1]

Numbered(bodies) == [i \in DOMAIN bodies |-> [sequence |-> i, body |-> bodies[i]]]
Wide   == <<Started(1), PortState(1, 1, <<>>), PortState(2, 2, <<>>)>>

MCFanout == [d \in {1} |-> 7]
MCPlans == <<{1, 2}, {1}>>
MCSeen  == {Nginx(1, 5), Nginx(1, 6)}
MCBaselines ==
    {Numbered(b) : b \in {<<>>, <<Denied(1)>>, Wide \o <<Failed(1)>>, Wide \o <<Denied(1)>>, Wide \o <<Completed(1)>>,
       Wide \o <<Service(1, Nginx(1, 5), <<1>>), Completed(1)>>,
       <<Started(2), PortState(1, 1, <<>>), Completed(1)>>}}
==============================================================================
