------------------------------ MODULE MCArpProc ------------------------------
(* A small instance of ArpProc.  Two hosts ask for the device's address, one *)
(* of them behind another upper half than the gateway, and the gateway       *)
(* announces itself.  The payload of every frame looks like a query of a     *)
(* third host.                                                               *)
EXTENDS ArpProc

OwnIp == <<"net", "own">>
GtwIp == <<"net", "gtw">>

Fields(op, mac, sip, dip) ==
    [op |-> op, smac |-> <<mac, mac>>, sip |-> sip, dip |-> dip]

Noise == Fields("REQ", "x", <<"net", "x">>, OwnIp)

Frame(beats, op, mac, sip, dip) ==
    [beats |-> beats, op |-> op, smac |-> <<mac, mac>>, sip |-> sip, dip |-> dip,
     noise |-> Noise]

QueryA == Frame(6, "REQ", "a", <<"net", "a">>, OwnIp)
QueryB == Frame(6, "REQ", "b", <<"far", "b">>, OwnIp)
Garp == Frame(7, "REQ", "g", GtwIp, GtwIp)

MCPackets == {QueryA, QueryB, Garp}
=============================================================================
