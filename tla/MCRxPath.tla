------------------------------ MODULE MCRxPath ------------------------------
(* The two splitters of the receive path.  block says which of them a        *)
(* behaviour runs; the other stays in its initial state.                     *)
EXTENDS RxSplitByEtype

CONSTANTS ProtoPackets, MaxProtoSent

ASSUME ProtoAssumption ==
    (\A p \in ProtoPackets : p.beats \in Nat \ {0}) /\ MaxProtoSent \in Nat

VARIABLES block, p_in, p0, p1, p2, p3, p4, p_state, p_sent, p_out

Proto == INSTANCE RxSplitByIpv4Proto WITH
    Packets <- ProtoPackets, MaxSent <- MaxProtoSent,
    ch_in <- p_in, stage0 <- p0, stage1 <- p1, stage2 <- p2, stage3 <- p3, stage4 <- p4,
    output_state <- p_state, sent <- p_sent, out <- p_out

protoVars == <<p_in, p0, p1, p2, p3, p4, p_state, p_sent, p_out>>

PathInit == block \in {"etype", "proto"} /\ Init /\ Proto!Init

PathNext ==
    /\ UNCHANGED block
    /\ \/ block = "etype" /\ Next /\ UNCHANGED protoVars
       \/ block = "proto" /\ Proto!Next /\ UNCHANGED vars

\* The fairness of each block, while it is the one that runs.
PathFairness ==
    /\ \A l \in Lanes :
         WF_vars(block = "etype" /\ \E accepting \in SUBSET Lanes :
                   l \in accepting /\ Invoke(accepting))
    /\ \A l \in Proto!Lanes :
         WF_protoVars(block = "proto" /\ \E accepting \in SUBSET Proto!Lanes :
                        l \in accepting /\ Proto!Invoke(accepting))

PathSpec == PathInit /\ [][PathNext]_<<block, vars, protoVars>> /\ PathFairness

-----------------------------------------------------------------------------
\* The splitter by protocol: every beat leaves on the lane its frame's protocol
\* field asks for, and frames too short to have one are discarded.
RoutedByProtocol == Proto!RoutedToItsLane

\* Both splitters implement the abstract splitter: a lane gets its frames
\* complete, in order and once.
SplittersImplementDemux == ImplementsDemux /\ Proto!ImplementsDemux

\* Neither splitter keeps a frame that it was given completely: when its last
\* beat is sent, it leaves in the end, without the help of a following frame.
PathDelivers == FramesDelivered /\ Proto!FramesDelivered

-----------------------------------------------------------------------------
(* The splitter by ethertype: runt frames of one beat, frames of two and     *)
(* three beats for every lane, with payload that looks like another lane's.  *)
EtypePkt(beats, etype, noise) == [beats |-> beats, etype |-> etype, noise |-> noise]

MCPackets == {EtypePkt(1, "LLDP", "ARP"), EtypePkt(2, "ARP", "IPV4"),
              EtypePkt(3, "IPV4", "ARP"), EtypePkt(2, "LLDP", "IPV4")}

(* The splitter by protocol: frames of one and two beats, which have no such *)
(* field, and frames of three and four for each lane.                        *)
ProtoPkt(beats, proto, noise) == [beats |-> beats, proto |-> proto, noise |-> noise]

MCProtoPackets == {ProtoPkt(1, "UDP", "ICMP"), ProtoPkt(2, "UDP", "ICMP"),
                   ProtoPkt(3, "ICMP", "UDP"), ProtoPkt(4, "UDP", "ICMP")}
=============================================================================
