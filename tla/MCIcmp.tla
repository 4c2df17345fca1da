------------------------------- MODULE MCIcmp -------------------------------
(* The components that turn an echo request into a reply.  block says which  *)
(* of them a behaviour runs; the others stay in their initial states.        *)
EXTENDS IcmpProcParam

CONSTANTS SwapPackets, ChksumPackets, MaxSwapSent, MaxChksumSent

\* The frames of the other two components, and what their sources may send.
ASSUME SwapAssumption ==
    (\A p \in SwapPackets : p.beats \in Nat \ {0}) /\ MaxSwapSent \in Nat

ASSUME ChksumAssumption ==
    (\A p \in ChksumPackets : p.beats \in Nat \ {0}) /\ MaxChksumSent \in Nat

\* What a beat adds to the header sum is at most four 16-bit words.
ASSUME PartAssumption ==
    \A p \in ChksumPackets : \A i \in 1..4 : p.part[i] \in Nat /\ p.part[i] <= 262140

VARIABLES block, Field, s_in, s_idx, s0, s1, s2, s_sent, s_out,
          c_in, c_idx, checksum, c0, c1, c2, c3, c_sent, c_out

Swap == INSTANCE IcmpProcSwap WITH
    Packets <- SwapPackets, MaxSent <- MaxSwapSent, ch_in <- s_in, idx_counter <- s_idx,
    stage0 <- s0, stage1 <- s1, stage2 <- s2, sent <- s_sent, out <- s_out

Chksum == INSTANCE IcmpProcIpv4Chksum WITH
    Packets <- ChksumPackets, MaxSent <- MaxChksumSent, ch_in <- c_in, idx_counter <- c_idx,
    stage0 <- c0, stage1 <- c1, stage2 <- c2, stage3 <- c3, sent <- c_sent, out <- c_out

swapVars == <<Field, s_in, s_idx, s0, s1, s2, s_sent, s_out>>
chksumVars == <<c_in, c_idx, checksum, c0, c1, c2, c3, c_sent, c_out>>

ChainInit ==
    /\ block \in {"swap", "param", "chksum"}
    /\ Swap!Init /\ (block # "swap" => Field = "ip")
    /\ Init /\ Chksum!Init

ChainNext ==
    /\ UNCHANGED block
    /\ \/ block = "swap" /\ Swap!Next /\ UNCHANGED <<vars, chksumVars>>
       \/ block = "param" /\ Next /\ UNCHANGED <<swapVars, chksumVars>>
       \/ block = "chksum" /\ Chksum!Next /\ UNCHANGED <<vars, swapVars>>

\* The fairness of each block, while it is the one that runs.
ChainFairness ==
    /\ WF_swapVars(block = "swap" /\ Swap!Invoke(TRUE))
    /\ WF_vars(block = "param" /\ Invoke(TRUE))
    /\ WF_chksumVars(block = "chksum" /\ Chksum!Invoke(TRUE))

ChainSpec == ChainInit /\ [][ChainNext]_<<block, vars, swapVars, chksumVars>> /\ ChainFairness

-----------------------------------------------------------------------------
\* The first two components exchange the addresses and nothing else; the last
\* one gives each frame the checksum of its own header.
OnlyAddressesSwapped == Swap!OnlyAddressesSwapped
ChecksumOfOwnHeader == Chksum!ChecksumOfOwnHeader

\* No component keeps a frame that it was given completely.
ChainDelivers == Swap!FramesDelivered /\ FramesDelivered /\ Chksum!FramesDelivered

\* The comment that the violation run is about.
HeaderChecksumRight == Chksum!HeaderChecksumRight

-----------------------------------------------------------------------------
(* The splitters in front keep frames of fewer than three beats away; a      *)
(* frame of four beats ends where swapip begins the exchange.                *)
MCSwapPackets == {[beats |-> n] : n \in {3, 4, 5, 6}}

(* A message of this type whose words, the checksum included, add up to s.   *)
(* The checksums reach both sides of the borrow in the correction and the    *)
(* two representations of zero.                                              *)
Message(type, chksum, s) ==
    [beats |-> 6, type |-> type, chksum |-> chksum,
     rest |-> s - 256 * type - chksum, fill |-> 5]

Echo == {Message(8, c, 2 * 65535) : c \in {0, 1, 61440, 63487, 63488, 63489, 65535}}
Broken == {Message(8, c, 2 * 65535 + 1) : c \in {63486, 63487}}

MCPackets == Echo \cup Broken

(* The header words of an echo request of 84 bytes to 192.168.2.100 with     *)
(* different identifications (swapip has exchanged the addresses, which      *)
(* leaves the sum as it is): 0x4500; 0x0054, the identification, 0x4000 and  *)
(* 0x4001; 192.168.2.100 and the upper half of 192.168.2.1; its lower half.  *)
Ping(beats, ident) ==
    [beats |-> beats,
     part |-> <<17664, 84 + ident + 16384 + 16385, 49320 + 612 + 49320, 513>>,
     fill |-> <<1, 2, 3, 4>>]

\* Identifications for which the sum needs no second carry.
MCChksumPackets == {Ping(5, 0), Ping(6, 4660), Ping(3, 7)}

\* The identification that brings the lower half of the sum to 65535 while
\* the upper half is not zero.
SecondCarry ==
    LET part == Ping(6, 0).part
    IN  {Ping(6, (65535 - (part[1] + part[2] + part[3] + part[4])) % 65536)}
=============================================================================
