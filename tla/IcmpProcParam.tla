--------------------------- MODULE IcmpProcParam ---------------------------
(***************************************************************************)
(* icmp_proc_param (icmp_proc.cpp): turns the echo request into a reply.   *)
(* In beat 4 it clears the type and corrects the ICMP checksum for it;     *)
(* every other beat passes.  One invocation per clock, one step.           *)
(*                                                                         *)
(* A packet has the fields beats, type and chksum (beat 4), rest, the sum  *)
(* of all other words of the ICMP message, and fill, what stands at the    *)
(* two places in the other beats.                                          *)
(***************************************************************************)
EXTENDS L8Stream, OnesComplement

VARIABLES
    ch_in,              \* the input buffer of ch_dat_in
    idx_counter,        \* index of the next beat read, UINT8
    stage0, stage1,     \* registers of beats with their idx, type and chksum
    sent, out           \* history: beats written and beats accepted

vars == <<ch_in, idx_counter, stage0, stage1, sent, out>>

ASSUME MessageAssumption ==
    \A p \in Packets : /\ p.type \in 0..255 /\ p.chksum \in Word16
                       /\ p.rest \in Nat /\ p.fill \in 0..255

IdxMod == 256               \* idx_counter is a UINT8

\* The type byte and the checksum word of a beat, if it is the one that has
\* them, else what stands there.
TypeIn(b) == IF b.n = 5 THEN b.pkt.type ELSE b.pkt.fill
ChksumIn(b) == IF b.n = 5 THEN b.pkt.chksum ELSE b.pkt.fill

Init ==
    /\ ch_in = <<>> /\ idx_counter = 0
    /\ stage0 = <<>> /\ stage1 = <<>>
    /\ sent = <<>> /\ out = <<>>

\* icmp_proc_swapip writes one beat.
Supply(b) ==
    /\ Len(ch_in) < BufDepth
    /\ b \in NextBeats(sent)
    /\ ch_in' = Append(ch_in, b)
    /\ sent' = Append(sent, b)
    /\ UNCHANGED <<idx_counter, stage0, stage1, out>>

\* The beat as stage 1 takes it.
Rewritten(item) ==
    IF item.idx = 4
    THEN [item EXCEPT !.type = 0, !.chksum = ReplyChecksum(@)]
    ELSE item

\* The output register is free, or becomes free in this clock.
Free(accepting) == stage1 = <<>> \/ accepting

\* One clock; accepting says whether ch_dat_out takes a beat.
Invoke(accepting) ==
    LET move0 == stage0 # <<>> /\ Free(accepting)
        read  == ch_in # <<>> /\ (stage0 = <<>> \/ move0)
    IN  /\ out' = IF accepting THEN out \o stage1 ELSE out
        /\ stage1' = IF move0 THEN <<Rewritten(stage0[1])>>
                     ELSE IF accepting THEN <<>> ELSE stage1
        /\ IF read
           THEN LET b == ch_in[1]
                IN  /\ stage0' = <<[pkt |-> b.pkt, n |-> b.n, idx |-> idx_counter,
                                    type |-> TypeIn(b), chksum |-> ChksumIn(b)]>>
                    /\ idx_counter' = IF Eop(b) THEN 0 ELSE (idx_counter + 1) % IdxMod
                    /\ ch_in' = Tail(ch_in)
           ELSE /\ stage0' = IF move0 THEN <<>> ELSE stage0
                /\ UNCHANGED <<idx_counter, ch_in>>
        /\ sent' = sent

Next ==
    \/ \E b \in NextBeats(sent) : Supply(b)
    \/ \E accepting \in BOOLEAN : Invoke(accepting)

Spec == Init /\ [][Next]_vars

\* The component runs in every clock and the next stage keeps accepting.
FairSpec == Spec /\ WF_vars(Invoke(TRUE))

-----------------------------------------------------------------------------
Item == [pkt : Packets, n : Nat \ {0}, idx : 0..IdxMod - 1,
         type : 0..255, chksum : Word16]
ItemSlot == {s \in Seq(Item) : Len(s) <= 1}

TypeOK ==
    /\ ch_in \in Seq(Beats) /\ Len(ch_in) <= BufDepth
    /\ idx_counter \in 0..IdxMod - 1
    /\ stage0 \in ItemSlot /\ stage1 \in ItemSlot
    /\ sent \in Seq(Beats)
    /\ out \in Seq(Item)

\* The sum of the words of an ICMP message with this type and checksum.
MessageSum(pkt, type, chksum) == 256 * type + chksum + pkt.rest

\* The reply to a request with a right checksum is an echo reply with a right
\* checksum, and the receiver rejects the reply to a request it would reject
\* itself; only beat 4 of a frame is rewritten.
RepliesAsGoodAsRequests ==
    \A i \in 1..Len(out) :
        LET o == out[i]
        IN  IF o.n # 5
            THEN o.type = o.pkt.fill /\ o.chksum = o.pkt.fill
            ELSE o.pkt.type = 8 =>
                   /\ o.type = 0
                   /\ Accepted(MessageSum(o.pkt, o.type, o.chksum))
                        <=> Accepted(MessageSum(o.pkt, o.pkt.type, o.pkt.chksum))

\* Every frame that was received completely leaves whole and in order.
FramesDelivered ==
    \A i \in 1..MaxSent :
        (i <= Len(sent) /\ Eop(sent[i]))
            ~> (Len(out) >= i /\ \A j \in 1..i : out[j].pkt = sent[j].pkt
                                                 /\ out[j].n = sent[j].n)
=============================================================================
