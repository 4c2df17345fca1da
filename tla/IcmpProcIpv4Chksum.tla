------------------------- MODULE IcmpProcIpv4Chksum -------------------------
(***************************************************************************)
(* icmp_proc_ipv4chksum (icmp_proc.cpp): computes the IPv4 header checksum *)
(* of every frame.  The header words are added up in checksum, a register  *)
(* of its own, while the beats 1 to 4 enter stage1; beat 3, which carries  *)
(* the checksum, leaves stage2 when beat 4 is in stage1 and the sum is     *)
(* complete.  One invocation per clock, one step.                          *)
(*                                                                         *)
(* A packet has the fields beats, part, which gives for the beats 1 to 4   *)
(* the sum of the header words in them without the checksum field, and     *)
(* fill, the words at these places in every later beat.                    *)
(***************************************************************************)
EXTENDS L8Stream, OnesComplement

VARIABLES
    ch_in,                          \* the input buffer of ch_dat_in
    idx_counter,                    \* index of the next beat read, UINT8
    checksum,                       \* UINT24
    stage0, stage1, stage2, stage3, \* registers of beats with idx and field
    sent, out                       \* history: beats written and accepted

vars == <<ch_in, idx_counter, checksum, stage0, stage1, stage2, stage3, sent, out>>

IdxMod == 256               \* idx_counter is a UINT8
SumMod == 16777216          \* 2^24, checksum is a UINT24

\* The upper word of a beat, where it is not replaced.
KEPT == -1

\* The words of a beat that count for the header checksum if its idx is i.
PartIn(b, i) == IF b.n <= 5 THEN b.pkt.part[i] ELSE b.pkt.fill[i]

Init ==
    /\ ch_in = <<>> /\ idx_counter = 0 /\ checksum = 0
    /\ stage0 = <<>> /\ stage1 = <<>> /\ stage2 = <<>> /\ stage3 = <<>>
    /\ sent = <<>> /\ out = <<>>

\* icmp_proc_param writes one beat.
Supply(b) ==
    /\ Len(ch_in) < BufDepth
    /\ b \in NextBeats(sent)
    /\ ch_in' = Append(ch_in, b)
    /\ sent' = Append(sent, b)
    /\ UNCHANGED <<idx_counter, checksum, stage0, stage1, stage2, stage3, out>>

\* The sum after the beat has entered stage1.
Accumulate(item) ==
    CASE item.idx = 1 -> PartIn(item, 1)
      [] item.idx \in {2, 3} -> (checksum + PartIn(item, item.idx)) % SumMod
      [] item.idx = 4 -> FoldOnce((checksum + PartIn(item, 4)) % SumMod)
      [] OTHER -> checksum

\* A variant with a bug, against which a property is tested: beat 3 does not
\* wait.
MayLeave_AnyTime == TRUE

\* Beat 3 may leave stage2 only while beat 4 is in stage1.
MayLeave ==
    stage2[1].idx = 3 => stage1 # <<>> /\ stage1[1].idx = 4

Completed(item) ==
    IF item.idx = 3 THEN [item EXCEPT !.field = Not16(checksum % W)] ELSE item

\* The output register is free, or becomes free in this clock.
Free(accepting) == stage3 = <<>> \/ accepting

\* One clock; accepting says whether ch_dat_out takes a beat.
Invoke(accepting) ==
    LET move2 == stage2 # <<>> /\ Free(accepting) /\ MayLeave
        move1 == stage1 # <<>> /\ (stage2 = <<>> \/ move2)
        move0 == stage0 # <<>> /\ (stage1 = <<>> \/ move1)
        read  == ch_in # <<>> /\ (stage0 = <<>> \/ move0)
    IN  /\ out' = IF accepting THEN out \o stage3 ELSE out
        /\ stage3' = IF move2 THEN <<Completed(stage2[1])>>
                     ELSE IF accepting THEN <<>> ELSE stage3
        /\ stage2' = Latch(move1, stage1, move2, stage2)
        /\ stage1' = Latch(move0, stage0, move1, stage1)
        /\ checksum' = IF move0 THEN Accumulate(stage0[1]) ELSE checksum
        /\ IF read
           THEN LET b == ch_in[1]
                IN  /\ stage0' = <<[pkt |-> b.pkt, n |-> b.n,
                                    idx |-> idx_counter, field |-> KEPT]>>
                    /\ idx_counter' = IF Eop(b) THEN 0 ELSE (idx_counter + 1) % IdxMod
                    /\ ch_in' = Tail(ch_in)
           ELSE /\ stage0' = IF move0 THEN <<>> ELSE stage0
                /\ UNCHANGED <<idx_counter, ch_in>>
        /\ sent' = sent

Next ==
    \/ \E b \in NextBeats(sent) : Supply(b)
    \/ \E accepting \in BOOLEAN : Invoke(accepting)

Spec == Init /\ [][Next]_vars

\* The component runs in every clock and the merge keeps accepting.
FairSpec == Spec /\ WF_vars(Invoke(TRUE))

-----------------------------------------------------------------------------
Item == [pkt : Packets, n : Nat \ {0}, idx : 0..IdxMod - 1,
         field : Word16 \cup {KEPT}]
ItemSlot == {s \in Seq(Item) : Len(s) <= 1}

TypeOK ==
    /\ ch_in \in Seq(Beats) /\ Len(ch_in) <= BufDepth
    /\ idx_counter \in 0..IdxMod - 1
    /\ checksum \in 0..SumMod - 1
    /\ {stage0, stage1, stage2, stage3} \subseteq ItemSlot
    /\ sent \in Seq(Beats)
    /\ out \in Seq(Item)

HeaderSum(pkt) == pkt.part[1] + pkt.part[2] + pkt.part[3] + pkt.part[4]

\* Every frame leaves with the checksum the code computes for its own header:
\* the one sum register is never overwritten by the next frame before it was
\* used, nor used before the last word was added, however the beats bunch
\* and the output stalls; only the checksum field is replaced.
ChecksumOfOwnHeader ==
    \A i \in 1..Len(out) :
        out[i].field = IF out[i].n = 4 THEN HeaderChecksum(HeaderSum(out[i].pkt))
                                       ELSE KEPT

\* A frame that was received completely leaves whole and in order, without
\* the help of the next one.
FramesDelivered ==
    \A i \in 1..MaxSent :
        (i <= Len(sent) /\ Eop(sent[i]))
            ~> (Len(out) >= i /\ \A j \in 1..i : out[j].pkt = sent[j].pkt
                                                 /\ out[j].n = sent[j].n)

-----------------------------------------------------------------------------
\* "24-25 : checksum" (icmp_proc.cpp:66): what leaves in the checksum field is
\* the internet checksum of the header.
HeaderChecksumRight ==
    \A i \in 1..Len(out) :
        out[i].n = 4 => out[i].field = InternetChecksum(HeaderSum(out[i].pkt))
=============================================================================
