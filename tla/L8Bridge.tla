------------------------------ MODULE L8Bridge ------------------------------
(***************************************************************************)
(* l8_to_ulong2 and ulong2_to_l8 (the .v files of the same names): the     *)
(* bridges between the MAC's stream and the streams of the HLS components, *)
(* with the FIFO of common/fifo_80x8.v.  The two have the same control and *)
(* differ in how they move the bytes of a frame's last beat: an            *)
(* incomplete beat has its bytes at the upper end on the MAC's side and at *)
(* the lower end on the other.  Direction says which of the two a          *)
(* behaviour is one of, and never changes.  All registers are clocked      *)
(* together: a clock is one step.                                          *)
(*                                                                         *)
(* A packet has the fields beats, empty, the number of unused bytes of its *)
(* last beat, and bridge, the bridge it is sent through.  The data of a    *)
(* beat are its eight bytes, the most significant first, as numbers: 0 is  *)
(* a byte of zeros.                                                        *)
(***************************************************************************)
EXTENDS L8Stream

VARIABLES
    Direction,          \* "to_ulong2" or "to_l8"
    queue,              \* fifo_80x8: buf_r[0 .. usedw_r - 1]
    usedw_1d_r,
    in_ready_r,
    queue_data_exist_r,
    stage0,             \* stage0_*_r and out_valid_r
    sent, out           \* history: beats accepted, beats handed over

vars == <<Direction, queue, usedw_1d_r, in_ready_r, queue_data_exist_r, stage0, sent, out>>

\* empty is a three-bit field.
ASSUME TailAssumption == \A p \in Packets : p.empty \in 0..7

FifoDepth == 8

\* Variants with a bug, against which the properties are tested, stand before
\* the definition they vary.  Here: a threshold without room for the delay.
Threshold_Full == 8

Threshold == 5

Bytes == 0..8
NoData == [j \in 1..8 |-> 0]

\* The last beat of a frame with k unused bytes holds the bytes 1 .. 8 - k.
UpperEnd(k) == [j \in 1..8 |-> IF j <= 8 - k THEN j ELSE 0]
LowerEnd(k) == [j \in 1..8 |-> IF j > k THEN j - k ELSE 0]

DataOf(b) ==
    CASE ~Eop(b) -> UpperEnd(0)
      [] Eop(b) /\ Direction = "to_ulong2" -> UpperEnd(b.pkt.empty)
      [] OTHER -> LowerEnd(b.pkt.empty)

\* Variant: one byte too little.
ShiftDown_Short(k, d) ==
    [j \in 1..8 |-> IF j > k - 1 /\ k > 0 THEN d[j - k + 1] ELSE d[j]]

\* data_remainder_f of l8_to_ulong2: the last beat is shifted down.
ShiftDown(k, d) == [j \in 1..8 |-> IF j > k THEN d[j - k] ELSE 0]

\* data_remainder_f of ulong2_to_l8: for k > 0 it puts the lower k bytes in
\* front of k zero bytes, and keeps the lower eight bytes of that.
KeepLower(k, d) ==
    IF k = 0 THEN d
    ELSE [j \in 1..8 |-> IF 8 - j \in k..2 * k - 1 THEN d[j + k] ELSE 0]

Remainder(b) ==
    CASE ~Eop(b) -> DataOf(b)
      [] Eop(b) /\ Direction = "to_ulong2" -> ShiftDown(b.pkt.empty, DataOf(b))
      [] OTHER -> KeepLower(b.pkt.empty, DataOf(b))

Init ==
    /\ Direction \in {"to_ulong2", "to_l8"}
    /\ queue = <<>> /\ usedw_1d_r = 0
    /\ in_ready_r = FALSE /\ queue_data_exist_r = FALSE
    /\ stage0 = <<>>
    /\ sent = <<>> /\ out = <<>>

\* The head of the queue moves to stage0.
Pop(out_ready) == queue_data_exist_r /\ (stage0 = <<>> \/ out_ready)

\* Variant: the word being popped still counts.
next_queue_data_exist_Popped(pop) == queue # <<>>

\* There will be a word for stage0 after this clock.
next_queue_data_exist(pop) == queue # <<>> /\ (Len(queue) > 1 \/ ~pop)

\* One clock.  offered is the beat the sender holds valid, or <<>>.
Clock(offered, out_ready) ==
    LET pop == Pop(out_ready)
        written == IF in_ready_r THEN offered ELSE <<>>
    IN  /\ queue' = (IF pop /\ queue # <<>> THEN Tail(queue) ELSE queue) \o written
        /\ usedw_1d_r' = Len(queue)
        /\ in_ready_r' = (usedw_1d_r < Threshold)
        /\ queue_data_exist_r' = next_queue_data_exist(pop)
        /\ stage0' = IF pop /\ queue # <<>>
                     THEN <<[pkt |-> queue[1].pkt, n |-> queue[1].n,
                             data |-> Remainder(queue[1])]>>
                     ELSE IF out_ready THEN <<>> ELSE stage0
        /\ out' = IF out_ready THEN out \o stage0 ELSE out
        /\ sent' = sent \o written
        /\ UNCHANGED Direction

Incoming == {b \in NextBeats(sent) : b.pkt.bridge = Direction}

Offers == {<<>>} \cup {<<b>> : b \in Incoming}

Next == \E offered \in Offers, out_ready \in BOOLEAN : Clock(offered, out_ready)

Spec == Init /\ [][Next]_vars

\* The clock runs, the receiver takes beats again and again, and the sender
\* offers the rest of a frame it has begun.
Fairness ==
    /\ WF_vars(\E offered \in Offers : Clock(offered, TRUE))
    /\ WF_vars(\E b \in Incoming, out_ready \in BOOLEAN :
                 ~Sop(b) /\ Clock(<<b>>, out_ready))

FairSpec == Spec /\ Fairness

-----------------------------------------------------------------------------
Item == [pkt : Packets, n : Nat \ {0}, data : [1..8 -> Bytes]]

TypeOK ==
    /\ Direction \in {"to_ulong2", "to_l8"}
    /\ queue \in Seq(Beats)
    /\ usedw_1d_r \in 0..FifoDepth
    /\ in_ready_r \in BOOLEAN /\ queue_data_exist_r \in BOOLEAN
    /\ stage0 \in Seq(Item) /\ Len(stage0) <= 1
    /\ sent \in Seq(Beats) /\ out \in Seq(Item)

\* The ready flag follows the fill count two clocks late, and the words that
\* come in meanwhile have room: fifo_80x8 would drop them.
NeverOverflows == Len(queue) <= FifoDepth

\* A register that announces data speaks of a head that is there: fifo_80x8
\* would count below zero.
NeverUnderflows == queue_data_exist_r => queue # <<>>

\* Beats leave in the order they were accepted, each once.
AbstractFifo ==
    INSTANCE Fifo WITH out <- [i \in 1..Len(out) |-> [pkt |-> out[i].pkt, n |-> out[i].n]]

ImplementsFifo == AbstractFifo!Spec

\* The bytes of a frame leave as the other side expects them: at the lower
\* end of the last beat towards the HLS components, at the upper end of it
\* towards the MAC, and no byte lost, displaced or invented.
TailAligned ==
    \A i \in 1..Len(out) :
        out[i].data = CASE ~Eop(out[i]) -> UpperEnd(0)
                        [] Eop(out[i]) /\ Direction = "to_ulong2"
                             -> LowerEnd(out[i].pkt.empty)
                        [] OTHER -> UpperEnd(out[i].pkt.empty)

\* A frame once begun is accepted to its end and leaves.
FramesDelivered ==
    \A i \in 1..MaxSent :
        (Len(sent) = i) ~> (\/ Len(out) >= i /\ Eop(out[i])
                            \/ Len(sent) > i)
=============================================================================
