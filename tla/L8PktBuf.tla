------------------------------ MODULE L8PktBuf ------------------------------
(***************************************************************************)
(* l8_pkt_buf (l8_pkt_buf.v): the store-and-forward buffer in front of the *)
(* MAC's transmit port.  A frame may leave only when it is in the buffer   *)
(* completely, so that the MAC never runs out of data in the middle of it. *)
(* All registers are clocked together: a clock is one step.  The step's    *)
(* right-hand sides are the wires of the Verilog, computed from the        *)
(* registers before the clock.                                             *)
(*                                                                         *)
(* The FIFO is Intel's scfifo in show-ahead mode (external): its word      *)
(* count is exact one clock after a write, while the empty flag of a FIFO  *)
(* that was empty falls one or two clocks after it.                        *)
(***************************************************************************)
EXTENDS L8Stream

CONSTANT Depth      \* words of the FIFO: 2048, more than four in any instance

VARIABLES
    fifo,               \* content of the scfifo
    shown,              \* the scfifo's empty flag, negated
    full_1d_r,          \* fifo_80x2048.v: its full flag, one clock late
    from_l8_ready_r,
    pkt_in_1d_r, pkt_in_2d_r,
    queue_pkt_count_r,
    queue_data_exist_r,
    stage0,             \* stage0_*_r and to_l8_valid_r
    sent, out           \* history: beats accepted from tx_merge, taken by the MAC

fifoVars == <<fifo, shown, full_1d_r>>
vars == <<fifoVars, from_l8_ready_r, pkt_in_1d_r, pkt_in_2d_r,
          queue_pkt_count_r, queue_data_exist_r, stage0, sent, out>>

\* Variants with a bug, against which the properties are tested, stand before
\* the definition they vary.  Here: thresholds too high and too low.
Threshold_Full == Depth

Threshold_Low == Depth - 4

\* The count from which on no beat is accepted, 2045 of 2048.
Threshold == Depth - 3

Init ==
    /\ fifo = <<>> /\ shown = FALSE /\ full_1d_r = FALSE
    /\ from_l8_ready_r = FALSE
    /\ pkt_in_1d_r = FALSE /\ pkt_in_2d_r = FALSE
    /\ queue_pkt_count_r = 0 /\ queue_data_exist_r = FALSE
    /\ stage0 = <<>>
    /\ sent = <<>> /\ out = <<>>

\* The word count fifo_80x2048 reports: the late full flag as the top bit,
\* and the scfifo's count, which is 0 again when it is full.
queue_usedw == (IF full_1d_r THEN Depth ELSE 0) + (Len(fifo) % Depth)

\* almost_empty_value is 2.
queue_aempty == Len(fifo) < 2

\* Variant: the MAC's ready is not looked at.
Acceptable_Always(to_l8_ready) == TRUE

\* The output register is free, or becomes free in this clock.
Acceptable(to_l8_ready) == stage0 = <<>> \/ to_l8_ready

\* The head of the FIFO moves to stage0.
Pop(to_l8_ready) == queue_data_exist_r /\ Acceptable(to_l8_ready)

\* Variants: ready is not looked at; a frame counts from its first beat.
pkt_in_Unready(offered) == offered # <<>> /\ Eop(offered[1])

pkt_in_Sop(offered) == from_l8_ready_r /\ offered # <<>> /\ Sop(offered[1])

\* The end of a frame is accepted; the end of a frame moves to stage0.
pkt_in(offered) == from_l8_ready_r /\ offered # <<>> /\ Eop(offered[1])

pkt_out(to_l8_ready) == Pop(to_l8_ready) /\ fifo # <<>> /\ Eop(fifo[1])

\* next_queue_pkt_count_f
next_queue_pkt_count(to_l8_ready) ==
    CASE pkt_in_2d_r /\ ~pkt_out(to_l8_ready) -> queue_pkt_count_r + 1
      [] ~pkt_in_2d_r /\ pkt_out(to_l8_ready) -> queue_pkt_count_r - 1
      [] OTHER -> queue_pkt_count_r

\* A word is left after this clock's pop, and a whole frame is there.
next_queue_data_exist(to_l8_ready) ==
    /\ shown
    /\ ~queue_aempty \/ ~Pop(to_l8_ready)
    /\ next_queue_pkt_count(to_l8_ready) # 0

\* The scfifo: written at the tail, popped at the head (checked against
\* overflow and underflow), its new head visible at once unless it had to
\* pass through an empty FIFO.
ClockFifo(offered, pop) ==
    LET left == IF pop /\ fifo # <<>> THEN Tail(fifo) ELSE fifo
        written == IF from_l8_ready_r /\ Len(fifo) < Depth THEN offered ELSE <<>>
    IN  /\ fifo' = left \o written
        /\ shown' \in IF left # <<>> THEN {TRUE}
                      ELSE IF written = <<>> THEN {FALSE} ELSE BOOLEAN
        /\ full_1d_r' = (Len(fifo) = Depth)

\* One clock.  offered is the beat tx_merge holds valid, or <<>>; the sender
\* keeps it until it is accepted.
Clock(offered, to_l8_ready) ==
    /\ ClockFifo(offered, Pop(to_l8_ready))
    /\ sent' = IF from_l8_ready_r THEN sent \o offered ELSE sent
    /\ from_l8_ready_r' = (/\ queue_usedw < Threshold
                           /\ next_queue_pkt_count(to_l8_ready) < Threshold)
    /\ pkt_in_1d_r' = pkt_in(offered)
    /\ pkt_in_2d_r' = pkt_in_1d_r
    /\ queue_pkt_count_r' = next_queue_pkt_count(to_l8_ready)
    /\ queue_data_exist_r' = next_queue_data_exist(to_l8_ready)
    /\ stage0' = IF Pop(to_l8_ready) THEN FirstOf(fifo)
                 ELSE IF to_l8_ready THEN <<>> ELSE stage0
    /\ out' = IF to_l8_ready THEN out \o stage0 ELSE out

Offers == {<<>>} \cup {<<b>> : b \in NextBeats(sent)}

Next == \E offered \in Offers, to_l8_ready \in BOOLEAN : Clock(offered, to_l8_ready)

Spec == Init /\ [][Next]_vars

\* The clock runs, the MAC takes beats again and again, and the merge offers
\* the rest of a frame it has begun.
Fairness ==
    /\ WF_vars(\E offered \in Offers : Clock(offered, TRUE))
    /\ WF_vars(\E b \in NextBeats(sent), to_l8_ready \in BOOLEAN :
                 ~Sop(b) /\ Clock(<<b>>, to_l8_ready))

FairSpec == Spec /\ Fairness

-----------------------------------------------------------------------------
TypeOK ==
    /\ fifo \in Seq(Beats) /\ Len(fifo) <= Depth
    /\ {shown, full_1d_r, from_l8_ready_r, pkt_in_1d_r, pkt_in_2d_r,
        queue_data_exist_r} \subseteq BOOLEAN
    /\ queue_pkt_count_r \in 0..Depth
    /\ stage0 \in Slot
    /\ sent \in Seq(Beats) /\ out \in Seq(Beats)

\* The counter, with the ends of frames that are still in its two delay
\* registers, counts the ends of frames in the FIFO: it neither drifts nor
\* wraps below zero when a frame enters and another leaves in one clock.
CountExact ==
    queue_pkt_count_r + (IF pkt_in_1d_r THEN 1 ELSE 0) + (IF pkt_in_2d_r THEN 1 ELSE 0)
        = Cardinality({i \in 1..Len(fifo) : Eop(fifo[i])})

\* The ready flag, late by two clocks, stops the sender before the FIFO is
\* full: its full flag never rises, so that the glitch of the word count at
\* that point (the late top bit) is never seen.
NeverFull == Len(fifo) < Depth /\ ~full_1d_r

\* Once the first beat of a frame is on the output, the next beat follows in
\* the clock after the MAC took it, to the end of the frame, however slowly
\* or irregularly the merge delivered it.
NoUnderrun ==
    [][(stage0 # <<>> /\ ~Eop(stage0[1])) => stage0' # <<>>]_vars

\* Accepted beats leave in order and once.
AbstractFifo == INSTANCE Fifo

ImplementsFifo == AbstractFifo!Spec

\* No frame that fits below the threshold gets stuck: neither does the buffer
\* refuse the beats that bring its end while it waits for that end, nor does it
\* keep a frame that is complete.
FramesDelivered ==
    \A i \in 1..MaxSent :
        (Len(sent) = i) ~> (\/ Len(out) >= i /\ Eop(out[i])
                            \/ Len(sent) > i)
=============================================================================
