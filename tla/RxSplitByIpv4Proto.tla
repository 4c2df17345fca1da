------------------------- MODULE RxSplitByIpv4Proto -------------------------
(***************************************************************************)
(* rx_split_by_ipv4proto (rx_split.cpp): forks the IPv4 frames to the ICMP *)
(* lane and the discard lane by the protocol field, which is in the third  *)
(* beat of a frame.  One step per clock, as in RxSplitByEtype; the         *)
(* pipeline has one register more, because the decision looks one beat     *)
(* further: stage3 holds the first beat of a frame, stage2 the second and  *)
(* stage1 the third.                                                       *)
(*                                                                         *)
(* A packet has the fields beats, proto (the value at the protocol field's *)
(* place in beat 3) and noise (what stands there in every other beat).     *)
(***************************************************************************)
EXTENDS L8Stream

VARIABLES
    ch_in,         \* the input buffer of ch_dat_in
    stage0, stage1, stage2, stage3,
    stage4,        \* stage4_icmp, stage4_other
    output_state,
    sent,          \* history: beats written to ch_dat_in
    out            \* history: beats each lane accepted

vars == <<ch_in, stage0, stage1, stage2, stage3, stage4, output_state, sent, out>>

Lanes == {"ICMP", "OTHER"}
HOLD == "HOLD"

ProtoField(b) == IF b.n = 3 THEN b.pkt.proto ELSE b.pkt.noise

LaneOfProto(v) == IF v = "ICMP" THEN "ICMP" ELSE "OTHER"

\* Variants with a bug, against which the properties are tested, stand before
\* the definition they vary.  Here: a frame of two beats not looked for.
Decide_OneBeatOnly(third, second, first) ==
    CASE third # <<>> /\ Eop(third[1]) -> "OTHER"
      [] third # <<>> /\ ~Eop(third[1]) /\ second # <<>> /\ first # <<>>
           -> LaneOfProto(ProtoField(first[1]))
      [] OTHER -> HOLD

\* The "update state" block, on the registers as this invocation leaves them.
Decide(third, second, first) ==
    LET runt  == /\ third # <<>>
                 /\ Eop(third[1]) \/ (second # <<>> /\ Eop(second[1]))
        known == third # <<>> /\ second # <<>> /\ first # <<>>
    IN  CASE runt -> "OTHER"
          [] known /\ ~runt -> LaneOfProto(ProtoField(first[1]))
          [] OTHER -> HOLD

Init ==
    /\ ch_in = <<>> /\ stage0 = <<>> /\ stage1 = <<>> /\ stage2 = <<>> /\ stage3 = <<>>
    /\ stage4 = [p \in Lanes |-> <<>>]
    /\ output_state = HOLD
    /\ sent = <<>>
    /\ out = [p \in Lanes |-> <<>>]

\* The ethertype splitter writes one beat.
Supply(b) ==
    /\ Len(ch_in) < BufDepth
    /\ b \in NextBeats(sent)
    /\ ch_in' = Append(ch_in, b)
    /\ sent' = Append(sent, b)
    /\ UNCHANGED <<stage0, stage1, stage2, stage3, stage4, output_state, out>>

\* Variant: the lane's register is not looked at.
CanRoute_Overwrites(accepting) == output_state # HOLD /\ stage3 # <<>>

\* The beat in stage3 can go to its lane's register; accepting is the set of
\* lanes whose consumer takes a beat in this clock.
CanRoute(accepting) ==
    /\ output_state # HOLD
    /\ stage3 # <<>>
    /\ stage4[output_state] = <<>> \/ output_state \in accepting

\* One clock of the component.
Invoke(accepting) ==
    LET route == CanRoute(accepting)
        move2 == stage2 # <<>> /\ (stage3 = <<>> \/ route)
        move1 == stage1 # <<>> /\ (stage2 = <<>> \/ move2)
        move0 == stage0 # <<>> /\ (stage1 = <<>> \/ move1)
        read  == ch_in # <<>> /\ (stage0 = <<>> \/ move0)
        sop_next_expected == output_state = HOLD \/ (route /\ Eop(stage3[1]))
    IN  /\ out' = [p \in Lanes |->
                     IF p \in accepting THEN out[p] \o stage4[p] ELSE out[p]]
        /\ stage4' = [p \in Lanes |->
                        Latch(route /\ p = output_state, stage3,
                              p \in accepting, stage4[p])]
        /\ stage3' = Latch(move2, stage2, route, stage3)
        /\ stage2' = Latch(move1, stage1, move2, stage2)
        /\ stage1' = Latch(move0, stage0, move1, stage1)
        /\ stage0' = Latch(read, FirstOf(ch_in), move0, stage0)
        /\ ch_in' = IF read THEN Tail(ch_in) ELSE ch_in
        /\ output_state' = IF sop_next_expected
                           THEN Decide(stage3', stage2', stage1') ELSE output_state
        /\ sent' = sent

Next ==
    \/ \E b \in NextBeats(sent) : Supply(b)
    \/ \E accepting \in SUBSET Lanes : Invoke(accepting)

Spec == Init /\ [][Next]_vars

\* The component runs in every clock; each consumer keeps accepting.
Fairness ==
    \A p \in Lanes :
        WF_vars(\E accepting \in SUBSET Lanes : p \in accepting /\ Invoke(accepting))

FairSpec == Spec /\ Fairness

-----------------------------------------------------------------------------
TypeOK ==
    /\ ch_in \in Seq(Beats) /\ Len(ch_in) <= BufDepth
    /\ stage0 \in Slot /\ stage1 \in Slot /\ stage2 \in Slot /\ stage3 \in Slot
    /\ stage4 \in [Lanes -> Slot]
    /\ output_state \in Lanes \cup {HOLD}
    /\ sent \in Seq(Beats)
    /\ out \in [Lanes -> Seq(Beats)]

\* The lane a frame belongs to: frames too short to have a protocol field
\* are discarded.
LaneOf(pkt) == IF pkt.beats <= 2 THEN "OTHER" ELSE LaneOfProto(pkt.proto)

Delivered == Len(out["ICMP"]) + Len(out["OTHER"])

\* Every beat leaves on the lane its frame's protocol field asks for: frames
\* of one or two beats are never taken for ICMP because of the beats of the
\* frame that follows them in the pipeline.
RoutedToItsLane ==
    \A p \in Lanes : \A i \in 1..Len(out[p]) : LaneOf(out[p][i].pkt) = p

\* A lane gets its frames complete, in order and once.
Abstract == INSTANCE Demux WITH LaneOf <- LAMBDA b : LaneOf(b.pkt)

ImplementsDemux == Abstract!Spec

\* No frame gets stuck once it was received completely, without the help of
\* a following frame.
FramesDelivered ==
    \A i \in 1..MaxSent :
        (i <= Len(sent) /\ Eop(sent[i])) ~> (Delivered >= i)
=============================================================================
