--------------------------- MODULE RxSplitByEtype ---------------------------
(***************************************************************************)
(* rx_split_by_etype (rx_split.cpp): forks the received frames to the ARP, *)
(* IPv4 and discard lanes by the ethertype, which is in the second beat of *)
(* a frame.  The component is compiled to run one invocation per clock     *)
(* (hls_always_run_component, hls_stall_free_return), so an invocation is  *)
(* one step.  The beats shift through stage0 -> stage1 -> stage2 and go    *)
(* from there to the register of the lane that output_state names.         *)
(*                                                                         *)
(* A packet has the fields beats, etype (the value at the ethertype's      *)
(* place in beat 2) and noise (what stands at that place in every other    *)
(* beat, which may look like an ethertype).                                *)
(***************************************************************************)
EXTENDS L8Stream

VARIABLES
    ch_in,         \* the input buffer of ch_dat_in
    stage0, stage1, stage2,
    stage3,        \* stage3_arp, stage3_ipv4, stage3_other
    output_state,
    sent,          \* history: beats the MAC side wrote to ch_dat_in
    out            \* history: beats each lane accepted

vars == <<ch_in, stage0, stage1, stage2, stage3, output_state, sent, out>>

Lanes == {"ARP", "IPV4", "OTHER"}
HOLD == "HOLD"

EtypeField(b) == IF b.n = 2 THEN b.pkt.etype ELSE b.pkt.noise

LaneOfEtype(e) == IF e \in {"ARP", "IPV4"} THEN e ELSE "OTHER"

\* Variants with a bug, against which the properties are tested, stand before
\* the definition they vary.  Here: a frame of one beat not looked for, or
\* kept waiting for a second.
Decide_NoRunt(second, first) ==
    IF second = <<>> \/ first = <<>> THEN HOLD ELSE LaneOfEtype(EtypeField(first[1]))

Decide_RuntWaits(second, first) ==
    CASE second = <<>> \/ first = <<>> -> HOLD
      [] second # <<>> /\ first # <<>> /\ Eop(second[1]) -> "OTHER"
      [] OTHER -> LaneOfEtype(EtypeField(first[1]))

\* The "update state" block, on the registers as this invocation leaves them.
Decide(second, first) ==
    LET runt  == second # <<>> /\ Eop(second[1])
        known == second # <<>> /\ first # <<>>
    IN  CASE runt -> "OTHER"
          [] known /\ ~runt -> LaneOfEtype(EtypeField(first[1]))
          [] OTHER -> HOLD

Init ==
    /\ ch_in = <<>> /\ stage0 = <<>> /\ stage1 = <<>> /\ stage2 = <<>>
    /\ stage3 = [p \in Lanes |-> <<>>]
    /\ output_state = HOLD
    /\ sent = <<>>
    /\ out = [p \in Lanes |-> <<>>]

\* The upstream bridge writes one beat.
Supply(b) ==
    /\ Len(ch_in) < BufDepth
    /\ b \in NextBeats(sent)
    /\ ch_in' = Append(ch_in, b)
    /\ sent' = Append(sent, b)
    /\ UNCHANGED <<stage0, stage1, stage2, stage3, output_state, out>>

\* The beat in stage2 can go to its lane's register.  accepting is the set of
\* lanes whose consumer takes a beat in this clock (tryWrite succeeds).
CanRoute(accepting) ==
    /\ output_state # HOLD
    /\ stage2 # <<>>
    /\ stage3[output_state] = <<>> \/ output_state \in accepting

\* One clock of the component.
Invoke(accepting) ==
    LET route == CanRoute(accepting)
        move1 == stage1 # <<>> /\ (stage2 = <<>> \/ route)
        move0 == stage0 # <<>> /\ (stage1 = <<>> \/ move1)
        read  == ch_in # <<>> /\ (stage0 = <<>> \/ move0)
        sop_next_expected == output_state = HOLD \/ (route /\ Eop(stage2[1]))
    IN  /\ out' = [p \in Lanes |->
                     IF p \in accepting THEN out[p] \o stage3[p] ELSE out[p]]
        /\ stage3' = [p \in Lanes |->
                        Latch(route /\ p = output_state, stage2,
                              p \in accepting, stage3[p])]
        /\ stage2' = Latch(move1, stage1, route, stage2)
        /\ stage1' = Latch(move0, stage0, move1, stage1)
        /\ stage0' = Latch(read, FirstOf(ch_in), move0, stage0)
        /\ ch_in' = IF read THEN Tail(ch_in) ELSE ch_in
        /\ output_state' = IF sop_next_expected
                           THEN Decide(stage2', stage1') ELSE output_state
        /\ sent' = sent

Next ==
    \/ \E b \in NextBeats(sent) : Supply(b)
    \/ \E accepting \in SUBSET Lanes : Invoke(accepting)

Spec == Init /\ [][Next]_vars

\* The component runs in every clock; each consumer keeps accepting.  The
\* sender may fall silent at any time, also in the middle of a frame.
Fairness ==
    \A p \in Lanes :
        WF_vars(\E accepting \in SUBSET Lanes : p \in accepting /\ Invoke(accepting))

FairSpec == Spec /\ Fairness

-----------------------------------------------------------------------------
TypeOK ==
    /\ ch_in \in Seq(Beats) /\ Len(ch_in) <= BufDepth
    /\ stage0 \in Slot /\ stage1 \in Slot /\ stage2 \in Slot
    /\ stage3 \in [Lanes -> Slot]
    /\ output_state \in Lanes \cup {HOLD}
    /\ sent \in Seq(Beats)
    /\ out \in [Lanes -> Seq(Beats)]

\* The lane a frame belongs to: frames without an ethertype are discarded.
LaneOf(pkt) == IF pkt.beats = 1 THEN "OTHER" ELSE LaneOfEtype(pkt.etype)

Delivered == Len(out["ARP"]) + Len(out["IPV4"]) + Len(out["OTHER"])

\* Every beat leaves on the lane its frame's ethertype asks for, whatever
\* bubbles the input has and however the lanes stall: the decision taken for
\* a frame is neither early, nor late, nor taken from a payload beat.
RoutedToItsLane ==
    \A p \in Lanes : \A i \in 1..Len(out[p]) : LaneOf(out[p][i].pkt) = p

\* A lane gets its frames complete, in order and once, whichever of the four
\* registers a beat waits in and whichever of the other lanes stall: the
\* component implements the abstract splitter.
Abstract == INSTANCE Demux WITH LaneOf <- LAMBDA b : LaneOf(b.pkt)

ImplementsDemux == Abstract!Spec

\* No frame gets stuck once it was received completely: as soon as its last
\* beat is sent, everything up to it is delivered in the end, without the
\* help of a following frame.
FramesDelivered ==
    \A i \in 1..MaxSent :
        (i <= Len(sent) /\ Eop(sent[i])) ~> (Delivered >= i)
=============================================================================
