------------------------------- MODULE TxMerge -------------------------------
(***************************************************************************)
(* tx_merge (tx_merge.cpp): merges the ARP lane and the IPv4 (ICMP reply)  *)
(* lane into the transmit stream.  port_select keeps a lane selected until *)
(* the end of its frame; between frames the ARP lane is looked at first.   *)
(* One invocation per clock, one step.                                     *)
(*                                                                         *)
(* A packet has the fields beats and lane, the lane it is sent on.         *)
(***************************************************************************)
EXTENDS L8Stream

VARIABLES
    ch_in,         \* the input buffers of ch_dat_in_arp and ch_dat_in_ipv4
    stage0,        \* stage0_arp, stage0_ipv4
    stage1,
    port_select,
    sent,          \* history: beats written to each input
    out            \* history: beats ch_dat_out accepted

vars == <<ch_in, stage0, stage1, port_select, sent, out>>

Lanes == {"ARP", "IPV4"}
IDLE == "IDLE"

Init ==
    /\ ch_in = [l \in Lanes |-> <<>>]
    /\ stage0 = [l \in Lanes |-> <<>>]
    /\ stage1 = <<>>
    /\ port_select = IDLE
    /\ sent = [l \in Lanes |-> <<>>]
    /\ out = <<>>

\* arp_proc or the ICMP chain writes one beat.
Supply(l, b) ==
    /\ Len(ch_in[l]) < BufDepth
    /\ b \in NextBeats(sent[l]) /\ b.pkt.lane = l
    /\ ch_in' = [ch_in EXCEPT ![l] = Append(@, b)]
    /\ sent' = [sent EXCEPT ![l] = Append(@, b)]
    /\ UNCHANGED <<stage0, stage1, port_select, out>>

\* Variants with a bug, against which the properties are tested, stand before
\* the definition they vary.  Here: the selection is not looked at.
Offers_AnyTime(l) == stage0[l] # <<>>

\* The lane whose beat goes to stage1, if there is one.
Offers(l) == stage0[l] # <<>> /\ port_select \in {IDLE, l}

\* Variant: both lanes picked at once.
Pick_Both(l) == Offers(l)

Pick(l) == Offers(l) /\ (l = "IPV4" => ~Offers("ARP"))

\* Variant: the lane stays selected after the end of its frame.
NextSelect_Sticky(l) == l

\* The selection after a beat of this lane.
NextSelect(l) == IF Eop(stage0[l][1]) THEN IDLE ELSE l

\* One clock of the component; accepting says whether ch_dat_out takes a beat.
Invoke(accepting) ==
    LET free == stage1 = <<>> \/ accepting
        taken(l) == free /\ Pick(l)
        read(l) == ch_in[l] # <<>> /\ (stage0[l] = <<>> \/ taken(l))
    IN  /\ out' = IF accepting THEN out \o stage1 ELSE out
        /\ \/ \E l \in Lanes :
                /\ taken(l)
                /\ stage1' = stage0[l]
                /\ port_select' = NextSelect(l)
           \/ /\ \A l \in Lanes : ~taken(l)
              /\ stage1' = IF accepting THEN <<>> ELSE stage1
              /\ port_select' = port_select
        /\ stage0' = [l \in Lanes |->
                        Latch(read(l), FirstOf(ch_in[l]), taken(l), stage0[l])]
        /\ ch_in' = [l \in Lanes |-> IF read(l) THEN Tail(ch_in[l]) ELSE ch_in[l]]
        /\ sent' = sent

Next ==
    \/ \E l \in Lanes : \E b \in NextBeats(sent[l]) : Supply(l, b)
    \/ \E accepting \in BOOLEAN : Invoke(accepting)

Spec == Init /\ [][Next]_vars

\* The component runs in every clock, the transmit side keeps accepting, and
\* a lane that has begun a frame sends the rest of it.
Fairness ==
    /\ WF_vars(Invoke(TRUE))
    /\ \A l \in Lanes :
         WF_vars(\E b \in NextBeats(sent[l]) : ~Sop(b) /\ Supply(l, b))

FairSpec == Spec /\ Fairness

-----------------------------------------------------------------------------
TypeOK ==
    /\ ch_in \in [Lanes -> Seq(Beats)]
    /\ \A l \in Lanes : Len(ch_in[l]) <= BufDepth
    /\ stage0 \in [Lanes -> Slot]
    /\ stage1 \in Slot
    /\ port_select \in Lanes \cup {IDLE}
    /\ sent \in [Lanes -> Seq(Beats)]
    /\ out \in Seq(Beats)

\* What leaves is a stream of whole frames: the beats of an ARP frame and of
\* an ICMP reply never mix, even when the selected lane runs dry in the
\* middle of its frame and the other one has a frame ready.
OutFramed == Framed(out)

\* How many of the first i beats of s are of lane l.
OfLane(s, l, i) == Cardinality({j \in 1..i : s[j].pkt.lane = l})

\* Nothing of a lane is lost, repeated or reordered by the merge: the k-th beat
\* of a lane that has passed is the k-th that was written to it, and what is
\* still inside are the beats written after those.
LanesKept ==
    LET passed == out \o stage1
        gone(l) == OfLane(passed, l, Len(passed))
    IN  /\ \A i \in 1..Len(passed) : \E l \in Lanes :
             /\ passed[i].pkt.lane = l
             /\ OfLane(passed, l, i) <= Len(sent[l])
             /\ passed[i] = sent[l][OfLane(passed, l, i)]
        /\ \A l \in Lanes :
             stage0[l] \o ch_in[l] = SubSeq(sent[l], gone(l) + 1, Len(sent[l]))

\* Both lanes are served: a frame that was written completely leaves in the
\* end, also on the lane with the lower priority, and no lane can keep the
\* merge waiting on its half of a frame while the other half cannot come in.
FramesDelivered ==
    \A l \in Lanes : \A i \in 1..MaxSent :
        (i <= Len(sent[l]) /\ Eop(sent[l][i]))
            ~> (Len(SelectSeq(out, LAMBDA b : b.pkt.lane = l)) >= i)
=============================================================================
