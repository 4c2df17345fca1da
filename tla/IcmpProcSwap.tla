---------------------------- MODULE IcmpProcSwap ----------------------------
(***************************************************************************)
(* icmp_proc_swapmac and icmp_proc_swapip (icmp_proc.cpp): exchange the    *)
(* source and the destination address of a frame, the MAC addresses in     *)
(* beats 0 and 1 or the IP addresses in beats 3 and 4.  The two components *)
(* have the same control and differ in the beat where the exchange begins  *)
(* and in how the words move: Field says which of the two a behaviour is   *)
(* one of, and never changes.  One invocation per clock, one step.         *)
(*                                                                         *)
(* The data of a beat are its four 16-bit words.  A word is the packet it  *)
(* came with and its position in it, so that a word in the wrong place or  *)
(* in the wrong packet shows.                                              *)
(***************************************************************************)
EXTENDS L8Stream

VARIABLES
    Field,                    \* "mac" for swapmac, "ip" for swapip
    ch_in,                    \* the input buffer of ch_dat_in
    idx_counter,              \* index of the next beat read, UINT8
    stage0, stage1, stage2,   \* registers of beats with their idx and data
    sent, out                 \* history: beats written and beats accepted

vars == <<Field, ch_in, idx_counter, stage0, stage1, stage2, sent, out>>

IdxMod == 256               \* idx_counter is a UINT8

SwapIdx == IF Field = "mac" THEN 0 ELSE 3

Word(pkt, k) == [of |-> pkt, pos |-> k]

DataOf(b) == [j \in 1..4 |-> Word(b.pkt, 4 * (b.n - 1) + j - 1)]

\* Variants with a bug, against which the properties are tested, stand before
\* the definition they vary.  Here: the word of the own address left in place.
SwapFirst_Half(d, e) ==
    IF Field = "mac" THEN <<d[4], e[1], e[2], d[4]>>
                     ELSE <<d[1], d[4], e[1], d[4]>>

\* The two beats of the exchange, from the data d of the first one and e of
\* the second one.
SwapFirst(d, e) ==
    IF Field = "mac" THEN <<d[4], e[1], e[2], d[1]>>
                     ELSE <<d[1], d[4], e[1], d[2]>>

SwapSecond(d, e) ==
    IF Field = "mac" THEN <<d[2], d[3], e[3], e[4]>>
                     ELSE <<d[3], e[2], e[3], e[4]>>

Init ==
    /\ Field \in {"mac", "ip"}
    /\ ch_in = <<>> /\ idx_counter = 0
    /\ stage0 = <<>> /\ stage1 = <<>> /\ stage2 = <<>>
    /\ sent = <<>> /\ out = <<>>

\* The splitter, or the stage before, writes one beat.
Supply(b) ==
    /\ Len(ch_in) < BufDepth
    /\ b \in NextBeats(sent)
    /\ ch_in' = Append(ch_in, b)
    /\ sent' = Append(sent, b)
    /\ UNCHANGED <<Field, idx_counter, stage0, stage1, stage2, out>>

\* Variant: waits for the beat after the next.
SwapReady_Late ==
    /\ stage1[1].idx = SwapIdx
    /\ stage0 # <<>> /\ stage0[1].idx = SwapIdx + 2

\* The beat at SwapIdx may leave stage1 only together with its successor.
SwapReady ==
    /\ stage1[1].idx = SwapIdx
    /\ stage0 # <<>> /\ stage0[1].idx = SwapIdx + 1

\* The output register is free, or becomes free in this clock.
Free(accepting) == stage2 = <<>> \/ accepting

\* One clock; accepting says whether ch_dat_out takes a beat.
Invoke(accepting) ==
    LET swap  == Free(accepting) /\ stage1 # <<>> /\ SwapReady
        move1 == Free(accepting) /\ stage1 # <<>> /\ (stage1[1].idx # SwapIdx \/ SwapReady)
        move0 == stage0 # <<>> /\ (stage1 = <<>> \/ move1)
        read  == ch_in # <<>> /\ (stage0 = <<>> \/ move0)
        first  == [stage1[1] EXCEPT !.data = SwapFirst(@, stage0[1].data)]
        second == [stage0[1] EXCEPT !.data = SwapSecond(stage1[1].data, @)]
    IN  /\ out' = IF accepting THEN out \o stage2 ELSE out
        /\ stage2' = Latch(move1, IF swap THEN <<first>> ELSE stage1, accepting, stage2)
        /\ stage1' = Latch(move0, IF swap THEN <<second>> ELSE stage0, move1, stage1)
        /\ IF read
           THEN LET b == ch_in[1]
                IN  /\ stage0' = <<[pkt |-> b.pkt, n |-> b.n,
                                    idx |-> idx_counter, data |-> DataOf(b)]>>
                    /\ idx_counter' = IF Eop(b) THEN 0 ELSE (idx_counter + 1) % IdxMod
                    /\ ch_in' = Tail(ch_in)
           ELSE /\ stage0' = IF move0 THEN <<>> ELSE stage0
                /\ UNCHANGED <<idx_counter, ch_in>>
        /\ UNCHANGED <<Field, sent>>

Next ==
    \/ \E b \in NextBeats(sent) : Supply(b)
    \/ \E accepting \in BOOLEAN : Invoke(accepting)

Spec == Init /\ [][Next]_vars

\* The component runs in every clock and the next stage keeps accepting.
FairSpec == Spec /\ WF_vars(Invoke(TRUE))

-----------------------------------------------------------------------------
Words == [of : Packets, pos : Nat]
Item == [pkt : Packets, n : Nat \ {0}, idx : 0..IdxMod - 1, data : [1..4 -> Words]]
ItemSlot == {s \in Seq(Item) : Len(s) <= 1}

TypeOK ==
    /\ Field \in {"mac", "ip"}
    /\ ch_in \in Seq(Beats) /\ Len(ch_in) <= BufDepth
    /\ idx_counter \in 0..IdxMod - 1
    /\ stage0 \in ItemSlot /\ stage1 \in ItemSlot /\ stage2 \in ItemSlot
    /\ sent \in Seq(Beats)
    /\ out \in Seq(Item)

\* Where the word that belongs at position k of the answer stands in the
\* request: bytes 0-11 are the MAC addresses, bytes 26-33 the IP addresses.
SwappedPos(k) ==
    CASE Field = "mac" /\ k \in 0..2 -> k + 3
      [] Field = "mac" /\ k \in 3..5 -> k - 3
      [] Field = "ip" /\ k \in 13..14 -> k + 2
      [] Field = "ip" /\ k \in 15..16 -> k - 2
      [] OTHER -> k

\* The beats leave in the order and with the framing they came with, and each
\* carries the words of its own frame, exactly the two addresses exchanged and
\* everything else in place - although half of an address is taken from the
\* beat behind or before, which bubbles in the input and stalls of the output
\* keep apart.
OnlyAddressesSwapped ==
    \A i \in 1..Len(out) :
        /\ i <= Len(sent) /\ out[i].pkt = sent[i].pkt /\ out[i].n = sent[i].n
        /\ \A j \in 1..4 :
             out[i].data[j] = Word(sent[i].pkt, SwappedPos(4 * (sent[i].n - 1) + j - 1))

\* The beat that waits for its successor and has none: the last beat of a
\* frame that ends where the exchange begins.
Stops(b) == Eop(b) /\ b.n = SwapIdx + 1

\* A frame that was received completely leaves without the help of the next,
\* unless it, or a frame before it, is one that ends where the exchange
\* begins: that one stops the component for good.
FramesDelivered ==
    \A i \in 1..MaxSent :
        (/\ i <= Len(sent) /\ Eop(sent[i])
         /\ \A j \in 1..i : ~Stops(sent[j]))
            ~> (Len(out) >= i)
=============================================================================
